----------------------------- MODULE ConfigLoad -----------------------------
(****************************************************************************)
(* Loading the configuration: load_or_create_with_dropins of src/config.rs, *)
(* the identities of src/security.rs and the environment files of           *)
(* src/envfile.rs.                                                          *)
(*                                                                          *)
(* The main thread reads the main file, the drop-ins in order and the       *)
(* override, checks the result, installs the environment files and resolves *)
(* the identities.  The files and the user database may change at any step. *)
(* A load that fails leaves the configuration in use.                       *)
(****************************************************************************)
EXTENDS Integers, Sequences, FiniteSets, SequencesExt

CONSTANTS
    None,
    Broken,       \* a file that cannot be parsed
    Unresolved,   \* an identity that cannot be resolved
    Names,        \* names a service may have
    Envs,         \* environments a file or a service may set
    Disks,        \* contents of the files the first load may find
    NewDisks,     \* contents they may be given later
    DropinOrder,  \* relative paths of the drop-ins, in lexicographic order
    Passwd,       \* user name -> [uid, gid, groups]
    GroupDb,      \* group name -> gid
    NumberOf,     \* the specifications of users and groups that are numbers
    CapNames,     \* names of capabilities the kernel has
    MaxEdits      \* bound on the changes to files and users

Commands == {"cmd", "startCmd"}
ProbeKinds == {"cmd", "http", "tcp"}
LoadSteps == {"main", "list", "dropins", "validate", "env", "security"}

ASSUME NoneAssumption == None \notin STRING \cup Nat \cup Commands \cup ProbeKinds \cup LoadSteps
ASSUME OrderAssumption == DropinOrder \in Seq(STRING) /\ IsInjective(DropinOrder)
ASSUME LoadBoundAssumption == MaxEdits \in Nat
ASSUME NumberAssumption == DOMAIN NumberOf \subseteq STRING /\ NumberOf \in [DOMAIN NumberOf -> Nat]
ASSUME UserAssumption ==
    /\ DOMAIN Passwd \subseteq STRING /\ Passwd \in [DOMAIN Passwd -> [uid : Nat, gid : Nat, groups : SUBSET Nat]]
    /\ DOMAIN GroupDb \subseteq STRING /\ GroupDb \in [DOMAIN GroupDb -> Nat]

\* ServiceConfig of src/config.rs, with the kinds of probe, the security
\* context and the identity it is resolved to.
ProbeDef == [kinds : SUBSET ProbeKinds, codes : SUBSET Int, method : STRING,
             interval : Nat, timeout : Nat, threshold : Nat]
ContextDef == [user : {None} \cup STRING, group : {None} \cup STRING, caps : SUBSET STRING]
Identity == [uid : {None} \cup Nat, gid : {None} \cup Nat, caps : SUBSET STRING,
             name : {None} \cup DOMAIN Passwd, named : BOOLEAN]
ServiceDef ==
    [name : Names, tag : Nat, policy : STRING, daemon : BOOLEAN, cmds : SUBSET Commands,
     probe : {None} \cup ProbeDef, labels : SUBSET STRING, deps : SUBSET STRING,
     context : {None} \cup ContextDef, identity : {None} \cup Identity, enabled : BOOLEAN,
     env : Envs]

\* What the files may hold; a file that is not there is None.
Overrides == UNION {[D -> BOOLEAN] : D \in SUBSET Names}
Contents == {None, Broken} \cup Seq(ServiceDef)
Paths == {DropinOrder[i] : i \in DOMAIN DropinOrder}
Disk == [main : Contents, dropins : [Paths -> Contents], override : {Broken} \cup Overrides,
         env : Seq(Envs)]

ASSUME MissingAssumption == None \notin Seq(ServiceDef) /\ Broken \notin Seq(ServiceDef)
ASSUME DiskAssumption == Disks \cup NewDisks \subseteq Disk

VARIABLES
    disk,     \* main, dropins, override, env: what the files hold
    users,    \* the users the database has
    config,   \* services in use, or None before the first load
    env,      \* envfile::CACHE
    lpc,      \* load: idle, main, list, dropins, validate, env, security
    listed,   \* load: the drop-ins there are, by their places in the order
    at,       \* load: the last one read
    draft,    \* load: the services so far
    edited,   \* history: something changed since the load began, or since it ended
    failed,   \* history: the step at which the last load failed
    before,   \* history: configuration and environment when the load began
    edits     \* changes so far

loadVars == <<disk, users, config, env, lpc, listed, at, draft, edited, failed, before, edits>>

----------------------------------------------------------------------------
(* What the files say. *)

Named(svcs) == {svcs[i].name : i \in DOMAIN svcs}
First(svcs, n) == CHOOSE i \in DOMAIN svcs : svcs[i].name = n /\ \A j \in 1..(i - 1) : svcs[j].name # n
Get(svcs, n) == svcs[First(svcs, n)]

\* resolve_start: startCmd, or `cmd start`, or an error.
ResolveStart(svc) == IF "startCmd" \in svc.cmds THEN "startCmd" ELSE IF "cmd" \in svc.cmds THEN "cmd" ELSE None

\* probe_kind of src/liveness.rs: the only kind that is set.
ProbeKind(probe) == IF Cardinality(probe.kinds) = 1 THEN CHOOSE k \in probe.kinds : TRUE ELSE None

\* Mutant: one kind or more.
ProbeValid_Any(probe) ==
    /\ probe.kinds # {}
    /\ probe.kinds \cap {"cmd", "http"} # {} => probe.codes # {}
    /\ "http" \in probe.kinds => probe.method # ""
    /\ probe.interval > 0 /\ probe.timeout > 0 /\ probe.threshold >= 1

ProbeValid(probe) ==
    /\ Cardinality(probe.kinds) = 1
    /\ probe.kinds \cap {"cmd", "http"} # {} => probe.codes # {}
    /\ "http" \in probe.kinds => probe.method # ""
    /\ probe.interval > 0 /\ probe.timeout > 0 /\ probe.threshold >= 1

\* Users and groups are numbers, or names; a context may leave each out.
ContextValid(ctx) == ctx.user # "" /\ ctx.group # "" /\ ctx.caps \subseteq CapNames

ServiceValid(svc) ==
    /\ svc.name # ""
    /\ svc.policy = "always" => svc.daemon
    /\ svc.cmds # {}
    /\ svc.probe # None => ProbeValid(svc.probe)
    /\ svc.labels \subseteq {"wellFormed"}
    /\ svc.context # None => ContextValid(svc.context)

\* Config::validate; cycles are left to the start order.
Validate(svcs) ==
    /\ \A i \in DOMAIN svcs : ServiceValid(svcs[i])
    /\ \A i, j \in DOMAIN svcs : svcs[i].name = svcs[j].name => i = j
    /\ \A i \in DOMAIN svcs : svcs[i].deps \subseteq Named(svcs)

\* Mutant: a service that is there already is left alone.
Put_KeepsFirst(cs, svc) == IF svc.name \in Named(cs) THEN cs ELSE Append(cs, svc)

\* merge_service_dropins, one service: in place of the first of that name, or
\* at the end.
Put(cs, svc) == IF svc.name \in Named(cs) THEN [cs EXCEPT ![First(cs, svc.name)] = svc] ELSE Append(cs, svc)

\* One file, service by service.
Merge(svcs, file) ==
    LET merged[n \in 0..Len(file)] == IF n = 0 THEN svcs ELSE Put(merged[n - 1], file[n])
    IN  merged[Len(file)]

\* apply_enabled_override
Override(svcs, ov) ==
    [i \in DOMAIN svcs |-> IF svcs[i].name \in DOMAIN ov THEN [svcs[i] EXCEPT !.enabled = ov[svcs[i].name]]
                           ELSE svcs[i]]

\* load_paths: the maps of the files in their order, the later one first.
EnvMap(files) ==
    LET over(m, f) == [k \in DOMAIN m \cup DOMAIN f |-> IF k \in DOMAIN f THEN f[k] ELSE m[k]]
    IN  FoldLeft(over, <<>>, files)

----------------------------------------------------------------------------
(* security::resolve *)

IsNumber(spec) == spec \in DOMAIN NumberOf
UserOf(uid) == {u \in users : Passwd[u].uid = uid}

\* A user given by number need not have an entry in the database when the
\* group is given; a name must.
ResolveUser(ctx) ==
    CASE ctx.user = None -> [uid |-> None, gid |-> None, name |-> None]
      [] IsNumber(ctx.user) /\ UserOf(NumberOf[ctx.user]) # {} ->
            LET u == CHOOSE x \in UserOf(NumberOf[ctx.user]) : TRUE
            IN  [uid |-> NumberOf[ctx.user], gid |-> Passwd[u].gid, name |-> u]
      [] IsNumber(ctx.user) /\ UserOf(NumberOf[ctx.user]) = {} /\ ctx.group # None ->
            [uid |-> NumberOf[ctx.user], gid |-> None, name |-> None]
      [] ctx.user \in users /\ ~IsNumber(ctx.user) ->
            [uid |-> Passwd[ctx.user].uid, gid |-> Passwd[ctx.user].gid, name |-> ctx.user]
      [] OTHER -> Unresolved

ResolveGroup(ctx, primary) ==
    CASE ctx.group = None -> primary
      [] IsNumber(ctx.group) -> NumberOf[ctx.group]
      [] ctx.group \in DOMAIN GroupDb /\ ~IsNumber(ctx.group) -> GroupDb[ctx.group]
      [] OTHER -> Unresolved

\* None for a context that asks for nothing.
Resolve(ctx) ==
    LET user == ResolveUser(ctx)
        gid == ResolveGroup(ctx, user.gid)
    IN  IF user = Unresolved \/ gid = Unresolved THEN Unresolved
        ELSE IF user.uid = None /\ gid = None /\ ctx.caps = {} THEN None
        ELSE [uid |-> user.uid, gid |-> gid, caps |-> ctx.caps, name |-> user.name,
              named |-> ctx.user # None /\ ~IsNumber(ctx.user)]

\* Config::prepare_security
Prepared(svc) == [svc EXCEPT !.identity = IF svc.context = None THEN None ELSE Resolve(svc.context)]
PrepareSecurity(svcs) == [i \in DOMAIN svcs |-> Prepared(svcs[i])]
Resolvable(svcs) == \A i \in DOMAIN svcs : Prepared(svcs[i]).identity # Unresolved

----------------------------------------------------------------------------
(* The load. *)

LoadType ==
    /\ disk \in Disk /\ users \subseteq DOMAIN Passwd /\ edits \in Nat
    /\ lpc \in {"idle"} \cup LoadSteps
    /\ listed \subseteq DOMAIN DropinOrder /\ at \in Nat
    /\ draft \in Seq(ServiceDef) /\ config \in {None} \cup Seq(ServiceDef)
    /\ failed \in {None, "main", "dropins", "validate", "security"}

LoadInit ==
    /\ disk \in Disks /\ users = DOMAIN Passwd
    /\ config = None /\ env = <<>>
    /\ lpc = "idle" /\ listed = {} /\ at = 0 /\ draft = <<>>
    /\ edited = FALSE /\ failed = None /\ before = <<None, <<>>>> /\ edits = 0

\* At boot, or for a reload.
Begin ==
    /\ lpc = "idle" /\ (config = None => failed = None) /\ (config # None => edited)
    /\ lpc' = "main" /\ listed' = {} /\ at' = 0 /\ draft' = <<>>
    /\ edited' = FALSE /\ failed' = None /\ before' = <<config, env>>
    /\ UNCHANGED <<disk, users, config, env, edits>>

Fail ==
    /\ lpc' = "idle" /\ failed' = lpc
    /\ UNCHANGED <<disk, users, config, env, listed, at, draft, edited, before, edits>>

\* The default configuration is written when there is none; then it is read.
ReadMain ==
    /\ lpc = "main"
    /\ IF disk.main = Broken THEN Fail
       ELSE /\ lpc' = "list"
            /\ draft' = IF disk.main = None THEN <<>> ELSE disk.main
            /\ disk' = [disk EXCEPT !.main = IF @ = None THEN <<>> ELSE @]
            /\ UNCHANGED <<users, config, env, listed, at, edited, failed, before, edits>>

\* collect_dropin_rel_paths
ListDropins ==
    /\ lpc = "list" /\ lpc' = "dropins"
    /\ listed' = {i \in DOMAIN DropinOrder : disk.dropins[DropinOrder[i]] # None}
    /\ UNCHANGED <<disk, users, config, env, at, draft, edited, failed, before, edits>>

Unread == {i \in listed : at < i}

\* A drop-in that is gone by now is an error, as is one that cannot be parsed.
ReadDropin ==
    /\ lpc = "dropins"
    /\ \E i \in Unread :
          /\ \A j \in Unread : i <= j
          /\ LET file == disk.dropins[DropinOrder[i]]
             IN  IF file \in {None, Broken} THEN Fail
                 ELSE /\ at' = i /\ draft' = Merge(draft, file)
                      /\ UNCHANGED <<disk, users, config, env, lpc, listed, edited, failed, before, edits>>

\* Mutant: the environment files are installed before the checks.
ReadOverride_EnvFirst ==
    /\ lpc = "dropins" /\ Unread = {}
    /\ IF disk.override = Broken
       THEN Fail
       ELSE /\ lpc' = "validate" /\ env' = EnvMap(disk.env)
            /\ draft' = Override(draft, disk.override)
            /\ UNCHANGED <<disk, users, config, listed, at, edited, failed, before, edits>>

ReadOverride ==
    /\ lpc = "dropins" /\ Unread = {}
    /\ IF disk.override = Broken
       THEN Fail
       ELSE /\ lpc' = "validate"
            /\ draft' = Override(draft, disk.override)
            /\ UNCHANGED <<disk, users, config, env, listed, at, edited, failed, before, edits>>

\* The settings that are not services may be refused as well: a relative
\* earlyBoot.logsPath, an unknown name in socketAllowUsers.
ValidateDraft ==
    /\ lpc = "validate"
    /\ \/ Fail
       \/ /\ Validate(draft) /\ lpc' = "env"
          /\ UNCHANGED <<disk, users, config, env, listed, at, draft, edited, failed, before, edits>>

\* envfile::load_into_cache: all files are read, then the map is replaced.
InstallEnv ==
    /\ lpc = "env" /\ lpc' = "security"
    /\ env' = EnvMap(disk.env)
    /\ UNCHANGED <<disk, users, config, listed, at, draft, edited, failed, before, edits>>

\* The identities; a configuration that has them all is taken.
FinishLoad ==
    /\ lpc = "security"
    /\ IF ~Resolvable(draft)
       THEN Fail
       ELSE /\ lpc' = "idle" /\ config' = PrepareSecurity(draft)
            /\ UNCHANGED <<disk, users, env, listed, at, draft, edited, failed, before, edits>>

Load == Begin \/ ReadMain \/ ListDropins \/ ReadDropin \/ ReadOverride \/ ValidateDraft \/ InstallEnv \/ FinishLoad

\* Files are replaced; a user is removed.
Change ==
    /\ edits < MaxEdits /\ edits' = edits + 1
    /\ edited' = TRUE
    /\ \/ disk' \in NewDisks /\ users' = users
       \/ \E u \in users : users' = users \ {u} /\ disk' = disk
    /\ UNCHANGED <<config, env, lpc, listed, at, draft, failed, before>>

----------------------------------------------------------------------------
(* supervisor::find_service_source, for describe: the first of that name in  *)
(* the last drop-in that has one, else in the main file.                     *)

Lists(file, n) == file \notin {None, Broken} /\ n \in Named(file)

Source(n) ==
    LET with == {i \in DOMAIN DropinOrder : Lists(disk.dropins[DropinOrder[i]], n)}
        last == CHOOSE i \in with : \A j \in with : j <= i
    IN  IF with # {} THEN Get(disk.dropins[DropinOrder[last]], n)
        ELSE IF Lists(disk.main, n) THEN Get(disk.main, n) ELSE None
=============================================================================
