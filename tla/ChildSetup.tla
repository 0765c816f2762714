----------------------------- MODULE ChildSetup -----------------------------
(****************************************************************************)
(* A service process between fork and exec: build_shell_command of          *)
(* src/service.rs and apply_pre_exec of src/security.rs, on the credentials *)
(* the kernel keeps.  A monitor takes the service's definition first and    *)
(* the environment after it, while the main thread may load a new           *)
(* configuration.  A step that fails keeps the program from being run.      *)
(****************************************************************************)
EXTENDS ConfigLoad, TLC

CONSTANTS
    Daemons,    \* credentials microinit may run with
    MaxFaults,  \* bound on the calls the kernel refuses for other reasons
    MaxSpawns   \* bound on the processes

ASSUME ChildBoundAssumption == MaxFaults \in Nat /\ MaxSpawns \in Nat

\* What the kernel keeps of a process.
Credentials == [uid : Nat, gid : Nat, groups : SUBSET Nat, permitted : SUBSET CapNames,
                effective : SUBSET CapNames, inheritable : SUBSET CapNames, ambient : SUBSET CapNames,
                bounding : SUBSET CapNames, keep : BOOLEAN, nnp : BOOLEAN]

ASSUME DaemonAssumption ==
    /\ {"setgid", "setuid"} \subseteq CapNames /\ CapNames \subseteq STRING
    /\ Daemons \subseteq {c \in Credentials : c.effective \subseteq c.permitted /\ c.ambient \subseteq c.permitted}

VARIABLES
    daemon,   \* credentials of microinit
    cpc,      \* child: idle, cloned, and the next step until exec or failed
    svc,      \* its definition
    creds,    \* its credentials
    cenv,     \* its environment, but for what it inherits
    refused,  \* history: a call was refused by a fault
    faults, spawns

childVars == <<cpc, svc, creds, cenv, refused, faults, spawns>>
vars == <<loadVars, daemon, childVars>>

Steps == {"keepcaps", "bounding", "groups", "setgid", "setuid", "capset", "privs", "exec"}
Init ==
    /\ LoadInit
    /\ daemon \in Daemons
    /\ cpc = "idle" /\ svc = None /\ creds = daemon /\ cenv = <<>>
    /\ refused = FALSE /\ faults = 0 /\ spawns = 0

----------------------------------------------------------------------------
(* The kernel, as far as these calls see it. *)

May(cap) == cap \in creds.effective

SetUid(c, uid) ==
    IF c.uid = 0 /\ uid # 0
    THEN [c EXCEPT !.uid = uid, !.effective = {}, !.ambient = {},
                   !.permitted = IF c.keep THEN @ ELSE {}]
    ELSE [c EXCEPT !.uid = uid]

----------------------------------------------------------------------------
(* The child. *)

Ident == svc.identity
WantCaps == Ident.caps # {}
DropsIdentity == Ident.uid # None \/ Ident.gid # None

\* already_current_without_caps, or no identity at all: nothing is changed.
Unchanged ==
    \/ Ident = None
    \/ ~WantCaps /\ Ident.uid \in {None, daemon.uid} /\ Ident.gid \in {None, daemon.gid}

\* The monitor clones its service's definition.
CloneService ==
    /\ cpc \in {"idle", "exec", "failed"} /\ spawns < MaxSpawns
    /\ config # None /\ \E i \in DOMAIN config : svc' = config[i]
    /\ cpc' = "cloned" /\ spawns' = spawns + 1
    /\ creds' = daemon /\ cenv' = <<>> /\ refused' = FALSE
    /\ UNCHANGED <<loadVars, daemon, faults>>

\* Of the user database, unless something above it says otherwise.
PasswdEnv == IF Ident = None \/ Ident.name = None THEN <<>>
             ELSE "HOME" :> Ident.name @@ "USER" :> Ident.name @@ "LOGNAME" :> Ident.name

\* build_shell_command: default path, environment files, the service's own.
BuildCommand ==
    /\ cpc = "cloned"
    /\ cenv' = svc.env @@ env @@ PasswdEnv @@ "PATH" :> "default"
    /\ cpc' = IF Unchanged THEN "exec" ELSE "keepcaps"
    /\ UNCHANGED <<loadVars, daemon, svc, creds, refused, faults, spawns>>

\* A step of apply_pre_exec: not asked for, allowed and done, or refused.
Step(here, next, asked, allowed, result) ==
    /\ cpc = here
    /\ \/ ~asked /\ cpc' = next /\ UNCHANGED <<creds, refused, faults>>
       \/ asked /\ allowed /\ cpc' = next /\ creds' = result /\ UNCHANGED <<refused, faults>>
       \/ asked /\ ~allowed /\ cpc' = "failed" /\ UNCHANGED <<creds, refused, faults>>
       \/ /\ asked /\ faults < MaxFaults /\ faults' = faults + 1
          /\ refused' = TRUE /\ cpc' = "failed" /\ creds' = creds
    /\ UNCHANGED <<loadVars, daemon, svc, cenv, spawns>>

\* Mutant: the capabilities do not survive the change of user.
KeepCaps_No == Step("keepcaps", "bounding", FALSE, TRUE, creds)

KeepCaps == Step("keepcaps", "bounding", WantCaps, TRUE, [creds EXCEPT !.keep = TRUE])

\* drop_bounding_set: what the kernel does not let go of stays, no error.
DropBounding ==
    /\ cpc = "bounding" /\ cpc' = "groups"
    /\ creds' = [creds EXCEPT !.bounding = IF May("setpcap") THEN @ \cap Ident.caps ELSE @]
    /\ UNCHANGED <<loadVars, daemon, svc, cenv, refused, faults, spawns>>

\* apply_groups: those of a user given by name, none for a number.
ApplyGroups ==
    Step("groups", "setgid", DropsIdentity, May("setgid"),
         [creds EXCEPT !.groups = IF Ident.named THEN Passwd[Ident.name].groups \cup {Ident.gid} ELSE {}])

ApplyGid ==
    Step("setgid", "setuid", Ident.gid # None, May("setgid") \/ creds.gid = Ident.gid,
         [creds EXCEPT !.gid = Ident.gid])

ApplyUid ==
    Step("setuid", "capset", Ident.uid # None, May("setuid") \/ creds.uid = Ident.uid,
         SetUid(creds, Ident.uid))

\* Mutant: only when some were asked for.
SetCapabilities_IfAsked ==
    Step("capset", "privs", WantCaps, Ident.caps \subseteq creds.permitted,
         [creds EXCEPT !.permitted = Ident.caps, !.effective = Ident.caps, !.inheritable = Ident.caps,
                       !.ambient = Ident.caps])

\* set_capabilities: the sets are replaced, then the ambient ones raised.
SetCapabilities ==
    Step("capset", "privs", WantCaps \/ DropsIdentity, Ident.caps \subseteq creds.permitted,
         [creds EXCEPT !.permitted = Ident.caps, !.effective = Ident.caps, !.inheritable = Ident.caps,
                       !.ambient = Ident.caps])

NoNewPrivs == Step("privs", "exec", TRUE, TRUE, [creds EXCEPT !.nnp = TRUE])

Child ==
    CloneService \/ BuildCommand \/ KeepCaps \/ DropBounding \/ ApplyGroups \/ ApplyGid \/ ApplyUid
    \/ SetCapabilities \/ NoNewPrivs

Next == (Load /\ UNCHANGED <<daemon, childVars>>) \/ (Change /\ UNCHANGED <<daemon, childVars>>) \/ Child
Spec == Init /\ [][Next]_vars

----------------------------------------------------------------------------
(* Properties. *)

Ready == lpc = "idle" /\ config # None /\ failed = None /\ ~edited

ChildType ==
    /\ cpc \in {"idle", "cloned", "failed"} \cup Steps
    /\ svc \in {None} \cup ServiceDef
    /\ daemon \in Daemons /\ creds \in Credentials
    /\ creds.effective \subseteq creds.permitted /\ creds.ambient \subseteq creds.permitted
    /\ refused \in BOOLEAN /\ faults \in Nat /\ spawns \in Nat

TypeOK == LoadType /\ ChildType

\* The files of the configuration by weight: the main file, then the drop-ins.
Places == 0..Len(DropinOrder)
FileAt(i) ==
    IF i = 0 THEN disk.main
    ELSE IF disk.dropins[DropinOrder[i]] = None THEN <<>> ELSE disk.dropins[DropinOrder[i]]

Having(n) == {i \in Places : n \in Named(FileAt(i))}
Once(svcs) == \A i, j \in DOMAIN svcs : svcs[i].name = svcs[j].name => i = j

\* The last definition of a service in the last file that has one.
Final(svcs, n) ==
    svcs[CHOOSE i \in DOMAIN svcs : svcs[i].name = n /\ \A j \in DOMAIN svcs : i < j => svcs[j].name # n]
LastWord(n) == Final(FileAt(CHOOSE i \in Having(n) : \A j \in Having(n) : j <= i), n)

\* Whether a service is to be enabled, the override having the last word.
Wanted(s) == IF s.name \in DOMAIN disk.override THEN disk.override[s.name] ELSE s.enabled

\* A configuration that was loaded while nothing changed has each service of
\* any file once, with its last definition in the last file that has one, and
\* the override's word on whether it is enabled.  That definition is also what
\* describe shows as its source, as long as no file lists a service twice.
LaterWins ==
    Ready =>
        /\ Once(config) /\ Named(config) = UNION {Named(FileAt(i)) : i \in Places}
        /\ \A n \in Named(config) :
              LET now == Get(config, n)
              IN  now = [LastWord(n) EXCEPT !.enabled = Wanted(LastWord(n)), !.identity = now.identity]
        /\ (\A i \in Places : Once(FileAt(i))) => \A n \in Named(config) : Source(n) = LastWord(n)

\* A configuration that was taken can be run: every service has something to
\* start, every probe is of one kind, every dependency is a service.
AcceptedRuns ==
    config # None =>
        \A i \in DOMAIN config :
            /\ ResolveStart(config[i]) # None
            /\ config[i].probe # None => ProbeKind(config[i].probe) # None
            /\ config[i].deps \subseteq Named(config)

\* A load that fails changes nothing, but for the environment files when it is
\* an identity that fails it.
KeepOld ==
    lpc = "idle" /\ failed # None =>
        /\ config = before[1]
        /\ failed # "security" => env = before[2]

\* A program is run with the user, group, groups and capabilities its
\* definition asks for and can gain no others; without a context, or with one
\* that asks for what microinit is, with those of microinit.
ChildIdentity ==
    cpc = "exec" =>
        LET ctx == svc.context
            user == IF ctx.user = None THEN None
                    ELSE IF IsNumber(ctx.user) THEN NumberOf[ctx.user] ELSE Passwd[ctx.user].uid
            own == ctx = None \/ Unchanged
        IN  /\ own => creds = daemon
            /\ ~own => /\ creds.uid = IF user = None THEN daemon.uid ELSE user
                       /\ creds.gid = IF Ident.gid = None THEN daemon.gid ELSE Ident.gid
                       /\ ctx.user = None /\ ctx.group = None => creds.groups = daemon.groups
                       /\ ctx.user # None /\ IsNumber(ctx.user) => creds.groups = {}
                       /\ ctx.user # None /\ ~IsNumber(ctx.user) => Passwd[ctx.user].groups \subseteq creds.groups
                       /\ {creds.permitted, creds.effective, creds.ambient} = {ctx.caps}
                       /\ creds.nnp

\* With every capability to begin with no step is refused for what an earlier
\* step gave up: the order of apply_pre_exec is one that works.
OrderWorks == cpc = "failed" /\ daemon.effective = CapNames => refused
=============================================================================
