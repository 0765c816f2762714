-------------------------------- MODULE LogHub --------------------------------
(****************************************************************************)
(* The log hub of src/logs.rs and the logs request of src/init.rs.          *)
(*                                                                          *)
(* A line goes through the hub in separate critical sections: the ring of   *)
(* its service, the mixed ring, the terminals, the channels of the          *)
(* followers.  A client that follows is given a snapshot of a ring and      *)
(* subscribes after that; at the cap the oldest subscription is dropped     *)
(* for it.  A line is the pair of the thread that writes it (a capture      *)
(* thread, the log bridge, or a thread of microinit) and its number there.  *)
(****************************************************************************)
EXTENDS Naturals, Sequences, FiniteSets, Functions

CONSTANTS
    Writers,
    Services,
    InitService,   \* INIT_SERVICE
    ServiceOf,     \* [Writers -> Services]
    Requests,      \* logs requests, one IPC thread each
    Wants,         \* the services a request names: all, or one
    Capacity,      \* of a ring
    Lines,         \* the number of lines a request asks for
    MaxFollowers,  \* MAX_LOG_FOLLOWERS
    MaxLines       \* [Writers -> Nat]: bound on the lines of a writer

ASSUME ServiceAssumption ==
    InitService \in Services /\ ServiceOf \in [Writers -> Services]
ASSUME WantsAssumption ==
    \A r \in Requests : Wants[r] = Services \/ \E s \in Services : Wants[r] = {s}
ASSUME BoundAssumption ==
    Capacity \in Nat /\ Lines \in Nat /\ MaxFollowers \in Nat \ {0} /\ MaxLines \in [Writers -> Nat]

VARIABLES
    ring,       \* LogHub.per_service
    mixed,      \* LogHub.mixed
    bootTee,    \* boot_tee_stderr
    followers,  \* LogHub.followers: requests, the oldest subscription first
    chan,       \* what is in the channel of a request
    wpc,        \* writer: idle, or the part of publish_inner that is next
    count,      \* writer: lines it has begun to publish
    tee,        \* writer: the flag it has read for its line
    stderr,     \* lines on stderr
    rpc,        \* request: idle, shown, follow, done
    shown,      \* request: lines written to the client
    past,       \* history: every line pushed to the ring of a service
    pastMixed,  \* history: every line pushed to the mixed ring
    before,     \* history: lines pushed to the request's ring before its snapshot
    old,        \* history: those of them that are too old for the snapshot
    seam,       \* history: lines pushed after its snapshot, sent before it subscribed
    newer       \* history: subscriptions after its own

hubVars == <<ring, mixed, bootTee, followers>>
writerVars == <<wpc, count, tee, stderr>>
requestVars == <<rpc, shown, before, old, seam, newer>>
pastVars == <<past, pastMixed>>
vars == <<hubVars, chan, writerVars, requestVars, pastVars>>

AllLines == UNION {{w} \X (1..MaxLines[w]) : w \in Writers}
Wanted(r) == {l \in AllLines : ServiceOf[l[1]] \in Wants[r]}
Size == IF Capacity = 0 THEN 1 ELSE Capacity

\* Every variable has its type; rings and followers respect their caps.
TypeOK ==
    /\ ring \in [Services -> Seq(AllLines)] /\ \A s \in Services : Len(ring[s]) <= Size
    /\ mixed \in Seq(AllLines) /\ Len(mixed) <= Size
    /\ bootTee \in BOOLEAN
    /\ followers \in Seq(Requests) /\ Len(followers) <= MaxFollowers
    /\ chan \in [Requests -> Seq(AllLines)] /\ shown \in [Requests -> Seq(AllLines)]
    /\ wpc \in [Writers -> {"idle", "mixed", "send"}]
    /\ count \in [Writers -> Nat] /\ \A w \in Writers : count[w] <= MaxLines[w]
    /\ tee \in [Writers -> BOOLEAN]
    /\ stderr \in SUBSET AllLines
    /\ rpc \in [Requests -> {"idle", "shown", "follow", "done"}]
    /\ past \in [Services -> Seq(AllLines)] /\ pastMixed \in Seq(AllLines)
    /\ before \in [Requests -> SUBSET AllLines]
    /\ old \in [Requests -> SUBSET AllLines] /\ seam \in [Requests -> SUBSET AllLines]
    /\ newer \in [Requests -> Nat]

Init ==
    /\ ring = [s \in Services |-> <<>>] /\ mixed = <<>>
    /\ bootTee = TRUE
    /\ followers = <<>> /\ chan = [r \in Requests |-> <<>>]
    /\ wpc = [w \in Writers |-> "idle"] /\ count = [w \in Writers |-> 0]
    /\ tee = [w \in Writers |-> FALSE]
    /\ stderr = {}
    /\ rpc = [r \in Requests |-> "idle"] /\ shown = [r \in Requests |-> <<>>]
    /\ past = [s \in Services |-> <<>>] /\ pastMixed = <<>>
    /\ before = [r \in Requests |-> {}]
    /\ old = [r \in Requests |-> {}] /\ seam = [r \in Requests |-> {}]
    /\ newer = [r \in Requests |-> 0]

----------------------------------------------------------------------------
(* RingBuffer.                                                              *)

LastN(s, n) == IF Len(s) <= n THEN s ELSE SubSeq(s, Len(s) - n + 1, Len(s))

\* Mutant: the newest line first.
Newest_Reversed(s) == [i \in 1..Len(LastN(s, Lines)) |-> s[Len(s) - i + 1]]

\* last_n for a request, the oldest of them first.
Newest(s) == LastN(s, Lines)

\* Mutant: room is made for one line more than is pushed.
Push_Early(s, line) == Append(LastN(s, Size - 2), line)

\* push: room is made first.
Push(s, line) == Append(LastN(s, Size - 1), line)

----------------------------------------------------------------------------
(* publish and publish_inner.                                               *)

Line(w) == <<w, count[w]>>
Part(w, pc, next) == wpc[w] = pc /\ wpc' = [wpc EXCEPT ![w] = next]

\* publish: microinit's own lines are mirrored to stderr during boot.
ReadTee(w) == ServiceOf[w] = InitService /\ bootTee

PushService(w) ==
    /\ Part(w, "idle", "mixed")
    /\ count[w] < MaxLines[w]
    /\ count' = [count EXCEPT ![w] = @ + 1]
    /\ tee' = [tee EXCEPT ![w] = ReadTee(w)]
    /\ ring' = [ring EXCEPT ![ServiceOf[w]] = Push(@, <<w, count[w] + 1>>)]
    /\ past' = [past EXCEPT ![ServiceOf[w]] = Append(@, <<w, count[w] + 1>>)]
    /\ UNCHANGED <<mixed, bootTee, followers, chan, stderr, requestVars, pastMixed>>

\* The mixed ring; then the terminal of the service or of microinit, stderr and
\* the log file, which no other step reads.
PushMixed(w) ==
    /\ Part(w, "mixed", "send")
    /\ mixed' = Push(mixed, Line(w))
    /\ pastMixed' = Append(pastMixed, Line(w))
    /\ stderr' = IF tee[w] THEN stderr \cup {Line(w)} ELSE stderr
    /\ tee' = [tee EXCEPT ![w] = FALSE]
    /\ UNCHANGED <<ring, bootTee, followers, chan, count, requestVars, past>>

\* The receiver is still there.
Live(r) == rpc[r] = "follow"

\* retain, on the list: the followers that are there, in their order.
Retained(s) ==
    LET keep[i \in 0..Len(s)] == IF i = 0 THEN <<>>
                                 ELSE IF Live(s[i]) THEN Append(keep[i - 1], s[i]) ELSE keep[i - 1]
    IN  keep[Len(s)]

\* The followers that are still there get the line and stay.
Send(w) ==
    /\ Part(w, "send", "idle")
    /\ chan' = [r \in Requests |-> IF r \in Range(followers) /\ Live(r)
                                     THEN Append(chan[r], Line(w)) ELSE chan[r]]
    /\ followers' = Retained(followers)
    /\ seam' = [r \in Requests |-> IF rpc[r] = "shown" /\ Line(w) \notin before[r]
                                     THEN seam[r] \cup {Line(w)} ELSE seam[r]]
    /\ UNCHANGED <<ring, mixed, bootTee, count, tee, stderr, rpc, shown, before, old, newer, pastVars>>

EndBootTee ==
    /\ bootTee
    /\ bootTee' = FALSE
    /\ UNCHANGED <<ring, mixed, followers, chan, writerVars, requestVars, pastVars>>

----------------------------------------------------------------------------
(* The logs request.                                                        *)

\* A request that names a service reads its ring, else the mixed one.
Source(r) == IF Wants[r] = Services THEN mixed
             ELSE ring[CHOOSE s \in Services : Wants[r] = {s}]

\* All that was ever pushed to that ring; of it the ring and the snapshot keep
\* the newest lines, as many as both have room for.
PastOf(r) == IF Wants[r] = Services THEN pastMixed
             ELSE past[CHOOSE s \in Services : Wants[r] = {s}]
Room == IF Lines < Size THEN Lines ELSE Size
TooOld(s) == {s[i] : i \in {i \in 1..Len(s) : i + Room <= Len(s)}}

\* The handler returns; what it kept is gone.
Ended(r) ==
    /\ rpc' = [rpc EXCEPT ![r] = "done"]
    /\ chan' = [chan EXCEPT ![r] = <<>>] /\ shown' = [shown EXCEPT ![r] = <<>>]
    /\ before' = [before EXCEPT ![r] = {}]
    /\ old' = [old EXCEPT ![r] = {}] /\ seam' = [seam EXCEPT ![r] = {}]
    /\ newer' = [newer EXCEPT ![r] = 0]
    /\ UNCHANGED <<hubVars, writerVars, pastVars>>

\* The snapshot is taken and written; without follow the handler ends here.
Snapshot(r) ==
    /\ rpc[r] = "idle"
    /\ shown' = [shown EXCEPT ![r] = Newest(Source(r))]
    /\ before' = [before EXCEPT ![r] = Range(PastOf(r))]
    /\ old' = [old EXCEPT ![r] = TooOld(PastOf(r))]
    /\ rpc' = [rpc EXCEPT ![r] = "shown"]
    /\ UNCHANGED <<hubVars, chan, writerVars, seam, newer, pastVars>>

\* Mutant: one follower fewer than the cap.
Admit_Early(r) == Append(LastN(followers, MaxFollowers - 2), r)

\* subscribe: the oldest followers make room, dead or alive.
Admit(r) == Append(LastN(followers, MaxFollowers - 1), r)

Subscribe(r) ==
    /\ rpc[r] = "shown"
    /\ followers' = Admit(r)
    /\ rpc' = [rpc EXCEPT ![r] = "follow"]
    /\ newer' = [q \in Requests |-> IF rpc[q] = "follow" THEN newer[q] + 1 ELSE newer[q]]
    /\ UNCHANGED <<ring, mixed, bootTee, chan, writerVars, shown, before, old, seam, pastVars>>

\* Lines of other services are skipped.
Receive(r) ==
    /\ rpc[r] = "follow" /\ chan[r] # <<>>
    /\ chan' = [chan EXCEPT ![r] = Tail(@)]
    /\ shown' = IF Head(chan[r]) \in Wanted(r)
                  THEN [shown EXCEPT ![r] = Append(@, Head(chan[r]))] ELSE shown
    /\ UNCHANGED <<hubVars, writerVars, rpc, before, old, seam, newer, pastVars>>

\* The sender was dropped and the channel is empty.
DroppedEnd(r) ==
    /\ rpc[r] = "follow" /\ chan[r] = <<>>
    /\ r \notin Range(followers)
    /\ Ended(r)

\* No follow was asked for, or the client is gone: a frame or a heartbeat cannot
\* be written.  The sender stays in the list until the next line.
Leave(r) == rpc[r] \in {"shown", "follow"} /\ Ended(r)

----------------------------------------------------------------------------
Publish(w) == PushService(w) \/ PushMixed(w) \/ Send(w)
Follow(r) == Subscribe(r) \/ Receive(r) \/ DroppedEnd(r)

Next ==
    \/ \E w \in Writers : Publish(w)
    \/ EndBootTee
    \/ \E r \in Requests : Snapshot(r) \/ Follow(r) \/ Leave(r)

Spec == Init /\ [][Next]_vars

----------------------------------------------------------------------------
(* Properties.                                                              *)

Sent(l) == l[2] < count[l[1]] \/ (l[2] = count[l[1]] /\ wpc[l[1]] = "idle")

\* A follower that was not dropped has, or will have, every line of its service
\* that the hub has sent, however publishers interleave.  A line pushed before
\* its snapshot is missing only if at least as many newer lines as the ring holds
\* and the client asked for had been pushed by then, whenever it was sent.  A line
\* pushed after the snapshot is missing only if it was also sent before the
\* request subscribed: the gap that last_n and subscribe leave between them.
LostOnlyInSeam ==
    \A r \in Requests : Live(r) /\ r \in Range(followers) =>
        \A l \in Wanted(r) : Sent(l) =>
            l \in Range(shown[r]) \cup Range(chan[r]) \cup seam[r] \cup old[r]

\* What a client sees of one stream never goes back: snapshot and live lines
\* meet with at most the line that was being published shown twice.
ClientOrder ==
    \A r \in Requests : \A i, j \in 1..Len(shown[r]) :
        i < j /\ shown[r][i][1] = shown[r][j][1] =>
            \/ shown[r][i][2] < shown[r][j][2]
            \/ shown[r][i] = shown[r][j] /\ \A k \in (i + 1)..(j - 1) :
                                              shown[r][k][1] # shown[r][i][1]

\* A follower is dropped only after as many newer subscriptions as the cap
\* allows, although those of clients that hung up stay in the list for a while.
DroppedOnlyAtCap ==
    \A r \in Requests :
        Live(r) /\ r \notin Range(followers) => newer[r] >= MaxFollowers

===============================================================================
