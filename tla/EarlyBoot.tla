------------------------------ MODULE EarlyBoot ------------------------------
(****************************************************************************)
(* The early-boot script runner of src/early_boot.rs: the script, the pipe  *)
(* its output goes through, the reader thread that tees and keeps the last  *)
(* lines within the limits, and the main thread that spawns the script,     *)
(* waits for it and joins the reader.  A process the script leaves behind   *)
(* keeps the write end of the pipe open.  A byte is a newline, a byte of    *)
(* text, or one that is not UTF-8 and becomes U+FFFD, three bytes long.     *)
(****************************************************************************)
EXTENDS Naturals, Sequences, FiniteSets, SequencesExt

CONSTANTS
    MaxLineBytes,     \* MAX_EARLY_BOOT_LINE_BYTES
    MaxCaptureLines,  \* MAX_EARLY_BOOT_CAPTURE_LINES
    MaxCaptureBytes,  \* MAX_EARLY_BOOT_CAPTURE_BYTES
    PipeSize,         \* what the kernel buffers
    MaxOutput,        \* bound on the bytes of the script
    MaxFaults         \* bound on the calls to the system that fail

ASSUME LimitAssumption ==
    /\ {MaxLineBytes, MaxCaptureLines, PipeSize} \subseteq Nat \ {0}
    /\ MaxCaptureBytes \in Nat /\ 3 * MaxLineBytes <= MaxCaptureBytes
    /\ MaxOutput \in Nat /\ MaxFaults \in Nat

VARIABLES
    eb,         \* main thread: idle, feed, wait, kill, join, done
    script,     \* the process: none, running, ended
    result,     \* its status: none, ok, failed
    holder,     \* a process it left behind holds the pipe
    piped,      \* the pipe exists (EarlyBootOutput.captured)
    pipe,       \* bytes in the pipe
    output,     \* history: bytes written to the pipe and not lost in it
    reader,     \* reader thread: none, reading, done
    cur,        \* collect_lines: the line so far
    overflowed, \* collect_lines: the rest of this line is left out
    lines,      \* collect_lines: lines kept
    bytes,      \* collect_lines: captured_bytes
    dropped,    \* collect_lines: lines evicted
    out,        \* what run returned: [captured, ok]
    faults      \* faults so far

captureVars == <<pipe, output, cur, overflowed, lines, bytes, dropped>>
scriptVars == <<script, result, holder>>
earlyVars == <<eb, scriptVars, piped, captureVars, reader, out, faults>>

Byte == {"text", "bad", "nl"}
Line == Seq(Byte \ {"nl"})
Nothing == [captured |-> FALSE, ok |-> FALSE]

EarlyType ==
    /\ eb \in {"idle", "feed", "wait", "kill", "join", "done"}
    /\ script \in {"none", "running", "ended"}
    /\ result \in {"none", "ok", "failed"}
    /\ {holder, piped, overflowed} \subseteq BOOLEAN
    /\ pipe \in Seq(Byte) /\ Len(pipe) <= PipeSize
    /\ output \in Seq(Byte) /\ Len(output) <= MaxOutput
    /\ reader \in {"none", "reading", "done"}
    /\ cur \in Line /\ Len(cur) <= MaxLineBytes
    /\ lines \in Seq(Line) /\ Len(lines) <= MaxCaptureLines
    /\ bytes \in 0..MaxCaptureBytes
    /\ dropped \in Nat
    /\ out \in [captured : BOOLEAN, ok : BOOLEAN]
    /\ faults \in 0..MaxFaults

EarlyInit ==
    /\ eb = "idle" /\ script = "none" /\ result = "none"
    /\ holder = FALSE /\ piped = FALSE
    /\ pipe = <<>> /\ output = <<>> /\ reader = "none"
    /\ cur = <<>> /\ overflowed = FALSE
    /\ lines = <<>> /\ bytes = 0 /\ dropped = 0
    /\ out = Nothing /\ faults = 0

Fault == faults < MaxFaults /\ faults' = faults + 1

----------------------------------------------------------------------------
(* The main thread. *)

\* resolve_script: of the data root, of /etc, or the one in the binary.
ResolveScript(files) ==
    IF "override" \in files THEN "path" ELSE IF "base" \in files THEN "path" ELSE "embedded"

\* The command is spawned with its output in a pipe, or with the one of
\* microinit when no pipe can be made; the parent's write ends are closed.
\* The embedded script is then fed to sh.
SpawnScript ==
    /\ eb = "idle"
    /\ \E files \in SUBSET {"override", "base"} :
          eb' = IF ResolveScript(files) = "embedded" THEN "feed" ELSE "wait"
    /\ script' = "running"
    /\ \/ piped' = TRUE /\ reader' = "reading" /\ faults' = faults
       \/ piped' = FALSE /\ reader' = "none" /\ Fault
    /\ UNCHANGED <<result, holder, captureVars, out>>

\* sh could not be run: nothing is captured.
SpawnFails ==
    /\ eb = "idle" /\ Fault
    /\ eb' = "done" /\ out' = Nothing
    /\ UNCHANGED <<scriptVars, piped, captureVars, reader>>

FeedScript == eb = "feed" /\ eb' = "wait" /\ UNCHANGED <<scriptVars, piped, captureVars, reader, out, faults>>

\* The script could not be written to sh, which is killed.
FeedFails == eb = "feed" /\ Fault /\ eb' = "kill" /\ UNCHANGED <<scriptVars, piped, captureVars, reader, out>>

KillScript ==
    /\ eb = "kill" /\ eb' = "join"
    /\ script' = "ended" /\ result' = "failed"
    /\ holder' \in {holder, piped /\ script = "running"}
    /\ UNCHANGED <<piped, captureVars, reader, out, faults>>

\* finish_wait: the main thread waits for the script, not for its children.
WaitScript ==
    /\ eb = "wait" /\ script = "ended" /\ eb' = "join"
    /\ UNCHANGED <<scriptVars, piped, captureVars, reader, out, faults>>

\* join_capture; what was captured is forgotten here but for its existence.
Join ==
    /\ eb = "join" /\ reader \in {"none", "done"}
    /\ eb' = "done"
    /\ out' = [captured |-> piped, ok |-> result = "ok"]
    /\ reader' = "none"
    /\ pipe' = <<>> /\ output' = <<>> /\ cur' = <<>> /\ overflowed' = FALSE
    /\ lines' = <<>> /\ bytes' = 0 /\ dropped' = 0
    /\ UNCHANGED <<scriptVars, piped, faults>>

----------------------------------------------------------------------------
(* The script and the process it leaves behind. *)

Emit(b) ==
    /\ script = "running" \/ holder
    /\ reader = "reading"
    /\ Len(output) < MaxOutput /\ Len(pipe) < PipeSize
    /\ pipe' = Append(pipe, b) /\ output' = Append(output, b)
    /\ UNCHANGED <<eb, scriptVars, piped, reader, cur, overflowed, lines, bytes, dropped, out, faults>>

ScriptExit ==
    /\ script = "running" /\ eb \in {"feed", "wait"}
    /\ script' = "ended" /\ result' \in {"ok", "failed"} /\ holder' \in {FALSE, piped}
    /\ UNCHANGED <<eb, piped, captureVars, reader, out, faults>>

HolderExit ==
    /\ holder /\ holder' = FALSE
    /\ UNCHANGED <<eb, script, result, piped, captureVars, reader, out, faults>>

----------------------------------------------------------------------------
(* The reader thread. *)

\* String::from_utf8_lossy(raw).len()
Width(l) == Len(l) + 2 * Cardinality({i \in DOMAIN l : l[i] = "bad"})

Total(s) ==
    LET sum[i \in 0..Len(s)] == IF i = 0 THEN 0 ELSE sum[i - 1] + Width(s[i])
    IN  sum[Len(s)]

\* push_captured_line: evicts from the front while there is a line and one
\* of the limits would be passed.
PushLine(l) ==
    LET rest(k) == SubSeq(lines, k + 1, Len(lines))
        left(k) == bytes - Total(SubSeq(lines, 1, k))
        fits(k) == k = Len(lines) \/ (/\ Len(rest(k)) < MaxCaptureLines
                                      /\ left(k) + Width(l) <= MaxCaptureBytes)
        k == CHOOSE i \in 0..Len(lines) : fits(i) /\ \A j \in 0..(i - 1) : ~fits(j)
    IN  /\ lines' = Append(rest(k), l)
        /\ bytes' = left(k) + Width(l)
        /\ dropped' = dropped + k

\* A byte that ends no line: left out once the line is full.
ExtendLine(b) ==
    /\ cur' = IF overflowed \/ Len(cur) >= MaxLineBytes THEN cur ELSE Append(cur, b)
    /\ overflowed' = (overflowed \/ Len(cur) >= MaxLineBytes)
    /\ UNCHANGED <<lines, bytes, dropped>>

\* Mutant: a cut line cuts the next one.
ReadByte_KeepsOverflow ==
    /\ reader = "reading" /\ pipe # <<>>
    /\ pipe' = Tail(pipe)
    /\ IF Head(pipe) = "nl"
       THEN PushLine(cur) /\ cur' = <<>> /\ overflowed' = overflowed
       ELSE ExtendLine(Head(pipe))
    /\ UNCHANGED <<eb, scriptVars, piped, output, reader, out, faults>>

\* Mutant: a chunk that is not UTF-8 is tried again and again.
ReadByte_Utf8 ==
    /\ reader = "reading" /\ pipe # <<>>
    /\ IF Head(pipe) = "bad" THEN UNCHANGED earlyVars
       ELSE /\ pipe' = Tail(pipe)
            /\ IF Head(pipe) = "nl"
               THEN PushLine(cur) /\ cur' = <<>> /\ overflowed' = FALSE
               ELSE ExtendLine(Head(pipe))
            /\ UNCHANGED <<eb, scriptVars, piped, output, reader, out, faults>>

\* collect_lines: the next byte, teed to stderr, then kept.
ReadByte ==
    /\ reader = "reading" /\ pipe # <<>>
    /\ pipe' = Tail(pipe)
    /\ IF Head(pipe) = "nl"
       THEN PushLine(cur) /\ cur' = <<>> /\ overflowed' = FALSE
       ELSE ExtendLine(Head(pipe))
    /\ UNCHANGED <<eb, scriptVars, piped, output, reader, out, faults>>

\* Mutant: the parent keeps its write ends until early boot is over, and the
\* reader waits.
ReadEnd_ParentHolds ==
    /\ reader = "reading" /\ pipe = <<>> /\ script = "ended" /\ ~holder
    /\ UNCHANGED earlyVars

\* The loop is left: what is there of a line is one.
LastLine ==
    /\ reader = "reading" /\ reader' = "done"
    /\ IF cur = <<>> THEN UNCHANGED <<lines, bytes, dropped>> ELSE PushLine(cur)
    /\ UNCHANGED <<eb, scriptVars, piped, cur, overflowed, out>>

\* The end of file, when no process holds the pipe.
ReadEnd ==
    /\ pipe = <<>> /\ script = "ended" /\ ~holder
    /\ LastLine
    /\ UNCHANGED <<pipe, output, faults>>

\* fill_buf fails: the pipe is closed with what was in it, and the history goes
\* back to the bytes that were read.
ReadFails ==
    /\ Fault
    /\ LastLine
    /\ pipe' = <<>>
    /\ output' = SubSeq(output, 1, Len(output) - Len(pipe))

EarlyMain == SpawnScript \/ SpawnFails \/ FeedScript \/ FeedFails \/ KillScript \/ WaitScript \/ Join
Reader == ReadByte \/ ReadEnd \/ ReadFails
Script == (\E b \in Byte : Emit(b)) \/ ScriptExit \/ HolderExit

----------------------------------------------------------------------------
(* Properties. *)

\* A byte more of the lines that have ended and the one that has not.
Feed(part, b) ==
    IF b = "nl" THEN [done |-> Append(part.done, part.open), open |-> <<>>]
    ELSE [done |-> part.done, open |-> Append(part.open, b)]

Split(s) ==
    LET part[i \in 0..Len(s)] == IF i = 0 THEN [done |-> <<>>, open |-> <<>>] ELSE Feed(part[i - 1], s[i])
    IN  part[Len(s)]

Cut(l) == SubSeq(l, 1, IF Len(l) < MaxLineBytes THEN Len(l) ELSE MaxLineBytes)

\* The lines of what the script wrote, each cut at the line limit; what comes
\* after the last newline is a line unless it is empty.
LinesOf(s) ==
    LET whole == IF Split(s).open = <<>> THEN Split(s).done ELSE Append(Split(s).done, Split(s).open)
    IN  [i \in DOMAIN whole |-> Cut(whole[i])]

WithinLimits(s) == Len(s) <= MaxCaptureLines /\ Total(s) <= MaxCaptureBytes

\* When the reader is done it has kept the longest end of the output it read
\* that both limits allow, whole lines and in order, and it has counted the
\* rest as dropped (collect_lines, push_captured_line).
CaptureLongest ==
    reader = "done" =>
        LET all == LinesOf(output)
            n == Len(lines)
        IN  /\ n + dropped = Len(all)
            /\ lines = SubSeq(all, dropped + 1, Len(all))
            /\ WithinLimits(lines)
            /\ dropped > 0 => ~WithinLimits(SubSeq(all, dropped, Len(all)))
==============================================================================
