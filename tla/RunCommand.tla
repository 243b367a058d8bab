----------------------------- MODULE RunCommand -----------------------------
(***************************************************************************)
(* runShellScriptWithOutput, waitRunCommand and commandOutputDelta         *)
(* (stackit.go): a command on a server is polled until it ends, and what   *)
(* each poll shows of its output beyond the poll before is printed.  The   *)
(* service keeps the last Limit characters of an output.                   *)
(***************************************************************************)
EXTENDS Integers, FiniteSets, SequencesExt

CONSTANTS
    Letters,     \* the characters
    Limit,       \* how much of an output the service keeps
    Probe,       \* the length of commandOutputDelta's probe, 64 in the code
    MaxOutput,   \* bound on the length of an output
    MaxFaults    \* bound on errors of the API

ASSUME LimitAssumption == Limit \in Nat \ {0} /\ Probe \in Nat \ {0}
ASSUME BoundAssumption == MaxOutput \in Nat /\ MaxFaults \in Nat

VARIABLES
    output,      \* all that the command has written
    status,      \* of the command, "unknown" being one the client does not know
    lastOutput,  \* what the last poll has shown
    printed,     \* what has been printed
    pc,          \* "create", "poll", "pause", or how the wait has ended
    seen,        \* history: how much had been written at the last poll
    unclear,     \* history: a poll of which it cannot be told what is new
    faults

vars == <<output, status, lastOutput, printed, pc, seen, unclear, faults>>

Init ==
    /\ output = <<>> /\ status = "running"
    /\ lastOutput = <<>> /\ printed = <<>>
    /\ pc = "create"
    /\ seen = 0 /\ unclear = FALSE /\ faults = 0

Fault == faults < MaxFaults /\ faults' = faults + 1

\* What the service shows when n characters have been written.
Window(n) == SubSeq(output, IF n > Limit THEN n - Limit + 1 ELSE 1, n)

-----------------------------------------------------------------------------
(* commandOutputDelta.                                                     *)

Overlaps(previous, current, n) ==
    /\ n <= Len(previous) /\ n <= Len(current)
    /\ SubSeq(previous, Len(previous) - n + 1, Len(previous)) = SubSeq(current, 1, n)

At(s, k, probe) == k + Len(probe) <= Len(s) /\ SubSeq(s, k + 1, k + Len(probe)) = probe

\* strings.LastIndex(previous[:end], probe), or -1
LastIndex(previous, end, probe) ==
    Max({-1} \cup {k \in 0..(end - Len(probe)) : At(previous, k, probe)})

\* The places of the probe from the end on, without those that reach into the
\* place tried before, until what follows agrees too: the length of the overlap.
LongOverlap(previous, current) ==
    LET probe == SubSeq(current, 1, Min({Probe, Len(current)}))
        search[end \in 0..Len(previous)] ==
            LET index   == LastIndex(previous, end, probe)
                overlap == Len(previous) - index
            IN  IF end = 0 \/ index < 0 THEN 0
                ELSE IF Overlaps(previous, current, overlap) THEN overlap ELSE search[index]
    IN  IF probe = <<>> THEN 0 ELSE search[Len(previous)]

ShortOverlap(previous, current) ==
    Max({0} \cup {n \in 1..(Probe - 1) : Overlaps(previous, current, n)})

\* Mutant: the overlap must be longer than the probe.
OverlapTooShort(previous, current) ==
    IF IsPrefix(previous, current) THEN Len(previous)
    ELSE IF LongOverlap(previous, current) > Probe THEN LongOverlap(previous, current)
    ELSE ShortOverlap(previous, current)

\* How much of current has been shown with previous.
Overlap(previous, current) ==
    IF IsPrefix(previous, current) THEN Len(previous)
    ELSE IF LongOverlap(previous, current) > 0 THEN LongOverlap(previous, current)
    ELSE ShortOverlap(previous, current)

Delta(previous, current) ==
    SubSeq(current, Overlap(previous, current) + 1, Len(current))

-----------------------------------------------------------------------------
(* The wait.                                                               *)

command == <<output, status>>

\* It can be told what is new: the window has not moved, or it has and what it
\* shares with the window before is at least a probe long, no other length
\* agrees, and the probe has no later place that reaches into the right one.
Clear(previous, current) ==
    LET gone    == Len(output) - Limit
        overlap == seen - gone
        place   == Len(previous) - overlap
        probe   == SubSeq(current, 1, Probe)
    IN  \/ gone <= 0 \/ seen = Len(output)
        \/ /\ overlap >= Probe /\ ~IsPrefix(previous, current)
           /\ \A n \in Probe..Limit : Overlaps(previous, current, n) => n = overlap
           /\ \A k \in 1..(Probe - 1) : ~At(previous, place + k, probe)

Create ==
    /\ pc = "create" /\ pc' = "poll"
    /\ UNCHANGED <<command, lastOutput, printed, seen, unclear, faults>>

CreateFails ==
    /\ pc = "create" /\ pc' = "error"
    /\ Fault
    /\ UNCHANGED <<command, lastOutput, printed, seen, unclear>>

\* Mutant: an unknown status with the exit code 0 ends the wait.
EndOfUnknown ==
    IF status \in {"completed", "unknown", "done"} THEN "ok"
    ELSE IF status \in {"failed", "ended"} THEN "error" ELSE "pause"

\* "ended" and "done": an unknown status with an end and an exit code.
End ==
    IF status \in {"completed", "done"} THEN "ok"
    ELSE IF status \in {"failed", "ended"} THEN "error" ELSE "pause"

Poll ==
    /\ pc = "poll" /\ pc' = End
    /\ LET now == Window(Len(output))
       IN  /\ lastOutput' = now
           /\ printed' = IF now = lastOutput THEN printed
                         ELSE printed \o Delta(lastOutput, now)
           /\ unclear' = (unclear \/ ~Clear(lastOutput, now))
           /\ seen' = Len(output)
    /\ UNCHANGED <<command, faults>>

\* Mutant: an error makes the wait forget what it has shown.
PollTransientForgets ==
    /\ pc = "poll" /\ pc' = "pause"
    /\ Fault
    /\ lastOutput' = <<>>
    /\ UNCHANGED <<command, printed, seen, unclear>>

\* transientAPIError
PollTransient ==
    /\ pc = "poll" /\ pc' = "pause"
    /\ Fault
    /\ UNCHANGED <<command, lastOutput, printed, seen, unclear>>

PollFails ==
    /\ pc = "poll" /\ pc' = "error"
    /\ Fault
    /\ UNCHANGED <<command, lastOutput, printed, seen, unclear>>

\* The timer, or the deadline.  A poll after the deadline fails at once and is
\* transient: it leads here again.
Pause ==
    /\ pc = "pause" /\ pc' \in {"poll", "error"}
    /\ UNCHANGED <<command, lastOutput, printed, seen, unclear, faults>>

-----------------------------------------------------------------------------
(* The command.                                                            *)

Write ==
    /\ status \in {"running", "unknown"} /\ Len(output) < MaxOutput
    /\ \E c \in Letters : output' = Append(output, c)
    /\ UNCHANGED <<status, lastOutput, printed, pc, seen, unclear, faults>>

Change ==
    /\ \/ status = "running" /\ status' \in {"completed", "failed", "unknown"}
       \/ status = "unknown" /\ status' \in {"running", "completed", "failed", "ended", "done"}
    /\ UNCHANGED <<output, lastOutput, printed, pc, seen, unclear, faults>>

-----------------------------------------------------------------------------

Next ==
    \/ Create \/ CreateFails \/ Poll \/ PollTransient \/ PollFails \/ Pause
    \/ Write \/ Change

Spec == Init /\ [][Next]_vars

-----------------------------------------------------------------------------
(* Properties.                                                             *)

\* (What printed holds is said below.)
TypeOK ==
    /\ output \in Seq(Letters) /\ lastOutput \in Seq(Letters)
    /\ status \in {"running", "unknown", "completed", "failed", "ended", "done"}
    /\ pc \in {"create", "poll", "pause", "ok", "error"}
    /\ unclear \in BOOLEAN
    /\ seen \in 0..Len(output) /\ faults \in 0..MaxFaults

\* The user reads what the command wrote, without a gap and without a
\* repetition, through any number of polls, failed polls and shifts of the
\* window, as long as each of them can be told: "Find the overlap so progress
\* bars and remote status lines are not printed repeatedly on every poll."
\* (stackit.go:134-136).
PrintedIsWritten == ~unclear => printed = SubSeq(output, 1, seen)

\* The callers look for their result in what is returned: it is the end of the
\* output of a command that has ended well.
ReturnsFinal ==
    pc = "ok" => status \in {"completed", "done"} /\ lastOutput = Window(Len(output))

\* What was shown last is what the service showed at the last successful poll,
\* and nothing was written after the poll that ended the wait.
Inv ==
    /\ TypeOK
    /\ lastOutput = Window(seen)
    /\ pc = "ok" => status \in {"completed", "done"} /\ seen = Len(output)
=============================================================================
