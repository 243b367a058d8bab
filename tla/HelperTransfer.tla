--------------------------- MODULE HelperTransfer --------------------------
(***************************************************************************)
(* uploadOVAToHelper (helper_transfer.go): the VMDK is streamed over SSH   *)
(* into source.vmdk.tmp on the helper's scratch volume, resumed at the     *)
(* size found there after a dropped connection, and renamed to source.vmdk *)
(* when its size is right.  The scratch volume outlives a helper, so that  *)
(* a later run resumes on the next helper.                                 *)
(*                                                                         *)
(* The disk file is a sequence of Chunks numbered chunks; 0 is a hole.     *)
(***************************************************************************)
EXTENDS Naturals, Sequences

CONSTANTS
    Chunks,      \* length of the VMDK (info.DiskFileBytes)
    Attempts,    \* cfg.UploadAttempts
    Window,      \* most chunks that the remote cat of a dropped session still
                 \* writes after the next session looked at the file
    MaxRuns      \* bound on runs of the installer

ASSUME ChunksAssumption   == Chunks \in Nat \ {0}
ASSUME AttemptsAssumption == Attempts \in Nat \ {0}
ASSUME WindowAssumption   == Window \in Nat
ASSUME RunsAssumption     == MaxRuns \in Nat \ {0}

VARIABLES
    partial,  \* source.vmdk.tmp: <<>> also stands for "no such file"
    final,    \* source.vmdk, likewise
    pc,       \* "dial", "status", "reset", "open", "send", "verify", "next",
              \* "done" or "failed"
    attempt,  \* attempt of this run, from 1
    offset,   \* where this attempt resumes
    next,     \* next chunk this session's cat writes
    late,     \* what the cat of a dropped session has yet to write
    outlived, \* history: whether any cat has outlived its session
    runs      \* runs of the installer so far

vars == <<partial, final, pc, attempt, offset, next, late, outlived, runs>>

Late(left, chunk, at, on) == [left |-> left, chunk |-> chunk, at |-> at, on |-> on]

None == Late(0, 0, 0, "partial")

Vmdk == [k \in 1..Chunks |-> k]

IsPrefix(f) == Len(f) <= Chunks /\ \A k \in 1..Len(f) : f[k] = k

\* Writing a chunk at a position of its own, as a cat started with ">" does.
WriteAt(f, at, c) ==
    [k \in 1..(IF at > Len(f) THEN at ELSE Len(f)) |->
        IF k = at THEN c ELSE IF k <= Len(f) THEN f[k] ELSE 0]

Init ==
    /\ partial = <<>> /\ final = <<>>
    /\ pc = "dial" /\ attempt = 1 /\ offset = 0 /\ next = 1
    /\ late = None /\ outlived = FALSE
    /\ runs = 1

Goto(a, b) == pc = a /\ pc' = b

-----------------------------------------------------------------------------
(* One attempt.                                                            *)

\* dialPinnedSSH redials until it is connected.
Dial ==
    /\ Goto("dial", "status")
    /\ UNCHANGED <<partial, final, attempt, offset, next, late, outlived, runs>>

\* Mutant: any file under the final name counts as staged.
StatusCompleteAnySize ==
    /\ Goto("status", "done")
    /\ final # <<>>
    /\ UNCHANGED <<partial, final, attempt, offset, next, late, outlived, runs>>

\* The status session: COMPLETE, or the size of the partial file.
StatusComplete ==
    /\ Goto("status", "done")
    /\ Len(final) = Chunks
    /\ UNCHANGED <<partial, final, attempt, offset, next, late, outlived, runs>>

Status ==
    /\ Goto("status", IF Len(partial) > Chunks THEN "reset" ELSE "open")
    /\ Len(final) # Chunks
    /\ offset' = IF Len(partial) > Chunks THEN 0 ELSE Len(partial)
    /\ UNCHANGED <<partial, final, attempt, next, late, outlived, runs>>

\* rm -f of a partial file longer than the VMDK; a late cat keeps the inode.
Reset ==
    /\ Goto("reset", "open")
    /\ partial' = <<>>
    /\ late' = IF late.on = "partial" THEN None ELSE late
    /\ UNCHANGED <<final, attempt, offset, next, outlived, runs>>

\* Mutant: ">" whatever the offset.
OpenTruncates ==
    /\ Goto("open", "send")
    /\ partial' = <<>>
    /\ next' = offset + 1
    /\ UNCHANGED <<final, attempt, offset, late, outlived, runs>>

\* "cat >" truncates, "cat >>" appends after the offset that was skipped.
Open ==
    /\ Goto("open", "send")
    /\ partial' = IF offset = 0 THEN <<>> ELSE partial
    /\ next' = offset + 1
    /\ UNCHANGED <<final, attempt, offset, late, outlived, runs>>

Write(c) == IF offset = 0 THEN WriteAt(partial, c, c) ELSE Append(partial, c)

Send ==
    /\ pc = "send" /\ next <= Chunks
    /\ partial' = Write(next)
    /\ next' = next + 1
    /\ UNCHANGED <<final, pc, attempt, offset, late, outlived, runs>>

\* Mutant: a stream that ended early counts as sent.
SentInPart ==
    /\ Goto("send", "verify")
    /\ UNCHANGED <<partial, final, attempt, offset, next, late, outlived, runs>>

\* The stream is at its end and cat returned 0.
Sent ==
    /\ Goto("send", "verify")
    /\ next > Chunks
    /\ UNCHANGED <<partial, final, attempt, offset, next, late, outlived, runs>>

\* test "$(stat -c %s)" = size; mv.  Its error may also be a lost answer.
Verify ==
    /\ pc = "verify"
    /\ IF Len(partial) = Chunks
       THEN /\ pc' \in {"done", "next"}
            /\ final' = partial /\ partial' = <<>>
            /\ late' = IF late.left > 0 /\ late.on = "partial"
                       THEN Late(late.left, late.chunk, late.at, "final") ELSE None
       ELSE pc' = "next" /\ UNCHANGED <<partial, final, late>>
    /\ UNCHANGED <<attempt, offset, next, outlived, runs>>

\* The connection breaks.  Up to Window chunks that were sent are still in the
\* helper's socket and pipe, for its cat to write (of two such cats, one).
Drop ==
    /\ pc \in {"send", "verify"}
    /\ pc' = "next"
    /\ \E n \in 0..Window :
          late' = IF n = 0 \/ pc = "verify" \/ next + n - 1 > Chunks
                  THEN late
                  ELSE Late(n, next, IF offset = 0 THEN next ELSE 0, "partial")
    /\ outlived' = (outlived \/ late' # late)
    /\ UNCHANGED <<partial, final, attempt, offset, next, runs>>

LateWrite ==
    /\ late.left > 0
    /\ LET f == IF late.on = "partial" THEN partial ELSE final
           g == IF late.at = 0 THEN Append(f, late.chunk)
                               ELSE WriteAt(f, late.at, late.chunk)
       IN IF late.on = "partial" THEN partial' = g /\ UNCHANGED final
                                 ELSE final' = g /\ UNCHANGED partial
    /\ late' = IF late.left = 1 THEN None
               ELSE Late(late.left - 1, late.chunk + 1,
                         IF late.at = 0 THEN 0 ELSE late.at + 1, late.on)
    /\ UNCHANGED <<pc, attempt, offset, next, outlived, runs>>

\* Mutant: attempts are not counted.
RetryUncounted ==
    /\ Goto("next", "dial")
    /\ UNCHANGED <<partial, final, attempt, offset, next, late, outlived, runs>>

\* The next attempt, or the end of them.
Retry ==
    /\ pc = "next"
    /\ IF attempt < Attempts THEN pc' = "dial" /\ attempt' = attempt + 1
                             ELSE pc' = "failed" /\ UNCHANGED attempt
    /\ UNCHANGED <<partial, final, offset, next, late, outlived, runs>>

\* A session that cannot be opened, or that fails before anything is sent, and
\* the phase's deadline while dialling, end the upload without a retry.
GiveUp ==
    /\ pc \in {"dial", "status", "reset", "open"}
    /\ pc' = "failed"
    /\ UNCHANGED <<partial, final, attempt, offset, next, late, outlived, runs>>

-----------------------------------------------------------------------------
\* The installer is rerun.  It replaces the helper, which ends a late cat, and
\* what the old helper had not flushed to the scratch volume is lost.
Rerun ==
    /\ runs < MaxRuns
    /\ runs' = runs + 1
    /\ pc' = "dial" /\ attempt' = 1 /\ offset' = 0 /\ next' = 1
    /\ late' = None
    /\ UNCHANGED outlived
    /\ \E n \in 0..Len(partial) : partial' = SubSeq(partial, 1, n)
    /\ \E n \in 0..Len(final) : final' = SubSeq(final, 1, n)

\* Nothing is left to do.
Finished ==
    /\ pc \in {"done", "failed"} /\ runs = MaxRuns
    /\ late.left = 0
    /\ UNCHANGED vars

Attempt == Dial \/ StatusComplete \/ Status \/ Reset \/ Open \/ Send \/ Sent \/ Verify \/ Retry

Next == Attempt \/ Drop \/ GiveUp \/ LateWrite \/ Rerun \/ Finished

\* Either the attempt goes on or its connection breaks.
Spec == Init /\ [][Next]_vars
LiveSpec == Spec /\ WF_vars(Attempt)

-----------------------------------------------------------------------------
(* Properties.                                                             *)

\* Every variable has its type.
TypeOK ==
    /\ partial \in Seq(Nat) /\ final \in Seq(Nat)
    /\ pc \in {"dial", "status", "reset", "open", "send", "verify", "next", "done", "failed"}
    /\ attempt \in 1..Attempts
    /\ offset \in 0..Chunks
    /\ next \in 1..(Chunks + 1)
    /\ late \in [left : Nat, chunk : Nat, at : Nat, on : {"partial", "final"}]
    /\ outlived \in BOOLEAN
    /\ runs \in 1..MaxRuns

\* What uploadOVAToHelper reports as staged, and the import script converts, is
\* the VMDK of the OVA, although only its size was compared; unless a cat has
\* outlived its session.
StagedIsExact == pc = "done" /\ ~outlived => final = Vmdk

\* The partial file is a prefix of the VMDK, and the chunk that a session sends
\* is the one the file lacks.
Exact ==
    /\ late = None
    /\ IsPrefix(partial) /\ IsPrefix(final)
    /\ pc # "reset"
    /\ pc \in {"open", "send", "verify"} => Len(final) # Chunks
    /\ pc = "open" => offset = Len(partial)
    /\ pc = "send" => next = Len(partial) + 1
    /\ pc = "verify" => Len(partial) = Chunks
    /\ pc = "done" => Len(final) = Chunks

\* As long as no cat has outlived its session the files are exact, whatever
\* connections and runs were cut off; with TypeOK this is inductive.
UploadInv == TypeOK /\ (~outlived => Exact)

\* An upload is never restarted from zero while the helper holds a usable part:
\* what a session found there is still there when it sends (architecture.md:43).
NothingResent ==
    [][pc = "open" /\ pc' = "send" /\ ~outlived =>
          next' = Len(partial) + 1 /\ partial' = partial]_vars

\* An upload ends: it is staged, or its attempts are used up.
UploadEnds == <>[](pc \in {"done", "failed"})
=============================================================================
