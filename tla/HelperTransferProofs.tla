------------------------ MODULE HelperTransferProofs ------------------------
(***************************************************************************)
(* Proofs about HelperTransfer, for a VMDK of any length, any number of    *)
(* attempts and of runs: as long as no cat has outlived its session, what  *)
(* is renamed to source.vmdk is the VMDK, chunk for chunk.                 *)
(***************************************************************************)
EXTENDS HelperTransfer, TLAPS

\* What a resumed session appends to a prefix keeps it a prefix.
LEMMA AppendPrefix ==
    ASSUME NEW f \in Seq(Nat), IsPrefix(f), Len(f) < Chunks
    PROVE  /\ Append(f, Len(f) + 1) \in Seq(Nat)
           /\ IsPrefix(Append(f, Len(f) + 1))
           /\ Len(Append(f, Len(f) + 1)) = Len(f) + 1
  BY ChunksAssumption DEF IsPrefix

\* What a first session writes at its own position is an append.
LEMMA WriteIsAppend ==
    ASSUME NEW f \in Seq(Nat), NEW c \in Nat
    PROVE  WriteAt(f, Len(f) + 1, c) = Append(f, c)
  <1> DEFINE n == Len(f) + 1
             g == [k \in 1..n |-> IF k = n THEN c ELSE IF k <= Len(f) THEN f[k] ELSE 0]
  <1>1. WriteAt(f, n, c) = g
    BY DEF WriteAt
  <1>2. g \in Seq(Nat) /\ Len(g) = n
    OBVIOUS
  <1>3. \A k \in 1..n : g[k] = Append(f, c)[k]
    OBVIOUS
  <1>4. Append(f, c) \in Seq(Nat) /\ Len(Append(f, c)) = n
    OBVIOUS
  <1> QED
    BY <1>1, <1>2, <1>3, <1>4

\* What the volume keeps of a prefix is a prefix.
LEMMA TruncatedPrefix ==
    ASSUME NEW f \in Seq(Nat), IsPrefix(f), NEW n \in 0..Len(f)
    PROVE  SubSeq(f, 1, n) \in Seq(Nat) /\ IsPrefix(SubSeq(f, 1, n))
  BY ChunksAssumption DEF IsPrefix

\* A prefix of the VMDK's length is the VMDK.
LEMMA WholePrefix ==
    ASSUME NEW f \in Seq(Nat), IsPrefix(f), Len(f) = Chunks
    PROVE  f = Vmdk
  <1>1. Vmdk \in Seq(Nat) /\ Len(Vmdk) = Chunks
    BY ChunksAssumption DEF Vmdk
  <1>2. \A k \in 1..Chunks : f[k] = Vmdk[k]
    BY DEF Vmdk, IsPrefix
  <1> QED
    BY <1>1, <1>2, ChunksAssumption

-----------------------------------------------------------------------------

\* A file keeps its type when a chunk is written anywhere into it.
LEMMA WriteType ==
    ASSUME NEW f \in Seq(Nat), NEW at \in Nat, NEW c \in Nat
    PROVE  WriteAt(f, at, c) \in Seq(Nat)
  BY DEF WriteAt

\* Nothing is on the helper yet.
LEMMA InitUpload == Init => UploadInv
  <1> SUFFICES ASSUME Init PROVE TypeOK /\ Exact
    BY DEF UploadInv
  <1> USE ChunksAssumption, AttemptsAssumption, RunsAssumption DEF Init, None, Late
  <1>1. TypeOK
    <2>1. outlived \in BOOLEAN
      OBVIOUS
    <2>2. late \in [left : Nat, chunk : Nat, at : Nat, on : {"partial", "final"}]
      OBVIOUS
    <2> QED
      BY <2>1, <2>2 DEF TypeOK
  <1>2. Exact
    BY DEF Exact, IsPrefix
  <1> QED
    BY <1>1, <1>2

\* Types are kept by every step, a late write included.
LEMMA NextType ==
    ASSUME TypeOK, [Next]_vars
    PROVE  TypeOK'
  <1> USE ChunksAssumption, AttemptsAssumption, RunsAssumption, WindowAssumption DEF TypeOK, None, Late
  <1>1. CASE UNCHANGED vars \/ Finished
    BY <1>1 DEF vars, Finished
  <1>2. CASE Dial \/ StatusComplete \/ Sent \/ Retry \/ GiveUp
    BY SMTT(30), <1>2 DEF Dial, StatusComplete, Sent, Retry, GiveUp, Goto
  <1>3. CASE Status
    BY <1>3 DEF Status, Goto
  <1>4. CASE Open
    BY <1>4 DEF Open, Goto
  <1>5. CASE Reset
    BY <1>5 DEF Reset, Goto
  <1>6. CASE Send
    <2>1. Write(next) \in Seq(Nat)
      BY <1>6, WriteType DEF Write
    <2> QED
      BY <1>6, <2>1 DEF Send
  <1>7. CASE Verify
    <2>1. late' \in [left : Nat, chunk : Nat, at : Nat, on : {"partial", "final"}]
      BY <1>7 DEF Verify
    <2>2. partial' \in Seq(Nat) /\ final' \in Seq(Nat)
      <3>1. CASE Len(partial) = Chunks
        <4>1. final' = partial /\ partial' = <<>>
          BY <1>7, <3>1 DEF Verify
        <4> QED
          BY <4>1
      <3>2. CASE Len(partial) # Chunks
        BY <1>7, <3>2 DEF Verify
      <3> QED
        BY <3>1, <3>2
    <2> QED
      BY <1>7, <2>1, <2>2 DEF Verify
  <1>8. CASE Drop
    BY <1>8 DEF Drop
  <1>9. CASE LateWrite
    <2> DEFINE f == IF late.on = "partial" THEN partial ELSE final
               g == IF late.at = 0 THEN Append(f, late.chunk)
                                   ELSE WriteAt(f, late.at, late.chunk)
    <2>1. g \in Seq(Nat)
      <3>1. f \in Seq(Nat) /\ late.at \in Nat /\ late.chunk \in Nat
        OBVIOUS
      <3> HIDE DEF f
      <3>2. WriteAt(f, late.at, late.chunk) \in Seq(Nat)
        BY <3>1, WriteType
      <3> QED
        BY <3>1, <3>2
    <2>2. partial' \in Seq(Nat) /\ final' \in Seq(Nat)
      BY <1>9, <2>1 DEF LateWrite
    <2>3. late' \in [left : Nat, chunk : Nat, at : Nat, on : {"partial", "final"}]
      BY <1>9 DEF LateWrite
    <2> QED
      BY <1>9, <2>2, <2>3 DEF LateWrite
  <1>10. CASE Rerun
    BY SMTT(30), <1>10 DEF Rerun
  <1> QED
    BY <1>1, <1>2, <1>3, <1>4, <1>5, <1>6, <1>7, <1>8, <1>9, <1>10 DEF Next, Attempt

\* Exactness is kept by every step until a cat outlives its session.
LEMMA NextExact ==
    ASSUME UploadInv, [Next]_vars, ~outlived'
    PROVE  Exact'
  <1>1. Exact /\ TypeOK
    BY DEF UploadInv, Next, Attempt, Dial, StatusComplete, Status, Reset, Open, Send, Sent,
           Verify, Retry, Drop, GiveUp, LateWrite, Rerun, Finished, vars
  <1> USE <1>1, ChunksAssumption DEF Exact, TypeOK, None, Late
  <1>2. CASE UNCHANGED vars \/ Finished
    BY SMTT(30), <1>2 DEF vars, Finished, IsPrefix
  <1>3. CASE Dial \/ StatusComplete \/ Status \/ Sent \/ Retry \/ GiveUp
    BY SMTT(30), <1>3 DEF Dial, StatusComplete, Status, Sent, Retry, GiveUp, Goto, IsPrefix
  <1>4. CASE Reset
    BY <1>4 DEF Reset, Goto
  <1>5. CASE Open
    BY <1>5 DEF Open, Goto, IsPrefix
  <1>6. CASE Send
    <2>1. next = Len(partial) + 1 /\ Len(partial) < Chunks
      BY <1>6 DEF Send
    <2>2. Write(next) = Append(partial, Len(partial) + 1)
      BY <2>1, WriteIsAppend DEF Write
    <2>3. partial' \in Seq(Nat) /\ IsPrefix(partial') /\ Len(partial') = Len(partial) + 1
      BY <1>6, <2>1, <2>2, AppendPrefix DEF Send
    <2> QED
      BY <1>6, <2>1, <2>3 DEF Send, IsPrefix
  <1>7. CASE Verify
    BY <1>7 DEF Verify, IsPrefix
  <1>8. CASE Drop
    BY <1>8 DEF Drop, IsPrefix
  <1>9. CASE LateWrite
    BY <1>9 DEF LateWrite
  <1>10. CASE Rerun
    BY <1>10, TruncatedPrefix DEF Rerun
  <1> QED
    BY <1>2, <1>3, <1>4, <1>5, <1>6, <1>7, <1>8, <1>9, <1>10 DEF Next, Attempt

\* In every state, through any number of dropped connections and reruns, the
\* partial file is a prefix of the VMDK, until a cat outlives its session.
THEOREM UploadInvariant == Spec => []UploadInv
  <1>1. UploadInv /\ [Next]_vars => UploadInv'
    BY NextType, NextExact DEF UploadInv
  <1> QED
    BY <1>1, InitUpload, PTL DEF Spec

\* What uploadOVAToHelper reports as staged is the VMDK of the OVA, although
\* only its size was compared, until a cat outlives its session.
THEOREM StagedExactly == Spec => []StagedIsExact
  <1>1. UploadInv => StagedIsExact
    BY WholePrefix DEF UploadInv, Exact, TypeOK, StagedIsExact
  <1> QED
    BY <1>1, UploadInvariant, PTL

\* A resumed session sends exactly what the partial file lacks, and never
\* shortens it (architecture.md: "resumes at the existing byte offset").
THEOREM NothingIsResent == Spec => NothingResent
  <1> DEFINE Kept == pc = "open" /\ pc' = "send" /\ ~outlived =>
                         next' = Len(partial) + 1 /\ partial' = partial
  <1>1. UploadInv /\ [Next]_vars => [Kept]_vars
    <2> SUFFICES ASSUME UploadInv, Next, pc = "open", pc' = "send", ~outlived
                 PROVE  next' = Len(partial) + 1 /\ partial' = partial
      BY DEF vars
    <2>1. Open
      BY DEF Next, Attempt, Dial, StatusComplete, Status, Reset, Send, Sent, Verify, Retry, Drop, GiveUp,
             LateWrite, Rerun, Finished, Goto, UploadInv, Exact, None, Late, vars
    <2> QED
      BY <2>1, ChunksAssumption DEF Open, UploadInv, Exact, TypeOK, IsPrefix
  <1> QED
    BY <1>1, UploadInvariant, PTL DEF Spec, NothingResent
=============================================================================
