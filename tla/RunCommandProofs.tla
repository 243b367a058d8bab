-------------------------- MODULE RunCommandProofs --------------------------
(***************************************************************************)
(* Proofs about RunCommand: what is returned is the end of the output, and *)
(* what was written is printed once, of an output that fits into the       *)
(* window and of any that has outgrown it, as long as each poll can be     *)
(* told.                                                                   *)
(***************************************************************************)
EXTENDS RunCommand, SequenceTheorems, WellFoundedInduction, TLAPS

\* A character more does not change the window of fewer characters.
LEMMA WindowStays ==
    ASSUME NEW o \in Seq(Letters), NEW c \in Letters,
           NEW n \in 0..Len(o), NEW m \in Nat \ {0}
    PROVE  SubSeq(Append(o, c), m, n) = SubSeq(o, m, n)
<1>1. \A k \in m..n : Append(o, c)[k] = o[k] /\ o[k] \in Letters
  BY AppendProperties
<1>2. SubSeq(Append(o, c), m, n) \in Seq(Letters) /\ SubSeq(o, m, n) \in Seq(Letters)
  BY <1>1, SubSeqProperties
<1>3. /\ Len(SubSeq(Append(o, c), m, n)) = Len(SubSeq(o, m, n))
      /\ Len(SubSeq(o, m, n)) = IF m <= n THEN n - m + 1 ELSE 0
  BY <1>1, SubSeqProperties
<1>4. \A k \in 1..(n - m + 1) : SubSeq(Append(o, c), m, n)[k] = SubSeq(o, m, n)[k]
  <2> SUFFICES ASSUME NEW k \in 1..(n - m + 1)
               PROVE  SubSeq(Append(o, c), m, n)[k] = SubSeq(o, m, n)[k]
    OBVIOUS
  <2>1. m + k - 1 \in m..n
    OBVIOUS
  <2>2. SubSeq(o, m, n)[k] = o[m + k - 1]
    BY <1>1, SubSeqProperties
  <2>3. SubSeq(Append(o, c), m, n)[k] = Append(o, c)[m + k - 1]
    BY <1>1, SubSeqProperties
  <2> QED BY <1>1, <2>1, <2>2, <2>3
<1> QED BY <1>2, <1>3, <1>4, SeqEqual

\* What the service shows is text.
LEMMA WindowType ==
    ASSUME output \in Seq(Letters), NEW n \in 0..Len(output)
    PROVE  Window(n) \in Seq(Letters)
<1> DEFINE m == IF n > Limit THEN n - Limit + 1 ELSE 1
<1>1. m \in Nat \ {0}
  BY LimitAssumption
<1>2. \A k \in m..n : output[k] \in Letters
  BY <1>1
<1> QED BY <1>1, <1>2, SubSeqProperties DEF Window

THEOREM Initially == Init => Inv
<1> SUFFICES ASSUME Init PROVE Inv
  OBVIOUS
<1>1. Window(0) = <<>>
  BY LimitAssumption, SubSeqEmpty DEF Window, Init
<1>2. /\ seen \in 0..Len(output) /\ seen = 0
      /\ output \in Seq(Letters) /\ lastOutput \in Seq(Letters) /\ lastOutput = <<>>
  BY DEF Init
<1>3. faults \in 0..MaxFaults
  BY BoundAssumption DEF Init
<1>4. /\ status \in {"running", "unknown", "completed", "failed", "ended", "done"}
      /\ pc \in {"create", "poll", "pause", "ok", "error"} /\ pc # "ok"
      /\ unclear \in BOOLEAN
  BY DEF Init
<1> QED BY <1>1, <1>2, <1>3, <1>4 DEF Inv, TypeOK

LEMMA WritePreserves == Inv /\ Write => Inv'
<1> SUFFICES ASSUME Inv, Write PROVE Inv'
  OBVIOUS
<1> USE DEF Inv, TypeOK
<1> PICK c \in Letters : output' = Append(output, c)
  BY DEF Write
<1>1. output' \in Seq(Letters) /\ Len(output') = Len(output) + 1
  BY AppendProperties
<1>2. Window(seen)' = Window(seen)
  <2> DEFINE m == IF seen > Limit THEN seen - Limit + 1 ELSE 1
  <2>1. m \in Nat \ {0}
    BY LimitAssumption
  <2>2. SubSeq(output', m, seen) = SubSeq(output, m, seen)
    BY <2>1, WindowStays
  <2> QED BY <2>2 DEF Window, Write
<1>3. pc' # "ok"
  BY DEF Write
<1> QED BY <1>1, <1>2, <1>3 DEF Write

LEMMA PollPreserves == Inv /\ Poll => Inv'
<1> SUFFICES ASSUME Inv, Poll PROVE Inv'
  OBVIOUS
<1> USE DEF Inv, TypeOK
<1>1. UNCHANGED <<output, status, faults>> /\ seen' = Len(output)
  BY DEF Poll, command
<1>2. lastOutput' = Window(Len(output))
  BY DEF Poll
<1>3. lastOutput' = Window(seen)'
  BY <1>1, <1>2 DEF Window
<1>4. lastOutput' \in Seq(Letters)
  BY <1>2, WindowType
<1>5. unclear' \in BOOLEAN
  BY DEF Poll, Clear
<1>6. pc' \in {"ok", "error", "pause"} /\ (pc' = "ok" => status \in {"completed", "done"})
  BY DEF Poll, End
<1> QED BY <1>1, <1>3, <1>4, <1>5, <1>6

\* The invariant: the last successful poll shows the window of its time, and
\* the wait ends well only on an output that has ended.
THEOREM CommandInvariant == Spec => []Inv
<1>1. Inv /\ [Next]_vars => Inv'
  <2> SUFFICES ASSUME Inv, [Next]_vars PROVE Inv'
    OBVIOUS
  <2> USE DEF Inv, TypeOK
  <2>1. CASE Create
    BY <2>1 DEF Create, command, Window
  <2>2. CASE CreateFails
    BY <2>2, BoundAssumption DEF CreateFails, Fault, command, Window
  <2>3. CASE Poll
    BY <2>3, PollPreserves
  <2>4. CASE PollTransient
    BY <2>4, BoundAssumption DEF PollTransient, Fault, command, Window
  <2>5. CASE PollFails
    BY <2>5, BoundAssumption DEF PollFails, Fault, command, Window
  <2>6. CASE Pause
    BY <2>6 DEF Pause, command, Window
  <2>7. CASE Write
    BY <2>7, WritePreserves
  <2>8. CASE Change
    BY <2>8 DEF Change, Window
  <2>9. CASE UNCHANGED vars
    BY <2>9 DEF vars, Window
  <2> QED BY <2>1, <2>2, <2>3, <2>4, <2>5, <2>6, <2>7, <2>8, <2>9 DEF Next
<1> QED BY <1>1, Initially, PTL DEF Spec

\* A wait that ends well returns the end of the whole output.
THEOREM ReturnsTheEnd == Spec => []ReturnsFinal
<1>1. Inv => ReturnsFinal
  BY DEF Inv, ReturnsFinal
<1> QED BY <1>1, CommandInvariant, PTL

\* A text up to some place begins the text.
LEMMA PrefixOfText ==
    ASSUME NEW o \in Seq(Letters), NEW n \in 0..Len(o)
    PROVE  IsPrefix(SubSeq(o, 1, n), o) /\ Len(SubSeq(o, 1, n)) = n
<1> DEFINE before == SubSeq(o, 1, n)
<1>1. before \in Seq(Letters) /\ Len(before) = n
  <2>1. \A k \in 1..n : o[k] \in Letters
    OBVIOUS
  <2> QED
    BY <2>1, SubSeqProperties
<1> HIDE DEF before
<1>2. SubSeq(before, 1, n) = before
  BY <1>1, SubSeqFull
<1>3. IsPrefix(before, o)
  BY <1>1, <1>2 DEF IsPrefix, before
<1> QED
  BY <1>1, <1>3 DEF before

\* A previous output that is the beginning of the current one is taken off.
LEMMA GrowingDelta ==
    ASSUME NEW o \in Seq(Letters), NEW n \in 0..Len(o)
    PROVE  SubSeq(o, 1, n) \o Delta(SubSeq(o, 1, n), o) = o
<1> DEFINE before == SubSeq(o, 1, n)
<1>1. IsPrefix(before, o) /\ Len(before) = n
  BY PrefixOfText
<1> HIDE DEF before
<1>4. Delta(before, o) = SubSeq(o, n + 1, Len(o))
  BY <1>1 DEF Delta, Overlap
<1>5. SubSeq(o, 1, n) \o SubSeq(o, n + 1, Len(o)) = SubSeq(o, 1, Len(o))
  <2>1. 1 \in 1..(Len(o) + 1) /\ n \in (1 - 1)..Len(o) /\ Len(o) \in n..Len(o)
    OBVIOUS
  <2> QED BY <2>1, ConcatAdjacentSubSeq
<1>6. SubSeq(o, 1, n) \o Delta(before, o) = o
  BY <1>4, <1>5, SubSeqFull
<1> QED BY <1>6 DEF before

\* While the output fits into the window, all of it has been printed once, up to
\* the last successful poll: commandOutputDelta on a growing buffer.
Whole == Len(output) <= Limit => printed = SubSeq(output, 1, seen)

THEOREM GrowingIsPrinted == Spec => []Whole
<1>1. Init => Whole
  BY SubSeqEmpty DEF Init, Whole
<1>2. Inv /\ Whole /\ [Next]_vars => Whole'
  <2> SUFFICES ASSUME Inv, Whole, [Next]_vars, Len(output') <= Limit
               PROVE  printed' = SubSeq(output', 1, seen')
    BY DEF Whole
  <2> USE DEF Inv, TypeOK, Whole
  <2>1. CASE Write
    <3> PICK c \in Letters : output' = Append(output, c)
      BY <2>1 DEF Write
    <3>1. Len(output) <= Limit /\ UNCHANGED <<printed, seen>>
      BY <2>1, LimitAssumption, AppendProperties DEF Write
    <3>2. SubSeq(output', 1, seen) = SubSeq(output, 1, seen)
      BY WindowStays
    <3> QED BY <3>1, <3>2
  <2>2. CASE Poll
    <3>1. output' = output /\ seen' = Len(output) /\ printed = SubSeq(output, 1, seen)
      BY <2>2 DEF Poll, command
    <3>2. Window(Len(output)) = output /\ lastOutput = SubSeq(output, 1, seen)
      <4>1. ~(Len(output) > Limit) /\ ~(seen > Limit)
        BY <3>1, LimitAssumption
      <4>2. Window(Len(output)) = SubSeq(output, 1, Len(output))
        BY <4>1 DEF Window
      <4>3. Window(seen) = SubSeq(output, 1, seen)
        BY <4>1 DEF Window
      <4> QED BY <4>2, <4>3, SubSeqFull
    <3>3. SubSeq(output', 1, seen') = output
      BY <3>1, SubSeqFull
    <3>4. CASE output = lastOutput
      BY <2>2, <3>1, <3>2, <3>3, <3>4 DEF Poll
    <3>5. CASE output # lastOutput
      <4>1. printed' = printed \o Delta(lastOutput, output)
        BY <2>2, <3>2, <3>5 DEF Poll
      <4>2. SubSeq(output, 1, seen) \o Delta(SubSeq(output, 1, seen), output) = output
        BY GrowingDelta
      <4> QED BY <3>1, <3>2, <3>3, <4>1, <4>2
    <3> QED BY <3>4, <3>5
  <2>3. CASE UNCHANGED <<output, printed, seen>>
    BY <2>3
  <2> QED
    BY <2>1, <2>2, <2>3
       DEF Next, vars, command, Create, CreateFails, PollTransient, PollFails, Pause, Change
<1> QED BY <1>1, <1>2, CommandInvariant, PTL DEF Spec

-----------------------------------------------------------------------------
(* Sets of numbers.                                                        *)

\* A set of natural numbers has a least one.
LEMMA LeastNumber ==
    ASSUME NEW T, T \subseteq Nat, T # {} PROVE \E x \in T : \A y \in T : x <= y
<1> DEFINE R == OpToRel(<, Nat)
<1>1. IsWellFoundedOn(R, Nat)
  BY NatLessThanWellFounded
<1>2. \A x, y \in Nat : y < x => <<y, x>> \in R
  BY DEF OpToRel
<1> HIDE DEF R
<1>3. PICK x \in T : \A y \in T : ~ (<<y, x>> \in R)
  BY <1>1, WFMin
<1>4. ASSUME NEW y \in T PROVE x <= y
  <2>1. x \in Nat /\ y \in Nat
    OBVIOUS
  <2>2. ~(y < x)
    BY <1>2, <1>3, <1>4, <2>1
  <2> QED
    BY <2>1, <2>2
<1> QED
  BY <1>4

\* A bounded set of integers has a greatest one.
LEMMA GreatestNumber ==
    ASSUME NEW S, S \subseteq Int, S # {}, NEW b \in Int, \A x \in S : x <= b
    PROVE  Max(S) \in S /\ \A y \in S : y <= Max(S)
<1> DEFINE T == {b - x : x \in S}
<1>1. T \subseteq Nat /\ T # {}
  <2>1. \A x \in S : b - x \in Nat
    OBVIOUS
  <2> QED
    BY <2>1
<1> HIDE DEF T
<1>2. PICK t \in T : \A u \in T : t <= u
  BY <1>1, LeastNumber
<1>3. PICK x \in S : t = b - x
  BY <1>2 DEF T
<1>4. ASSUME NEW y \in S PROVE x >= y
  <2>1. b - y \in T /\ x \in Int /\ y \in Int
    BY DEF T
  <2>2. b - x <= b - y
    BY <1>2, <1>3, <2>1
  <2> QED
    BY <2>1, <2>2
<1>5. Max(S) \in S /\ \A y \in S : Max(S) >= y
  BY <1>4 DEF Max
<1> QED
  BY <1>5

\* The least of two.
LEMMA LesserNumber ==
    ASSUME NEW m \in Int, NEW n \in Int, m <= n PROVE Min({m, n}) = m
<1>1. \E x \in {m, n} : \A y \in {m, n} : x <= y
  OBVIOUS
<1>2. Min({m, n}) \in {m, n} /\ \A y \in {m, n} : Min({m, n}) <= y
  BY <1>1 DEF Min
<1> QED
  BY <1>2

\* Induction: what holds of a number when it holds of all smaller ones holds
\* of all, S being the set of those of which it holds.
LEMMA SetInduction ==
    ASSUME NEW N \in Nat, NEW S,
           \A n \in 0..N : (\A m \in 0..(n - 1) : m \in S) => n \in S
    PROVE  \A n \in 0..N : n \in S
<1> DEFINE T == (0..N) \ S
<1> SUFFICES ASSUME T # {} PROVE FALSE
  OBVIOUS
<1>1. T \subseteq Nat
  OBVIOUS
<1>2. PICK n \in T : \A m \in T : n <= m
  BY <1>1, LeastNumber
<1>3. \A m \in 0..(n - 1) : m \in 0..N /\ ~(n <= m)
  OBVIOUS
<1>4. \A m \in 0..(n - 1) : m \in S
  BY <1>2, <1>3
<1> QED
  BY <1>4

-----------------------------------------------------------------------------
(* The search of commandOutputDelta.                                       *)

\* A table of what is found from each end, up to n: either at the end itself,
\* or what is found from an earlier one.
Tabulates(f, n, last, found, stops) ==
    /\ f \in [0..n -> Int]
    /\ \A e \in 0..n : f[e] = IF e \in stops THEN found[e] ELSE f[last[e]]

Tabulated(n, last, found, stops) == \E f : Tabulates(f, n, last, found, stops)

\* One more end.
LEMMA OneMore ==
    ASSUME NEW n \in Nat, NEW last, NEW found, NEW stops,
           n \in stops => found[n] \in Int,
           \A e \in 0..n : e \notin stops => last[e] \in 0..(e - 1),
           n # 0 => Tabulated(n - 1, last, found, stops)
    PROVE  Tabulated(n, last, found, stops)
<1>1. CASE n = 0
  <2> DEFINE f == [e \in 0..n |-> found[n]]
  <2>1. n \in stops /\ \A e \in 0..n : e = n
    BY <1>1
  <2>2. f \in [0..n -> Int] /\ \A e \in 0..n : f[e] = found[e]
    BY <2>1
  <2> HIDE DEF f
  <2>3. Tabulates(f, n, last, found, stops)
    BY <2>1, <2>2 DEF Tabulates
  <2> QED
    BY <2>3 DEF Tabulated
<1>2. CASE n # 0
  <2>1. PICK f : Tabulates(f, n - 1, last, found, stops)
    BY <1>2 DEF Tabulated
  <2> DEFINE v == IF n \in stops THEN found[n] ELSE f[last[n]]
             g == [e \in 0..n |-> IF e = n THEN v ELSE f[e]]
  <2>2. n \notin stops => last[n] \in 0..(n - 1)
    OBVIOUS
  <2>3. v \in Int
    BY <2>1, <2>2 DEF Tabulates
  <2> HIDE DEF v
  <2>4. \A e \in 0..(n - 1) : f[e] \in Int
    BY <2>1 DEF Tabulates
  <2>5. \A e \in 0..n : e # n => e \in 0..(n - 1)
    OBVIOUS
  <2>6. \A e \in 0..(n - 1) : e \in 0..n /\ e # n
    OBVIOUS
  <2>7. g \in [0..n -> Int]
    BY <2>3, <2>4, <2>5
  <2>8. g[n] = v /\ \A e \in 0..(n - 1) : g[e] = f[e]
    BY <2>6
  <2> HIDE DEF g
  <2>9. ASSUME NEW e \in 0..n PROVE g[e] = IF e \in stops THEN found[e] ELSE g[last[e]]
    <3>1. CASE e = n
      BY <2>2, <2>8, <3>1 DEF v
    <3>2. CASE e # n
      <4>1. e \in 0..(n - 1)
        BY <3>2
      <4>2. e \notin stops => last[e] \in 0..(n - 1)
        <5>1. e \notin stops => last[e] \in 0..(e - 1)
          OBVIOUS
        <5> QED
          BY <4>1, <5>1
      <4>3. f[e] = IF e \in stops THEN found[e] ELSE f[last[e]]
        BY <2>1, <4>1 DEF Tabulates
      <4> QED
        BY <2>8, <4>1, <4>2, <4>3
    <3> QED
      BY <3>1, <3>2
  <2>10. Tabulates(g, n, last, found, stops)
    BY <2>7, <2>9 DEF Tabulates
  <2> QED
    BY <2>10 DEF Tabulated
<1> QED
  BY <1>1, <1>2

\* A search that goes on to an earlier end, or stops, comes to a result.
LEMMA SearchEnds ==
    ASSUME NEW N \in Nat, NEW last, NEW found, NEW stops,
           \A e \in 0..N : IF e \in stops THEN found[e] \in Int ELSE last[e] \in 0..(e - 1)
    PROVE  Tabulated(N, last, found, stops)
<1> DEFINE S == {n \in 0..N : Tabulated(n, last, found, stops)}
<1>1. ASSUME NEW n \in 0..N, \A m \in 0..(n - 1) : m \in S
      PROVE  n \in S
  <2>1. n # 0 => n - 1 \in 0..(n - 1)
    OBVIOUS
  <2>2. n # 0 => Tabulated(n - 1, last, found, stops)
    BY <1>1, <2>1
  <2>3. n \in Nat /\ \A e \in 0..n : e \in 0..N
    OBVIOUS
  <2>4. Tabulated(n, last, found, stops)
    BY <2>2, <2>3, OneMore
  <2> QED
    BY <2>4
<1> HIDE DEF S
<1>2. \A n \in 0..N : n \in S
  BY <1>1, SetInduction
<1> QED
  BY <1>2 DEF S

\* What the loop finds when it has come to an end, as LongOverlap has it.
Found(previous, current, probe, f, end) ==
    LET index   == LastIndex(previous, end, probe)
        overlap == Len(previous) - index
    IN  IF end = 0 \/ index < 0 THEN 0
        ELSE IF Overlaps(previous, current, overlap) THEN overlap ELSE f[index]

Searched(previous, current, probe) ==
    CHOOSE f : f = [end \in 0..Len(previous) |-> Found(previous, current, probe, f, end)]

LEMMA LongOverlapSearches ==
    ASSUME NEW previous, NEW current, NEW probe,
           probe = SubSeq(current, 1, Min({Probe, Len(current)})), probe # <<>>
    PROVE  LongOverlap(previous, current) = Searched(previous, current, probe)[Len(previous)]
  BY DEF LongOverlap, Searched, Found

\* The last place of the probe in front of an end.
LEMMA LastPlace ==
    ASSUME NEW previous, NEW end \in Nat, NEW probe, Len(probe) \in Nat \ {0}
    PROVE  /\ LastIndex(previous, end, probe) \in -1..(end - 1)
           /\ LastIndex(previous, end, probe) >= 0 =>
                 /\ LastIndex(previous, end, probe) + Len(probe) <= end
                 /\ At(previous, LastIndex(previous, end, probe), probe)
           /\ \A k \in 0..(end - Len(probe)) :
                 At(previous, k, probe) => k <= LastIndex(previous, end, probe)
<1> DEFINE S == {-1} \cup {k \in 0..(end - Len(probe)) : At(previous, k, probe)}
<1>1. S \subseteq Int /\ S # {} /\ end \in Int /\ -1 \in S
  OBVIOUS
<1>2. \A k \in S : k \in -1..(end - 1) /\ k <= end /\ (k >= 0 => k + Len(probe) <= end)
  OBVIOUS
<1>3. \A k \in S : k >= 0 => At(previous, k, probe)
  OBVIOUS
<1>4. \A k \in 0..(end - Len(probe)) : At(previous, k, probe) => k \in S
  OBVIOUS
<1>5. LastIndex(previous, end, probe) = Max(S)
  BY DEF LastIndex
<1> HIDE DEF S
<1>6. Max(S) \in S /\ \A k \in S : k <= Max(S)
  BY <1>1, <1>2, GreatestNumber
<1> QED
  BY <1>2, <1>3, <1>4, <1>5, <1>6

\* What the loop finds is what its body says, at every end.
LEMMA SearchedIs ==
    ASSUME NEW previous \in Seq(Letters), NEW current, NEW probe, Len(probe) \in Nat \ {0}
    PROVE  \A e \in 0..Len(previous) :
               Searched(previous, current, probe)[e]
                 = Found(previous, current, probe, Searched(previous, current, probe), e)
<1> DEFINE N == Len(previous)
           last == [e \in 0..N |-> LastIndex(previous, e, probe)]
           at(e) == LastIndex(previous, e, probe)
           stops == {e \in 0..N : e = 0 \/ at(e) < 0 \/ Overlaps(previous, current, N - at(e))}
           found == [e \in 0..N |-> IF e = 0 \/ at(e) < 0 THEN 0 ELSE N - at(e)]
<1>1. N \in Nat
  OBVIOUS
<1>2. \A e \in 0..N : at(e) \in -1..(e - 1)
  BY <1>1, LastPlace
<1>3. \A e \in 0..N : IF e \in stops THEN found[e] \in Int ELSE last[e] \in 0..(e - 1)
  <2> SUFFICES ASSUME NEW e \in 0..N
               PROVE  IF e \in stops THEN found[e] \in Int ELSE last[e] \in 0..(e - 1)
    OBVIOUS
  <2>1. at(e) \in -1..(e - 1) /\ last[e] = at(e)
    BY <1>2
  <2> HIDE DEF last
  <2>2. e \notin stops => ~(at(e) < 0)
    OBVIOUS
  <2>3. found[e] = IF e = 0 \/ at(e) < 0 THEN 0 ELSE N - at(e)
    OBVIOUS
  <2> HIDE DEF stops, found
  <2> QED
    BY <1>1, <2>1, <2>2, <2>3
<1>4. \A f : \A e \in 0..N :
          Found(previous, current, probe, f, e) = IF e \in stops THEN found[e] ELSE f[last[e]]
  BY DEF Found
<1> HIDE DEF last, stops, found
<1>5. PICK f : Tabulates(f, N, last, found, stops)
  BY <1>1, <1>3, SearchEnds DEF Tabulated
<1>6. f = [e \in 0..N |-> f[e]] /\ \A e \in 0..N : f[e] = Found(previous, current, probe, f, e)
  BY <1>4, <1>5 DEF Tabulates
<1>7. f = [e \in 0..N |-> Found(previous, current, probe, f, e)]
  BY <1>6
<1> DEFINE g == Searched(previous, current, probe)
<1>8. g = [e \in 0..N |-> Found(previous, current, probe, g, e)]
  BY <1>7 DEF Searched
<1> HIDE DEF g
<1>9. \A e \in 0..N : g[e] = Found(previous, current, probe, g, e)
  BY <1>8
<1> QED
  BY <1>9 DEF g

\* What follows the place of an overlap begins with the probe.
LEMMA ProbeAtPlace ==
    ASSUME NEW previous \in Seq(Letters), NEW current \in Seq(Letters), NEW n \in Nat,
           Probe <= n, Overlaps(previous, current, n)
    PROVE  /\ SubSeq(current, 1, Probe) \in Seq(Letters) /\ Len(SubSeq(current, 1, Probe)) = Probe
           /\ At(previous, Len(previous) - n, SubSeq(current, 1, Probe))
<1> DEFINE N == Len(previous)
           place == N - n
           probe == SubSeq(current, 1, Probe)
<1>1. /\ Probe \in Nat \ {0} /\ N \in Nat /\ Len(current) \in Nat
      /\ n <= N /\ n <= Len(current) /\ place \in Nat
      /\ SubSeq(previous, place + 1, N) = SubSeq(current, 1, n)
  BY LimitAssumption DEF Overlaps
<1>2. \A k \in 1..Probe : current[k] \in Letters
  BY <1>1
<1>3. /\ probe \in Seq(Letters) /\ Len(probe) = Probe
      /\ \A k \in 1..Probe : probe[k] = current[k]
  BY <1>1, <1>2, SubSeqProperties
<1>4. \A k \in 1..n : current[k] \in Letters
  BY <1>1
<1>5. \A k \in 1..n : SubSeq(current, 1, n)[k] = current[k]
  BY <1>1, <1>4, SubSeqProperties
<1>6. \A k \in (place + 1)..N : previous[k] \in Letters
  BY <1>1
<1>7. \A k \in 1..n : SubSeq(previous, place + 1, N)[k] = previous[place + k]
  <2>1. \A k \in 1..(N - (place + 1) + 1) :
            SubSeq(previous, place + 1, N)[k] = previous[place + 1 + k - 1]
    <3> HIDE DEF N, place, probe
    <3>1. place + 1 \in Int /\ N \in Int
      BY <1>1
    <3> QED
      BY <1>6, <3>1, SubSeqProperties
  <2>2. \A k \in 1..n : k \in 1..(N - (place + 1) + 1) /\ place + 1 + k - 1 = place + k
    BY <1>1
  <2> QED
    BY <2>1, <2>2
<1>8. \A k \in 1..Probe : previous[place + k] = current[k]
  <2>1. \A k \in 1..Probe : k \in 1..n
    BY <1>1
  <2>2. \A k \in 1..n : previous[place + k] = current[k]
    <3> HIDE DEF N, place
    <3> QED
      BY <1>1, <1>5, <1>7
  <2> HIDE DEF N, place
  <2> QED
    BY <2>1, <2>2
<1> DEFINE here == SubSeq(previous, place + 1, place + Probe)
<1>9. /\ here \in Seq(Letters) /\ Len(here) = Probe
      /\ \A k \in 1..Probe : here[k] = previous[place + k]
  <2>1. \A k \in (place + 1)..(place + Probe) : previous[k] \in Letters
    BY <1>1
  <2>2. /\ here \in Seq(Letters)
        /\ Len(here) = IF place + 1 <= place + Probe THEN place + Probe - (place + 1) + 1 ELSE 0
        /\ \A k \in 1..(place + Probe - (place + 1) + 1) : here[k] = previous[place + 1 + k - 1]
    BY <1>1, <2>1, SubSeqProperties
  <2> HIDE DEF here
  <2>3. /\ place + Probe - (place + 1) + 1 = Probe /\ place + 1 <= place + Probe
        /\ \A k \in 1..Probe : place + 1 + k - 1 = place + k
    BY <1>1
  <2> QED
    BY <2>2, <2>3
<1>10. here = probe
  <2> HIDE DEF here, probe
  <2> QED
    BY <1>3, <1>8, <1>9, SeqEqual
<1>11. place + Len(probe) <= N
  <2> HIDE DEF probe
  <2> QED
    BY <1>1, <1>3
<1> QED
  BY <1>3, <1>10, <1>11 DEF At

\* The search finds the overlap that it can be told.
LEMMA OverlapFound ==
    ASSUME NEW previous \in Seq(Letters), NEW current \in Seq(Letters), NEW n \in Nat,
           Probe <= n, Overlaps(previous, current, n), Len(previous) <= Limit,
           \A k \in Probe..Limit : Overlaps(previous, current, k) => k = n,
           \A k \in 1..(Probe - 1) :
               ~At(previous, Len(previous) - n + k, SubSeq(current, 1, Probe))
    PROVE  LongOverlap(previous, current) = n
<1> DEFINE N == Len(previous)
           place == N - n
           probe == SubSeq(current, 1, Probe)
           g == Searched(previous, current, probe)
           S == {e \in 0..N : place + Probe <= e => g[e] = n}
<1>1. /\ Probe \in Nat \ {0} /\ N \in Nat /\ Len(current) \in Nat /\ Limit \in Nat
      /\ n <= N /\ n <= Len(current) /\ place \in Nat /\ place + n = N
  BY LimitAssumption DEF Overlaps
<1>2. Len(probe) = Probe /\ At(previous, place, probe)
  BY ProbeAtPlace
<1>3. probe # <<>> /\ Min({Probe, Len(current)}) = Probe
  BY <1>1, <1>2, LesserNumber
<1>4. LongOverlap(previous, current) = g[N]
  BY <1>3, LongOverlapSearches
<1>5. \A e \in 0..N : g[e] = Found(previous, current, probe, g, e)
  <2>1. Len(probe) \in Nat \ {0}
    BY <1>1, <1>2
  <2> HIDE DEF probe
  <2> QED
    BY <2>1, SearchedIs
<1>6. \A k \in 1..(Probe - 1) : ~At(previous, place + k, probe)
  OBVIOUS
<1> HIDE DEF g, probe
<1>7. ASSUME NEW e \in 0..N, \A m \in 0..(e - 1) : m \in S, place + Probe <= e
      PROVE  g[e] = n
  <2> DEFINE index == LastIndex(previous, e, probe)
  <2>1. /\ index \in -1..(e - 1)
        /\ index >= 0 => index + Probe <= e /\ At(previous, index, probe)
        /\ \A k \in 0..(e - Probe) : At(previous, k, probe) => k <= index
    BY <1>1, <1>2, LastPlace
  <2>2. g[e] = IF e = 0 \/ index < 0 THEN 0
               ELSE IF Overlaps(previous, current, N - index) THEN N - index ELSE g[index]
    BY <1>5 DEF Found
  <2> HIDE DEF index
  <2>3. place \in 0..(e - Probe)
    BY <1>1, <1>7
  <2>4. place <= index /\ e # 0
    BY <1>1, <1>2, <1>7, <2>1, <2>3
  <2>5. CASE index = place
    <3>1. N - index = n /\ ~(index < 0)
      BY <1>1, <2>5
    <3> QED
      BY <2>2, <2>4, <3>1
  <2>6. CASE index # place
    <3>1. place + Probe <= index
      <4>1. index \in Nat /\ place \in Nat /\ Probe \in Nat /\ At(previous, index, probe)
        BY <1>1, <2>1, <2>4
      <4> HIDE DEF place
      <4> SUFFICES ASSUME ~(place + Probe <= index) PROVE FALSE
        OBVIOUS
      <4> DEFINE k == index - place
      <4>2. k \in 1..(Probe - 1) /\ place + k = index
        BY <2>4, <2>6, <4>1
      <4> HIDE DEF k
      <4> QED
        BY <1>6, <4>1, <4>2
    <3>2. N - index \in Probe..Limit /\ N - index # n /\ index \in 0..(e - 1) /\ ~(index < 0)
      <4>1. N <= Limit /\ e <= N /\ index \in Nat /\ e \in Nat
        BY <1>1, <2>1, <2>4
      <4>2. index + Probe <= e /\ index \in 0..(e - 1)
        BY <2>1, <4>1
      <4> HIDE DEF N, place
      <4> QED
        BY <1>1, <2>6, <4>1, <4>2
    <3>3. ~Overlaps(previous, current, N - index)
      BY <3>2
    <3>4. g[index] = n
      BY <1>7, <3>1, <3>2
    <3> QED
      BY <2>2, <2>4, <3>2, <3>3, <3>4
  <2> QED
    BY <2>5, <2>6
<1>8. ASSUME NEW e \in 0..N, \A m \in 0..(e - 1) : m \in S PROVE e \in S
  BY <1>7, <1>8
<1> HIDE DEF S
<1>9. \A e \in 0..N : e \in S
  BY <1>1, <1>8, SetInduction
<1>10. N \in S
  BY <1>1, <1>9
<1>11. g[N] = n
  BY <1>1, <1>10 DEF S
<1> QED
  BY <1>4, <1>11

-----------------------------------------------------------------------------
(* What a poll shows beyond the poll before.                               *)

\* A part of a part of a text.
LEMMA PartOfPart ==
    ASSUME NEW o \in Seq(Letters), NEW i \in 1..Len(o), NEW j \in 1..Len(o),
           NEW m \in 1..(j - i + 1), NEW n \in 1..(j - i + 1)
    PROVE  SubSeq(SubSeq(o, i, j), m, n) = SubSeq(o, i + m - 1, i + n - 1)
  BY SubSeqOfSubSeq

\* The windows of two polls share what neither has lost.
LEMMA WindowsOverlap ==
    ASSUME NEW o \in Seq(Letters), NEW s \in 0..Len(o), NEW b \in 1..Len(o), NEW a \in 1..s,
           Len(o) > Limit, b = Len(o) - Limit + 1, s - b + 1 >= Probe,
           a = IF s > Limit THEN s - Limit + 1 ELSE 1
    PROVE  /\ Len(SubSeq(o, a, s)) <= Limit /\ Len(SubSeq(o, b, Len(o))) = Limit
           /\ Overlaps(SubSeq(o, a, s), SubSeq(o, b, Len(o)), s - b + 1)
<1> DEFINE L == Len(o)
           m == s - b + 1
<1>1. /\ L \in Nat /\ Limit \in Nat /\ Probe \in Nat \ {0} /\ s \in Nat
      /\ b \in 1..L /\ a \in 1..L /\ s \in 1..L /\ L \in 1..L /\ m \in 1..Limit
      /\ a <= b /\ b <= s /\ s - a + 1 <= Limit
  BY LimitAssumption
<1>2. \A k \in a..s : o[k] \in Letters
  BY <1>1
<1>3. Len(SubSeq(o, a, s)) = s - a + 1
  BY <1>1, <1>2, SubSeqProperties
<1>4. \A k \in b..L : o[k] \in Letters
  BY <1>1
<1>5. Len(SubSeq(o, b, L)) = L - b + 1 /\ L - b + 1 = Limit
  BY <1>1, <1>4, SubSeqProperties
<1> HIDE DEF L
<1>6. SubSeq(SubSeq(o, a, s), b - a + 1, s - a + 1) = SubSeq(o, b, s)
  <2> DEFINE x == b - a + 1
             y == s - a + 1
  <2>1. x \in 1..(s - a + 1) /\ y \in 1..(s - a + 1) /\ a + x - 1 = b /\ a + y - 1 = s
    BY <1>1
  <2>2. a \in 1..Len(o) /\ s \in 1..Len(o)
    BY <1>1 DEF L
  <2> HIDE DEF x, y, m
  <2>3. SubSeq(SubSeq(o, a, s), x, y) = SubSeq(o, a + x - 1, a + y - 1)
    BY <2>1, <2>2, PartOfPart, ZenonT(30)
  <2> QED
    BY <2>1, <2>3 DEF x, y
<1>7. SubSeq(SubSeq(o, b, L), 1, m) = SubSeq(o, b, s)
  <2>1. 1 \in 1..(L - b + 1) /\ m \in 1..(L - b + 1)
    BY <1>1, <1>5
  <2>2. b + 1 - 1 = b /\ b + m - 1 = s
    BY <1>1
  <2> HIDE DEF m
  <2> QED
    BY <1>1, <2>1, <2>2, PartOfPart DEF L
<1>8. (s - a + 1) - m + 1 = b - a + 1 /\ m <= s - a + 1
  BY <1>1
<1> DEFINE p == SubSeq(o, a, s)
           c == SubSeq(o, b, L)
<1>9. Overlaps(p, c, m)
  <2>1. Len(p) = s - a + 1 /\ Len(c) = Limit /\ m <= Len(p) /\ m <= Len(c)
    BY <1>1, <1>3, <1>5, <1>8
  <2>2. SubSeq(p, b - a + 1, s - a + 1) = SubSeq(c, 1, m)
    BY <1>6, <1>7
  <2>3. Len(p) - m + 1 = b - a + 1
    BY <1>3, <1>8
  <2> HIDE DEF p, c, m
  <2>4. SubSeq(p, Len(p) - m + 1, Len(p)) = SubSeq(c, 1, m)
    BY <2>1, <2>2, <2>3
  <2> QED
    BY <2>1, <2>4 DEF Overlaps
<1> QED
  BY <1>1, <1>3, <1>5, <1>9 DEF L

\* What is new in a window is what follows the overlap.
LEMMA ShiftedDelta ==
    ASSUME NEW o \in Seq(Letters), NEW b \in 1..Len(o), NEW previous,
           Overlap(previous, SubSeq(o, b, Len(o))) \in 1..(Len(o) - b + 1)
    PROVE  Delta(previous, SubSeq(o, b, Len(o)))
             = SubSeq(o, b + Overlap(previous, SubSeq(o, b, Len(o))), Len(o))
<1> DEFINE L == Len(o)
           now == SubSeq(o, b, L)
           n == Overlap(previous, now)
<1>1. /\ L \in Nat /\ L \in 1..L /\ b \in Nat /\ b >= 1 /\ b <= L
      /\ n \in 1..(L - b + 1)
  OBVIOUS
<1>2. Len(now) = L - b + 1
  <2>1. \A k \in b..L : o[k] \in Letters
    BY <1>1
  <2> QED
    BY <1>1, <2>1, SubSeqProperties
<1>3. Delta(previous, now) = SubSeq(now, n + 1, L - b + 1)
  BY <1>2 DEF Delta
<1> HIDE DEF n
<1>4. SubSeq(now, n + 1, L - b + 1) = SubSeq(o, b + n, L)
  <2>1. CASE b + n > L
    <3>1. n + 1 > L - b + 1 /\ {n + 1, L - b + 1, b + n, L} \subseteq Int
      BY <1>1, <2>1
    <3>2. SubSeq(now, n + 1, L - b + 1) = <<>>
      BY <3>1, SubSeqEmpty
    <3>3. SubSeq(o, b + n, L) = <<>>
      BY <2>1, <3>1, SubSeqEmpty
    <3> QED
      BY <3>2, <3>3
  <2>2. CASE ~(b + n > L)
    <3> DEFINE x == n + 1
               y == L - b + 1
    <3>1. x \in 1..(L - b + 1) /\ y \in 1..(L - b + 1) /\ b + x - 1 = b + n /\ b + y - 1 = L
      BY <1>1, <2>2
    <3> HIDE DEF x, y, L
    <3>2. SubSeq(SubSeq(o, b, L), x, y) = SubSeq(o, b + x - 1, b + y - 1)
      BY <1>1, <3>1, PartOfPart DEF L
    <3> QED
      BY <3>1, <3>2 DEF x, y
  <2> QED
    BY <2>1, <2>2
<1> QED
  BY <1>3, <1>4 DEF n

\* What the service shows of an output when n characters have been written.
Shown(o, n) == SubSeq(o, IF n > Limit THEN n - Limit + 1 ELSE 1, n)

\* It can be told that n characters are shared.
Told(previous, now, n) ==
    /\ n >= Probe /\ ~IsPrefix(previous, now)
    /\ \A k \in Probe..Limit : Overlaps(previous, now, k) => k = n
    /\ \A k \in 1..(Probe - 1) :
          ~At(previous, Len(previous) - n + k, SubSeq(now, 1, Probe))

\* Of a window that has moved, what is new is what was written since, if the
\* overlap can be told.
LEMMA MovedDelta ==
    ASSUME NEW o \in Seq(Letters), NEW s \in 0..Len(o), Len(o) > Limit,
           Told(Shown(o, s), Shown(o, Len(o)), s - (Len(o) - Limit))
    PROVE  Delta(Shown(o, s), Shown(o, Len(o))) = SubSeq(o, s + 1, Len(o))
<1> DEFINE previous == Shown(o, s)
           now == Shown(o, Len(o))
           n == s - (Len(o) - Limit)
           a == IF s > Limit THEN s - Limit + 1 ELSE 1
           b == Len(o) - Limit + 1
<1>1. Probe \in Nat \ {0} /\ Limit \in Nat \ {0} /\ Len(o) \in Nat /\ s \in Nat
  BY LimitAssumption
<1>2. /\ n >= Probe /\ ~IsPrefix(previous, now)
      /\ \A k \in Probe..Limit : Overlaps(previous, now, k) => k = n
      /\ \A k \in 1..(Probe - 1) :
            ~At(previous, Len(previous) - n + k, SubSeq(now, 1, Probe))
  BY DEF Told
<1>3. /\ previous = SubSeq(o, a, s) /\ now = SubSeq(o, b, Len(o))
      /\ n = s - b + 1 /\ b = Len(o) - Limit + 1
      /\ a = (IF s > Limit THEN s - Limit + 1 ELSE 1)
  BY <1>1 DEF Shown
<1> HIDE DEF previous, now
<1>4. /\ n \in Nat /\ n > 0 /\ b \in 1..Len(o) /\ a \in 1..s
      /\ s - b + 1 >= Probe /\ n \in 1..(Len(o) - b + 1) /\ b + n = s + 1
  BY <1>1, <1>2
<1> HIDE DEF n, a, b
<1>5. Len(previous) <= Limit /\ Len(now) = Limit /\ Overlaps(previous, now, n)
  BY <1>3, <1>4, WindowsOverlap
<1>6. previous \in Seq(Letters) /\ now \in Seq(Letters)
  <2>1. /\ \A k \in a..s : o[k] \in Letters
        /\ \A k \in b..Len(o) : o[k] \in Letters
    BY <1>1, <1>4
  <2>2. {a, s, b, Len(o)} \subseteq Int
    BY <1>1, <1>4
  <2> QED
    BY <1>3, <2>1, <2>2, SubSeqProperties
<1>7. LongOverlap(previous, now) = n
  BY <1>2, <1>4, <1>5, <1>6, OverlapFound
<1>8. Overlap(previous, now) = n
  BY <1>2, <1>4, <1>7 DEF Overlap
<1>9. Delta(previous, now) = SubSeq(o, b + n, Len(o))
  <2>1. Overlap(previous, SubSeq(o, b, Len(o))) = n
    BY <1>3, <1>8
  <2>2. Overlap(previous, SubSeq(o, b, Len(o))) \in 1..(Len(o) - b + 1)
    BY <1>4, <2>1
  <2>3. Delta(previous, SubSeq(o, b, Len(o)))
          = SubSeq(o, b + Overlap(previous, SubSeq(o, b, Len(o))), Len(o))
    BY <1>4, <2>2, ShiftedDelta
  <2> QED
    BY <1>3, <2>1, <2>3
<1> QED
  BY <1>4, <1>9 DEF previous, now

\* A poll that can be told prints what was written since the last.
LEMMA ClearDelta ==
    ASSUME Inv, Clear(lastOutput, Window(Len(output))), lastOutput # Window(Len(output))
    PROVE  Delta(lastOutput, Window(Len(output))) = SubSeq(output, seen + 1, Len(output))
<1>1. /\ output \in Seq(Letters) /\ Len(output) \in Nat /\ seen \in 0..Len(output)
      /\ Limit \in Nat \ {0} /\ lastOutput = Window(seen)
  BY LimitAssumption DEF Inv, TypeOK
<1> DEFINE now == Window(Len(output))
           gone == Len(output) - Limit
<1>2. CASE gone <= 0
  <2>1. ~(Len(output) > Limit) /\ ~(seen > Limit)
    BY <1>1, <1>2
  <2>2. now = SubSeq(output, 1, Len(output)) /\ lastOutput = SubSeq(output, 1, seen)
    BY <1>1, <2>1 DEF Window
  <2>3. now = output
    BY <1>1, <2>2, SubSeqFull
  <2>4. IsPrefix(lastOutput, output) /\ Len(lastOutput) = seen
    BY <1>1, <2>2, PrefixOfText
  <2> QED
    BY <2>3, <2>4 DEF Delta, Overlap
<1>3. CASE ~(gone <= 0)
  <2>1. seen # Len(output) /\ Len(output) > Limit
    BY <1>1, <1>3
  <2>2. Told(lastOutput, now, seen - gone)
    BY <1>3, <2>1 DEF Clear, Told
  <2>3. now = Shown(output, Len(output)) /\ lastOutput = Shown(output, seen)
    BY <1>1 DEF Window, Shown
  <2> HIDE DEF now
  <2>4. Delta(Shown(output, seen), Shown(output, Len(output)))
          = SubSeq(output, seen + 1, Len(output))
    BY <1>1, <2>1, <2>2, <2>3, MovedDelta
  <2> QED
    BY <2>3, <2>4 DEF now
<1> QED
  BY <1>2, <1>3

\* A poll that can be told and shows the same window shows that nothing was
\* written.
LEMMA SameIsStill ==
    ASSUME Inv, Clear(lastOutput, Window(Len(output))), Window(Len(output)) = lastOutput
    PROVE  seen = Len(output)
<1>1. /\ output \in Seq(Letters) /\ Len(output) \in Nat /\ seen \in 0..Len(output)
      /\ Limit \in Nat \ {0} /\ lastOutput \in Seq(Letters) /\ lastOutput = Window(seen)
  BY LimitAssumption DEF Inv, TypeOK
<1>2. CASE Len(output) - Limit <= 0
  <2>1. ~(Len(output) > Limit) /\ ~(seen > Limit)
    BY <1>1, <1>2
  <2>2. /\ lastOutput = SubSeq(output, 1, Len(output))
        /\ lastOutput = SubSeq(output, 1, seen)
    BY <1>1, <2>1 DEF Window
  <2>3. Len(lastOutput) = Len(output)
    BY <1>1, <2>2, SubSeqFull
  <2>4. Len(lastOutput) = seen
    BY <1>1, <2>2, PrefixOfText
  <2> QED
    BY <2>3, <2>4
<1>3. CASE IsPrefix(lastOutput, lastOutput) /\ ~(Len(output) - Limit <= 0)
  BY <1>3 DEF Clear
<1>4. IsPrefix(lastOutput, lastOutput)
  <2>1. SubSeq(lastOutput, 1, Len(lastOutput)) = lastOutput /\ Len(lastOutput) \in Nat
    BY <1>1, SubSeqFull
  <2> QED
    BY <2>1 DEF IsPrefix
<1> QED
  BY <1>2, <1>3, <1>4

\* A poll that can be told leaves printed all that was written up to it.
LEMMA PollPrints ==
    Inv /\ PrintedIsWritten /\ Poll => PrintedIsWritten'
<1> SUFFICES ASSUME Inv, PrintedIsWritten, Poll, ~unclear'
             PROVE  printed' = SubSeq(output', 1, seen')
  BY DEF PrintedIsWritten
<1> DEFINE now == Window(Len(output))
<1>1. /\ output \in Seq(Letters) /\ Len(output) \in Nat /\ seen \in 0..Len(output)
      /\ lastOutput = Window(seen)
  BY DEF Inv, TypeOK
<1>2. output' = output /\ seen' = Len(output) /\ ~unclear /\ Clear(lastOutput, now)
  BY DEF Poll, command
<1>3. printed = SubSeq(output, 1, seen)
  BY <1>2 DEF PrintedIsWritten
<1>4. SubSeq(output, 1, seen) \o SubSeq(output, seen + 1, Len(output))
        = SubSeq(output, 1, Len(output))
  <2>1. /\ 1 \in 1..(Len(output) + 1) /\ seen \in (1 - 1)..Len(output)
        /\ Len(output) \in seen..Len(output)
    BY <1>1
  <2> QED
    BY <1>1, <2>1, ConcatAdjacentSubSeq
<1>5. CASE now # lastOutput
  <2>1. printed' = printed \o Delta(lastOutput, now)
    BY <1>5 DEF Poll
  <2>2. Delta(lastOutput, now) = SubSeq(output, seen + 1, Len(output))
    BY <1>2, <1>5, ClearDelta
  <2> QED
    BY <1>2, <1>3, <1>4, <2>1, <2>2
<1>6. CASE now = lastOutput
  <2>1. printed' = printed
    BY <1>6 DEF Poll
  <2>2. seen = Len(output)
    BY <1>2, <1>6, SameIsStill
  <2> QED
    BY <1>2, <1>3, <2>1, <2>2
<1> QED
  BY <1>5, <1>6

\* The user reads what the command wrote, without a gap and without a
\* repetition, through any number of polls, failed polls and shifts of the
\* window, whatever the window and the probe, as long as each poll can be told.
THEOREM TextIsPrinted == Spec => []PrintedIsWritten
<1>1. Init => PrintedIsWritten
  BY SubSeqEmpty DEF Init, PrintedIsWritten
<1>2. Inv /\ PrintedIsWritten /\ [Next]_vars => PrintedIsWritten'
  <2> SUFFICES ASSUME Inv, PrintedIsWritten, [Next]_vars PROVE PrintedIsWritten'
    OBVIOUS
  <2>1. CASE Poll
    BY <2>1, PollPrints
  <2>2. CASE Write
    <3> PICK c \in Letters : output' = Append(output, c)
      BY <2>2 DEF Write
    <3>1. UNCHANGED <<printed, seen, unclear>>
      BY <2>2 DEF Write
    <3>2. SubSeq(output', 1, seen) = SubSeq(output, 1, seen)
      BY WindowStays DEF Inv, TypeOK
    <3> QED
      BY <3>1, <3>2 DEF PrintedIsWritten
  <2>3. CASE UNCHANGED <<output, printed, seen, unclear>>
    BY <2>3 DEF PrintedIsWritten
  <2> QED
    BY <2>1, <2>2, <2>3
       DEF Next, vars, command, Create, CreateFails, PollTransient, PollFails, Pause, Change
<1> QED
  BY <1>1, <1>2, CommandInvariant, PTL DEF Spec
=============================================================================
