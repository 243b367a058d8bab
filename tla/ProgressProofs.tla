---------------------------- MODULE ProgressProofs ---------------------------
(***************************************************************************)
(* Proofs about Progress, for any number of nested activities.             *)
(***************************************************************************)
EXTENDS Progress, TLAPS

Members(s) == {s[n] : n \in 1..Len(s)}

Distinct(s) == \A m, n \in 1..Len(s) : m # n => s[m] # s[n]

LEMMA AppendMembers ==
    ASSUME NEW S, NEW s \in Seq(S), NEW e \in S, Distinct(s), e \notin Members(s)
    PROVE  /\ Append(s, e) \in Seq(S)
           /\ Distinct(Append(s, e))
           /\ Members(Append(s, e)) = Members(s) \cup {e}
  BY DEF Distinct, Members

\* RemoveAt moves every later element one place forward.
LEMMA RemoveElements ==
    ASSUME NEW S, NEW s \in Seq(S), NEW i \in 1..Len(s)
    PROVE  /\ RemoveAt(s, i) \in Seq(S)
           /\ Len(RemoveAt(s, i)) = Len(s) - 1
           /\ \A k \in 1..(Len(s) - 1) :
                 RemoveAt(s, i)[k] = IF k < i THEN s[k] ELSE s[k + 1]
  <1> DEFINE u == SubSeq(s, 1, i - 1)
             w == SubSeq(s, i + 1, Len(s))
  <1>1. u \in Seq(S) /\ Len(u) = i - 1 /\ \A k \in 1..(i - 1) : u[k] = s[k]
    OBVIOUS
  <1>2. w \in Seq(S) /\ Len(w) = Len(s) - i /\ \A k \in 1..(Len(s) - i) : w[k] = s[k + i]
    OBVIOUS
  <1>3. RemoveAt(s, i) = u \o w
    BY DEF RemoveAt
  <1> HIDE DEF u, w
  <1>4. (u \o w) \in Seq(S) /\ Len(u \o w) = Len(s) - 1
    BY <1>1, <1>2
  <1>5. ASSUME NEW k \in 1..(Len(s) - 1)
        PROVE  (u \o w)[k] = IF k < i THEN s[k] ELSE s[k + 1]
    <2>1. CASE k < i
      BY <1>1, <1>2, <2>1
    <2>2. CASE ~(k < i)
      <3>1. k - (i - 1) \in 1..(Len(s) - i)
        BY <2>2
      <3>2. (u \o w)[k] = w[k - (i - 1)]
        BY <1>1, <1>2, <2>2
      <3>3. w[k - (i - 1)] = s[k + 1]
        BY SMTT(30), <1>2, <3>1
      <3> QED
        BY <2>2, <3>2, <3>3
    <2> QED
      BY <2>1, <2>2
  <1> QED
    BY <1>3, <1>4, <1>5

LEMMA RemoveMembers ==
    ASSUME NEW S, NEW s \in Seq(S), NEW i \in 1..Len(s), Distinct(s)
    PROVE  /\ RemoveAt(s, i) \in Seq(S)
           /\ Distinct(RemoveAt(s, i))
           /\ Members(RemoveAt(s, i)) = Members(s) \ {s[i]}
  <1> DEFINE t == RemoveAt(s, i)
             Old(k) == IF k < i THEN k ELSE k + 1
  <1>1. t \in Seq(S) /\ Len(t) = Len(s) - 1
    BY RemoveElements
  <1>2. \A k \in 1..Len(t) : t[k] = s[Old(k)] /\ Old(k) \in 1..Len(s) /\ Old(k) # i
    <2> SUFFICES ASSUME NEW k \in 1..Len(t)
                 PROVE  t[k] = s[Old(k)] /\ Old(k) \in 1..Len(s) /\ Old(k) # i
      OBVIOUS
    <2>1. t[k] = IF k < i THEN s[k] ELSE s[k + 1]
      BY RemoveElements, <1>1
    <2> HIDE DEF t
    <2> QED
      BY <2>1, <1>1
  <1> HIDE DEF t
  <1>3. Distinct(t)
    <2> SUFFICES ASSUME NEW m \in 1..Len(t), NEW n \in 1..Len(t), m # n
                 PROVE  t[m] # t[n]
      BY DEF Distinct
    <2>1. Old(m) # Old(n)
      OBVIOUS
    <2> HIDE DEF Old
    <2> QED
      BY <1>2, <2>1 DEF Distinct
  <1>4. \A n \in 1..Len(s) : n # i => s[n] \in Members(t)
    <2> SUFFICES ASSUME NEW n \in 1..Len(s), n # i
                 PROVE  \E k \in 1..Len(t) : t[k] = s[n]
      BY DEF Members
    <2>1. CASE n < i
      <3>1. n \in 1..Len(t) /\ Old(n) = n
        BY <1>1, <2>1
      <3> QED
        BY <1>2, <3>1
    <2>2. CASE n > i
      <3>1. n - 1 \in 1..Len(t) /\ Old(n - 1) = n
        BY <1>1, <2>2
      <3> QED
        BY <1>2, <3>1
    <2> QED
      BY <2>1, <2>2
  <1>5. \A k \in 1..Len(t) : t[k] \in Members(s) /\ t[k] # s[i]
    <2> HIDE DEF Old
    <2> QED
      BY <1>2 DEF Members, Distinct
  <1>6. Members(t) = Members(s) \ {s[i]}
    BY <1>4, <1>5 DEF Members
  <1> QED
    BY <1>1, <1>3, <1>6 DEF t

-----------------------------------------------------------------------------

\* The activities that have begun and are not over.
Begun == {a \in Activities : phase[a] \notin {"new", "over"}}

LEMMA SliceDef == SliceIsOpen <=> Distinct(activities) /\ Members(activities) = Begun
  BY DEF SliceIsOpen, Distinct, Members, Begun

LEMMA InitInv == Init => Inv
  <1> SUFFICES ASSUME Init
               PROVE  Inv
    OBVIOUS
  <1>1. TypeOK
    <2>1. activities \in Seq(Activities) /\ cancelled \subseteq Activities
      BY DEF Init
    <2>2. quiet \in BOOLEAN
      BY DEF Init
    <2>3. phase \in [Activities -> Phases] /\ heartbeat \in [Activities -> Beats]
      BY DEF Init, Phases, Beats
    <2> QED
      BY <2>1, <2>2, <2>3 DEF TypeOK
  <1>2. Members(activities) = {} /\ Distinct(activities)
    BY DEF Init, Members, Distinct
  <1>3. Begun = {}
    BY DEF Init, Begun
  <1>4. BeatsWhileOpen
    BY DEF Init, BeatsWhileOpen
  <1> QED
    BY <1>1, <1>2, <1>3, <1>4, SliceDef DEF Inv

\* A step that leaves the slice alone and neither begins nor ends an activity
\* keeps SliceIsOpen.
LEMMA SliceKept ==
    ASSUME SliceIsOpen, UNCHANGED activities, Begun' = Begun
    PROVE  SliceIsOpen'
  BY DEF SliceIsOpen, Begun

LEMMA NextInv ==
    ASSUME Inv, [Next]_vars
    PROVE  Inv'
  <1> USE DEF Inv, TypeOK
  <1>0. CASE UNCHANGED vars
    BY <1>0 DEF vars, SliceIsOpen, BeatsWhileOpen
  <1>1. CASE Tell
    BY ZenonT(30), <1>1 DEF Tell, SliceIsOpen, BeatsWhileOpen
  <1>2. CASE Age
    BY <1>2 DEF Age, SliceIsOpen, BeatsWhileOpen
  <1>3. ASSUME NEW a \in Activities, List(a)
        PROVE  Inv'
    <2>1. phase[a] = "new" /\ phase' = [phase EXCEPT ![a] = "listed"]
      BY <1>3 DEF List, Move
    <2>2. TypeOK' /\ BeatsWhileOpen'
      BY <1>3, <2>1 DEF List, BeatsWhileOpen, Phases
    <2>3. Begun' = Begun \cup {a}
      BY <2>1 DEF Begun
    <2>4. a \notin Members(activities)
      BY <2>1, SliceDef DEF Begun
    <2>5. activities' = Append(activities, a)
      BY <1>3 DEF List
    <2>6. Distinct(activities') /\ Members(activities') = Members(activities) \cup {a}
      BY <2>4, <2>5, AppendMembers, SliceDef
    <2>7. SliceIsOpen'
      <3>1. Members(activities) = Begun
        BY SliceDef
      <3> QED
        BY <2>3, <2>6, <3>1 DEF SliceIsOpen, Begun, Members, Distinct
    <2> QED
      BY <2>2, <2>7
  <1>4. ASSUME NEW a \in Activities, Start(a)
        PROVE  Inv'
    <2>1. phase[a] = "listed" /\ phase' = [phase EXCEPT ![a] = "open"]
      BY <1>4 DEF Start, Move
    <2>2. Begun' = Begun
      BY <2>1 DEF Begun
    <2> QED
      BY <1>4, <2>1, <2>2, SliceKept DEF Start, BeatsWhileOpen, Phases, Beats
  <1>5. ASSUME NEW a \in Activities, Stop(a)
        PROVE  Inv'
    <2>1. phase[a] = "open" /\ phase' = [phase EXCEPT ![a] = "stopping"]
      BY <1>5 DEF Stop, Move
    <2>2. Begun' = Begun
      BY <2>1 DEF Begun
    <2> QED
      BY <1>5, <2>1, <2>2, SliceKept DEF Stop, BeatsWhileOpen, Phases
  <1>6. ASSUME NEW a \in Activities, Finish(a)
        PROVE  Inv'
    <2>1. phase[a] = "stopping" /\ phase' = [phase EXCEPT ![a] = "told"]
      BY <1>6 DEF Finish, Move
    <2>2. Begun' = Begun
      BY <2>1 DEF Begun
    <2> QED
      BY <1>6, <2>1, <2>2, SliceKept DEF Finish, BeatsWhileOpen, Phases
  <1>7. ASSUME NEW a \in Activities, Unlist(a)
        PROVE  Inv'
    <2>1. phase[a] = "told" /\ phase' = [phase EXCEPT ![a] = "over"]
      BY <1>7 DEF Unlist, Move
    <2>2. TypeOK'
      BY <1>7, <2>1, RemoveElements DEF Unlist, Phases
    <2>3. BeatsWhileOpen'
      BY <1>7, <2>1 DEF Unlist, BeatsWhileOpen
    <2>4. PICK i \in 1..Len(activities) :
            activities[i] = a /\ activities' = RemoveAt(activities, i)
      BY <1>7 DEF Unlist
    <2>5. Distinct(activities') /\ Members(activities') = Members(activities) \ {a}
      BY <2>4, RemoveMembers, SliceDef
    <2>6. Begun' = Begun \ {a}
      BY <2>1 DEF Begun
    <2>7. SliceIsOpen'
      <3>1. Members(activities) = Begun
        BY SliceDef
      <3> QED
        BY <2>5, <2>6, <3>1 DEF SliceIsOpen, Begun, Members, Distinct
    <2> QED
      BY <2>2, <2>3, <2>7
  <1>8. ASSUME NEW a \in Activities, Heartbeat(a)
        PROVE  Inv'
    <2>1. UNCHANGED <<activities, phase, cancelled>>
      BY <1>8 DEF Heartbeat, Tick, CheckForeground, CheckAge, Wait, Leave
    <2>2. quiet' \in BOOLEAN
      BY <1>8 DEF Heartbeat, Tick, CheckForeground, CheckAge, Wait, Leave
    <2>3. /\ heartbeat[a] \notin {"off", "done"}
          /\ \E b \in {"select", "foreground", "age", "print", "done"} :
                heartbeat' = [heartbeat EXCEPT ![a] = b]
      BY <1>8 DEF Heartbeat, Tick, CheckForeground, CheckAge, Wait, Leave, Move
    <2>4. SliceIsOpen'
      BY <2>1 DEF SliceIsOpen
    <2> QED
      BY <2>1, <2>2, <2>3, <2>4 DEF BeatsWhileOpen, Beats, Phases
  <1>9. ASSUME NEW a \in Activities, Cancel(a)
        PROVE  Inv'
    <2>1. cancelled' \subseteq Activities
      BY <1>9 DEF Cancel
    <2> QED
      BY <1>9, <2>1 DEF Cancel, SliceIsOpen, BeatsWhileOpen
  <1> QED
    BY <1>0, <1>1, <1>2, <1>3, <1>4, <1>5, <1>6, <1>7, <1>8, <1>9 DEF Next, Main

\* The inductive invariant, however deep the activities are nested.
THEOREM ProgressInvariant == Spec => []Inv
  <1>1. Inv /\ [Next]_vars => Inv'
    BY NextInv
  <1> QED
    BY <1>1, InitInv, PTL DEF Spec

\* The slice that decides which heartbeat speaks holds the begun activities.
THEOREM SliceMatches == Spec => []SliceIsOpen
  <1>1. Inv => SliceIsOpen
    BY DEF Inv
  <1> QED
    BY <1>1, ProgressInvariant, PTL

\* After the DONE or FAIL line of an activity its heartbeat is silent, because
\* finish has seen it end.
THEOREM SilentAfterDone == Spec => NoWaitAfterDone
  <1> DEFINE Silent == \A a \in Activities : Waits(a) => phase[a] \in {"open", "stopping"}
  <1>1. Inv => Silent
    BY DEF Inv, TypeOK, BeatsWhileOpen, Waits, Phases
  <1>2. Inv => [Silent]_vars
    BY <1>1
  <1> QED
    BY <1>2, ProgressInvariant, PTL DEF Spec, NoWaitAfterDone
=============================================================================
