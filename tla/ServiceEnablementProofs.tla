----------------------- MODULE ServiceEnablementProofs ----------------------
(***************************************************************************)
(* Proofs about ServiceEnablement, for any number of installers that race  *)
(* to enable the service while nothing else fails.                         *)
(***************************************************************************)
EXTENDS ServiceEnablement, TLAPS

\* Before anything is read nothing can be stale.
LEMMA InitRace == Init => RaceInv
  BY FaultAssumption, EnablingAssumption
  DEF Init, RaceInv, TypeOK, NobodyRefused, ReadsHold, States

\* A step of one installer leaves the program counters of the others alone.
LEMMA GotoType ==
    ASSUME TypeOK, NEW i \in Installers, NEW a, NEW b, Goto(i, a, b),
           b \in {"disabling", "enable", "conflict", "activating", "ok", "error"}
    PROVE  /\ pc' \in [Installers -> {"start", "disabling", "enable", "conflict", "activating",
                                      "ok", "error"}]
           /\ pc[i] = a /\ pc'[i] = b
           /\ \A j \in Installers \ {i} : pc'[j] = pc[j]
  BY DEF TypeOK, Goto

\* No step from a state of the invariant leaves it.
LEMMA NextRace ==
    ASSUME RaceInv, [Next]_vars
    PROVE  RaceInv'
  <1> USE EnablingAssumption, FaultAssumption DEF RaceInv, NobodyRefused, ReadsHold, Fault
  <1>0. CASE UNCHANGED vars
    BY <1>0 DEF vars, TypeOK
  <1>1. CASE Service
    BY <1>1 DEF Service, Activated, Disabled, Becomes, TypeOK, States
  <1>2. CASE ActivationFails \/ Disable
    BY <1>2 DEF ActivationFails, Disable, Becomes, TypeOK, States
  <1>3. ASSUME NEW i \in Installers, Installer(i)
        PROVE  RaceInv'
    <2>1. CASE Require(i)
      <3>1. PICK b \in {"ok", "error"} : Goto(i, "start", b) /\ (b = "ok" => service = "enabled")
        BY <2>1 DEF Require
      <3> QED
        BY <2>1, <3>1, GotoType DEF Require, TypeOK
    <2>2. CASE Check(i) \/ PollDisabling(i)
      <3>1. PICK a \in {"start", "disabling"} : Goto(i, a, Towards(service))
        BY <2>2 DEF Check, PollDisabling
      <3>2. /\ Towards(service) \in {"ok", "disabling", "enable", "activating"}
            /\ Towards(service) = "ok" => service = "enabled"
            /\ Towards(service) = "enable" => service = "disabled"
            /\ Towards(service) = "activating" => service = "enabling"
        BY DEF Towards, TypeOK, States
      <3> QED
        BY <2>2, <3>1, <3>2, GotoType DEF Check, PollDisabling, TypeOK
    <2>3. CASE Enable(i)
      <3>1. PICK b \in {"activating", "conflict"} : Goto(i, "enable", b)
        BY <2>3 DEF Enable
      <3>2. /\ service' \in States
            /\ faults = 0 => service' \in {"enabling", "enabled"}
            /\ service = "enabled" => service' = "enabled"
        BY <2>3, <3>1, GotoType DEF Enable, TypeOK, States
      <3> QED
        BY <2>3, <3>1, <3>2, GotoType DEF Enable, TypeOK, States
    <2>4. CASE Conflict(i)
      <3>1. faults = 0 => service \in {"enabling", "enabled"}
        BY <2>4, GotoType DEF Conflict, Goto
      <3>2. PICK b \in {"ok", "activating", "error"} :
                   /\ Goto(i, "conflict", b)
                   /\ b = "ok" => service = "enabled"
                   /\ faults = 0 => b # "error"
        BY <2>4, <3>1 DEF Conflict
      <3> QED
        BY <2>4, <3>1, <3>2, GotoType DEF Conflict, TypeOK
    <2>5. CASE PollActivating(i)
      <3>1. faults = 0 => service \in {"enabling", "enabled"}
        BY <2>5 DEF PollActivating, Goto
      <3>2. PICK b \in {"ok", "activating", "error"} :
                   /\ Goto(i, "activating", b)
                   /\ b = "ok" => service = "enabled"
                   /\ faults = 0 => b # "error"
        BY <2>5, <3>1 DEF PollActivating
      <3> QED
        BY <2>5, <3>1, <3>2, GotoType DEF PollActivating, TypeOK
    <2> QED
      BY <1>3, <2>1, <2>2, <2>3, <2>4, <2>5 DEF Installer
  <1>4. ASSUME NEW i \in Installers, EnableRefused(i) \/ EnableUnanswered(i)
        PROVE  RaceInv'
    <2>1. Goto(i, "enable", "conflict") /\ faults' = faults + 1 /\ faults < MaxFaults
      BY <1>4 DEF EnableRefused, EnableUnanswered
    <2>2. service' \in States
      BY <1>4 DEF EnableRefused, EnableUnanswered, TypeOK, States
    <2> QED
      BY <2>1, <2>2, GotoType DEF TypeOK
  <1>5. ASSUME NEW i \in Installers, StatusFails(i)
        PROVE  RaceInv'
    <2>1. PICK a \in {"start", "disabling", "conflict", "activating"} : Goto(i, a, "error")
      BY <1>5 DEF StatusFails
    <2> QED
      BY <1>5, <2>1, GotoType DEF StatusFails, TypeOK
  <1>6. ASSUME NEW i \in Installers, Deadline(i)
        PROVE  RaceInv'
    <2>1. PICK a \in {"disabling", "activating"} : Goto(i, a, "error")
      BY <1>6 DEF Deadline
    <2>2. faults' # 0 /\ faults' \in 0..MaxFaults
      <3>1. CASE Fault
        BY <3>1 DEF TypeOK
      <3>2. CASE Hopeless(i) /\ UNCHANGED faults
        BY <3>2 DEF Hopeless, TypeOK
      <3> QED
        BY <1>6, <3>1, <3>2 DEF Deadline
    <2> QED
      BY <1>6, <2>1, <2>2, GotoType DEF Deadline, TypeOK
  <1> QED
    BY <1>0, <1>1, <1>2, <1>3, <1>4, <1>5, <1>6 DEF Next

\* The inductive invariant of the race, whatever fails.
THEOREM RaceInvariant == Spec => []RaceInv
  <1>1. RaceInv /\ [Next]_vars => RaceInv'
    BY NextRace
  <1> QED
    BY <1>1, InitRace, PTL DEF Spec

\* Any number of installers may race for the service: while nothing fails none
\* of them is refused.
THEOREM NobodyIsRefused == Spec => []NobodyRefused
  <1>1. RaceInv => NobodyRefused
    BY DEF RaceInv
  <1> QED
    BY <1>1, RaceInvariant, PTL
=============================================================================
