-------------------------- MODULE ServiceEnablement -------------------------
(***************************************************************************)
(* ensureRunCommandService and requireRunCommandService                    *)
(* (service_enablement.go): several installers, and an administrator,      *)
(* share the Run Command service of a project.  Every read of its state is *)
(* a step, and so is every request: what was read may be old when used.    *)
(***************************************************************************)
EXTENDS Naturals

CONSTANTS
    Installers,
    Enabling,    \* the installers with agent.enable_service
    MaxFaults    \* bound on faults

ASSUME EnablingAssumption == Enabling \subseteq Installers
ASSUME FaultAssumption == MaxFaults \in Nat

VARIABLES
    service,  \* state of the service; a service never enabled (404) is disabled
    pc,       \* of each installer
    faults

vars == <<service, pc, faults>>

States == {"disabled", "enabling", "enabled", "disabling"}

Init ==
    /\ service \in States
    /\ pc = [i \in Installers |-> "start"]
    /\ faults = 0

Fault == faults < MaxFaults /\ faults' = faults + 1

Goto(i, a, b) == pc[i] = a /\ pc' = [pc EXCEPT ![i] = b]

-----------------------------------------------------------------------------
(* An installer.                                                           *)

\* requireRunCommandService
Require(i) ==
    /\ i \notin Enabling
    /\ Goto(i, "start", IF service = "enabled" THEN "ok" ELSE "error")
    /\ UNCHANGED <<service, faults>>

\* Mutant: a service that is being disabled counts as disabled.
TowardsAtOnce(state) ==
    CASE state = "enabled"   -> "ok"
      [] state = "disabling" -> "enable"
      [] state = "disabled"  -> "enable"
      [] OTHER               -> "activating"

\* Where ensureRunCommandService goes with the state it has read.
Towards(state) ==
    CASE state = "enabled"   -> "ok"
      [] state = "disabling" -> "disabling"
      [] state = "disabled"  -> "enable"
      [] OTHER               -> "activating"

Check(i) ==
    /\ i \in Enabling
    /\ Goto(i, "start", Towards(service))
    /\ UNCHANGED <<service, faults>>

PollDisabling(i) ==
    /\ Goto(i, "disabling", Towards(service))
    /\ UNCHANGED <<service, faults>>

\* EnableService: the service is off, or the request changes nothing, with or
\* without an error.
Enable(i) ==
    /\ \/ /\ service = "disabled" /\ service' = "enabling"
          /\ Goto(i, "enable", "activating")
       \/ /\ service # "disabled" /\ UNCHANGED service
          /\ Goto(i, "enable", "activating") \/ Goto(i, "enable", "conflict")
    /\ UNCHANGED faults

EnableRefused(i) ==
    /\ Goto(i, "enable", "conflict")
    /\ Fault
    /\ UNCHANGED service

EnableUnanswered(i) ==
    /\ Goto(i, "enable", "conflict")
    /\ Fault
    /\ service' = IF service = "disabled" THEN "enabling" ELSE service

\* Mutant: only a service that is on already excuses the error.
ConflictOnlyEnabled(i) ==
    /\ Goto(i, "conflict", CASE service = "enabled"  -> "ok"
                             [] OTHER                -> "error")
    /\ UNCHANGED <<service, faults>>

\* Another installer may have won the race.
Conflict(i) ==
    /\ Goto(i, "conflict", CASE service = "enabled"  -> "ok"
                             [] service = "enabling" -> "activating"
                             [] OTHER                -> "error")
    /\ UNCHANGED <<service, faults>>

\* A service that is off again is polled on.
PollActivating(i) ==
    /\ Goto(i, "activating", CASE service = "enabled"   -> "ok"
                               [] service = "disabling" -> "error"
                               [] OTHER                 -> "activating")
    /\ UNCHANGED <<service, faults>>

\* An error of GetServiceStatus is final, but for a transient one while the
\* service is activated.
StatusFails(i) ==
    /\ \E a \in {"start", "disabling", "conflict", "activating"} : Goto(i, a, "error")
    /\ Fault
    /\ UNCHANGED service

\* The service is off, and this installer only polls it.
Hopeless(i) == pc[i] = "activating" /\ service = "disabled"

\* Mutant: the wait for the activation does not look at the deadline.
DeadlineDisabling(i) ==
    /\ Goto(i, "disabling", "error")
    /\ Fault
    /\ UNCHANGED service

\* The deadline of the phase, seen by waitForPoll: it comes too early, or it ends
\* a wait for what does not come.
Deadline(i) ==
    /\ Goto(i, "disabling", "error") \/ Goto(i, "activating", "error")
    /\ Fault \/ (Hopeless(i) /\ UNCHANGED faults)
    /\ UNCHANGED service

-----------------------------------------------------------------------------
(* The service.                                                            *)

Becomes(a, b) == service = a /\ service' = b

Activated == Becomes("enabling", "enabled") /\ UNCHANGED <<pc, faults>>

ActivationFails == Becomes("enabling", "disabled") /\ Fault /\ UNCHANGED pc

\* An administrator disables the service.
Disable ==
    /\ Becomes("enabling", "disabling") \/ Becomes("enabled", "disabling")
    /\ Fault
    /\ UNCHANGED pc

Disabled == Becomes("disabling", "disabled") /\ UNCHANGED <<pc, faults>>

Installer(i) ==
    \/ Require(i) \/ Check(i) \/ PollDisabling(i) \/ Enable(i) \/ Conflict(i)
    \/ PollActivating(i)

Service == Activated \/ Disabled

Next ==
    \/ Service \/ ActivationFails \/ Disable
    \/ \E i \in Installers :
          Installer(i) \/ EnableRefused(i) \/ EnableUnanswered(i) \/ StatusFails(i) \/ Deadline(i)

Spec == Init /\ [][Next]_vars

\* A poll timer fires, requests are answered, the service ends a transition, and
\* a wait for what does not come meets its deadline.
LiveSpec ==
    /\ Spec
    /\ WF_vars(Service)
    /\ \A i \in Installers : WF_vars(Installer(i)) /\ WF_vars(Hopeless(i) /\ Deadline(i))

-----------------------------------------------------------------------------
(* Properties.                                                             *)

\* Every variable has its type.
TypeOK ==
    /\ service \in States
    /\ pc \in [Installers -> {"start", "disabling", "enable", "conflict", "activating",
                              "ok", "error"}]
    /\ faults \in 0..MaxFaults

\* While nothing fails, no installer that may enable the service is refused,
\* whichever of them wins the race ("Another installer may have won the race").
NobodyRefused == faults = 0 => \A i \in Enabling : pc[i] # "error"

\* An installer has gone past a read only when it may, and a service that was
\* seen off is never seen turned off again.
ReadsHold ==
    \A i \in Installers :
        /\ pc[i] = "enable" => service # "disabling"
        /\ pc[i] \in {"conflict", "activating"} => service \in {"enabling", "enabled"}
        /\ pc[i] = "ok" => service = "enabled"

\* What every installer has read of the shared service still holds, while nothing
\* fails; with TypeOK and NobodyRefused this is inductive.
RaceInv == TypeOK /\ NobodyRefused /\ (faults = 0 => ReadsHold)

\* Every installer comes to an end, whatever fails.
EveryoneAnswered == \A i \in Installers : <>(pc[i] \in {"ok", "error"})

\* Unless something fails, every installer that may enable the service gets it.
EveryoneServed == [](faults = 0) => \A i \in Enabling : <>[](pc[i] = "ok")
=============================================================================
