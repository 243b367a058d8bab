---------------------------- MODULE ImageImport ----------------------------
(***************************************************************************)
(* What ensureImage promises, without how it is done: an installer answers *)
(* only with an image that was AVAILABLE at some time, an image has one    *)
(* life (none, importing, available, removed), and the volumes the import  *)
(* worked on are erased only once an image has been available.             *)
(***************************************************************************)
EXTENDS FiniteSets

CONSTANTS Installers, ImageIds, Volumes, NoId

VARIABLES
    status,  \* image -> "none", "importing", "available" or "removed"
    ever,    \* the images that have been available
    erased,  \* the work volumes that have been deleted
    answer   \* installer -> the image its last run returned, or NoId

vars == <<status, ever, erased, answer>>

Init ==
    /\ status = [m \in ImageIds |-> "none"]
    /\ ever = {}
    /\ erased = {}
    /\ answer = [i \in Installers |-> NoId]

Change(m, from, to) ==
    status[m] \in from /\ status' = [status EXCEPT ![m] = to]

Begin(m) ==
    /\ Change(m, {"none"}, "importing")
    /\ UNCHANGED <<ever, erased, answer>>

Publish(m) ==
    /\ Change(m, {"importing"}, "available")
    /\ ever' = ever \cup {m}
    /\ UNCHANGED <<erased, answer>>

\* An import that failed, or an image judged stale.
Remove(m) ==
    /\ Change(m, {"importing", "available"}, "removed")
    /\ UNCHANGED <<ever, erased, answer>>

Erase(v) ==
    /\ ever # {} /\ v \notin erased
    /\ erased' = erased \cup {v}
    /\ UNCHANGED <<status, ever, answer>>

Answer(i, m) ==
    /\ m \in ever
    /\ answer' = [answer EXCEPT ![i] = m]
    /\ UNCHANGED <<status, ever, erased>>

\* A rerun starts without an answer.
Rerun(i) ==
    /\ answer' = [answer EXCEPT ![i] = NoId]
    /\ UNCHANGED <<status, ever, erased>>

Next ==
    \/ \E m \in ImageIds : Begin(m) \/ Publish(m) \/ Remove(m)
    \/ \E v \in Volumes : Erase(v)
    \/ \E i \in Installers : Rerun(i) \/ \E m \in ImageIds : Answer(i, m)

Spec == Init /\ [][Next]_vars
=============================================================================
