------------------------------- MODULE Progress -----------------------------
(***************************************************************************)
(* Progress lines (progress.go): the goroutine that runs the installer     *)
(* opens and closes nested activities, each with a heartbeat goroutine of  *)
(* its own that prints a WAIT line when nothing was visible for a while.   *)
(*                                                                         *)
(* Each access to the shared slice and each line is one step: both are     *)
(* guarded by a mutex of their own, and no goroutine holds both.           *)
(***************************************************************************)
EXTENDS Naturals, SequencesExt

CONSTANTS Activities  \* the activities that may be opened

VARIABLES
    activities,  \* progressActivities
    phase,       \* "new", "listed", "open", "stopping", "told" or "over"
    heartbeat,   \* "off", "select", "foreground", "age", "print" or "done"
    cancelled,   \* the activities whose context is done
    quiet        \* lastVisibleProgress is one interval old

vars == <<activities, phase, heartbeat, cancelled, quiet>>

Init ==
    /\ activities = <<>>
    /\ phase = [a \in Activities |-> "new"]
    /\ heartbeat = [a \in Activities |-> "off"]
    /\ cancelled = {}
    /\ quiet = FALSE

Top == activities[Len(activities)]

IsForeground(a) == activities # <<>> /\ Top = a

Move(f, a, from, to) == f[a] = from /\ f' = [f EXCEPT ![a] = to]

-----------------------------------------------------------------------------
(* The goroutine of the installer: one operation at a time, on the most    *)
(* specific activity.                                                      *)

\* Nothing is half done: every activity is open, or not in the slice.
Between == \A a \in Activities : phase[a] \in {"new", "open", "over"}

\* startProgressActivity, up to the unlock.
List(a) ==
    /\ Between
    /\ Move(phase, a, "new", "listed")
    /\ activities' = Append(activities, a)
    \* a context derived from one that is done is done
    /\ cancelled' = IF activities # <<>> /\ Top \in cancelled THEN cancelled \cup {a} ELSE cancelled
    /\ UNCHANGED <<heartbeat, quiet>>

\* START, go a.heartbeat().
Start(a) ==
    /\ Move(phase, a, "listed", "open")
    /\ heartbeat' = [heartbeat EXCEPT ![a] = "select"]
    /\ quiet' = FALSE
    /\ UNCHANGED <<activities, cancelled>>

\* update, writeInfo, writeWarning and the output of remote commands.
Tell ==
    /\ Between
    /\ quiet' = FALSE
    /\ UNCHANGED <<activities, phase, heartbeat, cancelled>>

\* finish: close(a.stop)
Stop(a) ==
    /\ Between /\ IsForeground(a)
    /\ Move(phase, a, "open", "stopping")
    /\ UNCHANGED <<activities, heartbeat, cancelled, quiet>>

\* Mutant: finish does not wait for the heartbeat to be over.
FinishAtOnce(a) ==
    /\ Move(phase, a, "stopping", "told")
    /\ quiet' = FALSE
    /\ UNCHANGED <<activities, heartbeat, cancelled>>

\* <-a.done, DONE or FAIL.
Finish(a) ==
    /\ Move(phase, a, "stopping", "told")
    /\ heartbeat[a] = "done"
    /\ quiet' = FALSE
    /\ UNCHANGED <<activities, heartbeat, cancelled>>

\* Mutant: the slice keeps a finished activity.
UnlistNever(a) ==
    /\ Move(phase, a, "told", "over")
    /\ UNCHANGED <<activities, heartbeat, cancelled, quiet>>

Unlist(a) ==
    /\ Move(phase, a, "told", "over")
    /\ \E i \in 1..Len(activities) :
          activities[i] = a /\ activities' = RemoveAt(activities, i)
    /\ UNCHANGED <<heartbeat, cancelled, quiet>>

-----------------------------------------------------------------------------
(* The heartbeat of an activity.                                           *)

\* The ticker's channel is chosen, also when stop is closed.
Tick(a) ==
    /\ Move(heartbeat, a, "select", "foreground")
    /\ UNCHANGED <<activities, phase, cancelled, quiet>>

CheckForeground(a) ==
    /\ Move(heartbeat, a, "foreground", IF IsForeground(a) THEN "age" ELSE "select")
    /\ UNCHANGED <<activities, phase, cancelled, quiet>>

\* The tick may be older than the last line, whatever the age of that is now.
CheckAge(a) ==
    /\ \/ Move(heartbeat, a, "age", "print") /\ quiet
       \/ Move(heartbeat, a, "age", "select")
    /\ UNCHANGED <<activities, phase, cancelled, quiet>>

Wait(a) ==
    /\ Move(heartbeat, a, "print", "select")
    /\ quiet' = FALSE
    /\ UNCHANGED <<activities, phase, cancelled>>

\* Mutant: a heartbeat looks at its context only.
LeaveCancelled(a) ==
    /\ Move(heartbeat, a, "select", "done")
    /\ a \in cancelled
    /\ UNCHANGED <<activities, phase, cancelled, quiet>>

Leave(a) ==
    /\ Move(heartbeat, a, "select", "done")
    /\ a \in cancelled \/ phase[a] = "stopping"
    /\ UNCHANGED <<activities, phase, cancelled, quiet>>

-----------------------------------------------------------------------------
\* Twenty seconds without a line.
Age ==
    /\ quiet' = TRUE
    /\ UNCHANGED <<activities, phase, heartbeat, cancelled>>

\* The context of an activity ends, and with it those below.
Cancel(a) ==
    /\ \E n \in 1..Len(activities) :
          /\ activities[n] = a
          /\ cancelled' = cancelled \cup {activities[k] : k \in n..Len(activities)}
    /\ UNCHANGED <<activities, phase, heartbeat, quiet>>

Main(a) == List(a) \/ Start(a) \/ Stop(a) \/ Finish(a) \/ Unlist(a)
Heartbeat(a) == Tick(a) \/ CheckForeground(a) \/ CheckAge(a) \/ Wait(a) \/ Leave(a)

Next == Tell \/ Age \/ \E a \in Activities : Main(a) \/ Heartbeat(a) \/ Cancel(a)

Spec == Init /\ [][Next]_vars

\* Goroutines are scheduled, and select chooses at random among its channels.
\* The action of an activity may run as long as it likes, but not forever.
Fairness ==
    \A a \in Activities :
        /\ WF_vars(Start(a)) /\ WF_vars(Finish(a)) /\ WF_vars(Unlist(a))
        /\ WF_vars(CheckForeground(a)) /\ WF_vars(CheckAge(a)) /\ WF_vars(Wait(a))
        /\ SF_vars(Leave(a))

LiveSpec == Spec /\ Fairness

-----------------------------------------------------------------------------
(* Properties.                                                             *)

Phases == {"new", "listed", "open", "stopping", "told", "over"}
Beats  == {"off", "select", "foreground", "age", "print", "done"}

TypeOK ==
    /\ activities \in Seq(Activities)
    /\ phase \in [Activities -> Phases]
    /\ heartbeat \in [Activities -> Beats]
    /\ cancelled \subseteq Activities
    /\ quiet \in BOOLEAN

\* The slice holds each activity that has begun and is not over, once: no
\* finished activity keeps the heartbeat of an outer one silent for ever.
SliceIsOpen ==
    /\ \A m, n \in 1..Len(activities) : m # n => activities[m] # activities[n]
    /\ {activities[n] : n \in 1..Len(activities)} =
           {a \in Activities : phase[a] \notin {"new", "over"}}

\* A heartbeat runs from START until finish has seen it end.
BeatsWhileOpen ==
    \A a \in Activities :
        /\ phase[a] \in {"new", "listed"} => heartbeat[a] = "off"
        /\ phase[a] \in {"open", "stopping"} => heartbeat[a] # "off"
        /\ phase[a] \in {"told", "over"} => heartbeat[a] = "done"

Inv == TypeOK /\ SliceIsOpen /\ BeatsWhileOpen

Waits(a) == heartbeat[a] = "print" /\ heartbeat'[a] = "select"

\* No WAIT line of an activity follows its DONE or FAIL line.
NoWaitAfterDone == [][\A a \in Activities : Waits(a) => phase[a] \in {"open", "stopping"}]_vars

\* finish returns: the installer never hangs on a heartbeat.
FinishReturns == \A a \in Activities : phase[a] = "stopping" ~> phase[a] = "over"
=============================================================================
