------------------------------- MODULE Phases -------------------------------
(***************************************************************************)
(* RunWithExtensions (command.go): the phases of a deployment, in order,   *)
(* each with what it hands to the later ones.  A run keeps nothing on      *)
(* disk: when a call fails, when its answer is lost after it was carried   *)
(* out, at the deadline of a phase and when the process is killed, all a   *)
(* run knows is gone and the next run begins again.  That is one action,   *)
(* Interrupt, which may come between any two calls.                        *)
(*                                                                         *)
(* The modules Resources, ImageSelection and Exposure hold the phases, and *)
(* Deployment puts them together.                                          *)
(***************************************************************************)
EXTENDS Integers, FiniteSets

CONSTANTS
    Installers,     \* processes, each with a configuration of its own
    Sites,          \* deployments: a server name, an A record, a load balancer
    Ids,            \* what STACKIT numbers its resources with (a bound)
    Rules,          \* the ingress rules of the configuration, in their order
    Scenarios       \* configurations and clouds to start from

ASSUME IdsAreNumbers == Ids \subseteq Nat \ {0} /\ Rules \subseteq Nat /\ 0 \notin Sites

VARIABLES
    plan,           \* the configuration of each installer, which never changes
    run,            \* what each run knows, and where it is
    credit,         \* faults and events that may still happen (a bound)
    networks,       \* per project, the networks of the configured name
    servers         \* status, site (name), image label, network, groups, safe

\* "home" is the project of the deployment, "owner" image.owner_project_id.
Projects == {"home", "owner"}

\* A new resource gets the lowest number that is free.
IsNext(id, used) ==
    /\ id \in Ids \ used
    /\ \A other \in Ids \ used : id <= other

NoRun(at) ==
    [at |-> at, net |-> 0, group |-> 0, have |-> {}, image |-> 0, server |-> 0,
     address |-> 0, cert |-> 0, seen |-> {}, txt |-> 0, valid |-> FALSE]

\* The order of the phases.  The service and the placement, which come first,
\* change none of the resources here.
After(i, phase) ==
    LET mode == plan[i].mode
    IN  CASE phase = "start"       -> IF mode \in {"named", "balancer"} THEN "zone" ELSE "network"
          [] phase = "zone"        -> "network"
          [] phase = "network"     -> "group"
          [] phase = "group"       -> "image"
          [] phase = "image"       -> "server"
          [] phase = "server"      -> "bootstrap"
          [] phase = "bootstrap"   -> (CASE mode = "balancer" -> "certificate"
                                         [] mode = "private"  -> "done"
                                         [] OTHER             -> "address")
          [] phase = "certificate" -> "balancer"
          [] phase = "balancer"    -> "record"
          [] phase = "address"     -> IF mode = "named" THEN "record" ELSE "done"
          [] phase = "record"      -> IF mode = "named" THEN "direct" ELSE "done"
          [] phase = "direct"      -> "done"

-----------------------------------------------------------------------------
At(i, point) == run[i].at = point

\* The run goes on at a point.
To(i, point) == run' = [run EXCEPT ![i].at = point] /\ UNCHANGED <<plan, credit>>

\* The run goes on at a point and knows more: facts is a record.
Learns(i, facts, point) ==
    /\ run' = [run EXCEPT ![i] = [f \in DOMAIN @ |-> IF f = "at" THEN point
                                                   ELSE IF f \in DOMAIN facts THEN facts[f]
                                                   ELSE @[f]]]
    /\ UNCHANGED <<plan, credit>>

\* An error that the code reports: "failed" is one that the next run may not
\* meet, "refused" one that needs the operator.
Stops(i, how) == run' = [run EXCEPT ![i] = NoRun(how)] /\ UNCHANGED <<plan, credit>>

Ended == {"absent", "ready", "failed", "refused", "done"}
Busy(i) == run[i].at \notin Ended

Costs == credit > 0 /\ credit' = credit - 1 /\ UNCHANGED plan

\* A run begins, the first one or one after an error.
Start(i) ==
    /\ run[i].at \in {"ready", "failed"}
    /\ run' = [run EXCEPT ![i] = NoRun(After(i, "start"))]
    /\ UNCHANGED <<plan, credit>>

\* A deployment that has succeeded is run again.
Again(i) ==
    /\ At(i, "done")
    /\ Costs
    /\ run' = [run EXCEPT ![i] = NoRun(After(i, "start"))]

Interrupt(i) ==
    /\ Busy(i)
    /\ Costs
    /\ run' = [run EXCEPT ![i] = NoRun("failed")]

\* certificate_direct.go is the subject of DirectCertificate.
Secure(i) == At(i, "direct") /\ To(i, After(i, "direct"))
=============================================================================
