-------------------------- MODULE DeploymentProofs --------------------------
(* Proofs about Deployment, for any installers, deployments and faults.     *)
EXTENDS Deployment, FiniteSetTheorems, TLAPS

\* Where a run has a server, and where it may show it to the outside.
Publishing ==
    {"address", "attachAddress", "makeAddress", "certificate", "present", "writeText",
     "validate", "cleanUp", "storeCertificate", "balancer", "updateBalancer", "makeBalancer"}
Holding == {"waitServer", "attachGroup", "bootstrap"} \cup Publishing

Fields == {"at", "net", "group", "have", "image", "server", "address", "cert", "seen", "txt", "valid"}

RunShape == DOMAIN run = Installers /\ \A i \in Installers : DOMAIN run[i] = Fields

ServerFields == {"status", "site", "image", "net", "groups", "safe"}

ThingShape ==
    /\ \A i \in Installers : plan[i].site \in Sites /\ plan[i].server \in Ids \cup {0}
    /\ DOMAIN servers = Ids /\ \A s \in Ids : DOMAIN servers[s] = ServerFields
    /\ DOMAIN addresses = Ids /\ \A a \in Ids : DOMAIN addresses[a] = {"there", "nic", "managed"}
    /\ DOMAIN balancers = Sites /\ \A k \in Sites : DOMAIN balancers[k] = {"status", "cert", "target"}

\* The server of a run exists, is the one of its deployment, and has been set
\* up when the run is about to publish it.
HasServer(i) ==
    run[i].at \in Holding =>
        run[i].server \in Existing /\ servers[run[i].server].site = plan[i].site
HasSafeServer(i) ==
    Bootstrapping /\ run[i].at \in Publishing => servers[run[i].server].safe

\* An address that a run is about to attach is free, if nobody else is there.
HasFreeAddress(i) ==
    Single /\ At(i, "attachAddress") => addresses[run[i].address].nic = 0

\* Addresses and load balancers lead to servers that exist.
AddressesLead ==
    \A a \in Ids : /\ addresses[a].nic \in {0} \cup Existing
                   /\ ~addresses[a].there => addresses[a].nic = 0
BalancersLead ==
    \A k \in Sites \ removed :
        balancers[k].status # "none" =>
            balancers[k].target \in Existing /\ servers[balancers[k].target].site = k

RunInv ==
    /\ RunShape
    /\ \A i \in Installers : HasServer(i) /\ HasSafeServer(i) /\ HasFreeAddress(i)

ThingInv == ThingShape /\ AddressesLead /\ BalancersLead /\ ExposedIsSafe

Inv == RunInv /\ ThingInv

-----------------------------------------------------------------------------
(* Steps of a run.                                                         *)

LEMMA NoRunFields ==
    ASSUME NEW p PROVE DOMAIN NoRun(p) = Fields /\ NoRun(p).at = p
  BY DEF NoRun, Fields

\* What a step of a run leaves alone.
Stepped(i) ==
    /\ RunShape' /\ plan' = plan
    /\ \A j \in Installers \ {i} : run'[j] = run[j]
    /\ run[i].at # "absent" /\ run'[i].at # "absent"

LEMMA Learning ==
    ASSUME RunShape, NEW i \in Installers, NEW facts, NEW p,
           run[i].at # "absent", p # "absent", Learns(i, facts, p)
    PROVE  /\ Stepped(i) /\ run'[i].at = p
           /\ run'[i].server = IF "server" \in DOMAIN facts THEN facts.server ELSE run[i].server
           /\ run'[i].address = IF "address" \in DOMAIN facts THEN facts.address ELSE run[i].address
<1> DEFINE r == [f \in DOMAIN run[i] |-> IF f = "at" THEN p
                                          ELSE IF f \in DOMAIN facts THEN facts[f]
                                          ELSE run[i][f]]
<1>1. run' = [run EXCEPT ![i] = r] /\ plan' = plan
  BY DEF Learns
<1>2. DOMAIN r = Fields
  BY DEF RunShape
<1>3. r["at"] = p
  BY DEF RunShape, Fields
<1>4. r["server"] = IF "server" \in DOMAIN facts THEN facts["server"] ELSE run[i]["server"]
  BY DEF RunShape, Fields
<1>5. r["address"] = IF "address" \in DOMAIN facts THEN facts["address"] ELSE run[i]["address"]
  BY DEF RunShape, Fields
<1> HIDE DEF r
<1>6. run'[i] = r /\ \A j \in Installers \ {i} : run'[j] = run[j]
  BY <1>1 DEF RunShape
<1>7. RunShape'
  BY <1>1, <1>2 DEF RunShape
<1> QED
  BY <1>1, <1>2, <1>3, <1>4, <1>5, <1>6, <1>7 DEF Stepped

LEMMA GoesTo ==
    ASSUME RunShape, NEW i \in Installers, NEW p, run[i].at # "absent", p # "absent", To(i, p)
    PROVE  /\ Stepped(i) /\ run'[i].at = p
           /\ run'[i].server = run[i].server /\ run'[i].address = run[i].address
  BY DEF To, RunShape, Stepped, Fields

LEMMA ComesToStop ==
    ASSUME RunShape, NEW i \in Installers, NEW p, run[i].at # "absent", p # "absent", Stops(i, p)
    PROVE  Stepped(i) /\ run'[i].at = p
  BY NoRunFields DEF Stops, RunShape, Stepped

LEMMA Order ==
    ASSUME NEW i
    PROVE  /\ After(i, "start") \in {"zone", "network"}
           /\ After(i, "zone") = "network" /\ After(i, "network") = "group"
           /\ After(i, "group") = "image" /\ After(i, "image") = "server"
           /\ After(i, "server") = "bootstrap"
           /\ After(i, "bootstrap") \in {"certificate", "address", "done"}
           /\ After(i, "certificate") = "balancer" /\ After(i, "balancer") = "record"
           /\ After(i, "address") \in {"record", "done"}
           /\ After(i, "record") \in {"direct", "done"} /\ After(i, "direct") = "done"
  BY DEF After

\* Who is there does not change.
LEMMA SamePresent ==
    ASSUME NEW i \in Installers, Stepped(i) PROVE Single' = Single
<1>1. Present' = Present
  BY DEF Stepped, Present
<1> QED
  BY <1>1 DEF Single

LEMMA OnlyOne ==
    ASSUME NEW i \in Installers, NEW j \in Installers, Single,
           run[i].at # "absent", run[j].at # "absent"
    PROVE  i = j
  BY DEF Single, Present

-----------------------------------------------------------------------------
(* What the phases do with the server of a run.                            *)

\* The server stays what it was, in the phases that have one.
KeepsServer(i) ==
    /\ Stepped(i) /\ run'[i].at # "attachAddress"
    /\ run'[i].at \in Holding =>
          /\ run[i].at \in Holding /\ run'[i].server = run[i].server
          /\ run'[i].at \in Publishing => run[i].at \in Publishing

\* From one point to another without a change of server.
Passes(i, p) ==
    /\ p \notin {"absent", "attachAddress"}
    /\ p \in Holding => run[i].at \in Holding
    /\ p \in Publishing => run[i].at \in Publishing

LEMMA LearnsElse ==
    ASSUME RunShape, NEW i \in Installers, NEW p, run[i].at # "absent", Passes(i, p),
           NEW v, NEW w,
           \/ Learns(i, [net |-> v], p) \/ Learns(i, [group |-> v, have |-> w], p)
           \/ Learns(i, [have |-> v], p) \/ Learns(i, [image |-> v], p)
           \/ Learns(i, [seen |-> v], p) \/ Learns(i, [cert |-> v], p)
           \/ Learns(i, [seen |-> v, txt |-> w], p) \/ Learns(i, [txt |-> v], p)
           \/ Learns(i, [valid |-> v], p) \/ Learns(i, [txt |-> v, valid |-> w], p)
           \/ Learns(i, [address |-> v], p)
    PROVE  KeepsServer(i)
<1>1. ASSUME NEW facts, "server" \notin DOMAIN facts, Learns(i, facts, p)
      PROVE  KeepsServer(i)
  BY <1>1, Learning DEF KeepsServer, Passes
<1>2. CASE Learns(i, [net |-> v], p)  BY <1>1, <1>2
<1>3. CASE Learns(i, [group |-> v, have |-> w], p)  BY <1>1, <1>3
<1>4. CASE Learns(i, [have |-> v], p)  BY <1>1, <1>4
<1>5. CASE Learns(i, [image |-> v], p)  BY <1>1, <1>5
<1>6. CASE Learns(i, [seen |-> v], p)  BY <1>1, <1>6
<1>7. CASE Learns(i, [cert |-> v], p)  BY <1>1, <1>7
<1>8. CASE Learns(i, [seen |-> v, txt |-> w], p)  BY <1>1, <1>8
<1>9. CASE Learns(i, [txt |-> v], p)  BY <1>1, <1>9
<1>10. CASE Learns(i, [valid |-> v], p)  BY <1>1, <1>10
<1>11. CASE Learns(i, [txt |-> v, valid |-> w], p)  BY <1>1, <1>11
<1>12. CASE Learns(i, [address |-> v], p)  BY <1>1, <1>12
<1> QED
  BY <1>2, <1>3, <1>4, <1>5, <1>6, <1>7, <1>8, <1>9, <1>10, <1>11, <1>12

LEMMA GoesElse ==
    ASSUME RunShape, NEW i \in Installers, NEW p, run[i].at # "absent", Passes(i, p), To(i, p)
    PROVE  KeepsServer(i)
  BY GoesTo DEF KeepsServer, Passes

LEMMA StopsElse ==
    ASSUME RunShape, NEW i \in Installers, NEW p, run[i].at # "absent", p # "absent",
           p \notin Holding, p # "attachAddress", Stops(i, p)
    PROVE  KeepsServer(i)
  BY ComesToStop DEF KeepsServer

\* Nothing is published by a phase before the server's.
LEMMA ImageSteps ==
    ASSUME RunShape, NEW i \in Installers, Image(i)
    PROVE  KeepsServer(i)
<1> USE LearnsElse, GoesElse, StopsElse, Order DEF At, Holding, Publishing, Passes
<1>1. ASSUME NEW m, Chosen(i, m), run[i].at # "absent"
      PROVE  KeepsServer(i)
  BY <1>1 DEF Chosen
<1>2. CASE FindImage(i)
  BY <1>1, <1>2 DEF FindImage
<1>3. CASE FindOwnerImage(i)
  BY <1>1, <1>3 DEF FindOwnerImage
<1>4. CASE DropImage(i)
  BY <1>4 DEF DropImage
<1>5. CASE WaitImage(i)
  BY <1>5 DEF WaitImage
<1>6. CASE FindImportNetwork(i)
  BY <1>6 DEF FindImportNetwork
<1>7. CASE MakeImportNetwork(i)
  BY <1>7 DEF MakeImportNetwork
<1>8. CASE Import(i)
  BY <1>8 DEF Import
<1>9. CASE Upload(i)
  BY <1>9 DEF Upload
<1>10. CASE MarkImage(i)
  BY <1>10 DEF MarkImage
<1>11. CASE ShareImage(i)
  BY <1>11 DEF ShareImage
<1>12. CASE WaitVisible(i)
  BY <1>12 DEF WaitVisible
<1>13. CASE Deadline(i)
  BY <1>13 DEF Deadline
<1> QED
  BY <1>2, <1>3, <1>4, <1>5, <1>6, <1>7, <1>8, <1>9, <1>10, <1>11, <1>12, <1>13 DEF Image

\* The phases behind the bootstrap keep the server they were given.
LEMMA ExposeSteps ==
    ASSUME RunShape, NEW i \in Installers, Expose(i)
    PROVE  KeepsServer(i)
<1> USE LearnsElse, GoesElse, StopsElse, Order DEF At, Holding, Publishing, Passes
<1>1. CASE FindZone(i)
  BY <1>1 DEF FindZone
<1>2. CASE MakeZone(i)
  BY <1>2 DEF MakeZone
<1>3. CASE WaitZone(i)
  BY <1>3 DEF WaitZone
<1>4. CASE ListRecords(i)
  BY <1>4 DEF ListRecords
<1>5. CASE WriteRecord(i)
  BY <1>5 DEF WriteRecord
<1>6. CASE FindCertificate(i)
  BY <1>6 DEF FindCertificate
<1>7. CASE ListTexts(i)
  BY <1>7 DEF ListTexts
<1>8. CASE WriteText(i)
  BY <1>8 DEF WriteText
<1>9. CASE Validate(i)
  BY <1>9 DEF Validate
<1>10. CASE CleanUp(i)
  BY <1>10 DEF CleanUp
<1>11. CASE StoreCertificate(i)
  BY <1>11 DEF StoreCertificate
<1>12. CASE ListBalancers(i)
  BY <1>12 DEF ListBalancers
<1>13. CASE UpdateBalancer(i)
  BY <1>13 DEF UpdateBalancer
<1>14. CASE MakeBalancer(i)
  BY <1>14 DEF MakeBalancer
<1>15. CASE WaitBalancer(i)
  BY <1>15 DEF WaitBalancer
<1> QED
  BY <1>1, <1>2, <1>3, <1>4, <1>5, <1>6, <1>7, <1>8, <1>9, <1>10, <1>11, <1>12,
     <1>13, <1>14, <1>15 DEF Expose

\* A fault ends a run, starts it again or changes what it has learnt about a
\* challenge.
LEMMA DisturbedSteps ==
    ASSUME RunShape, NEW i \in Installers, Disturbed(i)
    PROVE  KeepsServer(i)
<1> USE Order DEF Holding, Publishing, KeepsServer, At, Costs, Stepped
<1>0. DOMAIN run = Installers /\ DOMAIN run[i] = Fields
  BY DEF RunShape
<1>1. CASE Interrupt(i)
  BY <1>0, <1>1, NoRunFields DEF Interrupt, RunShape, Busy, Ended
<1>2. CASE Again(i)
  BY <1>0, <1>2, NoRunFields DEF Again, RunShape
<1>3. CASE Invalid(i)
  BY <1>0, <1>3 DEF Invalid, RunShape, Fields
<1>4. CASE CleanUpFails(i)
  <2> DEFINE r == [run[i] EXCEPT !.txt = 0, !.valid = FALSE, !.at = "storeCertificate"]
  <2>1. DOMAIN r = Fields /\ r.at = "storeCertificate" /\ r.server = run[i].server
    BY <1>0 DEF Fields
  <2> QED
    BY <1>0, <1>4, <2>1 DEF CleanUpFails, RunShape
<1>5. CASE UploadFails(i)
  BY <1>0, <1>5, NoRunFields DEF UploadFails, RunShape
<1> QED
  BY <1>1, <1>2, <1>3, <1>4, <1>5 DEF Disturbed

-----------------------------------------------------------------------------
(* What a step keeps, by what it changes.                                  *)

LEMMA Held == Publishing \subseteq Holding /\ "attachAddress" \in Publishing
  BY DEF Holding, Publishing

LEMMA RunsKept ==
    ASSUME Inv, NEW i \in Installers, KeepsServer(i), UNCHANGED <<servers, addresses>>
    PROVE  RunInv'
<1>1. Single' = Single
  BY SamePresent DEF KeepsServer
<1>2. HasServer(i)' /\ HasSafeServer(i)' /\ HasFreeAddress(i)'
  BY Held DEF Inv, RunInv, KeepsServer, Stepped, HasServer, HasSafeServer, HasFreeAddress,
         Bootstrapping, Existing, At
<1>3. ASSUME NEW j \in Installers \ {i}
      PROVE  HasServer(j)' /\ HasSafeServer(j)' /\ HasFreeAddress(j)'
  BY Held, <1>1, <1>3 DEF Inv, RunInv, KeepsServer, Stepped, HasServer, HasSafeServer,
                    HasFreeAddress, Bootstrapping, Existing, At
<1> QED
  BY <1>2, <1>3 DEF RunInv, KeepsServer, Stepped

LEMMA ThingsKept ==
    ASSUME Inv, UNCHANGED <<plan, servers, addresses, balancers, removed>>
    PROVE  ThingInv'
  BY DEF Inv, ThingInv, ThingShape, AddressesLead, BalancersLead, ExposedIsSafe,
         Bootstrapping, Existing, Public

LEMMA Quiet ==
    ASSUME Inv, NEW i \in Installers, KeepsServer(i),
           UNCHANGED <<servers, addresses, balancers, removed>>
    PROVE  Inv'
  BY RunsKept, ThingsKept DEF Inv, KeepsServer, Stepped

\* A step that gives the run a server or an address: it answers for them.
LEMMA AnswersFor ==
    ASSUME Inv, NEW i \in Installers, Stepped(i),
           UNCHANGED <<servers, addresses, balancers, removed>>,
           HasServer(i)', HasSafeServer(i)', HasFreeAddress(i)'
    PROVE  Inv'
<1>1. Single' = Single
  BY SamePresent
<1>2. ASSUME NEW j \in Installers \ {i}
      PROVE  HasServer(j)' /\ HasSafeServer(j)' /\ HasFreeAddress(j)'
  BY Held, <1>1, <1>2 DEF Inv, RunInv, Stepped, HasServer, HasSafeServer,
                    HasFreeAddress, Bootstrapping, Existing, At
<1>3. RunInv'
  BY <1>2 DEF RunInv, Stepped
<1> QED
  BY <1>3, ThingsKept DEF Inv, Stepped

\* A step that changes servers: what exists goes on to exist, for the same
\* deployment, and what is safe stays safe.
Touches ==
    /\ DOMAIN servers' = Ids /\ \A s \in Ids : DOMAIN servers'[s] = ServerFields
    /\ \A s \in Existing : /\ servers'[s].status # "none"
                           /\ servers'[s].site = servers[s].site
                           /\ servers[s].safe => servers'[s].safe

LEMMA ServersTouched ==
    ASSUME Inv, Touches, UNCHANGED <<plan, addresses, balancers, removed>>
    PROVE  ThingInv'
<1>1. ThingShape'
  BY DEF Inv, ThingInv, ThingShape, Touches
<1>2. AddressesLead' /\ BalancersLead'
  BY DEF Inv, ThingInv, AddressesLead, BalancersLead, Touches, Existing
<1>3. \A s \in Ids : Public(s)' <=> Public(s)
  BY DEF Public
<1>4. ASSUME NEW s \in Ids, Public(s), s \notin {0} PROVE s \in Existing
  BY <1>4 DEF Inv, ThingInv, AddressesLead, BalancersLead, Public, Existing
<1>5. 0 \notin Ids
  BY IdsAreNumbers
<1>6. ExposedIsSafe'
  BY <1>3, <1>4, <1>5 DEF Inv, ThingInv, ExposedIsSafe, Bootstrapping, Touches, Existing
<1> QED
  BY <1>1, <1>2, <1>6 DEF ThingInv

\* The other runs keep their server, and a free address stays free.
LEMMA OthersTouched ==
    ASSUME Inv, NEW i \in Installers, Touches, Stepped(i), UNCHANGED addresses,
           HasServer(i)', HasSafeServer(i)', HasFreeAddress(i)'
    PROVE  RunInv'
<1>1. Single' = Single
  BY SamePresent
<1>2. ASSUME NEW j \in Installers \ {i}
      PROVE  HasServer(j)' /\ HasSafeServer(j)' /\ HasFreeAddress(j)'
  BY Held, <1>1, <1>2 DEF Inv, RunInv, Stepped, HasServer, HasSafeServer,
                    HasFreeAddress, Bootstrapping, Existing, At, Touches
<1> QED
  BY <1>2 DEF RunInv, Stepped

\* The same for a step of STACKIT.
LEMMA AllTouched ==
    ASSUME Inv, Touches, UNCHANGED <<plan, run, addresses>>
    PROVE  RunInv'
<1>1. Single' = Single
  BY DEF Single, Present
<1>2. ASSUME NEW j \in Installers
      PROVE  HasServer(j)' /\ HasSafeServer(j)' /\ HasFreeAddress(j)'
  BY Held, <1>1, <1>2 DEF Inv, RunInv, HasServer, HasSafeServer,
                    HasFreeAddress, Bootstrapping, Existing, At, Touches
<1> QED
  BY <1>2 DEF Inv, RunInv, RunShape

-----------------------------------------------------------------------------
(* Every step keeps the invariant.                                         *)

LEMMA NetworkAndGroup ==
    ASSUME Inv, NEW i \in Installers, UNCHANGED <<balancers, removed>>,
           \/ FindNetwork(i) \/ MakeNetwork(i) \/ FindGroup(i) \/ MakeGroup(i)
           \/ AddRule(i) \/ GroupReady(i) \/ WaitServer(i)
    PROVE  Inv'
<1> USE LearnsElse, GoesElse, StopsElse, Order DEF At, Holding, Publishing, Passes
<1>0. RunShape
  BY DEF Inv, RunInv
<1>1. CASE FindNetwork(i)
  <2>1. KeepsServer(i)  BY <1>0, <1>1 DEF FindNetwork
  <2> QED  BY <1>1, <2>1, Quiet DEF FindNetwork, resourceVars
<1>2. CASE MakeNetwork(i)
  <2>1. KeepsServer(i)  BY <1>0, <1>2 DEF MakeNetwork
  <2> QED  BY <1>2, <2>1, Quiet DEF MakeNetwork
<1>3. CASE FindGroup(i)
  <2>1. KeepsServer(i)  BY <1>0, <1>3 DEF FindGroup
  <2> QED  BY <1>3, <2>1, Quiet DEF FindGroup, resourceVars
<1>4. CASE MakeGroup(i)
  <2>1. KeepsServer(i)  BY <1>0, <1>4 DEF MakeGroup
  <2> QED  BY <1>4, <2>1, Quiet DEF MakeGroup
<1>5. CASE AddRule(i)
  <2>1. KeepsServer(i)  BY <1>0, <1>5 DEF AddRule
  <2> QED  BY <1>5, <2>1, Quiet DEF AddRule
<1>6. CASE GroupReady(i)
  <2>1. KeepsServer(i)  BY <1>0, <1>6 DEF GroupReady
  <2> QED  BY <1>6, <2>1, Quiet DEF GroupReady, resourceVars
<1>7. CASE WaitServer(i)
  <2>1. KeepsServer(i)  BY <1>0, <1>7 DEF WaitServer
  <2> QED  BY <1>7, <2>1, Quiet DEF WaitServer, resourceVars
<1> QED
  BY <1>1, <1>2, <1>3, <1>4, <1>5, <1>6, <1>7

\* A run takes a server that exists and is the one of its deployment.
LEMMA TakesServer ==
    ASSUME Inv, NEW i \in Installers, NEW s \in Existing, servers[s].site = plan[i].site,
           NEW p \in {"waitServer", "attachGroup", "bootstrap"}, run[i].at # "absent",
           Learns(i, [server |-> s], p), UNCHANGED <<servers, addresses, balancers, removed>>
    PROVE  Inv'
<1>1. Stepped(i) /\ run'[i].at = p /\ run'[i].server = s
  BY Learning DEF Inv, RunInv
<1>2. p \notin Publishing /\ p # "attachAddress"
  BY DEF Publishing
<1>3. HasServer(i)' /\ HasSafeServer(i)' /\ HasFreeAddress(i)'
  BY <1>1, <1>2 DEF HasServer, HasSafeServer, HasFreeAddress, Existing, At, Stepped
<1> QED
  BY <1>1, <1>3, AnswersFor

LEMMA FindServerSteps ==
    ASSUME Inv, NEW i \in Installers, UNCHANGED <<balancers, removed>>,
           FindServer(i) \/ AdoptServer(i)
    PROVE  Inv'
<1>0. RunShape
  BY DEF Inv, RunInv
<1>1. UNCHANGED <<servers, addresses>> /\ run[i].at = "server"
  BY DEF FindServer, AdoptServer, resourceVars, At
<1>2. CASE To(i, "makeServer") \/ Stops(i, "refused")
  <2>1. KeepsServer(i)
    BY <1>0, <1>1, <1>2, GoesElse, StopsElse DEF Passes, Holding, Publishing
  <2> QED
    BY <1>1, <2>1, Quiet
<1>3. ASSUME NEW s \in Named(i),
             NEW p \in {"waitServer", "attachGroup", "bootstrap"}, Learns(i, [server |-> s], p)
      PROVE  Inv'
  BY <1>1, <1>3, TakesServer DEF Named
<1>4. CASE FindServer(i)
  BY <1>2, <1>3, <1>4, Order DEF FindServer
<1>5. CASE AdoptServer(i)
  <2>1. Adoptable(i) => plan[i].server \in Named(i)
    BY <1>5 DEF Adoptable, AdoptServer, Named, Existing, Inv, ThingInv, ThingShape
  <2> QED
    BY <1>2, <1>3, <1>5, <2>1, Order DEF AdoptServer
<1> QED
  BY <1>4, <1>5

\* A new server has nobody who leads to it.
LEMMA MakeServerStep ==
    ASSUME Inv, NEW i \in Installers, UNCHANGED <<balancers, removed>>, MakeServer(i)
    PROVE  Inv'
<1>1. PICK s \in Ids :
        /\ IsNext(s, Existing)
        /\ servers' = [servers EXCEPT ![s] =
                [status |-> "creating", site |-> plan[i].site, image |-> run[i].image,
                 net |-> run[i].net, groups |-> {run[i].group}, safe |-> FALSE]]
        /\ Learns(i, [server |-> s], "waitServer")
  BY DEF MakeServer
<1>2. Stepped(i) /\ run'[i].at = "waitServer" /\ run'[i].server = s
  BY <1>1, Learning DEF Inv, RunInv, MakeServer, At
<1>3. UNCHANGED <<plan, addresses>>
  BY <1>2 DEF MakeServer, Stepped
<1>4. s \notin Existing
  BY <1>1 DEF IsNext
<1>5. Touches /\ servers'[s].status # "none" /\ servers'[s].site = plan[i].site
  BY <1>1, <1>4 DEF Touches, Existing, Inv, ThingInv, ThingShape, ServerFields
<1>6. ThingInv'
  BY <1>3, <1>5, ServersTouched
<1>7. HasServer(i)' /\ HasSafeServer(i)' /\ HasFreeAddress(i)'
  BY <1>2, <1>3, <1>5 DEF HasServer, HasSafeServer, HasFreeAddress, Existing, At, Publishing
<1> QED
  BY <1>2, <1>3, <1>5, <1>6, <1>7, OthersTouched DEF Inv

\* The steps of a run that change its server.
LEMMA ServerSteps ==
    ASSUME Inv, NEW i \in Installers, UNCHANGED <<balancers, removed>>,
           AttachGroup(i) \/ BootstrapServer(i)
    PROVE  Inv'
<1> DEFINE s == run[i].server
<1>0. RunShape /\ ThingShape /\ UNCHANGED <<addresses>>
  BY DEF Inv, RunInv, ThingInv, AttachGroup, BootstrapServer
<1>1. s \in Existing /\ servers[s].site = plan[i].site
  BY DEF Inv, RunInv, HasServer, AttachGroup, BootstrapServer, At, Holding
<1>2. CASE AttachGroup(i)
  <2>1. Stepped(i) /\ run'[i].at = "bootstrap" /\ run'[i].server = s
    BY <1>0, <1>2, GoesTo, Order DEF AttachGroup, At
  <2>2. Touches
    BY <1>0, <1>2 DEF AttachGroup, ThingShape, Touches, ServerFields, Existing
  <2>3. HasServer(i)' /\ HasSafeServer(i)' /\ HasFreeAddress(i)'
    BY <1>1, <2>1, <2>2
    DEF HasServer, HasSafeServer, HasFreeAddress, Existing, At, Publishing, Touches, Stepped
  <2> QED
    BY <1>0, <2>1, <2>2, <2>3, ServersTouched, OthersTouched DEF Inv, Stepped
<1>3. CASE BootstrapServer(i)
  <2>1. Stepped(i) /\ run'[i].at = After(i, "bootstrap") /\ run'[i].server = s
    BY <1>0, <1>3, GoesTo, Order DEF BootstrapServer, At
  <2>2. Touches /\ (plan[i].bootstrap => servers'[s].safe)
    BY <1>0, <1>1, <1>3 DEF BootstrapServer, ThingShape, Touches, ServerFields, Existing
  <2>3. HasServer(i)' /\ HasSafeServer(i)' /\ HasFreeAddress(i)'
    BY <1>1, <2>1, <2>2, Order
    DEF HasServer, HasSafeServer, HasFreeAddress, Existing, At, Touches, Stepped, Bootstrapping
  <2> QED
    BY <1>0, <2>1, <2>2, <2>3, ServersTouched, OthersTouched DEF Inv, Stepped
<1> QED
  BY <1>2, <1>3

\* The address that is attached was free or is new; the server is safe.
LEMMA ChooseAddressStep ==
    ASSUME Inv, NEW i \in Installers, UNCHANGED <<balancers, removed>>, ChooseAddress(i)
    PROVE  Inv'
<1>0. RunShape
  BY DEF Inv, RunInv
<1>1. UNCHANGED <<servers, addresses>> /\ run[i].at = "address"
  BY DEF ChooseAddress, resourceVars, At
<1>2. ASSUME KeepsServer(i) PROVE Inv'
  BY <1>1, <1>2, Quiet
<1>3. ASSUME NEW a, addresses[a].nic = 0, Learns(i, [address |-> a], "attachAddress")
      PROVE  Inv'
  <2>1. /\ Stepped(i) /\ run'[i].at = "attachAddress"
        /\ run'[i].server = run[i].server /\ run'[i].address = a
    BY <1>0, <1>1, <1>3, Learning
  <2>2. HasServer(i)' /\ HasSafeServer(i)' /\ HasFreeAddress(i)'
    BY <1>1, <1>3, <2>1, Held
    DEF Inv, RunInv, HasServer, HasSafeServer, HasFreeAddress, Existing, At, Stepped,
        Bootstrapping, Publishing
  <2> QED
    BY <1>1, <2>1, <2>2, AnswersFor
<1>4. CASE Stops(i, "refused") \/ To(i, "makeAddress")
  BY <1>0, <1>1, <1>2, <1>4, GoesElse, StopsElse DEF Passes, Holding, Publishing
<1>5. ASSUME NEW a, Learns(i, [address |-> a], After(i, "address"))
      PROVE  Inv'
  BY <1>0, <1>1, <1>2, <1>5, LearnsElse, Order DEF Passes, Holding, Publishing
<1> QED
  BY <1>3, <1>4, <1>5 DEF ChooseAddress, FreeManaged

LEMMA AddressSteps ==
    ASSUME Inv, NEW i \in Installers, UNCHANGED <<balancers, removed>>,
           AttachAddress(i) \/ MakeAddress(i)
    PROVE  Inv'
<1> DEFINE s == run[i].server
<1>0. RunShape /\ ThingShape /\ UNCHANGED servers
  BY DEF Inv, RunInv, ThingInv, AttachAddress, MakeAddress
<1>1. run[i].at \in Publishing
  BY DEF AttachAddress, MakeAddress, At, Publishing
<1>2. s \in Existing /\ servers[s].site = plan[i].site /\ (Bootstrapping => servers[s].safe)
  BY <1>1, Held DEF Inv, RunInv, HasServer, HasSafeServer
<1>3. KeepsServer(i)
  <2>1. CASE AttachAddress(i)
    BY <1>0, <2>1, GoesElse, Order DEF AttachAddress, Passes, At, Holding, Publishing
  <2>2. CASE MakeAddress(i)
    BY <1>0, <2>2, LearnsElse, Order DEF MakeAddress, Passes, At, Holding, Publishing
  <2> QED
    BY <2>1, <2>2
<1>4. Stepped(i) /\ UNCHANGED plan
  BY <1>3 DEF KeepsServer, Stepped
<1>5. PICK a : addresses' = [addresses EXCEPT ![a] = [there |-> TRUE, nic |-> s, managed |-> TRUE]]
  BY DEF AttachAddress, MakeAddress
<1>6. ThingShape'
  BY <1>0, <1>4, <1>5 DEF ThingShape
<1>7. \A b \in Ids : \/ addresses'[b] = addresses[b]
                     \/ addresses'[b].there /\ addresses'[b].nic = s
  BY <1>0, <1>5 DEF ThingShape
<1>8. AddressesLead' /\ BalancersLead'
  BY <1>0, <1>2, <1>7 DEF Inv, ThingInv, AddressesLead, BalancersLead, Existing
<1>9. ExposedIsSafe'
  BY <1>0, <1>2, <1>4, <1>7 DEF Inv, ThingInv, ExposedIsSafe, Bootstrapping, Existing, Public
<1>10. RunInv'
  <2>1. Single' = Single
    BY <1>4, SamePresent
  <2>2. HasServer(i)' /\ HasSafeServer(i)' /\ HasFreeAddress(i)'
    BY <1>0, <1>2, <1>3, <1>4, Held
    DEF KeepsServer, HasServer, HasSafeServer, HasFreeAddress, Existing, At, Bootstrapping
  <2>3. ASSUME NEW j \in Installers \ {i}
        PROVE  HasServer(j)' /\ HasSafeServer(j)' /\ HasFreeAddress(j)'
    <3>1. HasServer(j)' /\ HasSafeServer(j)'
      BY <1>0, <1>4, <2>3 DEF Inv, RunInv, Stepped, HasServer, HasSafeServer, Existing, Bootstrapping
    <3>2. ~(Single /\ run[j].at = "attachAddress")
      BY <1>4, <2>3, OnlyOne DEF Stepped
    <3> QED
      BY <1>4, <2>1, <2>3, <3>1, <3>2 DEF HasFreeAddress, At, Stepped
  <2> QED
    BY <1>4, <2>2, <2>3 DEF RunInv, Stepped
<1> QED
  BY <1>6, <1>8, <1>9, <1>10 DEF Inv, ThingInv

\* A load balancer is given the server of the run that configures it.
LEMMA ExposeInv ==
    ASSUME Inv, NEW i \in Installers, Expose(i)
    PROVE  Inv'
<1> DEFINE s == run[i].server
           k == plan[i].site
<1>0. RunShape /\ ThingShape /\ UNCHANGED <<servers, addresses, removed>>
  BY DEF Inv, RunInv, ThingInv, Expose
<1>1. KeepsServer(i) /\ UNCHANGED plan
  BY <1>0, ExposeSteps DEF KeepsServer, Stepped
<1>2. CASE UNCHANGED balancers
  BY <1>0, <1>1, <1>2, Quiet
<1>3. CASE Configure(i) /\ run[i].at \in Publishing
  <2>1. s \in Existing /\ servers[s].site = k /\ (Bootstrapping => servers[s].safe)
    BY <1>3, Held DEF Inv, RunInv, HasServer, HasSafeServer
  <2>2. ThingShape'
    BY <1>0, <1>1, <1>3 DEF ThingShape, Configure
  <2>3. \A m \in Sites : \/ balancers'[m] = balancers[m]
                         \/ m = k /\ balancers'[m].target = s
    BY <1>0, <1>3 DEF ThingShape, Configure, Desired, Site
  <2>4. AddressesLead' /\ BalancersLead'
    BY <1>0, <2>1, <2>3 DEF Inv, ThingInv, AddressesLead, BalancersLead, Existing
  <2>5. ExposedIsSafe'
    BY <1>0, <1>1, <2>1, <2>3 DEF Inv, ThingInv, ExposedIsSafe, Bootstrapping, Existing, Public
  <2> QED
    BY <1>0, <1>1, <2>2, <2>4, <2>5, RunsKept DEF Inv, ThingInv
<1>4. UNCHANGED balancers \/ (Configure(i) /\ run[i].at \in Publishing)
  BY DEF Expose, FindZone, MakeZone, WaitZone, ListRecords, WriteRecord, FindCertificate,
         ListTexts, WriteText, Validate, CleanUp, StoreCertificate, ListBalancers,
         UpdateBalancer, MakeBalancer, WaitBalancer, exposureVars, At, Publishing
<1> QED
  BY <1>2, <1>3, <1>4

-----------------------------------------------------------------------------
(* Steps of STACKIT and of the operator.                                   *)

LEMMA SameInv ==
    ASSUME Inv, UNCHANGED <<plan, run, servers, addresses, balancers, removed>>
    PROVE  Inv'
<1>1. RunInv'
  BY DEF Inv, RunInv, RunShape, HasServer, HasSafeServer, HasFreeAddress, Single, Present,
         Existing, Bootstrapping, At
<1> QED
  BY <1>1, ThingsKept DEF Inv

LEMMA ServerEnds ==
    ASSUME Inv, NEW s \in Ids, ServerStarts(s) \/ ServerBreaks(s), UNCHANGED balancers
    PROVE  Inv'
<1>1. ThingShape /\ UNCHANGED <<plan, run, addresses, removed>>
  BY DEF Inv, ThingInv, ServerStarts, ServerBreaks, Costs
<1>2. Touches
  BY <1>1 DEF ServerStarts, ServerBreaks, ThingShape, Touches, ServerFields, Existing
<1> QED
  BY <1>1, <1>2, ServersTouched, AllTouched DEF Inv

LEMMA BalancerEndsInv ==
    ASSUME Inv, NEW k \in Sites, NEW e, BalancerEnds(k, e),
           UNCHANGED <<servers, addresses, removed>>
    PROVE  Inv'
<1>1. ThingShape /\ UNCHANGED <<plan, run>>
  BY DEF Inv, ThingInv, BalancerEnds, Costs
<1>2. ThingShape'
  BY <1>1 DEF ThingShape, BalancerEnds
<1>3. \A m \in Sites : /\ balancers'[m].target = balancers[m].target
                       /\ balancers'[m].status # "none" => balancers[m].status # "none"
  BY <1>1 DEF ThingShape, BalancerEnds
<1>4. AddressesLead' /\ BalancersLead'
  BY <1>3 DEF Inv, ThingInv, AddressesLead, BalancersLead, Existing
<1>5. ExposedIsSafe'
  BY <1>1, <1>3 DEF Inv, ThingInv, ExposedIsSafe, Bootstrapping, Existing, Public
<1>6. RunInv'
  BY <1>1 DEF Inv, RunInv, RunShape, HasServer, HasSafeServer, HasFreeAddress, Single, Present,
              Existing, Bootstrapping, At
<1> QED
  BY <1>2, <1>4, <1>5, <1>6 DEF Inv, ThingInv

\* A server is removed between two runs; what led to it is free, or is a load
\* balancer of a deployment that is marked.
LEMMA RemoveServerInv ==
    ASSUME Inv, NEW s \in Ids, RemoveServer(s), UNCHANGED balancers
    PROVE  Inv'
<1>1. ThingShape /\ UNCHANGED <<plan, run>> /\ 0 \notin Ids
  BY IdsAreNumbers DEF Inv, ThingInv, RemoveServer, Costs
<1>2. ThingShape'
  BY <1>1 DEF ThingShape, RemoveServer, NoServer, ServerFields
<1>3. /\ \A x \in Ids \ {s} : servers'[x] = servers[x]
      /\ servers'[s].status = "none"
      /\ Existing' = Existing \ {s}
  BY <1>1 DEF ThingShape, RemoveServer, NoServer, Existing
<1>4. \A a \in Ids : /\ addresses'[a].nic = IF addresses[a].nic = s THEN 0 ELSE addresses[a].nic
                     /\ addresses'[a].there = addresses[a].there
  BY <1>1 DEF ThingShape, RemoveServer
<1>5. removed' = removed \cup {servers[s].site}
  BY DEF RemoveServer
<1>6. AddressesLead'
  BY <1>3, <1>4 DEF Inv, ThingInv, AddressesLead
<1>7. BalancersLead'
  BY <1>3, <1>5 DEF Inv, ThingInv, BalancersLead, Existing
<1>8. ASSUME NEW x \in Existing', Public(x)' PROVE x \in Existing /\ x # s /\ Public(x)
  BY <1>1, <1>3, <1>4, <1>5, <1>8 DEF Public, Existing
<1>9. ExposedIsSafe'
  BY <1>1, <1>3, <1>8 DEF Inv, ThingInv, ExposedIsSafe, Bootstrapping, Existing
<1>10. \A i \in Installers : run[i].at \notin Holding
  BY DEF RemoveServer, Busy, Ended, Holding, Publishing
<1>11. RunInv'
  BY <1>1, <1>10, Held DEF Inv, RunInv, RunShape, HasServer, HasSafeServer, HasFreeAddress, At
<1> QED
  BY <1>2, <1>6, <1>7, <1>9, <1>11 DEF Inv, ThingInv

LEMMA PlatformInv ==
    ASSUME Inv, Platform \/ Trouble
    PROVE  Inv'
<1>1. ASSUME NEW s \in Ids, ServerStarts(s) \/ ServerBreaks(s) \/ RemoveServer(s), UNCHANGED balancers
      PROVE  Inv'
  BY <1>1, ServerEnds, RemoveServerInv
<1>2. ASSUME NEW m \in Ids, ImageReady(m) \/ ImageAges(m),
             UNCHANGED <<servers, addresses, removed, balancers>>
      PROVE  Inv'
  BY <1>2, SameInv DEF ImageReady, ImageAges
<1>3. ASSUME NEW e, ZoneEnds(e), UNCHANGED <<servers, addresses, removed>>
      PROVE  Inv'
  BY <1>3, SameInv DEF ZoneEnds, Costs
<1>4. ASSUME NEW c \in Ids, CertificateAges(c), UNCHANGED <<servers, addresses, removed>>
      PROVE  Inv'
  BY <1>4, SameInv DEF CertificateAges, Costs
<1> QED
  BY <1>1, <1>2, <1>3, <1>4, BalancerEndsInv DEF Platform, Trouble

-----------------------------------------------------------------------------
\* The invariant holds in every cloud to start from.
LEMMA InitInv == Init => Inv
<1> SUFFICES ASSUME Init PROVE Inv
  OBVIOUS
<1>1. PICK c \in Scenarios :
        /\ plan = c.plan
        /\ run = [i \in Installers |-> NoRun(IF i \in c.present THEN "ready" ELSE "absent")]
        /\ servers = c.servers /\ addresses = c.addresses /\ removed = {}
        /\ balancers = [k \in Sites |-> NoBalancer]
  BY DEF Init
<1>2. /\ \A i \in Installers : plan[i].site \in Sites /\ plan[i].server \in Ids \cup {0}
      /\ DOMAIN servers = Ids /\ \A x \in Ids : DOMAIN servers[x] = DOMAIN NoServer
      /\ DOMAIN addresses = Ids
      /\ \A a \in Ids :
            /\ DOMAIN addresses[a] = {"there", "nic", "managed"}
            /\ ~addresses[a].there => addresses[a].nic = 0
            /\ addresses[a].nic # 0 => /\ addresses[a].nic \in Ids
                                       /\ servers[addresses[a].nic].status # "none"
                                       /\ servers[addresses[a].nic].safe
  BY <1>1, ScenarioAssumption
<1>3. \A i \in Installers : DOMAIN run[i] = Fields /\ run[i].at \in {"ready", "absent"}
  BY <1>1, NoRunFields
<1>4. DOMAIN NoServer = ServerFields
  BY DEF NoServer, ServerFields
<1>5. \A k \in Sites : balancers[k].status = "none"
  BY <1>1 DEF NoBalancer
<1>6. ThingShape
  BY <1>1, <1>2, <1>4 DEF ThingShape, NoBalancer
<1>7. RunInv
  <2>1. RunShape
    BY <1>1, <1>3 DEF RunShape
  <2> QED
    BY <2>1, <1>3, Held DEF RunInv, HasServer, HasSafeServer, HasFreeAddress, At, Holding, Publishing
<1>8. AddressesLead /\ BalancersLead
  BY <1>2, <1>5 DEF AddressesLead, BalancersLead, Existing
<1>9. ExposedIsSafe
  BY <1>2, <1>5, IdsAreNumbers DEF ExposedIsSafe, Public, Existing
<1> QED
  BY <1>6, <1>7, <1>8, <1>9 DEF Inv, ThingInv

\* Every step of a run, of STACKIT and of an operator keeps the invariant.
LEMMA NextInv == Inv /\ [Next]_vars => Inv'
<1> SUFFICES ASSUME Inv, [Next]_vars PROVE Inv'
  OBVIOUS
<1>0. RunShape
  BY DEF Inv, RunInv
<1>1. CASE UNCHANGED vars
  BY <1>1, SameInv DEF vars
<1>2. ASSUME NEW i \in Installers, (Start(i) \/ Secure(i)) /\ UNCHANGED <<resourceVars, exposureVars>>
      PROVE  Inv'
  <2>1. KeepsServer(i)
    <3>1. CASE Start(i)
      BY <1>0, <3>1, NoRunFields, Order
      DEF Start, KeepsServer, Stepped, RunShape, Holding, Publishing
    <3>2. CASE Secure(i)
      BY <1>0, <3>2, GoesElse, Order DEF Secure, At, Passes, Holding, Publishing
    <3> QED
      BY <1>2, <3>1, <3>2
  <2> QED
    BY <1>2, <2>1, Quiet DEF resourceVars, exposureVars
<1>3. ASSUME NEW i \in Installers, Resource(i) PROVE Inv'
  <2>1. UNCHANGED <<balancers, removed>>
    BY <1>3 DEF Resource, FindNetwork, MakeNetwork, FindGroup, MakeGroup, AddRule, GroupReady,
                FindServer, MakeServer, WaitServer, AdoptServer, AttachGroup, BootstrapServer,
                ChooseAddress, AttachAddress, MakeAddress, resourceVars
  <2> QED
    BY <1>3, <2>1, NetworkAndGroup, FindServerSteps, MakeServerStep, ServerSteps,
       ChooseAddressStep, AddressSteps DEF Resource
<1>4. ASSUME NEW i \in Installers, Image(i) PROVE Inv'
  BY <1>0, <1>4, ImageSteps, Quiet DEF Image
<1>5. ASSUME NEW i \in Installers, Expose(i) PROVE Inv'
  BY <1>5, ExposeInv
<1>6. ASSUME NEW i \in Installers, Disturbed(i) PROVE Inv'
  BY <1>0, <1>6, DisturbedSteps, Quiet DEF Disturbed, resourceVars, exposureVars
<1>7. CASE Platform \/ Trouble
  BY <1>7, PlatformInv
<1> QED
  BY <1>1, <1>2, <1>3, <1>4, <1>5, <1>6, <1>7 DEF Next, Works

\* Wherever the runs are cut off: the server of a run exists and is its own, what
\* is published has been set up, addresses and load balancers lead to servers.
THEOREM DeploymentInvariant == Spec => []Inv
<1> QED
  BY InitInv, NextInv, PTL DEF Spec

\* Whatever runs there are, for the same or for other deployments, and wherever
\* they are cut off: no server with the vendor's password can be reached from
\* outside.
THEOREM ServersExposedAreSafe == Spec => []ExposedIsSafe
<1>1. Inv => ExposedIsSafe
  BY DEF Inv, ThingInv
<1> QED
  BY <1>1, DeploymentInvariant, PTL

\* The steps that change something.
LEMMA ChangedBy ==
    ASSUME NEW i \in Installers, Works(i) \/ Disturbed(i)
    PROVE  /\ networks' = networks \/ MakeNetwork(i) \/ MakeImportNetwork(i)
           /\ groups' = groups \/ MakeGroup(i)
           /\ servers' = servers \/ MakeServer(i) \/ AttachGroup(i) \/ BootstrapServer(i)
           /\ addresses' = addresses \/ AttachAddress(i) \/ MakeAddress(i)
           /\ \/ images' = images \/ DropImage(i) \/ Import(i) \/ Upload(i) \/ UploadFails(i)
              \/ MarkImage(i) \/ ShareImage(i)
           /\ certs' = certs \/ StoreCertificate(i)
<1>1. CASE (Start(i) \/ Secure(i)) /\ UNCHANGED <<resourceVars, images, exposureVars>>
  BY <1>1 DEF resourceVars, exposureVars
<1>2. CASE Disturbed(i)
  BY <1>2 DEF Disturbed, resourceVars, exposureVars
<1>3. CASE Resource(i)
  BY <1>3 DEF Resource, FindNetwork, MakeNetwork, FindGroup, MakeGroup, AddRule, GroupReady,
              FindServer, MakeServer, WaitServer, AdoptServer, AttachGroup, BootstrapServer,
              ChooseAddress, AttachAddress, MakeAddress, resourceVars
<1>4. CASE Image(i)
  BY <1>4 DEF Image, FindImage, FindOwnerImage, DropImage, WaitImage, FindImportNetwork,
              MakeImportNetwork, Import, Upload, MarkImage, ShareImage, WaitVisible, Deadline,
              imageVars
<1>5. CASE Expose(i)
  BY <1>5 DEF Expose, FindZone, MakeZone, WaitZone, ListRecords, WriteRecord, FindCertificate,
              ListTexts, WriteText, Validate, CleanUp, StoreCertificate, ListBalancers,
              UpdateBalancer, MakeBalancer, WaitBalancer, exposureVars
<1> QED
  BY <1>1, <1>2, <1>3, <1>4, <1>5 DEF Works

\* An address is not taken from a server, wherever the runs of the installer
\* are cut off and however often they are repeated.
THEOREM AddressesAreKept == Spec => AddressKept
<1> DEFINE Stays == Single => \A a \in Ids :
                        addresses[a].nic # 0 /\ addresses'[a].nic # addresses[a].nic =>
                            /\ addresses'[a].nic = 0
                            /\ servers'[addresses[a].nic].status = "none"
<1>1. Inv /\ [Next]_vars => [Stays]_vars
  <2> SUFFICES ASSUME Inv, [Next]_vars, Single, NEW a \in Ids,
                      addresses[a].nic # 0, addresses'[a].nic # addresses[a].nic
               PROVE  addresses'[a].nic = 0 /\ servers'[addresses[a].nic].status = "none"
    OBVIOUS
  <2>0. ThingShape /\ AddressesLead
    BY DEF Inv, ThingInv
  <2>1. addresses' # addresses
    OBVIOUS
  <2>2. ASSUME NEW i \in Installers, AttachAddress(i) PROVE FALSE
    <3>1. addresses[run[i].address].nic = 0
      BY <2>2 DEF Inv, RunInv, HasFreeAddress, AttachAddress
    <3> QED
      BY <2>0, <2>2, <3>1 DEF AttachAddress, ThingShape
  <2>3. ASSUME NEW i \in Installers, MakeAddress(i) PROVE FALSE
    <3>1. PICK b \in Ids :
            /\ IsNext(b, Reserved)
            /\ addresses' = [addresses EXCEPT ![b] =
                                [there |-> TRUE, nic |-> run[i].server, managed |-> TRUE]]
      BY <2>3 DEF MakeAddress
    <3>2. addresses[b].nic = 0
      BY <2>0, <3>1 DEF IsNext, Reserved, AddressesLead
    <3> QED
      BY <2>0, <3>1, <3>2 DEF ThingShape
  <2>4. ASSUME NEW s \in Ids, RemoveServer(s)
        PROVE  addresses'[a].nic = 0 /\ servers'[addresses[a].nic].status = "none"
    BY <2>0, <2>4 DEF RemoveServer, ThingShape, NoServer
  <2>5. \/ \E i \in Installers : AttachAddress(i) \/ MakeAddress(i)
        \/ \E s \in Ids : RemoveServer(s)
    <3>1. ASSUME NEW i \in Installers, Works(i) \/ Disturbed(i)
          PROVE  AttachAddress(i) \/ MakeAddress(i)
      BY <2>1, <3>1, ChangedBy
    <3>2. (\E i \in Installers : Works(i) \/ Disturbed(i)) \/ Platform \/ Trouble
      BY <2>1 DEF Next, vars
    <3>3. CASE Platform \/ Trouble
      BY <2>1, <3>3 DEF Platform, Trouble, ServerStarts, ServerBreaks
    <3> QED
      BY <3>1, <3>2, <3>3
  <2> QED
    BY <2>2, <2>3, <2>4, <2>5
<1> QED
  BY <1>1, DeploymentInvariant, PTL DEF Spec, AddressKept

-----------------------------------------------------------------------------
(* One installer.                                                          *)

ImageFields == {"status", "owner", "label", "fed", "old", "agent", "shared"}

\* What there is of the things that a run makes.
Managed == {a \in Reserved : addresses[a].managed}
Live == {m \in Ids : images[m].status # "none"}
Stored(p) == {m \in Live : images[m].label = "match" /\ images[m].owner = p}
OfSite(k) == {s \in Existing : servers[s].site = k}
Usable(k) == {c \in Ids : certs[c] = [site |-> k, fresh |-> TRUE]}

\* There is at most one of each, and none where a run is about to make one.
NetworksTidy(i) ==
    /\ DOMAIN networks = Projects
    /\ \A p \in Projects : OnlyOneOf(networks[p])
    /\ At(i, "makeNetwork") => networks["home"] = {}
    /\ At(i, "makeImportNetwork") => networks[plan[i].owner] = {}

GroupsTidy(i) == OnlyOneOf(groups) /\ (At(i, "makeGroup") => groups = {})

ServersTidy(i) ==
    /\ \A k \in Sites : OnlyOneOf(OfSite(k))
    /\ At(i, "makeServer") => OfSite(plan[i].site) = {}

\* An address of the installer is free or its server's, or the configured one.
AddressesTidy(i) ==
    /\ OnlyOneOf(Managed)
    /\ \A a \in Managed : IF plan[i].address = 0
                          THEN addresses[a].nic \in {0} \cup OfSite(plan[i].site)
                          ELSE a = plan[i].address
    /\ At(i, "makeAddress") => plan[i].address = 0 /\ Managed = {}
    /\ At(i, "attachAddress") =>
          /\ Managed \subseteq {run[i].address}
          /\ plan[i].address # 0 => run[i].address = plan[i].address

Importing == {"importNetwork", "makeImportNetwork", "import"}

ImagesTidy(i) ==
    /\ plan[i].owner \in Projects
    /\ DOMAIN images = Ids
    /\ \A m \in Ids : /\ DOMAIN images[m] = ImageFields
                      /\ images[m].status \in {"none", "creating", "available"}
    /\ \A p \in Projects : OnlyOneOf(Stored(p))
    /\ plan[i].image \in Live => Stored(plan[i].owner) \subseteq {plan[i].image}
    /\ At(i, "ownerImage") => plan[i].image = 0 /\ Stored("home") = {}
    /\ At(i, "dropImage") =>
          /\ Stored(plan[i].owner) \subseteq {run[i].image}
          /\ plan[i].image # 0 => run[i].image = plan[i].image
    /\ run[i].at \in Importing => Stored(plan[i].owner) = {} /\ plan[i].image \notin Live

Certifying == {"present", "writeText", "validate", "cleanUp", "storeCertificate"}

CertificatesTidy(i) ==
    /\ DOMAIN certs = Ids /\ \A c \in Ids : DOMAIN certs[c] = {"site", "fresh"}
    /\ \A k \in Sites : OnlyOneOf(Usable(k))
    /\ run[i].at \in Certifying => Usable(plan[i].site) = {}

Tidy(i) ==
    /\ NetworksTidy(i) /\ GroupsTidy(i) /\ ServersTidy(i)
    /\ AddressesTidy(i) /\ ImagesTidy(i) /\ CertificatesTidy(i)

Tidiness == \A i \in Installers : Present = {i} => Tidy(i)

-----------------------------------------------------------------------------
(* Where a run goes.                                                       *)

\* A step of the run that leads to one of some points.
Comes(i, points) == Stepped(i) /\ run'[i].at \in points

\* It suffices that each branch of a step leads to one of the points.
LEMMA Leads ==
    ASSUME RunShape, NEW i \in Installers, NEW points, "absent" \notin points,
           run[i].at # "absent", NEW p \in points, NEW facts,
           Learns(i, facts, p) \/ To(i, p) \/ Stops(i, p)
    PROVE  Comes(i, points)
<1>1. p # "absent"
  OBVIOUS
<1> QED
  BY <1>1, Learning, GoesTo, ComesToStop DEF Comes

\* Where each step leads.
LEMMA ResourceWays ==
    ASSUME RunShape, NEW i \in Installers
    PROVE  /\ FindNetwork(i) => Comes(i, {"makeNetwork", "group"})
           /\ MakeNetwork(i) => Comes(i, {"group"})
           /\ FindGroup(i) => Comes(i, {"makeGroup", "rules"})
           /\ MakeGroup(i) => Comes(i, {"rules"})
           /\ AddRule(i) => Comes(i, {"rules"})
           /\ GroupReady(i) => Comes(i, {"image"})
           /\ FindServer(i) => Comes(i, {"makeServer", "waitServer", "bootstrap", "refused"})
           /\ MakeServer(i) => Comes(i, {"waitServer"})
           /\ WaitServer(i) => Comes(i, {"bootstrap", "refused"})
           /\ AdoptServer(i) => Comes(i, {"attachGroup", "bootstrap", "refused"})
           /\ AttachGroup(i) => Comes(i, {"bootstrap"})
           /\ BootstrapServer(i) => Comes(i, {"certificate", "address", "done"})
           /\ ChooseAddress(i) => Comes(i, {"attachAddress", "makeAddress", "record", "done", "refused"})
           /\ AttachAddress(i) => Comes(i, {"record", "done"})
           /\ MakeAddress(i) => Comes(i, {"record", "done"})
<1> USE Leads, Order DEF At
<1>1. FindNetwork(i) => Comes(i, {"makeNetwork", "group"})
  BY DEF FindNetwork
<1>2. MakeNetwork(i) => Comes(i, {"group"})
  BY DEF MakeNetwork
<1>3. FindGroup(i) => Comes(i, {"makeGroup", "rules"})
  BY DEF FindGroup
<1>4. MakeGroup(i) => Comes(i, {"rules"})
  BY DEF MakeGroup
<1>5. AddRule(i) => Comes(i, {"rules"})
  BY DEF AddRule
<1>6. GroupReady(i) => Comes(i, {"image"})
  BY DEF GroupReady
<1>7. FindServer(i) => Comes(i, {"makeServer", "waitServer", "bootstrap", "refused"})
  BY DEF FindServer
<1>8. MakeServer(i) => Comes(i, {"waitServer"})
  BY DEF MakeServer
<1>9. WaitServer(i) => Comes(i, {"bootstrap", "refused"})
  BY DEF WaitServer
<1>10. AdoptServer(i) => Comes(i, {"attachGroup", "bootstrap", "refused"})
  BY DEF AdoptServer
<1>11. AttachGroup(i) => Comes(i, {"bootstrap"})
  BY DEF AttachGroup
<1>12. BootstrapServer(i) => Comes(i, {"certificate", "address", "done"})
  BY DEF BootstrapServer
<1>13. ChooseAddress(i) => Comes(i, {"attachAddress", "makeAddress", "record", "done", "refused"})
  BY DEF ChooseAddress
<1>14. AttachAddress(i) => Comes(i, {"record", "done"})
  BY DEF AttachAddress
<1>15. MakeAddress(i) => Comes(i, {"record", "done"})
  BY DEF MakeAddress
<1> QED
  BY <1>1, <1>2, <1>3, <1>4, <1>5, <1>6, <1>7, <1>8, <1>9, <1>10, <1>11, <1>12, <1>13, <1>14, <1>15

\* The same for the steps of an image.
LEMMA ImageWays ==
    ASSUME RunShape, NEW i \in Installers
    PROVE  /\ FindImage(i) => Comes(i, {"markImage", "dropImage", "waitImage", "ownerImage", "refused"})
           /\ FindOwnerImage(i) => Comes(i, {"markImage", "dropImage", "waitImage", "importNetwork"})
           /\ DropImage(i) => Comes(i, {"importNetwork", "failed"})
           /\ WaitImage(i) => Comes(i, {"markImage", "failed"})
           /\ FindImportNetwork(i) => Comes(i, {"makeImportNetwork", "import"})
           /\ MakeImportNetwork(i) => Comes(i, {"import"})
           /\ Import(i) => Comes(i, {"upload"})
           /\ Upload(i) => Comes(i, {"waitImage"})
           /\ MarkImage(i) => Comes(i, {"shareImage", "refused"})
           /\ ShareImage(i) => Comes(i, {"waitVisible", "server"})
           /\ WaitVisible(i) => Comes(i, {"server"})
           /\ Deadline(i) => Comes(i, {"failed"})
<1> USE Leads, Order DEF At
<1>0. ASSUME NEW m, Chosen(i, m), run[i].at # "absent",
             NEW points, {"markImage", "dropImage", "waitImage"} \subseteq points,
             "absent" \notin points
      PROVE  Comes(i, points)
  BY <1>0 DEF Chosen
<1>1. FindImage(i) => Comes(i, {"markImage", "dropImage", "waitImage", "ownerImage", "refused"})
  BY <1>0 DEF FindImage
<1>2. FindOwnerImage(i) => Comes(i, {"markImage", "dropImage", "waitImage", "importNetwork"})
  BY <1>0 DEF FindOwnerImage
<1>3. DropImage(i) => Comes(i, {"importNetwork", "failed"})
  BY DEF DropImage
<1>4. WaitImage(i) => Comes(i, {"markImage", "failed"})
  BY DEF WaitImage
<1>5. FindImportNetwork(i) => Comes(i, {"makeImportNetwork", "import"})
  BY DEF FindImportNetwork
<1>6. MakeImportNetwork(i) => Comes(i, {"import"})
  BY DEF MakeImportNetwork
<1>7. Import(i) => Comes(i, {"upload"})
  BY DEF Import
<1>8. Upload(i) => Comes(i, {"waitImage"})
  BY DEF Upload
<1>9. MarkImage(i) => Comes(i, {"shareImage", "refused"})
  BY DEF MarkImage
<1>10. ShareImage(i) => Comes(i, {"waitVisible", "server"})
  BY DEF ShareImage
<1>11. WaitVisible(i) => Comes(i, {"server"})
  BY DEF WaitVisible
<1>12. Deadline(i) => Comes(i, {"failed"})
  BY DEF Deadline
<1> QED
  BY <1>1, <1>2, <1>3, <1>4, <1>5, <1>6, <1>7, <1>8, <1>9, <1>10, <1>11, <1>12

\* The same for name, certificate and load balancer.
LEMMA ExposeWays ==
    ASSUME RunShape, NEW i \in Installers
    PROVE  /\ FindZone(i) => Comes(i, {"network", "waitZone", "makeZone", "refused"})
           /\ MakeZone(i) => Comes(i, {"waitZone", "failed"})
           /\ WaitZone(i) => Comes(i, {"network", "refused"})
           /\ ListRecords(i) => Comes(i, {"writeRecord"})
           /\ WriteRecord(i) => Comes(i, {"direct", "done", "failed"})
           /\ FindCertificate(i) => Comes(i, {"balancer", "present"})
           /\ ListTexts(i) => Comes(i, {"writeText"})
           /\ WriteText(i) => Comes(i, {"validate", "failed"})
           /\ Validate(i) => Comes(i, {"cleanUp"})
           /\ CleanUp(i) => Comes(i, {"storeCertificate", "failed"})
           /\ StoreCertificate(i) => Comes(i, {"balancer"})
           /\ ListBalancers(i) => Comes(i, {"makeBalancer", "waitBalancer", "updateBalancer", "refused"})
           /\ UpdateBalancer(i) => Comes(i, {"waitBalancer", "failed"})
           /\ MakeBalancer(i) => Comes(i, {"waitBalancer", "failed"})
           /\ WaitBalancer(i) => Comes(i, {"record", "refused"})
<1> USE Leads, Order DEF At
<1>1. FindZone(i) => Comes(i, {"network", "waitZone", "makeZone", "refused"})
  BY DEF FindZone
<1>2. MakeZone(i) => Comes(i, {"waitZone", "failed"})
  BY DEF MakeZone
<1>3. WaitZone(i) => Comes(i, {"network", "refused"})
  BY DEF WaitZone
<1>4. ListRecords(i) => Comes(i, {"writeRecord"})
  BY DEF ListRecords
<1>5. WriteRecord(i) => Comes(i, {"direct", "done", "failed"})
  BY DEF WriteRecord
<1>6. FindCertificate(i) => Comes(i, {"balancer", "present"})
  BY DEF FindCertificate
<1>7. ListTexts(i) => Comes(i, {"writeText"})
  BY DEF ListTexts
<1>8. WriteText(i) => Comes(i, {"validate", "failed"})
  BY DEF WriteText
<1>9. Validate(i) => Comes(i, {"cleanUp"})
  BY DEF Validate
<1>10. CleanUp(i) => Comes(i, {"storeCertificate", "failed"})
  BY DEF CleanUp
<1>11. StoreCertificate(i) => Comes(i, {"balancer"})
  BY DEF StoreCertificate
<1>12. ListBalancers(i) => Comes(i, {"makeBalancer", "waitBalancer", "updateBalancer", "refused"})
  BY DEF ListBalancers
<1>13. UpdateBalancer(i) => Comes(i, {"waitBalancer", "failed"})
  BY DEF UpdateBalancer
<1>14. MakeBalancer(i) => Comes(i, {"waitBalancer", "failed"})
  BY DEF MakeBalancer
<1>15. WaitBalancer(i) => Comes(i, {"record", "refused"})
  BY DEF WaitBalancer
<1> QED
  BY <1>1, <1>2, <1>3, <1>4, <1>5, <1>6, <1>7, <1>8, <1>9, <1>10, <1>11, <1>12, <1>13, <1>14, <1>15

\* The same for the beginning and the end of a run, and for what disturbs it.
LEMMA OtherWays ==
    ASSUME RunShape, NEW i \in Installers
    PROVE  /\ Start(i) => Comes(i, {"zone", "network"})
           /\ Secure(i) => Comes(i, {"done"})
           /\ Interrupt(i) => Comes(i, {"failed"})
           /\ Again(i) => Comes(i, {"zone", "network"})
           /\ Invalid(i) => Comes(i, {"cleanUp"})
           /\ CleanUpFails(i) => Comes(i, {"storeCertificate"})
           /\ UploadFails(i) => Comes(i, {"failed"})
<1> USE Order, NoRunFields DEF Comes, Stepped, At, Costs
<1>0. DOMAIN run = Installers /\ DOMAIN run[i] = Fields
  BY DEF RunShape
<1>1. Start(i) => Comes(i, {"zone", "network"})
  BY <1>0 DEF Start, RunShape
<1>2. Secure(i) => Comes(i, {"done"})
  BY Leads DEF Secure
<1>3. Interrupt(i) => Comes(i, {"failed"})
  BY <1>0 DEF Interrupt, Busy, Ended, RunShape
<1>4. Again(i) => Comes(i, {"zone", "network"})
  BY <1>0 DEF Again, RunShape
<1>5. Invalid(i) => Comes(i, {"cleanUp"})
  BY <1>0 DEF Invalid, RunShape, Fields
<1>6. CleanUpFails(i) => Comes(i, {"storeCertificate"})
  <2> DEFINE r == [run[i] EXCEPT !.txt = 0, !.valid = FALSE, !.at = "storeCertificate"]
  <2>1. DOMAIN r = Fields /\ r.at = "storeCertificate"
    BY <1>0 DEF Fields
  <2> QED
    BY <1>0, <2>1 DEF CleanUpFails, RunShape
<1>7. UploadFails(i) => Comes(i, {"failed"})
  BY <1>0 DEF UploadFails, RunShape
<1> QED
  BY <1>1, <1>2, <1>3, <1>4, <1>5, <1>6, <1>7

\* The steps that lead to the points before something is made.
LEMMA CameFrom ==
    ASSUME RunShape, NEW i \in Installers, Works(i) \/ Disturbed(i)
    PROVE  /\ Stepped(i)
           /\ run'[i].at = "makeNetwork" => FindNetwork(i)
           /\ run'[i].at = "makeGroup" => FindGroup(i)
           /\ run'[i].at = "makeServer" => FindServer(i)
           /\ run'[i].at \in {"makeAddress", "attachAddress"} => ChooseAddress(i)
           /\ run'[i].at = "ownerImage" => FindImage(i)
           /\ run'[i].at = "dropImage" => FindImage(i) \/ FindOwnerImage(i)
           /\ run'[i].at = "importNetwork" => FindOwnerImage(i) \/ DropImage(i)
           /\ run'[i].at = "makeImportNetwork" => FindImportNetwork(i)
           /\ run'[i].at = "import" => FindImportNetwork(i) \/ MakeImportNetwork(i)
           /\ run'[i].at = "present" => FindCertificate(i)
           /\ run'[i].at \in {"writeText", "validate", "cleanUp", "storeCertificate"} =>
                 run[i].at \in Certifying
<1> DEFINE Made == {"makeNetwork", "makeGroup", "makeServer", "makeAddress", "attachAddress",
                    "ownerImage", "dropImage", "importNetwork", "makeImportNetwork", "import"}
<1> USE DEF Comes
<1>1. CASE (Start(i) \/ Secure(i)) \/ Disturbed(i)
  <2>1. /\ Stepped(i)
        /\ \/ run'[i].at \in {"zone", "network", "done", "failed"}
           \/ Invalid(i) /\ run'[i].at = "cleanUp"
           \/ CleanUpFails(i) /\ run'[i].at = "storeCertificate"
    BY <1>1, OtherWays DEF Disturbed
  <2>2. Invalid(i) \/ CleanUpFails(i) => run[i].at \in Certifying
    BY DEF Invalid, CleanUpFails, At, Certifying
  <2> QED
    BY <2>1, <2>2
<1>2. CASE Resource(i)
  BY <1>2, ResourceWays DEF Resource
<1>3. CASE Image(i)
  BY <1>3, ImageWays DEF Image
<1>4. CASE Expose(i)
  <2>1. /\ Stepped(i)
        /\ \/ run'[i].at \notin Made \cup Certifying
           \/ FindCertificate(i) /\ run'[i].at \in {"balancer", "present"}
           \/ /\ ListTexts(i) \/ WriteText(i) \/ Validate(i) \/ CleanUp(i)
              /\ run'[i].at \in {"writeText", "validate", "cleanUp", "storeCertificate", "failed"}
    BY <1>4, ExposeWays DEF Expose, Certifying
  <2>2. ListTexts(i) \/ WriteText(i) \/ Validate(i) \/ CleanUp(i) => run[i].at \in Certifying
    BY DEF ListTexts, WriteText, Validate, CleanUp, At, Certifying
  <2> QED
    BY <2>1, <2>2 DEF Certifying
<1> QED
  BY <1>1, <1>2, <1>3, <1>4 DEF Works

-----------------------------------------------------------------------------
(* What the steps of a run do to what there is of each kind.               *)

\* A step of the run leads to the point that it names.
LEMMA Arrives ==
    ASSUME RunShape, NEW i \in Installers, run[i].at # "absent", NEW p, p # "absent", NEW facts,
           Learns(i, facts, p) \/ To(i, p) \/ Stops(i, p)
    PROVE  run'[i].at = p
  BY Learning, GoesTo, ComesToStop

\* A network is made in a project only when the listing before it was empty.
LEMMA NetworksKept ==
    ASSUME RunShape, NEW i \in Installers, NetworksTidy(i), Works(i) \/ Disturbed(i)
    PROVE  NetworksTidy(i)'
<1>1. Stepped(i) /\ plan' = plan
  BY CameFrom DEF Stepped
<1>2. CASE networks' = networks
  <2>1. ASSUME run'[i].at = "makeNetwork" PROVE networks["home"] = {}
    <3>1. FindNetwork(i)
      BY <2>1, CameFrom
    <3>2. ASSUME NEW v, Learns(i, [net |-> v], After(i, "network")) PROVE FALSE
      BY <2>1, <3>1, <3>2, Arrives, Order DEF FindNetwork, At
    <3> QED
      BY <3>1, <3>2 DEF FindNetwork
  <2>2. ASSUME run'[i].at = "makeImportNetwork" PROVE networks[plan[i].owner] = {}
    <3>1. FindImportNetwork(i)
      BY <2>2, CameFrom
    <3>2. ~To(i, "import")
      BY <2>2, <3>1, GoesTo DEF FindImportNetwork, At
    <3> QED
      BY <3>1, <3>2 DEF FindImportNetwork
  <2> QED
    BY <1>1, <1>2, <2>1, <2>2 DEF NetworksTidy, At
<1>3. CASE MakeNetwork(i) \/ MakeImportNetwork(i)
  <2>1. PICK q, n : /\ networks' = [networks EXCEPT ![q] = @ \cup {n}]
                    /\ networks[q] = {}
    BY <1>3 DEF MakeNetwork, MakeImportNetwork, NetworksTidy
  <2>2. run'[i].at \notin {"makeNetwork", "makeImportNetwork"}
    BY <1>3, CameFrom DEF MakeNetwork, MakeImportNetwork, FindNetwork, FindImportNetwork, At
  <2>3. DOMAIN networks' = Projects
    BY <2>1 DEF NetworksTidy
  <2>4. ASSUME NEW p \in Projects PROVE OnlyOneOf(networks'[p])
    BY <2>1, <2>4 DEF NetworksTidy, OnlyOneOf
  <2> QED
    BY <2>2, <2>3, <2>4 DEF NetworksTidy, At
<1> QED
  BY <1>2, <1>3, ChangedBy

\* The same for the security group.
LEMMA GroupsKept ==
    ASSUME RunShape, NEW i \in Installers, GroupsTidy(i), Works(i) \/ Disturbed(i)
    PROVE  GroupsTidy(i)'
<1>1. CASE groups' = groups
  <2>1. ASSUME run'[i].at = "makeGroup" PROVE groups = {}
    <3>1. FindGroup(i)
      BY <2>1, CameFrom
    <3>2. ASSUME NEW g, Learns(i, [group |-> g, have |-> rules[g]], "rules") PROVE FALSE
      BY <2>1, <3>1, <3>2, Arrives DEF FindGroup, At
    <3> QED
      BY <3>1, <3>2 DEF FindGroup
  <2> QED
    BY <1>1, <2>1 DEF GroupsTidy, At
<1>2. CASE MakeGroup(i)
  <2>1. PICK g : groups' = groups \cup {g}
    BY <1>2 DEF MakeGroup
  <2>2. groups = {}
    BY <1>2 DEF MakeGroup, GroupsTidy
  <2>3. run'[i].at # "makeGroup"
    BY <1>2, CameFrom DEF MakeGroup, FindGroup, At
  <2> QED
    BY <2>1, <2>2, <2>3 DEF GroupsTidy, OnlyOneOf, At
<1> QED
  BY <1>1, <1>2, ChangedBy

\* The same for the server of a deployment, which is found by its name.
LEMMA ServersKept ==
    ASSUME Inv, NEW i \in Installers, ServersTidy(i), Works(i) \/ Disturbed(i)
    PROVE  ServersTidy(i)'
<1>0. RunShape /\ ThingShape
  BY DEF Inv, RunInv, ThingInv
<1>1. Stepped(i) /\ plan' = plan
  BY <1>0, CameFrom DEF Stepped
<1>2. CASE servers' = servers
  <2>1. ASSUME run'[i].at = "makeServer" PROVE OfSite(plan[i].site) = {}
    <3>1. FindServer(i)
      BY <1>0, <2>1, CameFrom
    <3>2. ASSUME NEW s, NEW p \in {"waitServer", "bootstrap"}, Learns(i, [server |-> s], p)
          PROVE  FALSE
      BY <1>0, <2>1, <3>1, <3>2, Arrives DEF FindServer, At
    <3>3. ~Stops(i, "refused")
      BY <1>0, <2>1, <3>1, ComesToStop DEF FindServer, At
    <3>4. Named(i) = {}
      BY <3>1, <3>2, <3>3, Order DEF FindServer
    <3> QED
      BY <3>4 DEF Named, OfSite
  <2> QED
    BY <1>1, <1>2, <2>1 DEF ServersTidy, OfSite, Existing, At
<1>3. CASE AttachGroup(i) \/ BootstrapServer(i)
  <2>1. run'[i].at # "makeServer"
    BY <1>0, <1>3, CameFrom DEF AttachGroup, BootstrapServer, FindServer, At
  <2>2. \A s \in Ids : servers'[s].status = servers[s].status /\ servers'[s].site = servers[s].site
    BY <1>0, <1>3 DEF AttachGroup, BootstrapServer, ThingShape, ServerFields
  <2>3. \A k \in Sites : OfSite(k)' = OfSite(k)
    BY <2>2 DEF OfSite, Existing
  <2> QED
    BY <2>1, <2>3 DEF ServersTidy, At
<1>4. CASE MakeServer(i)
  <2>1. PICK s \in Ids :
        /\ IsNext(s, Existing)
        /\ servers' = [servers EXCEPT ![s] =
                [status |-> "creating", site |-> plan[i].site, image |-> run[i].image,
                 net |-> run[i].net, groups |-> {run[i].group}, safe |-> FALSE]]
    BY <1>4 DEF MakeServer
  <2>2. OfSite(plan[i].site) = {}
    BY <1>4 DEF MakeServer, ServersTidy
  <2>3. \A x \in Ids : \/ x = s /\ servers'[x].site = plan[i].site
                       \/ x # s /\ servers'[x] = servers[x]
    BY <1>0, <2>1 DEF ThingShape
  <2>4. ASSUME NEW k \in Sites PROVE OnlyOneOf(OfSite(k)')
    BY <2>2, <2>3 DEF OfSite, Existing, ServersTidy, OnlyOneOf
  <2>5. run'[i].at # "makeServer"
    BY <1>0, <1>4, CameFrom DEF MakeServer, FindServer, At
  <2> QED
    BY <2>4, <2>5 DEF ServersTidy, At
<1> QED
  BY <1>2, <1>3, <1>4, ChangedBy

\* A certificate is stored only when no other of the deployment is usable; the
\* challenge lies between the listing and the store.
LEMMA CertificatesKept ==
    ASSUME RunShape, NEW i \in Installers, CertificatesTidy(i), Works(i) \/ Disturbed(i)
    PROVE  CertificatesTidy(i)'
<1>1. Stepped(i) /\ plan' = plan
  BY CameFrom DEF Stepped
<1>2. CASE certs' = certs
  <2>1. ASSUME run'[i].at \in Certifying PROVE Usable(plan[i].site) = {}
    <3>1. CASE FindCertificate(i)
      <4>1. ASSUME NEW c, Learns(i, [cert |-> c], After(i, "certificate")) PROVE FALSE
        BY <2>1, <3>1, <4>1, Arrives, Order DEF FindCertificate, At, Certifying
      <4> QED
        BY <3>1, <4>1 DEF FindCertificate, Usable, Site
    <3>2. CASE run[i].at \in Certifying
      BY <3>2 DEF CertificatesTidy
    <3> QED
      BY <2>1, <3>1, <3>2, CameFrom DEF Certifying
  <2> QED
    BY <1>1, <1>2, <2>1 DEF CertificatesTidy, Usable
<1>3. CASE StoreCertificate(i)
  <2>1. PICK c \in Ids : certs' = [certs EXCEPT ![c] = [site |-> plan[i].site, fresh |-> TRUE]]
    BY <1>3 DEF StoreCertificate, Site
  <2>2. Usable(plan[i].site) = {}
    BY <1>3 DEF StoreCertificate, CertificatesTidy, At, Certifying
  <2>3. run'[i].at \notin Certifying
    BY <1>3, ExposeWays DEF Comes, Certifying
  <2>4. ASSUME NEW k \in Sites PROVE OnlyOneOf(Usable(k)')
    <3>1. \A d \in Ids : certs'[d] = IF d = c THEN [site |-> plan[i].site, fresh |-> TRUE]
                                              ELSE certs[d]
      BY <2>1 DEF CertificatesTidy
    <3>2. CASE k = plan[i].site
      <4>1. Usable(k)' \subseteq {c}
        BY <2>2, <3>1, <3>2 DEF Usable
      <4> QED
        BY <4>1 DEF OnlyOneOf
    <3>3. CASE k # plan[i].site
      <4>1. [site |-> plan[i].site, fresh |-> TRUE].site # k
        BY <3>3
      <4>2. Usable(k)' \subseteq Usable(k)
        BY <3>1, <4>1 DEF Usable
      <4> QED
        BY <4>2 DEF OnlyOneOf, CertificatesTidy
    <3> QED
      BY <3>2, <3>3
  <2>5. DOMAIN certs' = Ids /\ \A d \in Ids : DOMAIN certs'[d] = {"site", "fresh"}
    BY <2>1 DEF CertificatesTidy
  <2> QED
    BY <2>3, <2>4, <2>5 DEF CertificatesTidy
<1> QED
  BY <1>2, <1>3, ChangedBy

\* A run takes no server away from its deployment.
LEMMA ServersStay ==
    ASSUME Inv, NEW i \in Installers, Works(i) \/ Disturbed(i), NEW k
    PROVE  OfSite(k) \subseteq OfSite(k)'
<1>0. ThingShape
  BY DEF Inv, ThingInv
<1>1. ASSUME NEW s \in Existing
      PROVE  servers'[s].status = servers[s].status /\ servers'[s].site = servers[s].site
  <2>1. CASE MakeServer(i)
    BY <1>0, <2>1 DEF MakeServer, IsNext, ThingShape, Existing
  <2>2. CASE AttachGroup(i) \/ BootstrapServer(i)
    BY <1>0, <2>2 DEF AttachGroup, BootstrapServer, ThingShape, ServerFields, Existing
  <2> QED
    BY <2>1, <2>2, ChangedBy
<1> QED
  BY <1>1 DEF OfSite, Existing

\* The address that a run attaches is all there is of the installer's, and it
\* makes one only when there is none.
LEMMA AddressChosen ==
    ASSUME Inv, NEW i \in Installers, AddressesTidy(i), ServersTidy(i), ChooseAddress(i)
    PROVE  /\ run'[i].at = "makeAddress" => plan[i].address = 0 /\ Managed = {}
           /\ run'[i].at = "attachAddress" =>
                 /\ Managed \subseteq {run'[i].address}
                 /\ plan[i].address # 0 => run'[i].address = plan[i].address
<1> DEFINE s == run[i].server
           k == plan[i].site
           wish == plan[i].address
<1>0. RunShape /\ ThingShape /\ run[i].at = "address"
  BY DEF Inv, RunInv, ThingInv, ChooseAddress, At
<1>1. s \in OfSite(k) /\ k \in Sites
  BY <1>0 DEF Inv, RunInv, HasServer, Holding, Publishing, OfSite, ThingShape
<1>2. ~Stops(i, "refused") \/ run'[i].at = "refused"
  BY <1>0, ComesToStop
<1>3. ASSUME NEW a, Learns(i, [address |-> a], After(i, "address"))
      PROVE  run'[i].at \in {"record", "done"}
  BY <1>0, <1>3, Learning, Order
<1>4. ASSUME NEW a, Learns(i, [address |-> a], "attachAddress")
      PROVE  run'[i].at = "attachAddress" /\ run'[i].address = a
  BY <1>0, <1>4, Learning
<1>5. ~To(i, "makeAddress") \/ run'[i].at = "makeAddress"
  BY <1>0, GoesTo
<1>6. ASSUME run'[i].at = "makeAddress" PROVE wish = 0 /\ Managed = {}
  <2>1. wish = 0 /\ Attached(s) = {} /\ FreeManaged = {}
    BY <1>2, <1>3, <1>4, <1>6 DEF ChooseAddress
  <2>2. ASSUME NEW a \in Managed PROVE FALSE
    <3>1. addresses[a].nic \in {0} \cup OfSite(k)
      BY <2>1 DEF AddressesTidy
    <3>2. addresses[a].nic # 0
      BY <2>1 DEF FreeManaged, Managed
    <3>3. addresses[a].nic = s
      BY <1>1, <3>1, <3>2 DEF ServersTidy, OnlyOneOf
    <3> QED
      BY <2>1, <3>3 DEF Attached, Managed
  <2> QED
    BY <2>1, <2>2
<1>7. ASSUME run'[i].at = "attachAddress"
      PROVE  /\ Managed \subseteq {run'[i].address}
             /\ wish # 0 => run'[i].address = wish
  <2>1. PICK a : /\ run'[i].address = a
                 /\ IF wish = 0 THEN a \in FreeManaged ELSE a = wish
    BY <1>2, <1>3, <1>4, <1>5, <1>7 DEF ChooseAddress
  <2>2. CASE wish = 0
    BY <2>1, <2>2 DEF AddressesTidy, OnlyOneOf, FreeManaged, Managed
  <2>3. CASE wish # 0
    BY <2>1, <2>3 DEF AddressesTidy
  <2> QED
    BY <2>1, <2>2, <2>3
<1> QED
  BY <1>6, <1>7

\* Attaching an address, or making one, leaves the installer with that one.
LEMMA AddressesKept ==
    ASSUME Inv, NEW i \in Installers, AddressesTidy(i), ServersTidy(i), Works(i) \/ Disturbed(i)
    PROVE  AddressesTidy(i)'
<1> DEFINE s == run[i].server
<1> PICK k : k = plan[i].site
  OBVIOUS
<1>0. RunShape /\ ThingShape
  BY DEF Inv, RunInv, ThingInv
<1>1. Stepped(i) /\ plan' = plan
  BY <1>0, CameFrom DEF Stepped
<1>2. OfSite(k) \subseteq OfSite(k)'
  BY ServersStay
<1>3. CASE addresses' = addresses
  <2>1. Managed' = Managed
    BY <1>3 DEF Managed, Reserved
  <2>2. \A a \in Managed : IF plan[i].address = 0
                           THEN addresses[a].nic \in {0} \cup OfSite(k)'
                           ELSE a = plan[i].address
    BY <1>2 DEF AddressesTidy
  <2>3. run'[i].at \in {"makeAddress", "attachAddress"} => ChooseAddress(i)
    BY <1>0, CameFrom
  <2>4. /\ run'[i].at = "makeAddress" => plan[i].address = 0 /\ Managed = {}
        /\ run'[i].at = "attachAddress" =>
              /\ Managed \subseteq {run'[i].address}
              /\ plan[i].address # 0 => run'[i].address = plan[i].address
    BY <2>3, AddressChosen
  <2>5. OnlyOneOf(Managed')
    BY <2>1 DEF AddressesTidy
  <2> QED
    BY <1>1, <1>3, <2>1, <2>2, <2>4, <2>5 DEF AddressesTidy, At
<1>4. CASE AttachAddress(i) \/ MakeAddress(i)
  <2>1. run'[i].at \notin {"makeAddress", "attachAddress"}
    BY <1>0, <1>4, CameFrom DEF AttachAddress, MakeAddress, ChooseAddress, At
  <2>2. s \in OfSite(k)'
    BY <1>2, <1>4 DEF Inv, RunInv, HasServer, Holding, Publishing, OfSite,
                      AttachAddress, MakeAddress, At
  <2>3. PICK a : /\ addresses' = [addresses EXCEPT ![a] =
                                     [there |-> TRUE, nic |-> s, managed |-> TRUE]]
                 /\ Managed \subseteq {a}
                 /\ plan[i].address # 0 => a = plan[i].address
    BY <1>4 DEF AttachAddress, MakeAddress, AddressesTidy
  <2>4. \A b \in Ids : addresses'[b] = IF b = a THEN [there |-> TRUE, nic |-> s, managed |-> TRUE]
                                                ELSE addresses[b]
    BY <1>0, <2>3 DEF ThingShape
  <2>5. Managed' \subseteq {a}
    BY <2>3, <2>4 DEF Managed, Reserved
  <2>6. \A b \in Managed' : addresses'[b].nic = s
    BY <2>4, <2>5 DEF Managed, Reserved
  <2> QED
    BY <1>1, <2>1, <2>2, <2>3, <2>5, <2>6 DEF AddressesTidy, OnlyOneOf, At
<1> QED
  BY <1>3, <1>4, ChangedBy

-----------------------------------------------------------------------------
(* Images: what is found, given up and imported.                           *)

\* A step that makes no image: what is there goes or stays what it is.
Fewer ==
    /\ DOMAIN images' = Ids
    /\ \A m \in Ids :
          /\ DOMAIN images'[m] = ImageFields
          /\ \/ images'[m].status = "none"
             \/ /\ images[m].status # "none"
                /\ images'[m].status \in {"creating", "available"}
                /\ images'[m].label = images[m].label
                /\ images'[m].owner = images[m].owner

\* Then there is no image that was not there before.
LEMMA FewerImages ==
    ASSUME Fewer
    PROVE  /\ Live' \subseteq Live
           /\ \A p : Stored(p)' \subseteq Stored(p)
  BY DEF Fewer, Live, Stored

\* A deleted image has the fields of an image.
LEMMA NoImageFields == DOMAIN NoImage = ImageFields /\ NoImage.status = "none"
  BY DEF NoImage, ImageFields

\* Only an import adds to the images.
LEMMA ImageChanges ==
    ASSUME NEW i \in Installers, ImagesTidy(i), Works(i) \/ Disturbed(i), ~Import(i)
    PROVE  Fewer
<1>1. CASE images' = images
  BY <1>1 DEF ImagesTidy, Fewer
<1>2. CASE DropImage(i) \/ UploadFails(i)
  <2>1. images' = images \/ images' = [images EXCEPT ![run[i].image] = NoImage]
    BY <1>2 DEF DropImage, UploadFails
  <2> QED
    BY <1>1, <2>1, NoImageFields DEF ImagesTidy, Fewer
<1>3. CASE Upload(i)
  BY <1>3 DEF Upload, ImagesTidy, Fewer, ImageFields
<1>4. CASE MarkImage(i)
  <2> DEFINE m == run[i].image
             v == images[m].agent \/ (plan[i].agent /\ images[m].owner = plan[i].owner)
  <2>1. images' = images \/ images' = [images EXCEPT ![m].agent = v]
    BY <1>4 DEF MarkImage
  <2> HIDE DEF v
  <2> QED
    BY <1>1, <2>1 DEF ImagesTidy, Fewer, ImageFields
<1>5. CASE ShareImage(i)
  <2> DEFINE v == images[run[i].image].shared \cup Wanted(i)
  <2>1. images' = [images EXCEPT ![run[i].image].shared = v]
    BY <1>5 DEF ShareImage
  <2> HIDE DEF v
  <2> QED
    BY <2>1 DEF ImagesTidy, Fewer, ImageFields
<1> QED
  BY <1>1, <1>2, <1>3, <1>4, <1>5, ChangedBy

\* An image of the project is found, and an import that is found is its own.
LEMMA FoundAll ==
    ASSUME NEW i \in Installers, ImagesTidy(i), NEW p
    PROVE  /\ Found(p) = {} => Stored(p) = {}
           /\ \A m \in Found(p) : images[m].status = "creating" => m \in Stored(p)
<1>1. ASSUME NEW m \in Stored(p)
      PROVE  m \in Local(p, "available") \/ m \in Local(p, "creating")
  BY <1>1 DEF Stored, Live, Local, Matching, Listed, ImagesTidy
<1>2. \A m : m \in Local(p, "creating") => m \in Stored(p)
  BY DEF Stored, Live, Local, Matching, Listed
<1>3. \A m : m \in Matching(p, "available") => images[m].status = "available"
  BY DEF Matching
<1>4. \A m : m \in Local(p, "available") => m \in Matching(p, "available")
  BY DEF Local
<1> QED
  BY <1>1, <1>2, <1>3, <1>4 DEF Found

\* An import is given up by its number.
LEMMA ChosenLeads ==
    ASSUME RunShape, NEW i \in Installers, run[i].at # "absent", NEW m, Chosen(i, m)
    PROVE  /\ run'[i].at \in {"markImage", "dropImage", "waitImage"}
           /\ run'[i].at = "dropImage" =>
                 /\ images[m].status = "creating" /\ images[m].owner = plan[i].owner
                 /\ run'[i].image = m
<1>1. ASSUME NEW p \in {"markImage", "dropImage", "waitImage"}, Learns(i, [image |-> m], p)
      PROVE  run'[i].at = p /\ run'[i].image = m
  <2> DEFINE r == [f \in DOMAIN run[i] |-> IF f = "at" THEN p
                                           ELSE IF f \in DOMAIN [image |-> m] THEN [image |-> m][f]
                                           ELSE run[i][f]]
  <2>1. run' = [run EXCEPT ![i] = r]
    BY <1>1 DEF Learns
  <2>2. r["at"] = p /\ r["image"] = m
    BY DEF RunShape, Fields
  <2> HIDE DEF r
  <2> QED
    BY <2>1, <2>2 DEF RunShape
<1> QED
  BY <1>1 DEF Chosen

\* The image that a run drops is all there is of its project, and it imports
\* one only when there is none.
LEMMA ImageLookedFor ==
    ASSUME RunShape, NEW i \in Installers, ImagesTidy(i), FindImage(i) \/ FindOwnerImage(i)
    PROVE  /\ run'[i].at = "ownerImage" => plan[i].image = 0 /\ Stored("home") = {}
           /\ run'[i].at = "dropImage" =>
                 /\ Stored(plan[i].owner) \subseteq {run'[i].image}
                 /\ plan[i].image # 0 => run'[i].image = plan[i].image
           /\ run'[i].at = "importNetwork" =>
                 Stored(plan[i].owner) = {} /\ plan[i].image \notin Live
<1> DEFINE own == plan[i].owner
<1>0. run[i].at # "absent" /\ 0 \notin Ids
  BY IdsAreNumbers DEF FindImage, FindOwnerImage, At
<1>1. ASSUME NEW m, Chosen(i, m),
             \/ m = plan[i].image /\ m \in Live
             \/ plan[i].image = 0 /\ \E p : m \in Found(p)
      PROVE  /\ run'[i].at \notin {"ownerImage", "importNetwork"}
             /\ run'[i].at = "dropImage" =>
                   /\ Stored(own) \subseteq {run'[i].image}
                   /\ plan[i].image # 0 => run'[i].image = plan[i].image
  <2>1. run'[i].at \notin {"ownerImage", "importNetwork"}
    BY <1>0, <1>1, ChosenLeads
  <2>2. ASSUME run'[i].at = "dropImage"
        PROVE  /\ Stored(own) \subseteq {m} /\ (plan[i].image # 0 => m = plan[i].image)
    <3>1. images[m].status = "creating" /\ images[m].owner = own
      BY <1>0, <1>1, <2>2, ChosenLeads
    <3>2. CASE m = plan[i].image /\ m \in Live
      BY <3>2 DEF ImagesTidy
    <3>3. CASE plan[i].image = 0 /\ \E p : m \in Found(p)
      <4>1. m \in Stored(own)
        BY <3>1, <3>3, FoundAll DEF Stored
      <4> QED
        BY <3>3, <4>1 DEF ImagesTidy, OnlyOneOf
    <3> QED
      BY <1>1, <3>2, <3>3
  <2> QED
    BY <1>0, <1>1, <2>1, <2>2, ChosenLeads
<1>2. CASE FindImage(i)
  <2>1. CASE plan[i].image # 0
    <3>1. Configured(i) => plan[i].image \in Live
      BY DEF Configured, Listed, Live
    <3>2. Stops(i, "refused") => run'[i].at = "refused"
      BY <1>0, ComesToStop
    <3> QED
      BY <1>1, <1>2, <2>1, <3>1, <3>2 DEF FindImage
  <2>2. CASE plan[i].image = 0
    <3>1. To(i, "ownerImage") => run'[i].at = "ownerImage"
      BY <1>0, GoesTo
    <3>2. CASE \E m \in Found("home") : Chosen(i, m)
      BY <1>1, <2>2, <3>2
    <3>3. CASE Found("home") = {} /\ To(i, "ownerImage")
      BY <2>2, <3>1, <3>3, FoundAll
    <3> QED
      BY <1>2, <2>2, <3>2, <3>3 DEF FindImage
  <2> QED
    BY <2>1, <2>2
<1>3. CASE FindOwnerImage(i)
  <2>1. plan[i].image = 0 /\ Stored("home") = {} /\ plan[i].image \notin Live
    BY <1>0, <1>3 DEF FindOwnerImage, ImagesTidy, Live
  <2>2. To(i, "importNetwork") => run'[i].at = "importNetwork"
    BY <1>0, GoesTo
  <2>3. CASE \E m \in Found(own) : Chosen(i, m)
    BY <1>1, <2>1, <2>3
  <2>4. CASE (own # "home" => Found(own) = {}) /\ To(i, "importNetwork")
    BY <2>1, <2>2, <2>4, FoundAll
  <2> QED
    BY <1>3, <2>3, <2>4 DEF FindOwnerImage
<1> QED
  BY <1>2, <1>3

\* What a run goes on with is known again at the next point.
LEMMA ImagesLater ==
    ASSUME RunShape, NEW i \in Installers, ImagesTidy(i), Works(i) \/ Disturbed(i), ~Import(i)
    PROVE  run'[i].at \in Importing => Stored(plan[i].owner)' = {} /\ plan[i].image \notin Live'
<1> PICK own : own = plan[i].owner
  OBVIOUS
<1>0. plan' = plan /\ Fewer
  BY CameFrom, ImageChanges DEF Stepped
<1>1. Live' \subseteq Live /\ Stored(own)' \subseteq Stored(own)
  BY <1>0, FewerImages
<1>2. CASE FindOwnerImage(i)
  BY <1>0, <1>1, <1>2, ImageLookedFor, ImageWays DEF Importing, Comes
<1>3. CASE DropImage(i) /\ run'[i].at = "importNetwork"
  <2>1. /\ Stored(own) \subseteq {run[i].image}
        /\ plan[i].image # 0 => run[i].image = plan[i].image
    BY <1>3 DEF DropImage, ImagesTidy
  <2>2. ~Stops(i, "failed")
    BY <1>3, ComesToStop DEF DropImage, At
  <2>3. images' = [images EXCEPT ![run[i].image] = NoImage]
    BY <1>3, <2>2 DEF DropImage
  <2>4. run[i].image \notin Live'
    BY <2>3, NoImageFields DEF Live, ImagesTidy
  <2>5. 0 \notin Live'
    BY IdsAreNumbers DEF Live
  <2> QED
    BY <1>0, <1>1, <2>1, <2>4, <2>5 DEF Stored
<1>4. CASE run[i].at \in Importing
  BY <1>0, <1>1, <1>4 DEF ImagesTidy
<1>5. run'[i].at \in Importing =>
          \/ FindOwnerImage(i) \/ (DropImage(i) /\ run'[i].at = "importNetwork")
          \/ run[i].at \in Importing
  <2>1. FindImportNetwork(i) \/ MakeImportNetwork(i) => run[i].at \in Importing
    BY DEF FindImportNetwork, MakeImportNetwork, At, Importing
  <2>2. DropImage(i) => run'[i].at \in {"importNetwork", "failed"}
    BY ImageWays DEF Comes
  <2> QED
    BY <2>1, <2>2, CameFrom DEF Importing
<1> QED
  BY <1>2, <1>3, <1>4, <1>5

\* An import is begun only when the project has no image of the hash.
LEMMA ImagesKept ==
    ASSUME RunShape, NEW i \in Installers, ImagesTidy(i), Works(i) \/ Disturbed(i)
    PROVE  ImagesTidy(i)'
<1> PICK own : own = plan[i].owner
  OBVIOUS
<1>0. plan' = plan
  BY CameFrom DEF Stepped
<1>1. CASE ~Import(i)
  <2>1. Fewer /\ Live' \subseteq Live /\ \A p : Stored(p)' \subseteq Stored(p)
    BY <1>1, ImageChanges, FewerImages
  <2>2. CASE FindImage(i) \/ FindOwnerImage(i)
    <3>1. images' = images
      BY <2>2 DEF FindImage, FindOwnerImage, imageVars
    <3>2. Live' = Live /\ \A p : Stored(p)' = Stored(p)
      BY <3>1 DEF Live, Stored
    <3>3. run'[i].at \notin {"makeImportNetwork", "import"}
      BY <2>2, ImageWays DEF Comes
    <3>4. /\ run'[i].at = "ownerImage" => plan[i].image = 0 /\ Stored("home") = {}
          /\ run'[i].at = "dropImage" =>
                 /\ Stored(own) \subseteq {run'[i].image}
                 /\ plan[i].image # 0 => run'[i].image = plan[i].image
          /\ run'[i].at = "importNetwork" => Stored(own) = {} /\ plan[i].image \notin Live
      BY <2>2, ImageLookedFor
    <3>5. /\ \A p \in Projects : OnlyOneOf(Stored(p))
          /\ plan[i].image \in Live => Stored(own) \subseteq {plan[i].image}
      BY DEF ImagesTidy
    <3> QED
      BY <1>0, <3>1, <3>2, <3>3, <3>4, <3>5 DEF ImagesTidy, At, Importing
  <2>3. CASE ~(FindImage(i) \/ FindOwnerImage(i))
    <3>1. run'[i].at \notin {"ownerImage", "dropImage"}
      BY <2>3, CameFrom
    <3>2. run'[i].at \in Importing => Stored(own)' = {} /\ plan[i].image \notin Live'
      BY <1>0, <1>1, ImagesLater
    <3>3. \A p \in Projects : OnlyOneOf(Stored(p)')
      BY <2>1 DEF ImagesTidy, OnlyOneOf
    <3>4. plan[i].image \in Live' => Stored(own)' \subseteq {plan[i].image}
      BY <2>1 DEF ImagesTidy
    <3>5. /\ own \in Projects /\ DOMAIN images' = Ids
          /\ \A m \in Ids : /\ DOMAIN images'[m] = ImageFields
                            /\ images'[m].status \in {"none", "creating", "available"}
      BY <2>1 DEF ImagesTidy, Fewer
    <3> QED
      BY <1>0, <3>1, <3>2, <3>3, <3>4, <3>5 DEF ImagesTidy, At
  <2> QED
    BY <2>2, <2>3
<1>2. CASE Import(i)
  <2> DEFINE new == [status |-> "creating", owner |-> own, label |-> "match",
                     fed |-> FALSE, old |-> FALSE, agent |-> TRUE, shared |-> {}]
  <2>1. PICK m \in Ids : images' = [images EXCEPT ![m] = new]
    BY <1>2 DEF Import
  <2>2. DOMAIN new = ImageFields /\ new.status = "creating" /\ new.owner = own
    BY DEF ImageFields
  <2> HIDE DEF new
  <2>3. DOMAIN images' = Ids /\ \A x \in Ids : images'[x] = IF x = m THEN new ELSE images[x]
    BY <2>1 DEF ImagesTidy
  <2>4. run'[i].at = "upload"
    BY <1>2, ImageWays DEF Comes
  <2>5. Stored(own) = {} /\ plan[i].image \notin Live
    BY <1>2 DEF Import, At, ImagesTidy, Importing
  <2>6. Stored(own)' \subseteq {m} /\ (plan[i].image \in Live' => plan[i].image = m)
    BY <2>3, <2>5 DEF Stored, Live
  <2>7. ASSUME NEW p \in Projects PROVE OnlyOneOf(Stored(p)')
    <3>1. CASE p = own
      BY <2>6, <3>1 DEF OnlyOneOf
    <3>2. CASE p # own
      <4>1. Stored(p)' \subseteq Stored(p)
        BY <2>2, <2>3, <3>2 DEF Stored, Live
      <4> QED
        BY <4>1 DEF OnlyOneOf, ImagesTidy
    <3> QED
      BY <3>1, <3>2
  <2>8. \A x \in Ids : /\ DOMAIN images'[x] = ImageFields
                       /\ images'[x].status \in {"none", "creating", "available"}
    BY <2>2, <2>3 DEF ImagesTidy
  <2>9. own \in Projects
    BY DEF ImagesTidy
  <2> QED
    BY <1>0, <2>3, <2>4, <2>6, <2>7, <2>8, <2>9 DEF ImagesTidy, At, Importing
<1> QED
  BY <1>1, <1>2

-----------------------------------------------------------------------------
(* Nothing is made twice.                                                  *)

\* What is done by STACKIT and by an operator adds to nothing.
LEMMA TidyFromOutside ==
    ASSUME Inv, NEW i \in Installers, Tidy(i), Platform \/ Trouble
    PROVE  Tidy(i)'
<1>0. ThingShape /\ UNCHANGED <<plan, run>>
  BY DEF Inv, ThingInv, Platform, Trouble, ServerStarts, ServerBreaks, RemoveServer, ImageReady,
         ImageAges, ZoneEnds, BalancerEnds, CertificateAges, Costs
<1>1. UNCHANGED <<networks, groups>>
  BY DEF Platform, Trouble, ServerStarts, ServerBreaks, RemoveServer, ImageReady, ImageAges
<1>2. NetworksTidy(i)' /\ GroupsTidy(i)'
  BY <1>0, <1>1 DEF Tidy, NetworksTidy, GroupsTidy, At
<1>3. ServersTidy(i)' /\ AddressesTidy(i)'
  <2>1. CASE UNCHANGED <<servers, addresses>>
    BY <1>0, <2>1 DEF Tidy, ServersTidy, AddressesTidy, OfSite, Existing, Managed, Reserved, At
  <2>2. ASSUME NEW s \in Ids, ServerStarts(s) \/ ServerBreaks(s)
        PROVE  ServersTidy(i)' /\ AddressesTidy(i)'
    <3>1. \A x \in Ids : /\ servers'[x].site = servers[x].site
                         /\ servers'[x].status = "none" <=> servers[x].status = "none"
      BY <1>0, <2>2 DEF ServerStarts, ServerBreaks, ThingShape, ServerFields
    <3>2. Existing' = Existing /\ \A k : OfSite(k)' = OfSite(k)
      BY <3>1 DEF OfSite, Existing
    <3>3. addresses' = addresses
      BY <2>2 DEF ServerStarts, ServerBreaks
    <3>4. ServersTidy(i)'
      BY <1>0, <3>2 DEF Tidy, ServersTidy, At
    <3>5. AddressesTidy(i)'
      BY <1>0, <3>2, <3>3 DEF Tidy, AddressesTidy, Managed, Reserved, At
    <3> QED
      BY <3>4, <3>5
  <2>3. ASSUME NEW s \in Ids, RemoveServer(s)
        PROVE  ServersTidy(i)' /\ AddressesTidy(i)'
    <3>1. run'[i].at \notin {"makeServer", "makeAddress", "attachAddress"}
      BY <1>0, <2>3 DEF RemoveServer, Busy, Ended
    <3>2. /\ DOMAIN servers' = Ids /\ servers'[s].status = "none"
          /\ \A x \in Ids \ {s} : servers'[x] = servers[x]
      BY <1>0, <2>3 DEF RemoveServer, ThingShape, NoServer
    <3>3. \A k : OfSite(k)' = OfSite(k) \ {s}
      BY <3>2 DEF OfSite, Existing
    <3>4. \A a \in Ids : /\ addresses'[a].there = addresses[a].there
                         /\ addresses'[a].managed = addresses[a].managed
                         /\ addresses'[a].nic = IF addresses[a].nic = s THEN 0 ELSE addresses[a].nic
      BY <1>0, <2>3 DEF RemoveServer, ThingShape
    <3>5. Managed' = Managed
      BY <3>4 DEF Managed, Reserved
    <3>6. ServersTidy(i)'
      BY <1>0, <3>1, <3>3 DEF Tidy, ServersTidy, OnlyOneOf, At
    <3>7. \A a \in Managed : a \in Ids
      BY DEF Managed, Reserved
    <3>8. AddressesTidy(i)'
      BY <1>0, <3>1, <3>3, <3>4, <3>5, <3>7 DEF Tidy, AddressesTidy, At
    <3> QED
      BY <3>6, <3>8
  <2> QED
    BY <2>1, <2>2, <2>3 DEF Platform, Trouble
<1>4. ImagesTidy(i)'
  <2>1. Fewer
    <3>1. CASE images' = images
      BY <3>1 DEF Tidy, ImagesTidy, Fewer
    <3>2. ASSUME NEW m \in Ids, ImageReady(m) \/ ImageAges(m) PROVE Fewer
      BY <3>2 DEF Tidy, ImagesTidy, Fewer, ImageReady, ImageAges, ImageFields
    <3> QED
      BY <3>1, <3>2 DEF Platform, Trouble
  <2>2. Live' \subseteq Live /\ \A p : Stored(p)' \subseteq Stored(p)
    BY <2>1, FewerImages
  <2> QED
    BY <1>0, <2>1, <2>2 DEF Tidy, ImagesTidy, Fewer, OnlyOneOf, At
<1>5. CertificatesTidy(i)'
  <2>1. CASE certs' = certs
    BY <1>0, <2>1 DEF Tidy, CertificatesTidy, Usable
  <2>2. ASSUME NEW c \in Ids, CertificateAges(c) PROVE CertificatesTidy(i)'
    <3>1. certs' = [certs EXCEPT ![c].fresh = FALSE]
      BY <2>2 DEF CertificateAges
    <3>2. DOMAIN certs = Ids /\ \A d \in Ids : DOMAIN certs[d] = {"site", "fresh"}
      BY DEF Tidy, CertificatesTidy
    <3>3. /\ DOMAIN certs' = Ids /\ DOMAIN certs'[c] = {"site", "fresh"}
          /\ certs'[c].fresh = FALSE /\ \A d \in Ids \ {c} : certs'[d] = certs[d]
      BY <3>1, <3>2
    <3>4. \A k : Usable(k)' \subseteq Usable(k)
      <4>1. ASSUME NEW k PROVE certs'[c] # [site |-> k, fresh |-> TRUE]
        <5>1. [site |-> k, fresh |-> TRUE].fresh = TRUE
          OBVIOUS
        <5> QED
          BY <3>3, <5>1
      <4> QED
        BY <3>3, <4>1 DEF Usable
    <3>5. \A d \in Ids : DOMAIN certs'[d] = {"site", "fresh"}
      BY <3>2, <3>3
    <3> QED
      BY <1>0, <3>3, <3>4, <3>5 DEF Tidy, CertificatesTidy, OnlyOneOf
  <2> QED
    BY <2>1, <2>2 DEF Platform, Trouble, ServerStarts, ServerBreaks, RemoveServer, ZoneEnds,
                      BalancerEnds
<1> QED
  BY <1>2, <1>3, <1>4, <1>5 DEF Tidy

\* Every step keeps what is said of an installer that works alone: the other
\* installers have no run, and one that has none takes no step.
LEMMA TidinessKept == Inv /\ Tidiness /\ [Next]_vars => Tidiness'
<1> SUFFICES ASSUME Inv, Tidiness, [Next]_vars, NEW i \in Installers, Present' = {i}
             PROVE  Tidy(i)'
  BY DEF Tidiness
<1>0. RunShape
  BY DEF Inv, RunInv
<1>1. CASE UNCHANGED vars
  <2>1. Present = {i}
    BY <1>1 DEF vars, Present
  <2>2. Tidy(i)
    BY <2>1 DEF Tidiness
  <2>3. NetworksTidy(i)' /\ GroupsTidy(i)' /\ ServersTidy(i)'
    BY <1>1, <2>2
    DEF vars, Tidy, NetworksTidy, GroupsTidy, ServersTidy, OfSite, Existing, At
  <2>4. AddressesTidy(i)'
    BY <1>1, <2>2 DEF vars, Tidy, AddressesTidy, OfSite, Existing, Managed, Reserved, At
  <2>5. ImagesTidy(i)'
    <3>1. Live' = Live /\ \A p : Stored(p)' = Stored(p)
      BY <1>1 DEF vars, Live, Stored
    <3> QED
      BY <1>1, <2>2, <3>1 DEF vars, Tidy, ImagesTidy, At
  <2>6. CertificatesTidy(i)'
    BY <1>1, <2>2 DEF vars, Tidy, CertificatesTidy, Usable
  <2> QED
    BY <2>3, <2>4, <2>5, <2>6 DEF Tidy
<1>2. ASSUME NEW j \in Installers, Works(j) \/ Disturbed(j) PROVE Tidy(i)'
  <2>1. Stepped(j)
    BY <1>0, <1>2, CameFrom
  <2>2. Present' = Present /\ j \in Present
    BY <2>1 DEF Stepped, Present
  <2>3. j = i /\ Tidy(i)
    BY <2>2 DEF Tidiness
  <2> QED
    BY <1>0, <1>2, <2>3, NetworksKept, GroupsKept, ServersKept, AddressesKept, ImagesKept,
       CertificatesKept DEF Tidy
<1>3. CASE Platform \/ Trouble
  <2>1. run' = run
    BY <1>3 DEF Platform, Trouble, ServerStarts, ServerBreaks, RemoveServer, ImageReady,
                ImageAges, ZoneEnds, BalancerEnds, CertificateAges
  <2>2. Present = {i}
    BY <2>1 DEF Present
  <2> QED
    BY <1>3, <2>2, TidyFromOutside DEF Tidiness
<1> QED
  BY <1>1, <1>2, <1>3 DEF Next

\* A cloud to start from that has at most one of each is tidy.
LEMMA TidinessBegins == ASSUME TidyStart PROVE Init => Tidiness
<1> SUFFICES ASSUME Init, NEW i \in Installers, Present = {i} PROVE Tidy(i)
  BY DEF Tidiness
<1>1. PICK c \in Scenarios :
        /\ plan = c.plan
        /\ run = [j \in Installers |-> NoRun(IF j \in c.present THEN "ready" ELSE "absent")]
        /\ networks = c.networks /\ groups = c.groups
        /\ servers = c.servers /\ addresses = c.addresses /\ images = c.images
        /\ certs = [d \in Ids |-> NoCert]
  BY DEF Init
<1>2. \A j \in Installers : run[j].at = IF j \in c.present THEN "ready" ELSE "absent"
  BY <1>1, NoRunFields
<1>3. Installers \cap c.present = {i}
  BY <1>2 DEF Present
<1>4. run[i].at = "ready"
  BY <1>2, <1>3
<1>5. /\ \A j \in Installers : plan[j].site \in Sites /\ plan[j].owner \in Projects
      /\ DOMAIN networks = Projects /\ DOMAIN images = Ids
      /\ \A m \in Ids : /\ DOMAIN images[m] = DOMAIN NoImage
                        /\ images[m].status \in {"none", "creating", "available"}
      /\ \A a \in Ids : addresses[a].nic # 0 =>
             addresses[a].nic \in Ids /\ servers[addresses[a].nic].status # "none"
  BY <1>1, ScenarioAssumption
<1>6. /\ \A q \in Projects : OnlyOneOf(networks[q]) /\ OnlyOneOf(Stored(q))
      /\ OnlyOneOf(groups)
      /\ \A k \in Sites : OnlyOneOf(OfSite(k))
      /\ OnlyOneOf(Managed)
      /\ \A a \in Managed :
            IF plan[i].address = 0
            THEN addresses[a].nic = 0 \/ servers[addresses[a].nic].site = plan[i].site
            ELSE a = plan[i].address
      /\ plan[i].image # 0 => \A m \in Stored(plan[i].owner) : m = plan[i].image
  <2> DEFINE managed == {a \in Ids : c.addresses[a].there /\ c.addresses[a].managed}
             stored  == {m \in Ids : c.images[m].status # "none" /\ c.images[m].label = "match"}
  <2>1. /\ \A q \in Projects : /\ OnlyOneOf(c.networks[q])
                               /\ OnlyOneOf({m \in stored : c.images[m].owner = q})
        /\ OnlyOneOf(c.groups)
        /\ \A k \in Sites :
              OnlyOneOf({x \in Ids : c.servers[x].status # "none" /\ c.servers[x].site = k})
        /\ OnlyOneOf(managed)
        /\ \A a \in managed :
              IF c.plan[i].address = 0
              THEN c.addresses[a].nic = 0 \/ c.servers[c.addresses[a].nic].site = c.plan[i].site
              ELSE a = c.plan[i].address
        /\ c.plan[i].image # 0 =>
              \A m \in stored : c.images[m].owner = c.plan[i].owner => m = c.plan[i].image
    BY <1>3 DEF TidyStart
  <2>2. Managed = managed
    BY <1>1 DEF Managed, Reserved
  <2>3. \A q : Stored(q) = {m \in stored : c.images[m].owner = q}
    BY <1>1 DEF Stored, Live
  <2>4. \A k : OfSite(k) = {x \in Ids : c.servers[x].status # "none" /\ c.servers[x].site = k}
    BY <1>1 DEF OfSite, Existing
  <2> HIDE DEF managed
  <2>5. \A m \in Stored(plan[i].owner) : m \in stored /\ c.images[m].owner = plan[i].owner
    BY <2>3
  <2> HIDE DEF stored
  <2>6. plan[i].image # 0 => \A m \in Stored(plan[i].owner) : m = plan[i].image
    BY <1>1, <2>1, <2>5
  <2> QED
    BY <1>1, <2>1, <2>2, <2>3, <2>4, <2>6
<1>7. NetworksTidy(i) /\ GroupsTidy(i) /\ ServersTidy(i)
  BY <1>4, <1>5, <1>6 DEF NetworksTidy, GroupsTidy, ServersTidy, At
<1>8. AddressesTidy(i)
  BY <1>4, <1>5, <1>6 DEF AddressesTidy, At, OfSite, Existing, Managed, Reserved
<1>9. ImagesTidy(i)
  <2>1. plan[i].image \in Live => plan[i].image # 0
    BY IdsAreNumbers DEF Live
  <2> QED
    BY <1>4, <1>5, <1>6, <2>1, NoImageFields DEF ImagesTidy, At, Importing
<1>10. CertificatesTidy(i)
  <2>1. \A k : Usable(k) = {}
    BY <1>1 DEF Usable, NoCert
  <2> QED
    BY <1>1, <1>4, <2>1 DEF CertificatesTidy, OnlyOneOf, NoCert, Certifying
<1> QED
  BY <1>7, <1>8, <1>9, <1>10 DEF Tidy

\* A set whose elements are all the same has at most one.
LEMMA AtMostOne == ASSUME NEW S, OnlyOneOf(S) PROVE Cardinality(S) <= 1
<1>1. CASE S = {}
  BY <1>1, FS_EmptySet
<1>2. CASE S # {}
  <2>1. PICK x : S = {x}
    BY <1>2 DEF OnlyOneOf
  <2> QED
    BY <2>1, FS_Singleton
<1> QED
  BY <1>1, <1>2

\* However often the runs of an installer that works alone are cut off and
\* repeated, no phase makes a second network, group, server, address, import or
\* certificate: what a run made before it was cut off is found by the next one.
THEOREM NothingIsMadeTwice == ASSUME TidyStart PROVE Spec => []NothingTwice
<1>1. Tidiness => NothingTwice
  <2> SUFFICES ASSUME Tidiness, Single PROVE NothingTwice
    BY DEF NothingTwice
  <2>1. PICK i \in Installers : Tidy(i)
    BY DEF Single, Tidiness
  <2>2. \A p \in Projects : Cardinality(networks[p]) <= 1
    BY <2>1, AtMostOne DEF Tidy, NetworksTidy
  <2>3. Cardinality(groups) <= 1
    BY <2>1, AtMostOne DEF Tidy, GroupsTidy
  <2>4. \A k \in Sites : Cardinality(OfSite(k)) <= 1
    BY <2>1, AtMostOne DEF Tidy, ServersTidy
  <2>5. Cardinality(Managed) <= 1
    BY <2>1, AtMostOne DEF Tidy, AddressesTidy
  <2>6. \A p \in Projects : Cardinality(Stored(p)) <= 1
    BY <2>1, AtMostOne DEF Tidy, ImagesTidy
  <2>7. \A p \in Projects : Stored(p) = {m \in Ids : /\ images[m].status # "none"
                                                   /\ images[m].label = "match"
                                                   /\ images[m].owner = p}
    BY DEF Stored, Live
  <2>8. \A k \in Sites : Cardinality(Usable(k)) <= 1
    BY <2>1, AtMostOne DEF Tidy, CertificatesTidy
  <2> QED
    BY <2>2, <2>3, <2>4, <2>5, <2>6, <2>7, <2>8 DEF NothingTwice, OfSite, Managed, Usable
<1>2. Init => Tidiness
  BY TidinessBegins
<1> QED
  BY <1>1, <1>2, TidinessKept, DeploymentInvariant, PTL DEF Spec

-----------------------------------------------------------------------------
(* The image, the network and the server of an installer that works alone. *)

\* The points at which a run has an image, by what is known of it: which it is,
\* that it is available, that the deployment's project lists it.
Sighted == {"server", "makeServer", "waitBalancer", "record", "writeRecord", "direct", "done"}
              \cup Holding
Pictured == {"markImage", "shareImage", "waitVisible"} \cup Sighted
Known == {"waitImage", "upload"} \cup Pictured

\* The points at which the image is known and the server is not.
Choosing == {"waitImage", "upload", "markImage", "shareImage", "waitVisible", "server", "makeServer"}

\* The points at which the network is known.
Networked == {"group", "makeGroup", "rules", "image", "ownerImage", "dropImage"}
                \cup Importing \cup Known

\* The images of the hash that an installer can see.
Shown(i) == {m \in Live : /\ images[m].label = "match"
                          /\ m \in Listed("home") \cup Listed(plan[i].owner)}

\* The image m is one that the installer may use: the configured one, or one it sees.
Fits(i, m) ==
    /\ plan[i].image \in Live => m = plan[i].image
    /\ plan[i].image = 0 => m \in Shown(i)

\* The servers of the name whose image a run must agree with.
Own(i) ==
    {s \in OfSite(plan[i].site) :
        /\ plan[i].server = 0 /\ servers[s].image # 0
        /\ plan[i].image = 0 \/ servers[s].status = "creating" \/ servers[s].image = plan[i].image}

\* There is one image that a deployment uses, or none; it is in the project that
\* is searched, unless it is shared.
OneImage(i) ==
    plan[i].image = 0 =>
        /\ OnlyOneOf(Shown(i))
        /\ \A m \in Shown(i) : images[m].owner \in {"home", plan[i].owner} \/ images[m].status = "available"

\* What a run knows of the image that it has.
HasImage(i) ==
    /\ run[i].at \in Known => run[i].image \in Ids /\ Fits(i, run[i].image)
    /\ run[i].at \in Pictured => images[run[i].image].status = "available"
    /\ run[i].at \in Sighted => run[i].image \in Listed("home")

\* What is not there when a run looks further, gives an import up, or imports.
LacksImage(i) ==
    /\ At(i, "ownerImage") =>
          /\ plan[i].image = 0
          /\ \A m \in Shown(i) \cap Listed("home") : images[m].owner = plan[i].owner /\ plan[i].owner # "home"
    /\ At(i, "dropImage") => Fits(i, run[i].image) /\ Own(i) = {}
    /\ run[i].at \in Importing =>
          (plan[i].image = 0 => Shown(i) = {}) /\ plan[i].image \notin Live /\ Own(i) = {}
    /\ At(i, "upload") => Own(i) = {}

\* The servers of the name were made from the image that the run has.
ServersFit(i) ==
    /\ \A s \in Own(i) : /\ servers[s].image \in Ids /\ Fits(i, servers[s].image)
                         /\ images[servers[s].image].status = "available"
    /\ run[i].at \in Choosing => \A s \in Own(i) : servers[s].image = run[i].image

\* What holds of the image of an installer that works alone.
Pictures(i) == OneImage(i) /\ HasImage(i) /\ LacksImage(i) /\ ServersFit(i)

\* The server of a run is in its network.
Nets(i) ==
    /\ 0 \notin networks["home"]
    /\ run[i].at \in Networked =>
          IF plan[i].network = 0 THEN run[i].net \in networks["home"] ELSE run[i].net = plan[i].network
    /\ At(i, "makeNetwork") => plan[i].network = 0
    /\ At(i, "makeServer") => plan[i].server = 0
    /\ \A s \in OfSite(plan[i].site) :
          IF plan[i].server = 0
          THEN plan[i].network = 0 => servers[s].net \in networks["home"]
          ELSE servers[s].net # 0
    /\ run[i].at \in Holding /\ plan[i].server # 0 => servers[run[i].server].net = run[i].net

\* A configured image or address is one that may exist.
PlanShape(i) == plan[i].image \in Ids \cup {0} /\ plan[i].address \in Ids \cup {0}

\* The states of a server that the code tells apart.
ServerStates == \A s \in Ids : servers[s].status \in {"none", "creating", "active", "error"}

\* What holds of an installer that works alone, beside Tidy.
Settled(i) == Pictures(i) /\ Nets(i) /\ ServerStates /\ PlanShape(i)

\* The invariant that the refusals rest on.
Settledness == \A i \in Installers : Present = {i} => Settled(i)

-----------------------------------------------------------------------------
(* What a run remembers.                                                   *)

\* Where a run begins or ends, nothing is known yet or any more.
Forgotten == {"zone", "network", "failed", "refused"}

\* The facts of a run that the refusals rest on.
Memory == {"net", "image", "server"}

\* A step does not change the fact f, unless the run ends.
Recalls(i, f) == run'[i].at \in Forgotten \/ run'[i][f] = run[i][f]

\* A run that learns some facts keeps the others.
LEMMA LearnsRecalls ==
    ASSUME RunShape, NEW i \in Installers, NEW facts, NEW p, NEW f \in Memory,
           Learns(i, facts, p)
    PROVE  run'[i][f] = IF f \in DOMAIN facts THEN facts[f] ELSE run[i][f]
<1>1. f \in Fields /\ f # "at"
  BY DEF Memory, Fields
<1> QED
  BY <1>1 DEF Learns, RunShape

\* A run that only goes on keeps what it knows.
LEMMA GoesRecalls ==
    ASSUME RunShape, NEW i \in Installers, NEW p, NEW f \in Memory, To(i, p)
    PROVE  Recalls(i, f)
<1>1. f \in Fields /\ f # "at"
  BY DEF Memory, Fields
<1> QED
  BY <1>1 DEF To, RunShape, Recalls

\* A run that stops has nothing to keep.
LEMMA StopsRecalls ==
    ASSUME RunShape, NEW i \in Installers, NEW p \in Forgotten, NEW f, Stops(i, p)
    PROVE  Recalls(i, f)
  BY NoRunFields DEF Stops, RunShape, Recalls

\* What is learnt besides is not the network, the image or the server.
LEMMA OtherFacts ==
    ASSUME RunShape, NEW i \in Installers, NEW p, NEW v, NEW w, NEW f \in Memory,
           \/ Learns(i, [group |-> v, have |-> w], p) \/ Learns(i, [have |-> v], p)
           \/ Learns(i, [seen |-> v], p) \/ Learns(i, [cert |-> v], p)
           \/ Learns(i, [seen |-> v, txt |-> w], p) \/ Learns(i, [txt |-> v], p)
           \/ Learns(i, [valid |-> v], p) \/ Learns(i, [txt |-> v, valid |-> w], p)
           \/ Learns(i, [address |-> v], p)
    PROVE  Recalls(i, f)
<1>1. ASSUME NEW facts, DOMAIN facts \cap Memory = {}, Learns(i, facts, p)
      PROVE  Recalls(i, f)
  BY <1>1, LearnsRecalls DEF Recalls
<1> USE DEF Memory
<1>2. CASE Learns(i, [group |-> v, have |-> w], p)  BY <1>1, <1>2
<1>3. CASE Learns(i, [have |-> v], p)  BY <1>1, <1>3
<1>4. CASE Learns(i, [seen |-> v], p)  BY <1>1, <1>4
<1>5. CASE Learns(i, [cert |-> v], p)  BY <1>1, <1>5
<1>6. CASE Learns(i, [seen |-> v, txt |-> w], p)  BY <1>1, <1>6
<1>7. CASE Learns(i, [txt |-> v], p)  BY <1>1, <1>7
<1>8. CASE Learns(i, [valid |-> v], p)  BY <1>1, <1>8
<1>9. CASE Learns(i, [txt |-> v, valid |-> w], p)  BY <1>1, <1>9
<1>10. CASE Learns(i, [address |-> v], p)  BY <1>1, <1>10
<1> QED
  BY <1>2, <1>3, <1>4, <1>5, <1>6, <1>7, <1>8, <1>9, <1>10

\* A run that learns its network keeps its image and its server.
LEMMA NetFacts ==
    ASSUME RunShape, NEW i \in Installers, NEW p, NEW v, Learns(i, [net |-> v], p)
    PROVE  run'[i].net = v /\ Recalls(i, "image") /\ Recalls(i, "server")
  BY LearnsRecalls DEF Memory, Recalls

\* A run that learns its image keeps its network and its server.
LEMMA ImageFacts ==
    ASSUME RunShape, NEW i \in Installers, NEW p, NEW v, Learns(i, [image |-> v], p)
    PROVE  run'[i].image = v /\ Recalls(i, "net") /\ Recalls(i, "server")
  BY LearnsRecalls DEF Memory, Recalls

\* A run that learns its server keeps its network and its image.
LEMMA ServerFacts ==
    ASSUME RunShape, NEW i \in Installers, NEW p, NEW v, Learns(i, [server |-> v], p)
    PROVE  run'[i].server = v /\ Recalls(i, "net") /\ Recalls(i, "image")
  BY LearnsRecalls DEF Memory, Recalls

\* Only the steps on networks and on servers change a run's network and server, and
\* none of the steps on resources its image.
LEMMA ResourceRecalls ==
    ASSUME RunShape, NEW i \in Installers, Resource(i)
    PROVE  /\ Recalls(i, "net") \/ FindNetwork(i) \/ MakeNetwork(i)
           /\ Recalls(i, "image")
           /\ Recalls(i, "server") \/ FindServer(i) \/ MakeServer(i) \/ AdoptServer(i)
<1> DEFINE All == \A f \in Memory : Recalls(i, f)
<1>0. {"net", "image", "server"} \subseteq Memory /\ "refused" \in Forgotten
  BY DEF Memory, Forgotten
<1> HIDE DEF All
<1>1. FindNetwork(i) => Recalls(i, "image") /\ Recalls(i, "server")
  BY <1>0, NetFacts, GoesRecalls DEF FindNetwork
<1>2. MakeNetwork(i) => Recalls(i, "image") /\ Recalls(i, "server")
  BY <1>0, NetFacts, GoesRecalls DEF MakeNetwork
<1>3. FindGroup(i) => All
  BY OtherFacts, GoesRecalls DEF FindGroup, All
<1>4. MakeGroup(i) => All
  BY OtherFacts, GoesRecalls DEF MakeGroup, All
<1>5. AddRule(i) => All
  BY OtherFacts, GoesRecalls DEF AddRule, All
<1>6. GroupReady(i) => All
  BY GoesRecalls DEF GroupReady, All
<1>7. FindServer(i) => Recalls(i, "image") /\ Recalls(i, "net")
  BY <1>0, ServerFacts, GoesRecalls, StopsRecalls DEF FindServer
<1>8. MakeServer(i) => Recalls(i, "image") /\ Recalls(i, "net")
  BY <1>0, ServerFacts DEF MakeServer
<1>9. WaitServer(i) => All
  BY <1>0, GoesRecalls, StopsRecalls DEF WaitServer, All
<1>10. AdoptServer(i) => Recalls(i, "image") /\ Recalls(i, "net")
  BY <1>0, ServerFacts, StopsRecalls DEF AdoptServer
<1>11. AttachGroup(i) => All
  BY GoesRecalls DEF AttachGroup, All
<1>12. BootstrapServer(i) => All
  BY GoesRecalls DEF BootstrapServer, All
<1>13. ChooseAddress(i) => All
  BY <1>0, OtherFacts, GoesRecalls, StopsRecalls DEF ChooseAddress, All
<1>14. AttachAddress(i) => All
  BY GoesRecalls DEF AttachAddress, All
<1>15. MakeAddress(i) => All
  BY OtherFacts DEF MakeAddress, All
<1> QED
  BY <1>0, <1>1, <1>2, <1>3, <1>4, <1>5, <1>6, <1>7, <1>8, <1>9, <1>10, <1>11, <1>12, <1>13,
     <1>14, <1>15 DEF Resource, All

\* Only the lookups and the import change a run's image, and no step on images its
\* network or its server.
LEMMA ImageRecalls ==
    ASSUME RunShape, NEW i \in Installers, Image(i)
    PROVE  /\ Recalls(i, "net") /\ Recalls(i, "server")
           /\ Recalls(i, "image") \/ FindImage(i) \/ FindOwnerImage(i) \/ Import(i)
<1> DEFINE All == \A f \in Memory : Recalls(i, f)
<1>0. {"net", "image", "server"} \subseteq Memory /\ {"refused", "failed"} \subseteq Forgotten
  BY DEF Memory, Forgotten
<1> HIDE DEF All
<1>1. ASSUME NEW m, Chosen(i, m) PROVE Recalls(i, "net") /\ Recalls(i, "server")
  BY <1>1, ImageFacts DEF Chosen
<1>2. FindImage(i) => Recalls(i, "net") /\ Recalls(i, "server")
  BY <1>0, <1>1, GoesRecalls, StopsRecalls DEF FindImage
<1>3. FindOwnerImage(i) => Recalls(i, "net") /\ Recalls(i, "server")
  BY <1>0, <1>1, GoesRecalls DEF FindOwnerImage
<1>4. DropImage(i) => All
  BY <1>0, GoesRecalls, StopsRecalls DEF DropImage, All
<1>5. WaitImage(i) => All
  BY <1>0, GoesRecalls, StopsRecalls DEF WaitImage, All
<1>6. FindImportNetwork(i) => All
  BY GoesRecalls DEF FindImportNetwork, All
<1>7. MakeImportNetwork(i) => All
  BY GoesRecalls DEF MakeImportNetwork, All
<1>8. Import(i) => Recalls(i, "net") /\ Recalls(i, "server")
  BY ImageFacts DEF Import
<1>9. Upload(i) => All
  BY GoesRecalls DEF Upload, All
<1>10. MarkImage(i) => All
  BY <1>0, GoesRecalls, StopsRecalls DEF MarkImage, All
<1>11. ShareImage(i) => All
  BY GoesRecalls DEF ShareImage, All
<1>12. WaitVisible(i) => All
  BY GoesRecalls DEF WaitVisible, All
<1>13. Deadline(i) => All
  BY <1>0, StopsRecalls DEF Deadline, All
<1> QED
  BY <1>0, <1>2, <1>3, <1>4, <1>5, <1>6, <1>7, <1>8, <1>9, <1>10, <1>11, <1>12, <1>13
     DEF Image, All

\* No step that exposes the appliance changes the run's network, image or server.
LEMMA ExposeRecalls ==
    ASSUME RunShape, NEW i \in Installers, Expose(i)
    PROVE  \A f \in Memory : Recalls(i, f)
<1> USE OtherFacts, GoesRecalls, StopsRecalls
<1> TAKE f \in Memory
<1>0. {"refused", "failed"} \subseteq Forgotten
  BY DEF Forgotten
<1>1. CASE FindZone(i)
  BY <1>0, <1>1 DEF FindZone
<1>2. CASE MakeZone(i)
  BY <1>0, <1>2 DEF MakeZone
<1>3. CASE WaitZone(i)
  BY <1>0, <1>3 DEF WaitZone
<1>4. CASE ListRecords(i)
  BY <1>4 DEF ListRecords
<1>5. CASE WriteRecord(i)
  BY <1>0, <1>5 DEF WriteRecord
<1>6. CASE FindCertificate(i)
  BY <1>6 DEF FindCertificate
<1>7. CASE ListTexts(i)
  BY <1>7 DEF ListTexts
<1>8. CASE WriteText(i)
  BY <1>0, <1>8 DEF WriteText
<1>9. CASE Validate(i)
  BY <1>9 DEF Validate
<1>10. CASE CleanUp(i)
  BY <1>0, <1>10 DEF CleanUp
<1>11. CASE StoreCertificate(i)
  BY <1>11 DEF StoreCertificate
<1>12. CASE ListBalancers(i)
  BY <1>0, <1>12 DEF ListBalancers
<1>13. CASE UpdateBalancer(i)
  BY <1>0, <1>13 DEF UpdateBalancer
<1>14. CASE MakeBalancer(i)
  BY <1>0, <1>14 DEF MakeBalancer
<1>15. CASE WaitBalancer(i)
  BY <1>0, <1>15 DEF WaitBalancer
<1> QED
  BY <1>1, <1>2, <1>3, <1>4, <1>5, <1>6, <1>7, <1>8, <1>9, <1>10, <1>11, <1>12,
     <1>13, <1>14, <1>15 DEF Expose

\* Neither do the start of a run, its work on the certificate, or what cuts it off.
LEMMA OthersRecall ==
    ASSUME RunShape, NEW i \in Installers, Start(i) \/ Secure(i) \/ Disturbed(i)
    PROVE  \A f \in Memory : Recalls(i, f)
<1> TAKE f \in Memory
<1>0. DOMAIN run = Installers /\ DOMAIN run[i] = Fields /\ f \in Fields \ {"at", "txt", "valid"}
  BY DEF RunShape, Memory, Fields
<1>1. CASE Start(i)
  BY <1>1, OtherWays DEF Comes, Recalls, Forgotten
<1>2. CASE Secure(i)
  BY <1>2, GoesRecalls DEF Secure
<1>3. CASE Interrupt(i) \/ Again(i) \/ UploadFails(i)
  BY <1>3, OtherWays DEF Comes, Recalls, Forgotten
<1>4. CASE Invalid(i)
  BY <1>0, <1>4 DEF Invalid, Recalls
<1>5. CASE CleanUpFails(i)
  <2> DEFINE r == [run[i] EXCEPT !.txt = 0, !.valid = FALSE, !.at = "storeCertificate"]
  <2>1. r[f] = run[i][f]
    BY <1>0
  <2> HIDE DEF r
  <2>2. run' = [run EXCEPT ![i] = r]
    BY <1>5 DEF CleanUpFails, r
  <2> QED
    BY <1>0, <2>1, <2>2 DEF Recalls
<1> QED
  BY <1>1, <1>2, <1>3, <1>4, <1>5 DEF Disturbed

\* A run forgets nothing of these until it ends, and each is learnt in one place.
LEMMA Remembers ==
    ASSUME RunShape, NEW i \in Installers, Works(i) \/ Disturbed(i)
    PROVE  /\ Recalls(i, "net") \/ FindNetwork(i) \/ MakeNetwork(i)
           /\ Recalls(i, "image") \/ FindImage(i) \/ FindOwnerImage(i) \/ Import(i)
           /\ Recalls(i, "server") \/ FindServer(i) \/ MakeServer(i) \/ AdoptServer(i)
<1>1. {"net", "image", "server"} \subseteq Memory
  BY DEF Memory
<1> QED
  BY <1>1, ResourceRecalls, ImageRecalls, ExposeRecalls, OthersRecall DEF Works

-----------------------------------------------------------------------------
(* How a run comes to the points at which it knows something.              *)

\* The points where a run knows nothing are not among those where it has a network.
LEMMA ForgottenPoints ==
    Forgotten \cap (Known \cup Networked \cup Holding \cup Choosing \cup Importing
                      \cup {"ownerImage", "dropImage", "makeServer"}) = {}
  BY DEF Forgotten, Known, Pictured, Sighted, Networked, Holding, Publishing, Choosing, Importing

\* Points are reached from points of the same kind, but for a few steps.
Comings(i) ==
    /\ run'[i].at \in Known =>
          run[i].at \in Known \/ FindImage(i) \/ FindOwnerImage(i) \/ Import(i)
    /\ run'[i].at \in Pictured =>
          run[i].at \in Pictured \/ FindImage(i) \/ FindOwnerImage(i) \/ WaitImage(i)
    /\ run'[i].at \in Sighted => run[i].at \in Sighted \/ ShareImage(i) \/ WaitVisible(i)
    /\ run'[i].at \in Choosing =>
          run[i].at \in Choosing \/ FindImage(i) \/ FindOwnerImage(i) \/ Import(i)
    /\ run'[i].at = "upload" => Import(i)
    /\ run'[i].at \in Networked => run[i].at \in Networked \/ FindNetwork(i) \/ MakeNetwork(i)
    /\ run'[i].at \in Holding =>
          run[i].at \in Holding \/ FindServer(i) \/ MakeServer(i) \/ AdoptServer(i)

\* A step on resources comes to each point from the point before it.
LEMMA ResourceComings == ASSUME RunShape, NEW i \in Installers, Resource(i) PROVE Comings(i)
<1> USE ResourceWays
    DEF Comings, Comes, At, Known, Pictured, Sighted, Networked, Holding, Publishing, Choosing,
        Importing
<1>1. CASE FindNetwork(i)  BY <1>1 DEF FindNetwork
<1>2. CASE MakeNetwork(i)  BY <1>2 DEF MakeNetwork
<1>3. CASE FindGroup(i)  BY <1>3 DEF FindGroup
<1>4. CASE MakeGroup(i)  BY <1>4 DEF MakeGroup
<1>5. CASE AddRule(i)  BY <1>5 DEF AddRule
<1>6. CASE GroupReady(i)  BY <1>6 DEF GroupReady
<1>7. CASE FindServer(i)  BY <1>7 DEF FindServer
<1>8. CASE MakeServer(i)  BY <1>8 DEF MakeServer
<1>9. CASE WaitServer(i)  BY <1>9 DEF WaitServer
<1>10. CASE AdoptServer(i)  BY <1>10 DEF AdoptServer
<1>11. CASE AttachGroup(i)  BY <1>11 DEF AttachGroup
<1>12. CASE BootstrapServer(i)  BY <1>12 DEF BootstrapServer
<1>13. CASE ChooseAddress(i)  BY <1>13 DEF ChooseAddress
<1>14. CASE AttachAddress(i)  BY <1>14 DEF AttachAddress
<1>15. CASE MakeAddress(i)  BY <1>15 DEF MakeAddress
<1> QED
  BY <1>1, <1>2, <1>3, <1>4, <1>5, <1>6, <1>7, <1>8, <1>9, <1>10, <1>11, <1>12, <1>13,
     <1>14, <1>15 DEF Resource

\* A step on images comes to each point from the point before it.
LEMMA ImageComings == ASSUME RunShape, NEW i \in Installers, Image(i) PROVE Comings(i)
<1> USE ImageWays
    DEF Comings, Comes, At, Known, Pictured, Sighted, Networked, Holding, Publishing, Choosing,
        Importing
<1>1. CASE FindImage(i)  BY <1>1 DEF FindImage
<1>2. CASE FindOwnerImage(i)  BY <1>2 DEF FindOwnerImage
<1>3. CASE DropImage(i)  BY <1>3 DEF DropImage
<1>4. CASE WaitImage(i)  BY <1>4 DEF WaitImage
<1>5. CASE FindImportNetwork(i)  BY <1>5 DEF FindImportNetwork
<1>6. CASE MakeImportNetwork(i)  BY <1>6 DEF MakeImportNetwork
<1>7. CASE Import(i)  BY <1>7 DEF Import
<1>8. CASE Upload(i)  BY <1>8 DEF Upload
<1>9. CASE MarkImage(i)  BY <1>9 DEF MarkImage
<1>10. CASE ShareImage(i)  BY <1>10 DEF ShareImage
<1>11. CASE WaitVisible(i)  BY <1>11 DEF WaitVisible
<1>12. CASE Deadline(i)  BY <1>12 DEF Deadline
<1> QED
  BY <1>1, <1>2, <1>3, <1>4, <1>5, <1>6, <1>7, <1>8, <1>9, <1>10, <1>11, <1>12 DEF Image

\* A step that exposes the appliance comes to each point from the point before it.
LEMMA ExposeComings == ASSUME RunShape, NEW i \in Installers, Expose(i) PROVE Comings(i)
<1> USE ExposeWays
    DEF Comings, Comes, At, Known, Pictured, Sighted, Networked, Holding, Publishing, Choosing,
        Importing
<1>1. CASE FindZone(i)  BY <1>1 DEF FindZone
<1>2. CASE MakeZone(i)  BY <1>2 DEF MakeZone
<1>3. CASE WaitZone(i)  BY <1>3 DEF WaitZone
<1>4. CASE ListRecords(i)  BY <1>4 DEF ListRecords
<1>5. CASE WriteRecord(i)  BY <1>5 DEF WriteRecord
<1>6. CASE FindCertificate(i)  BY <1>6 DEF FindCertificate
<1>7. CASE ListTexts(i)  BY <1>7 DEF ListTexts
<1>8. CASE WriteText(i)  BY <1>8 DEF WriteText
<1>9. CASE Validate(i)  BY <1>9 DEF Validate
<1>10. CASE CleanUp(i)  BY <1>10 DEF CleanUp
<1>11. CASE StoreCertificate(i)  BY <1>11 DEF StoreCertificate
<1>12. CASE ListBalancers(i)  BY <1>12 DEF ListBalancers
<1>13. CASE UpdateBalancer(i)  BY <1>13 DEF UpdateBalancer
<1>14. CASE MakeBalancer(i)  BY <1>14 DEF MakeBalancer
<1>15. CASE WaitBalancer(i)  BY <1>15 DEF WaitBalancer
<1> QED
  BY <1>1, <1>2, <1>3, <1>4, <1>5, <1>6, <1>7, <1>8, <1>9, <1>10, <1>11, <1>12, <1>13,
     <1>14, <1>15 DEF Expose

\* Every step of an installer comes to each point from the point before it.
LEMMA StepComings ==
    ASSUME RunShape, NEW i \in Installers, Works(i) \/ Disturbed(i) PROVE Comings(i)
<1>1. ASSUME Start(i) \/ Secure(i) \/ Disturbed(i) PROVE Comings(i)
  <2> USE OtherWays
      DEF Comings, Comes, At, Known, Pictured, Sighted, Networked, Holding, Publishing, Choosing,
          Importing
  <2>1. CASE Start(i) \/ Again(i) \/ Interrupt(i) \/ UploadFails(i)  BY <2>1
  <2>2. CASE Secure(i)  BY <2>2 DEF Secure
  <2>3. CASE Invalid(i)  BY <2>3 DEF Invalid
  <2>4. CASE CleanUpFails(i)  BY <2>4 DEF CleanUpFails
  <2> QED
    BY <1>1, <2>1, <2>2, <2>3, <2>4 DEF Disturbed
<1> QED
  BY <1>1, ResourceComings, ImageComings, ExposeComings DEF Works

-----------------------------------------------------------------------------
(* What the steps of a run do to the images.                               *)

\* The images stay what they are, but for data, age, marks and more shares.
Improves(i) ==
    /\ DOMAIN images' = Ids
    /\ \A m \in Ids :
          /\ images'[m].label = images[m].label /\ images'[m].owner = images[m].owner
          /\ images'[m].status = "none" <=> images[m].status = "none"
          /\ images[m].status = "available" => images'[m].status = "available"
          /\ images[m].shared \subseteq images'[m].shared
    /\ plan[i].image = 0 => Shown(i)' = Shown(i)

\* Then what fits an installer, does.
LEMMA ImprovesFits ==
    ASSUME NEW i, Improves(i), plan' = plan, NEW m
    PROVE  /\ Fits(i, m)' <=> Fits(i, m)
           /\ m \in Listed("home") => m \in Listed("home")'
           /\ m \in Live' <=> m \in Live
<1>1. m \in Live' <=> m \in Live
  BY DEF Improves, Live
<1>2. plan[i].image \in Live' <=> plan[i].image \in Live
  BY DEF Improves, Live
<1>3. m \in Listed("home") => m \in Listed("home")'
  BY DEF Improves, Listed
<1> QED
  BY <1>1, <1>2, <1>3 DEF Fits, Improves

\* Nothing changes that decides what is shown.
LEMMA SameShown ==
    ASSUME NEW i, plan' = plan, DOMAIN images' = Ids,
           \A m \in Ids : /\ images'[m].label = images[m].label
                          /\ images'[m].owner = images[m].owner
                          /\ images'[m].shared = images[m].shared
                          /\ images'[m].status = "none" <=> images[m].status = "none"
                          /\ images[m].status = "available" => images'[m].status = "available"
    PROVE  Improves(i)
<1>1. Live' = Live
  BY DEF Live
<1>2. \A p : Listed(p)' = Listed(p)
  BY DEF Listed
<1>3. Shown(i)' = Shown(i)
  <2>1. \A m : m \in Shown(i)' <=> m \in Shown(i)
    BY <1>1, <1>2 DEF Shown, Live
  <2> QED
    BY <2>1
<1> QED
  BY <1>3 DEF Improves

\* The run's image, when it shares it, is one that is shown already.
LEMMA ShareImproves ==
    ASSUME Inv, NEW i \in Installers, ImagesTidy(i), HasImage(i), ShareImage(i)
    PROVE  Improves(i)
<1> PICK m : m = run[i].image
  OBVIOUS
<1>0. plan' = plan /\ RunShape
  BY DEF ShareImage, To, Inv, RunInv
<1>1. m \in Ids /\ Fits(i, m)
  BY DEF ShareImage, At, HasImage, Known, Pictured
<1>2. /\ DOMAIN images' = Ids /\ \A x \in Ids \ {m} : images'[x] = images[x]
      /\ images'[m] = [images[m] EXCEPT !.shared = @ \cup Wanted(i)]
  BY <1>1 DEF ShareImage, ImagesTidy
<1>3. /\ images'[m].status = images[m].status /\ images'[m].label = images[m].label
      /\ images'[m].owner = images[m].owner /\ images[m].shared \subseteq images'[m].shared
  BY <1>1, <1>2 DEF ImagesTidy, ImageFields
<1>4. ASSUME plan[i].image = 0 PROVE Shown(i)' = Shown(i)
  <2>1. m \in Shown(i)
    BY <1>1, <1>4 DEF Fits
  <2>2. \A x \in Ids \ {m} : x \in Shown(i)' <=> x \in Shown(i)
    BY <1>0, <1>2 DEF Shown, Live, Listed
  <2>3. m \in Shown(i)'
    BY <1>0, <1>3, <2>1 DEF Shown, Live, Listed
  <2> QED
    BY <2>1, <2>2, <2>3 DEF Shown, Live
<1> QED
  BY <1>2, <1>3, <1>4 DEF Improves

\* A step of a run improves the images, or it drops one or makes one.
LEMMA RunImproves ==
    ASSUME Inv, NEW i \in Installers, ImagesTidy(i), HasImage(i), Works(i) \/ Disturbed(i)
    PROVE  Improves(i) \/ DropImage(i) \/ Import(i) \/ UploadFails(i)
<1>0. plan' = plan
  BY CameFrom DEF Stepped, Inv, RunInv
<1>1. CASE images' = images
  BY <1>0, <1>1, SameShown DEF ImagesTidy
<1>2. CASE Upload(i)
  <2>1. images' = [images EXCEPT ![run[i].image].fed = TRUE]
    BY <1>2 DEF Upload
  <2>2. DOMAIN images' = Ids
        /\ \A m \in Ids : /\ images'[m].label = images[m].label
                          /\ images'[m].owner = images[m].owner
                          /\ images'[m].shared = images[m].shared
                          /\ images'[m].status = images[m].status
    BY <2>1 DEF ImagesTidy, ImageFields
  <2> QED
    BY <1>0, <2>2, SameShown
<1>3. CASE MarkImage(i)
  <2>1. \/ images' = images
        \/ images' = [images EXCEPT ![run[i].image].agent =
                         @ \/ (plan[i].agent /\ images[run[i].image].owner = plan[i].owner)]
    BY <1>3 DEF MarkImage
  <2>2. DOMAIN images' = Ids
        /\ \A m \in Ids : /\ images'[m].label = images[m].label
                          /\ images'[m].owner = images[m].owner
                          /\ images'[m].shared = images[m].shared
                          /\ images'[m].status = images[m].status
    BY <2>1 DEF ImagesTidy, ImageFields
  <2> QED
    BY <1>0, <2>2, SameShown
<1>4. CASE ShareImage(i)
  BY <1>4, ShareImproves
<1> QED
  BY <1>1, <1>2, <1>3, <1>4, ChangedBy

\* What is shown and in use: an image of the hash that is not one is not.
LEMMA ShownIn ==
    ASSUME NEW i
    PROVE  Shown(i) \subseteq Ids /\ \A m \in Shown(i) : images[m].label = "match" /\ m \in Live
  BY DEF Shown, Live

\* Found images are shown, and when none is found what is shown is an import of
\* another project.
LEMMA FoundShown ==
    ASSUME NEW i \in Installers, ImagesTidy(i), OneImage(i), plan[i].image = 0,
           NEW p \in {"home", plan[i].owner}
    PROVE  /\ Found(p) \subseteq Shown(i)
           /\ Found(p) = {} => \A m \in Shown(i) \cap Listed(p) :
                                   images[m].owner \in {"home", plan[i].owner} \ {p}
<1>1. Found(p) \subseteq Shown(i)
  <2>1. Found(p) \subseteq Matching(p, "available") \cup Matching(p, "creating")
    BY DEF Found, Local
  <2>2. Matching(p, "available") \cup Matching(p, "creating") \subseteq Shown(i)
    BY DEF Matching, Shown, Live, Listed
  <2> QED
    BY <2>1, <2>2
<1>2. ASSUME Found(p) = {}, NEW m \in Shown(i), m \in Listed(p)
      PROVE  images[m].owner \in {"home", plan[i].owner} \ {p}
  <2>1. Matching(p, "available") = {} /\ Local(p, "creating") = {}
    BY <1>2 DEF Found
  <2>2. images[m].status = "creating" \/ images[m].status = "available"
    BY <1>2 DEF Shown, Live, ImagesTidy
  <2>3. images[m].status # "available"
    BY <1>2, <2>1 DEF Matching, Shown, Listed
  <2>4. images[m].owner # p
    BY <1>2, <2>1, <2>2, <2>3 DEF Local, Matching, Shown, Listed
  <2>5. images[m].owner \in {"home", plan[i].owner}
    BY <1>2, <2>3 DEF OneImage
  <2> QED
    BY <2>4, <2>5
<1> QED
  BY <1>1, <1>2

\* The points to which a chosen image leads, and what is known of it there.
LEMMA ChosenFits ==
    ASSUME RunShape, NEW i \in Installers, run[i].at # "absent", ImagesTidy(i), OneImage(i),
           ServersFit(i), NEW m \in Ids, Fits(i, m), Chosen(i, m),
           plan[i].image # 0 => plan[i].image \in Live
    PROVE  /\ Stepped(i) /\ run'[i].at \in {"markImage", "dropImage", "waitImage"}
           /\ run'[i].image = m
           /\ run'[i].at = "markImage" => images[m].status = "available"
           /\ run'[i].at = "dropImage" => Own(i) = {}
           /\ \A s \in Own(i) : servers[s].image = m
<1>1. /\ Stepped(i) /\ run'[i].at \in {"markImage", "dropImage", "waitImage"}
      /\ run'[i].at = "markImage" => images[m].status = "available"
      /\ run'[i].at = "dropImage" => images[m].status = "creating"
  <2>1. CASE images[m].status = "available" /\ Learns(i, [image |-> m], "markImage")
    BY <2>1, Learning
  <2>2. CASE images[m].status = "creating" /\ Learns(i, [image |-> m], "dropImage")
    BY <2>2, Learning
  <2>3. CASE images[m].status = "creating" /\ Learns(i, [image |-> m], "waitImage")
    BY <2>3, Learning
  <2> QED
    BY <2>1, <2>2, <2>3 DEF Chosen
<1>2. run'[i].image = m
  BY ImageFacts DEF Chosen
<1>3. ASSUME NEW s \in Own(i) PROVE servers[s].image = m /\ images[m].status = "available"
  <2>1. Fits(i, servers[s].image) /\ images[servers[s].image].status = "available"
    BY DEF ServersFit
  <2>2. CASE plan[i].image = 0
    BY <2>1, <2>2 DEF Fits, OneImage, OnlyOneOf
  <2>3. CASE plan[i].image # 0
    BY <2>1, <2>3 DEF Fits
  <2> QED
    BY <2>1, <2>2, <2>3
<1> QED
  BY <1>1, <1>2, <1>3

\* What a search comes to: an image that fits, no import of the project, no
\* image at all, or a refusal.
LEMMA SearchEndsIn ==
    ASSUME Inv, NEW i \in Installers, ImagesTidy(i), OneImage(i), LacksImage(i), PlanShape(i),
           FindImage(i) \/ FindOwnerImage(i)
    PROVE  \/ \E m \in Ids : /\ Fits(i, m) /\ Chosen(i, m)
                             /\ plan[i].image # 0 => plan[i].image \in Live
           \/ plan[i].image = 0 /\ Found("home") = {} /\ To(i, "ownerImage")
           \/ plan[i].image = 0 /\ Shown(i) = {} /\ To(i, "importNetwork")
           \/ Stops(i, "refused")
<1>1. ASSUME NEW p \in {"home", plan[i].owner}, NEW m \in Found(p), plan[i].image = 0
      PROVE  m \in Ids /\ Fits(i, m)
  <2>1. m \in Shown(i)
    BY <1>1, FoundShown
  <2>2. plan[i].image \notin Live
    BY <1>1, IdsAreNumbers DEF Live
  <2> QED
    BY <2>1, <2>2, ShownIn DEF Fits
<1>2. CASE FindImage(i) /\ plan[i].image # 0
  <2>1. ASSUME Configured(i) PROVE plan[i].image \in Live /\ Fits(i, plan[i].image)
    BY <1>2, <2>1 DEF Configured, Listed, Live, Fits
  <2>2. plan[i].image \in Ids
    BY <1>2 DEF PlanShape
  <2> QED
    BY <1>2, <2>1, <2>2 DEF FindImage
<1>3. CASE FindImage(i) /\ plan[i].image = 0
  <2>1. \/ \E m \in Found("home") : Chosen(i, m)
        \/ Found("home") = {} /\ To(i, "ownerImage")
    BY <1>3 DEF FindImage
  <2> QED
    BY <1>1, <1>3, <2>1
<1>4. CASE FindOwnerImage(i)
  <2>1. /\ plan[i].image = 0
        /\ \A m \in Shown(i) \cap Listed("home") :
              images[m].owner = plan[i].owner /\ plan[i].owner # "home"
    BY <1>4 DEF FindOwnerImage, LacksImage
  <2>2. CASE \E m \in Found(plan[i].owner) : Chosen(i, m)
    BY <1>1, <2>1, <2>2
  <2>3. CASE (plan[i].owner # "home" => Found(plan[i].owner) = {}) /\ To(i, "importNetwork")
    <3>1. ASSUME NEW m \in Shown(i) PROVE FALSE
      <4>1. m \in Listed("home") \/ m \in Listed(plan[i].owner)
        BY DEF Shown
      <4>2. CASE plan[i].owner = "home"
        BY <2>1, <4>1, <4>2
      <4>3. CASE plan[i].owner # "home"
        <5>1. m \in Listed(plan[i].owner)
          <6>1. CASE m \in Listed("home")
            <7>1. images[m].owner = plan[i].owner
              BY <2>1, <6>1
            <7> QED
              BY <6>1, <7>1 DEF Listed
          <6> QED
            BY <4>1, <6>1
        <5>2. images[m].owner = "home"
          BY <2>1, <2>3, <4>3, <5>1, FoundShown
        <5>3. m \in Listed("home")
          BY <5>1, <5>2 DEF Listed
        <5> QED
          BY <2>1, <4>3, <5>2, <5>3
      <4> QED
        BY <4>2, <4>3
    <3> QED
      BY <2>1, <2>3, <3>1
  <2> QED
    BY <1>4, <2>2, <2>3 DEF FindOwnerImage
<1> QED
  BY <1>2, <1>3, <1>4

\* What an image lookup ends with: an image that is the installer's, that the servers
\* of its name were made from; or the knowledge that there is none.
LEMMA ImageFound ==
    ASSUME Inv, NEW i \in Installers, ImagesTidy(i), OneImage(i), LacksImage(i), ServersFit(i),
           PlanShape(i), FindImage(i) \/ FindOwnerImage(i)
    PROVE  /\ run'[i].at \in Known =>
                /\ run'[i].at \in {"markImage", "waitImage"}
                /\ run'[i].image \in Ids /\ Fits(i, run'[i].image)
                /\ run'[i].at = "markImage" => images[run'[i].image].status = "available"
                /\ \A s \in Own(i) : servers[s].image = run'[i].image
           /\ run'[i].at = "dropImage" => Fits(i, run'[i].image) /\ Own(i) = {}
           /\ run'[i].at = "ownerImage" =>
                /\ plan[i].image = 0
                /\ \A m \in Shown(i) \cap Listed("home") :
                      images[m].owner = plan[i].owner /\ plan[i].owner # "home"
           /\ run'[i].at \in Importing =>
                /\ plan[i].image = 0 => Shown(i) = {}
                /\ plan[i].image \notin Live /\ Own(i) = {}
<1> USE DEF Known, Pictured, Sighted, Holding, Publishing, Importing
<1>0. RunShape /\ run[i].at # "absent"
  BY DEF Inv, RunInv, FindImage, FindOwnerImage, At
<1>1. CASE \E m \in Ids : /\ Fits(i, m) /\ Chosen(i, m)
                          /\ plan[i].image # 0 => plan[i].image \in Live
  <2>1. PICK m \in Ids : /\ Fits(i, m) /\ Chosen(i, m)
                         /\ plan[i].image # 0 => plan[i].image \in Live
    BY <1>1
  <2>2. /\ run'[i].at \in {"markImage", "dropImage", "waitImage"}
        /\ run'[i].image = m
        /\ run'[i].at = "markImage" => images[m].status = "available"
        /\ run'[i].at = "dropImage" => Own(i) = {}
        /\ \A s \in Own(i) : servers[s].image = m
    BY <1>0, <2>1, ChosenFits
  <2> QED
    BY <2>1, <2>2
<1>2. CASE plan[i].image = 0 /\ Found("home") = {} /\ To(i, "ownerImage")
  <2>1. run'[i].at = "ownerImage"
    BY <1>0, <1>2, GoesTo
  <2>2. \A m \in Shown(i) \cap Listed("home") : images[m].owner \in {"home", plan[i].owner} \ {"home"}
    BY <1>2, FoundShown
  <2> QED
    BY <1>2, <2>1, <2>2
<1>3. CASE plan[i].image = 0 /\ Shown(i) = {} /\ To(i, "importNetwork")
  <2>1. run'[i].at = "importNetwork"
    BY <1>0, <1>3, GoesTo
  <2>2. Own(i) = {}
    BY <1>3 DEF ServersFit, Fits
  <2>3. plan[i].image \notin Live
    BY <1>3, IdsAreNumbers DEF Live
  <2> QED
    BY <1>3, <2>1, <2>2, <2>3
<1>4. CASE Stops(i, "refused")
  <2>1. run'[i].at = "refused"
    BY <1>0, <1>4, ComesToStop
  <2> QED
    BY <2>1
<1> QED
  BY <1>1, <1>2, <1>3, <1>4, SearchEndsIn

\* An image is dropped while no server that counts was made of one.
LEMMA ImageDropped ==
    ASSUME Inv, NEW i \in Installers, ImagesTidy(i), HasImage(i), LacksImage(i),
           DropImage(i) \/ UploadFails(i), Works(i) \/ Disturbed(i)
    PROVE  /\ Own(i) = {} /\ UNCHANGED <<plan, servers>>
           /\ Live' \subseteq Live /\ Shown(i)' \subseteq Shown(i)
           /\ \A x \in Shown(i)' : images'[x] = images[x]
           /\ run'[i].at \in {"importNetwork", "failed"}
           /\ run'[i].at = "importNetwork" /\ OneImage(i) =>
                (plan[i].image = 0 => Shown(i)' = {}) /\ plan[i].image \notin Live'
<1> PICK m : m = run[i].image
  OBVIOUS
<1>0. RunShape /\ run[i].at # "absent" /\ run[i].at \in {"dropImage", "upload"}
  BY DEF Inv, RunInv, DropImage, UploadFails, At
<1>1. Own(i) = {} /\ Fits(i, m)
  BY <1>0 DEF LacksImage, HasImage, At, Known
<1>2. UNCHANGED <<plan, servers>>
  BY <1>0, ChangedBy, CameFrom DEF Stepped, MakeServer, AttachGroup, BootstrapServer, At
<1>3. /\ run'[i].at \in {"importNetwork", "failed"}
      /\ run'[i].at = "importNetwork" => DropImage(i)
  BY <1>0, ImageWays, OtherWays DEF Comes
<1>4. images' = images \/ images' = [images EXCEPT ![m] = NoImage]
  BY DEF DropImage, UploadFails
<1>5. /\ DOMAIN images' = Ids /\ \A x \in Ids \ {m} : images'[x] = images[x]
      /\ images' = images \/ m \notin Ids \/ images'[m].status = "none"
  BY <1>4 DEF ImagesTidy, NoImage
<1>6. Live' \subseteq Live /\ \A x \in Live' : images'[x] = images[x]
  BY <1>5 DEF Live
<1>7. Shown(i)' \subseteq Shown(i) /\ \A x \in Shown(i)' : images'[x] = images[x]
  BY <1>2, <1>6 DEF Shown, Listed, Live
<1>8. ASSUME run'[i].at = "importNetwork"
      PROVE  m \notin Live'
  <2>1. images' = [images EXCEPT ![m] = NoImage]
    <3>1. ~Stops(i, "failed")
      BY <1>0, <1>8, ComesToStop
    <3> QED
      BY <1>3, <1>8, <3>1 DEF DropImage
  <2> QED
    BY <2>1 DEF Live, NoImage, ImagesTidy
<1>9. ASSUME run'[i].at = "importNetwork", OneImage(i)
      PROVE  (plan[i].image = 0 => Shown(i)' = {}) /\ plan[i].image \notin Live'
  <2>1. plan[i].image \in Live' => plan[i].image = m
    BY <1>1, <1>6 DEF Fits
  <2>2. ASSUME plan[i].image = 0, NEW x \in Shown(i)' PROVE FALSE
    <3>1. x = m
      BY <1>1, <1>7, <1>9, <2>2 DEF Fits, OneImage, OnlyOneOf
    <3>2. x \in Live'
      BY DEF Shown
    <3> QED
      BY <1>8, <1>9, <3>1, <3>2
  <2> QED
    BY <1>8, <1>9, <2>1, <2>2
<1> QED
  BY <1>1, <1>2, <1>3, <1>6, <1>7, <1>9

\* An import makes the one image that the installer can see.
LEMMA ImageImported ==
    ASSUME Inv, NEW i \in Installers, ImagesTidy(i), LacksImage(i), Import(i), Works(i) \/ Disturbed(i)
    PROVE  /\ Own(i) = {} /\ UNCHANGED <<plan, servers>>
           /\ run'[i].at = "upload" /\ \E m \in Ids : run'[i].image = m /\ Fits(i, m)'
           /\ OneImage(i)'
<1>0. RunShape /\ run[i].at # "absent" /\ run[i].at \in Importing
  BY DEF Inv, RunInv, Import, At, Importing
<1> DEFINE new == [status |-> "creating", owner |-> plan[i].owner, label |-> "match",
                   fed |-> FALSE, old |-> FALSE, agent |-> TRUE, shared |-> {}]
<1>1. PICK m \in Ids : /\ images' = [images EXCEPT ![m] = new]
                       /\ Learns(i, [image |-> m], "upload")
  BY DEF Import
<1>2. run'[i].at = "upload" /\ run'[i].image = m
  BY <1>0, <1>1, ImageFacts, Learning
<1>3. Own(i) = {} /\ (plan[i].image = 0 => Shown(i) = {}) /\ plan[i].image \notin Live
  BY <1>0 DEF LacksImage
<1>4. UNCHANGED <<plan, servers>>
  BY <1>0, ChangedBy, CameFrom DEF Stepped, MakeServer, AttachGroup, BootstrapServer, At, Importing
<1>5. new.status = "creating" /\ new.owner = plan[i].owner /\ new.label = "match"
  OBVIOUS
<1> HIDE DEF new
<1>6. DOMAIN images' = Ids /\ images'[m] = new /\ \A x \in Ids \ {m} : images'[x] = images[x]
  BY <1>1 DEF ImagesTidy
<1>7. Live' = Live \cup {m}
  BY <1>5, <1>6 DEF Live
<1>8. m \in Shown(i)' /\ Shown(i)' \subseteq Shown(i) \cup {m}
  BY <1>4, <1>5, <1>6, <1>7 DEF Shown, Listed, Live
<1>9. Fits(i, m)'
  BY <1>3, <1>4, <1>7, <1>8 DEF Fits
<1>10. OneImage(i)'
  BY <1>3, <1>4, <1>5, <1>6, <1>8 DEF OneImage, OnlyOneOf
<1> QED
  BY <1>2, <1>3, <1>4, <1>9, <1>10

\* The servers that count are made from the run's image, and stay so.
LEMMA OwnKept ==
    ASSUME Inv, NEW i \in Installers, Works(i) \/ Disturbed(i)
    PROVE  \A s \in Own(i)' : \/ s \in Own(i) /\ servers'[s].image = servers[s].image
                              \/ MakeServer(i) /\ servers'[s].image = run[i].image
<1>0. ThingShape /\ plan' = plan
  BY CameFrom DEF Inv, ThingInv, RunInv, Stepped
<1>1. CASE servers' = servers
  BY <1>0, <1>1 DEF Own, OfSite, Existing
<1>2. CASE AttachGroup(i) \/ BootstrapServer(i)
  <2>1. \A s \in Ids : /\ servers'[s].status = servers[s].status /\ servers'[s].site = servers[s].site
                       /\ servers'[s].image = servers[s].image
    BY <1>0, <1>2 DEF AttachGroup, BootstrapServer, ThingShape, ServerFields
  <2> QED
    BY <1>0, <2>1 DEF Own, OfSite, Existing
<1>3. CASE MakeServer(i)
  <2>1. PICK s \in Ids :
            servers' = [servers EXCEPT ![s] =
                [status |-> "creating", site |-> plan[i].site, image |-> run[i].image,
                 net |-> run[i].net, groups |-> {run[i].group}, safe |-> FALSE]]
    BY <1>3 DEF MakeServer
  <2>2. \A x \in Ids : \/ x = s /\ servers'[x].image = run[i].image
                       \/ x # s /\ servers'[x] = servers[x]
    BY <1>0, <2>1 DEF ThingShape
  <2> QED
    BY <1>0, <1>3, <2>2 DEF Own, OfSite, Existing
<1> QED
  BY <1>1, <1>2, <1>3, ChangedBy

\* An installer that works alone keeps at most one image that it can see.
LEMMA OneImageKept ==
    ASSUME Inv, NEW i \in Installers, Tidy(i), Pictures(i), PlanShape(i), Works(i) \/ Disturbed(i)
    PROVE  OneImage(i)'
<1>0. /\ plan' = plan /\ ImagesTidy(i) /\ OneImage(i) /\ HasImage(i) /\ LacksImage(i)
      /\ RunShape
  BY CameFrom DEF Stepped, Inv, RunInv, Tidy, Pictures
<1>1. CASE Improves(i)
  BY <1>0, <1>1, ShownIn DEF OneImage, Improves
<1>2. CASE DropImage(i) \/ UploadFails(i)
  BY <1>0, <1>2, ImageDropped DEF OneImage, OnlyOneOf
<1>3. CASE Import(i)
  BY <1>0, <1>3, ImageImported
<1> QED
  BY <1>0, <1>1, <1>2, <1>3, RunImproves

\* What a run knows of its image stays true through the installer's steps.
LEMMA HasImageKept ==
    ASSUME Inv, NEW i \in Installers, Tidy(i), Pictures(i), PlanShape(i), Works(i) \/ Disturbed(i)
    PROVE  HasImage(i)'
<1>0. /\ plan' = plan /\ ImagesTidy(i) /\ OneImage(i) /\ HasImage(i) /\ LacksImage(i)
      /\ ServersFit(i) /\ RunShape
  BY CameFrom DEF Stepped, Inv, RunInv, Tidy, Pictures
<1>1. CASE FindImage(i) \/ FindOwnerImage(i)
  <2>1. images' = images
    BY <1>1 DEF FindImage, FindOwnerImage, imageVars
  <2>2. Improves(i)
    BY <1>0, <2>1, SameShown DEF ImagesTidy
  <2>3. run'[i].at \in Known =>
                /\ run'[i].at \in {"markImage", "waitImage"}
                /\ run'[i].image \in Ids /\ Fits(i, run'[i].image)
                /\ run'[i].at = "markImage" => images[run'[i].image].status = "available"
    BY <1>0, <1>1, ImageFound
  <2>4. \A m : Fits(i, m)' <=> Fits(i, m)
    BY <1>0, <2>2, ImprovesFits
  <2>5. Pictured \subseteq Known /\ Sighted \subseteq Known
        /\ {"markImage", "waitImage"} \cap Sighted = {} /\ "waitImage" \notin Pictured
    BY DEF Pictured, Known, Sighted, Holding, Publishing
  <2> QED
    BY <2>1, <2>3, <2>4, <2>5 DEF HasImage
<1>2. CASE Import(i)
  <2>1. run'[i].at = "upload" /\ \E m \in Ids : run'[i].image = m /\ Fits(i, m)'
    BY <1>0, <1>2, ImageImported
  <2>2. "upload" \notin Pictured /\ "upload" \notin Sighted
    BY DEF Pictured, Sighted, Holding, Publishing
  <2> QED
    BY <2>1, <2>2 DEF HasImage
<1>3. CASE DropImage(i) \/ UploadFails(i)
  <2>1. run'[i].at \in {"importNetwork", "failed"}
    BY <1>0, <1>3, ImageDropped
  <2>2. {"importNetwork", "failed"} \cap (Known \cup Pictured \cup Sighted) = {}
    BY DEF Known, Pictured, Sighted, Holding, Publishing
  <2> QED
    BY <2>1, <2>2 DEF HasImage
<1>4. CASE ~(FindImage(i) \/ FindOwnerImage(i)) /\ Improves(i) /\ ~Import(i)
  <2> SUFFICES ASSUME run'[i].at \in Known PROVE HasImage(i)'
    BY DEF HasImage, Known, Pictured
  <2>1. run[i].at \in Known
    BY <1>0, <1>4, StepComings DEF Comings
  <2>2. run'[i].image = run[i].image
    BY <1>0, <1>4, Remembers, ForgottenPoints DEF Recalls
  <2> PICK m : m = run[i].image
    OBVIOUS
  <2>3. m \in Ids /\ Fits(i, m)'
    BY <1>0, <1>4, <2>1, ImprovesFits DEF HasImage
  <2>4. ASSUME run'[i].at \in Pictured PROVE images'[m].status = "available"
    <3>1. CASE run[i].at \in Pictured
      BY <1>0, <1>4, <2>3, <3>1 DEF HasImage, Improves
    <3>2. CASE WaitImage(i)
      <4>1. ~Stops(i, "failed")
        <5>1. "failed" \notin Pictured
          BY DEF Pictured, Sighted, Holding, Publishing
        <5> QED
          BY <1>0, <2>4, <3>2, <5>1, ComesToStop DEF WaitImage, At
      <4> QED
        BY <1>4, <2>3, <3>2, <4>1 DEF WaitImage, Improves
    <3> QED
      BY <1>0, <1>4, <2>4, <3>1, <3>2, StepComings DEF Comings
  <2>5. ASSUME run'[i].at \in Sighted PROVE m \in Listed("home")'
    <3>1. CASE run[i].at \in Sighted
      BY <1>0, <1>4, <3>1, ImprovesFits DEF HasImage
    <3>2. CASE ShareImage(i)
      <4>1. images[m].owner = "home"
        <5>1. "waitVisible" \notin Sighted
          BY DEF Sighted, Holding, Publishing
        <5>2. ~To(i, "waitVisible")
          BY <1>0, <2>5, <3>2, <5>1, GoesTo DEF ShareImage, At
        <5> QED
          BY <3>2, <5>2 DEF ShareImage
      <4>2. images[m].status = "available"
        BY <1>0, <3>2 DEF ShareImage, HasImage, At, Pictured
      <4> QED
        BY <1>4, <2>3, <4>1, <4>2 DEF Improves, Listed
    <3>3. CASE WaitVisible(i)
      BY <1>0, <1>4, <3>3, ImprovesFits DEF WaitVisible
    <3> QED
      BY <1>0, <2>5, <3>1, <3>2, <3>3, StepComings DEF Comings
  <2> QED
    BY <2>2, <2>3, <2>4, <2>5 DEF HasImage
<1> QED
  BY <1>0, <1>1, <1>2, <1>3, <1>4, RunImproves

\* So does what it knows is missing, up to the upload that makes the image.
LEMMA LacksImageKept ==
    ASSUME Inv, NEW i \in Installers, Tidy(i), Pictures(i), PlanShape(i), Works(i) \/ Disturbed(i)
    PROVE  LacksImage(i)'
<1>0. /\ plan' = plan /\ ImagesTidy(i) /\ OneImage(i) /\ HasImage(i) /\ LacksImage(i)
      /\ ServersFit(i) /\ RunShape
  BY CameFrom DEF Stepped, Inv, RunInv, Tidy, Pictures
<1>1. ~MakeServer(i) => Own(i)' \subseteq Own(i)
  BY OwnKept
<1>2. CASE FindImage(i) \/ FindOwnerImage(i)
  <2>1. images' = images /\ ~MakeServer(i)
    BY <1>2 DEF FindImage, FindOwnerImage, imageVars, MakeServer, At
  <2>2. Improves(i)
    BY <1>0, <2>1, SameShown DEF ImagesTidy
  <2>3. /\ \A m : (Fits(i, m)' <=> Fits(i, m)) /\ (m \in Live' <=> m \in Live)
        /\ plan[i].image = 0 => Shown(i)' = Shown(i)
        /\ Listed("home")' = Listed("home")
    BY <1>0, <2>1, <2>2, ImprovesFits DEF Improves, Listed
  <2>4. /\ run'[i].at = "dropImage" => Fits(i, run'[i].image) /\ Own(i) = {}
        /\ run'[i].at = "ownerImage" =>
                /\ plan[i].image = 0
                /\ \A m \in Shown(i) \cap Listed("home") :
                      images[m].owner = plan[i].owner /\ plan[i].owner # "home"
        /\ run'[i].at \in Importing =>
                /\ plan[i].image = 0 => Shown(i) = {}
                /\ plan[i].image \notin Live /\ Own(i) = {}
    BY <1>0, <1>2, ImageFound
  <2>5. run'[i].at # "upload"
    BY <1>0, <1>2, ImageWays DEF Comes
  <2> QED
    BY <1>0, <1>1, <2>1, <2>3, <2>4, <2>5 DEF LacksImage, At
<1>3. CASE ~(FindImage(i) \/ FindOwnerImage(i))
  <2>1. run'[i].at \notin {"ownerImage", "dropImage"}
    BY <1>0, <1>3, CameFrom
  <2>2. ASSUME run'[i].at \in Importing
        PROVE  /\ plan[i].image = 0 => Shown(i)' = {}
               /\ plan[i].image \notin Live' /\ Own(i)' = {}
    <3>1. CASE DropImage(i)
      <4>1. run'[i].at = "importNetwork"
        BY <1>0, <2>2, <3>1, ImageWays DEF Comes, Importing
      <4>2. ~MakeServer(i)
        BY <3>1 DEF DropImage, MakeServer, At
      <4> QED
        BY <1>0, <1>1, <3>1, <4>1, <4>2, ImageDropped
    <3>2. CASE FindImportNetwork(i) \/ MakeImportNetwork(i)
      <4>1. run[i].at \in Importing /\ images' = images /\ ~MakeServer(i)
        BY <3>2 DEF FindImportNetwork, MakeImportNetwork, imageVars, Importing, At, MakeServer
      <4>2. Improves(i)
        BY <1>0, <4>1, SameShown DEF ImagesTidy
      <4> QED
        BY <1>0, <1>1, <4>1, <4>2, ImprovesFits DEF LacksImage, Improves
    <3> QED
      BY <1>0, <1>3, <2>2, <3>1, <3>2, CameFrom DEF Importing
  <2>3. ASSUME run'[i].at = "upload" PROVE Own(i)' = {}
    <3>1. Import(i)
      BY <1>0, <2>3, StepComings DEF Comings
    <3>2. ~MakeServer(i)
      BY <3>1 DEF Import, MakeServer, At
    <3> QED
      BY <1>0, <1>1, <3>1, <3>2, ImageImported
  <2> QED
    BY <1>0, <2>1, <2>2, <2>3 DEF LacksImage, At
<1> QED
  BY <1>2, <1>3

\* So does that the servers of its name were made from the image it has.
LEMMA ServersFitKept ==
    ASSUME Inv, NEW i \in Installers, Tidy(i), Pictures(i), PlanShape(i), Works(i) \/ Disturbed(i)
    PROVE  ServersFit(i)'
<1>0. /\ plan' = plan /\ ImagesTidy(i) /\ OneImage(i) /\ HasImage(i) /\ LacksImage(i)
      /\ ServersFit(i) /\ RunShape
  BY CameFrom DEF Stepped, Inv, RunInv, Tidy, Pictures
<1>1. CASE DropImage(i) \/ UploadFails(i) \/ Import(i)
  <2>1. Own(i) = {} /\ ~MakeServer(i)
    BY <1>0, <1>1, ImageDropped, ImageImported DEF MakeServer, DropImage, UploadFails, Import, At
  <2> QED
    BY <2>1, OwnKept DEF ServersFit
<1>2. CASE Improves(i) /\ ~Import(i)
  <2>1. ASSUME NEW s \in Own(i)'
        PROVE  \E m \in Ids : /\ servers'[s].image = m /\ Fits(i, m)
                              /\ images[m].status = "available"
    <3>1. CASE s \in Own(i) /\ servers'[s].image = servers[s].image
      BY <1>0, <3>1 DEF ServersFit
    <3>2. CASE MakeServer(i) /\ servers'[s].image = run[i].image
      <4>1. run[i].at \in Known /\ run[i].at \in Pictured
        BY <3>2 DEF MakeServer, At, Known, Pictured, Sighted
      <4> QED
        BY <1>0, <3>2, <4>1 DEF HasImage
    <3> QED
      BY <2>1, <3>1, <3>2, OwnKept
  <2>2. ASSUME NEW s \in Own(i)'
        PROVE  \E m \in Ids : /\ servers'[s].image = m /\ Fits(i, m)'
                              /\ images'[m].status = "available"
    BY <1>0, <1>2, <2>1, <2>2, ImprovesFits DEF Improves
  <2>3. ASSUME run'[i].at \in Choosing, NEW s \in Own(i)' PROVE servers'[s].image = run'[i].image
    <3>1. ~MakeServer(i)
      BY <1>0, <2>3, ResourceWays DEF Comes, Choosing
    <3>2. s \in Own(i) /\ servers'[s].image = servers[s].image
      BY <2>3, <3>1, OwnKept
    <3>3. CASE FindImage(i) \/ FindOwnerImage(i)
      <4>1. run'[i].at \in Known
        BY <2>3 DEF Choosing, Known, Pictured, Sighted
      <4> QED
        BY <1>0, <3>2, <3>3, <4>1, ImageFound
    <3>4. CASE ~(FindImage(i) \/ FindOwnerImage(i))
      <4>1. run[i].at \in Choosing
        BY <1>0, <1>2, <2>3, <3>4, StepComings DEF Comings
      <4>2. run'[i].image = run[i].image
        BY <1>0, <1>2, <2>3, <3>4, Remembers, ForgottenPoints DEF Recalls
      <4> QED
        BY <1>0, <3>2, <4>1, <4>2 DEF ServersFit
    <3> QED
      BY <3>3, <3>4
  <2> QED
    BY <2>2, <2>3 DEF ServersFit
<1> QED
  BY <1>0, <1>1, <1>2, RunImproves

\* The four together.
LEMMA PicturesKept ==
    ASSUME Inv, NEW i \in Installers, Tidy(i), Pictures(i), PlanShape(i), Works(i) \/ Disturbed(i)
    PROVE  Pictures(i)'
  BY OneImageKept, HasImageKept, LacksImageKept, ServersFitKept DEF Pictures

-----------------------------------------------------------------------------
(* What the steps of a run do to networks and servers.                     *)

\* Networks are only added, under numbers that there are.
LEMMA MoreNetworks ==
    ASSUME RunShape, NEW i \in Installers, NetworksTidy(i), Works(i) \/ Disturbed(i)
    PROVE  networks["home"] \subseteq networks'["home"]
           /\ networks'["home"] \subseteq networks["home"] \cup Ids
<1>1. CASE networks' = networks
  BY <1>1
<1>2. CASE MakeNetwork(i)
  BY <1>2 DEF MakeNetwork, NetworksTidy, Projects
<1>3. CASE MakeImportNetwork(i)
  <2>1. PICK n \in Ids : networks' = [networks EXCEPT ![plan[i].owner] = @ \cup {n}]
    BY <1>3 DEF MakeImportNetwork
  <2>2. "home" \in DOMAIN networks
    BY DEF NetworksTidy, Projects
  <2> QED
    BY <2>1, <2>2
<1> QED
  BY <1>1, <1>2, <1>3, ChangedBy

\* Servers stay in their networks; a new one gets the run's.
LEMMA ServersInNets ==
    ASSUME Inv, NEW i \in Installers, Works(i) \/ Disturbed(i)
    PROVE  \A s \in Ids :
              \/ /\ servers'[s].status = servers[s].status /\ servers'[s].site = servers[s].site
                 /\ servers'[s].net = servers[s].net
              \/ /\ MakeServer(i) /\ servers'[s].status = "creating"
                 /\ servers'[s].net = run[i].net /\ s \notin Existing
<1>0. ThingShape
  BY DEF Inv, ThingInv
<1>1. CASE servers' = servers
  BY <1>1
<1>2. CASE AttachGroup(i) \/ BootstrapServer(i)
  BY <1>0, <1>2 DEF AttachGroup, BootstrapServer, ThingShape, ServerFields
<1>3. CASE MakeServer(i)
  <2>1. PICK s \in Ids :
          /\ IsNext(s, Existing)
          /\ servers' = [servers EXCEPT ![s] =
                [status |-> "creating", site |-> plan[i].site, image |-> run[i].image,
                 net |-> run[i].net, groups |-> {run[i].group}, safe |-> FALSE]]
    BY <1>3 DEF MakeServer
  <2>2. s \notin Existing
    BY <2>1 DEF IsNext
  <2>3. \A x \in Ids : \/ x = s /\ servers'[x].status = "creating" /\ servers'[x].net = run[i].net
                       \/ x # s /\ servers'[x] = servers[x]
    BY <1>0, <2>1 DEF ThingShape
  <2> QED
    BY <1>3, <2>2, <2>3
<1> QED
  BY <1>1, <1>2, <1>3, ChangedBy

\* The installer's steps leave every server in a state that the code knows.
LEMMA ServerStatesKept ==
    ASSUME Inv, NEW i \in Installers, ServerStates, Works(i) \/ Disturbed(i)
    PROVE  ServerStates'
  BY ServersInNets DEF ServerStates

\* The network that a run finds or makes.
LEMMA NetworkFound ==
    ASSUME RunShape, NEW i \in Installers, NetworksTidy(i), Nets(i), FindNetwork(i) \/ MakeNetwork(i),
           run'[i].at \in Networked
    PROVE  IF plan[i].network = 0 THEN run'[i].net \in networks'["home"]
                                  ELSE run'[i].net = plan[i].network
<1>0. "makeNetwork" \notin Networked
  BY DEF Networked, Importing, Known, Pictured, Sighted, Holding, Publishing
<1>1. CASE FindNetwork(i)
  <2>1. networks' = networks /\ run[i].at # "absent"
    BY <1>1 DEF FindNetwork, resourceVars, At
  <2>2. ~To(i, "makeNetwork")
    BY <1>0, <2>1, GoesTo
  <2>3. \/ plan[i].network # 0 /\ Learns(i, [net |-> plan[i].network], "group")
        \/ /\ plan[i].network = 0
           /\ \E n \in networks["home"] : Learns(i, [net |-> n], "group")
    BY <1>1, <2>2, Order DEF FindNetwork
  <2> QED
    BY <2>1, <2>3, NetFacts
<1>2. CASE MakeNetwork(i)
  <2>1. PICK n \in Ids : /\ networks' = [networks EXCEPT !["home"] = @ \cup {n}]
                         /\ Learns(i, [net |-> n], "group")
    BY <1>2, Order DEF MakeNetwork
  <2>2. run'[i].net = n /\ n \in networks'["home"]
    BY <2>1, NetFacts DEF NetworksTidy, Projects
  <2>3. plan[i].network = 0
    BY <1>2 DEF MakeNetwork, Nets
  <2> QED
    BY <2>2, <2>3
<1> QED
  BY <1>1, <1>2

\* The server that a run finds, makes or adopts, if it is configured.
LEMMA ServerAdopted ==
    ASSUME RunShape, NEW i \in Installers, Nets(i), FindServer(i) \/ MakeServer(i) \/ AdoptServer(i),
           run'[i].at \in Holding, plan[i].server # 0
    PROVE  servers[run'[i].server].net = run[i].net
<1>0. run[i].at # "absent" /\ "refused" \notin Holding
  BY DEF FindServer, MakeServer, AdoptServer, At, Holding, Publishing
<1>1. AdoptServer(i)
  BY DEF FindServer, MakeServer, Nets
<1>2. ~Stops(i, "refused")
  BY <1>0, ComesToStop
<1>3. /\ Adoptable(i)
      /\ \E p : Learns(i, [server |-> plan[i].server], p)
  BY <1>1, <1>2 DEF AdoptServer
<1>4. run'[i].server = plan[i].server
  BY <1>3, ServerFacts
<1> QED
  BY <1>3, <1>4 DEF Adoptable

\* The server of a run stays in the network of the run.
LEMMA NetsKept ==
    ASSUME Inv, NEW i \in Installers, Tidy(i), Nets(i), Works(i) \/ Disturbed(i)
    PROVE  Nets(i)'
<1> PICK k : k = plan[i].site
  OBVIOUS
<1>0. plan' = plan /\ RunShape /\ ThingShape /\ NetworksTidy(i)
  BY CameFrom DEF Stepped, Inv, RunInv, ThingInv, Tidy
<1>1. /\ networks["home"] \subseteq networks'["home"]
      /\ networks'["home"] \subseteq networks["home"] \cup Ids
  BY <1>0, MoreNetworks
<1>2. 0 \notin networks'["home"]
  BY <1>1, IdsAreNumbers DEF Nets
<1>3. ASSUME run'[i].at \in Networked
      PROVE  IF plan[i].network = 0 THEN run'[i].net \in networks'["home"]
                                    ELSE run'[i].net = plan[i].network
  <2>1. CASE FindNetwork(i) \/ MakeNetwork(i)
    BY <1>0, <1>3, <2>1, NetworkFound
  <2>2. CASE ~(FindNetwork(i) \/ MakeNetwork(i))
    <3>1. run[i].at \in Networked
      BY <1>0, <1>3, <2>2, StepComings DEF Comings
    <3>2. run'[i].net = run[i].net
      BY <1>0, <1>3, <2>2, Remembers, ForgottenPoints DEF Recalls
    <3> QED
      BY <1>1, <3>1, <3>2 DEF Nets
  <2> QED
    BY <2>1, <2>2
<1>4. ASSUME run'[i].at = "makeNetwork" PROVE plan[i].network = 0
  <2>1. FindNetwork(i)
    BY <1>0, <1>4, CameFrom
  <2>2. ~Learns(i, [net |-> plan[i].network], "group")
    BY <1>0, <1>4, <2>1, Arrives DEF FindNetwork, At
  <2> QED
    BY <2>1, <2>2, Order DEF FindNetwork
<1>5. ASSUME run'[i].at = "makeServer" PROVE plan[i].server = 0
  BY <1>0, <1>5, CameFrom DEF FindServer
<1>6. ASSUME NEW s \in OfSite(k)'
      PROVE  IF plan[i].server = 0
             THEN plan[i].network = 0 => servers'[s].net \in networks'["home"]
             ELSE servers'[s].net # 0
  <2>0. s \in Ids
    BY DEF OfSite, Existing
  <2>1. CASE s \in OfSite(k) /\ servers'[s].net = servers[s].net
    BY <1>1, <2>1 DEF Nets
  <2>2. CASE MakeServer(i) /\ servers'[s].net = run[i].net
    <3>1. run[i].at \in Networked /\ plan[i].server = 0
      BY <2>2 DEF MakeServer, At, Nets, Networked, Known, Pictured, Sighted
    <3> QED
      BY <1>1, <2>2, <3>1 DEF Nets
  <2> QED
    BY <1>6, <2>0, <2>1, <2>2, ServersInNets DEF OfSite, Existing
<1>7. ASSUME run'[i].at \in Holding, plan[i].server # 0
      PROVE  servers'[run'[i].server].net = run'[i].net
  <2>1. run'[i].net = run[i].net
    <3>1. ~(FindNetwork(i) \/ MakeNetwork(i))
      BY <1>0, <1>7, ResourceWays DEF Comes, Holding, Publishing
    <3> QED
      BY <1>0, <1>7, <3>1, Remembers, ForgottenPoints DEF Recalls
  <2>2. servers[run'[i].server].net = run[i].net
    <3>1. CASE FindServer(i) \/ MakeServer(i) \/ AdoptServer(i)
      BY <1>0, <1>7, <3>1, ServerAdopted
    <3>2. CASE ~(FindServer(i) \/ MakeServer(i) \/ AdoptServer(i))
      <4>1. run[i].at \in Holding
        BY <1>0, <1>7, <3>2, StepComings DEF Comings
      <4>2. run'[i].server = run[i].server
        BY <1>0, <1>7, <3>2, Remembers, ForgottenPoints DEF Recalls
      <4> QED
        BY <1>7, <4>1, <4>2 DEF Nets
    <3> QED
      BY <3>1, <3>2
  <2>3. ~MakeServer(i)
    BY <1>7 DEF MakeServer, Nets
  <2>4. servers' = servers \/ AttachGroup(i) \/ BootstrapServer(i)
    BY <2>3, ChangedBy
  <2>5. ASSUME AttachGroup(i) \/ BootstrapServer(i)
        PROVE  servers'[run'[i].server].net = servers[run'[i].server].net
    <3>1. run[i].at \in Holding /\ ~(FindServer(i) \/ AdoptServer(i))
      BY <2>5 DEF AttachGroup, BootstrapServer, FindServer, AdoptServer, At, Holding
    <3>2. run'[i].server = run[i].server
      BY <1>0, <1>7, <2>3, <3>1, Remembers, ForgottenPoints DEF Recalls
    <3>3. run[i].server \in Ids
      BY <3>1 DEF Inv, RunInv, HasServer, Existing
    <3> QED
      BY <2>3, <3>2, <3>3, ServersInNets
  <2> QED
    BY <2>1, <2>2, <2>4, <2>5
<1> QED
  BY <1>0, <1>2, <1>3, <1>4, <1>5, <1>6, <1>7 DEF Nets, At

-----------------------------------------------------------------------------
(* What STACKIT and an operator do to them.                                *)

\* What comes from outside adds no server and no image, and changes neither
\* what an image is nor what a server was made of.
LEMMA OutsideServers ==
    ASSUME Inv, Platform \/ Trouble
    PROVE  /\ UNCHANGED <<plan, run, networks>>
           /\ \A s \in Ids :
                 \/ servers'[s] = servers[s]
                 \/ /\ servers[s].status = "creating" /\ servers'[s].status \in {"active", "error"}
                    /\ servers'[s].site = servers[s].site /\ servers'[s].net = servers[s].net
                    /\ servers'[s].image = servers[s].image
                 \/ servers'[s].status = "none" /\ \A i \in Installers : ~Busy(i)
<1>0. ThingShape
  BY DEF Inv, ThingInv
<1>1. UNCHANGED <<plan, run, networks>>
  BY DEF Platform, Trouble, ServerStarts, ServerBreaks, RemoveServer, ImageReady, ImageAges,
         ZoneEnds, BalancerEnds, CertificateAges, Costs
<1>2. CASE servers' = servers
  BY <1>1, <1>2
<1>3. ASSUME NEW x \in Ids, ServerStarts(x) \/ ServerBreaks(x)
      PROVE  \A s \in Ids :
                 \/ servers'[s] = servers[s]
                 \/ /\ servers[s].status = "creating" /\ servers'[s].status \in {"active", "error"}
                    /\ servers'[s].site = servers[s].site /\ servers'[s].net = servers[s].net
                    /\ servers'[s].image = servers[s].image
  BY <1>0, <1>3 DEF ServerStarts, ServerBreaks, ThingShape, ServerFields
<1>4. ASSUME NEW x \in Ids, RemoveServer(x)
      PROVE  \A s \in Ids : \/ servers'[s] = servers[s]
                            \/ servers'[s].status = "none" /\ \A i \in Installers : ~Busy(i)
  BY <1>0, <1>4 DEF RemoveServer, ThingShape, NoServer
<1> QED
  BY <1>1, <1>2, <1>3, <1>4 DEF Platform, Trouble

\* The platform and its troubles only settle images that were coming, and share none.
LEMMA OutsideImages ==
    ASSUME Inv, NEW i \in Installers, ImagesTidy(i), Platform \/ Trouble
    PROVE  Improves(i) /\ \A m \in Ids : images'[m].shared = images[m].shared
<1>0. plan' = plan
  BY OutsideServers
<1>1. CASE images' = images
  BY <1>0, <1>1, SameShown DEF ImagesTidy
<1>2. ASSUME NEW m \in Ids, ImageReady(m) \/ ImageAges(m)
      PROVE  Improves(i) /\ \A x \in Ids : images'[x].shared = images[x].shared
  <2>1. DOMAIN images' = Ids
        /\ \A x \in Ids : /\ images'[x].label = images[x].label
                          /\ images'[x].owner = images[x].owner
                          /\ images'[x].shared = images[x].shared
                          /\ images'[x].status = "none" <=> images[x].status = "none"
                          /\ images[x].status = "available" => images'[x].status = "available"
    BY <1>2 DEF ImageReady, ImageAges, ImagesTidy, ImageFields
  <2> QED
    BY <1>0, <2>1, SameShown
<1> QED
  BY <1>1, <1>2 DEF Platform, Trouble

\* A run that waits at a point at which a server may go holds none.
LEMMA SettledFromOutside ==
    ASSUME Inv, NEW i \in Installers, Tidy(i), Settled(i), Platform \/ Trouble
    PROVE  Settled(i)'
<1> PICK k : k = plan[i].site
  OBVIOUS
<1>0. /\ UNCHANGED <<plan, run, networks>> /\ ImagesTidy(i) /\ Improves(i)
      /\ OneImage(i) /\ HasImage(i) /\ LacksImage(i) /\ ServersFit(i) /\ Nets(i)
      /\ \A m \in Ids : images'[m].shared = images[m].shared
  BY OutsideServers, OutsideImages DEF Tidy, Settled, Pictures
<1>1. \A m : Fits(i, m)' <=> Fits(i, m)
  BY <1>0, ImprovesFits
<1>2. ASSUME NEW s \in Own(i)' PROVE s \in Own(i) /\ servers'[s].image = servers[s].image
  BY <1>0, <1>2, OutsideServers DEF Own, OfSite, Existing
<1>3. OneImage(i)'
  BY <1>0, ShownIn DEF OneImage, Improves
<1>4. HasImage(i)'
  BY <1>0, <1>1, ImprovesFits DEF HasImage, Improves, Known
<1>5. LacksImage(i)'
  <2>1. ASSUME At(i, "ownerImage"), NEW m \in Shown(i)', m \in Listed("home")'
        PROVE  images'[m].owner = plan[i].owner /\ plan[i].owner # "home"
    <3>1. plan[i].image = 0 /\ m \in Shown(i)
      BY <1>0, <2>1 DEF LacksImage, Improves
    <3>2. m \in Ids
      BY <3>1, ShownIn
    <3>3. m \in Listed("home")
      BY <1>0, <2>1, <3>2 DEF Listed, Improves
    <3> QED
      BY <1>0, <2>1, <3>1, <3>2, <3>3 DEF LacksImage, Improves
  <2> QED
    BY <1>0, <1>1, <1>2, <2>1, ImprovesFits DEF LacksImage, At, Improves
<1>6. ServersFit(i)'
  BY <1>0, <1>1, <1>2 DEF ServersFit, Improves
<1>7. Nets(i)'
  <2>1. ASSUME NEW s \in OfSite(k)' PROVE s \in OfSite(k) /\ servers'[s].net = servers[s].net
    BY <2>1, OutsideServers DEF OfSite, Existing
  <2>2. ASSUME run[i].at \in Holding PROVE servers'[run[i].server].net = servers[run[i].server].net
    <3>1. Busy(i) /\ run[i].server \in Existing
      BY <2>2 DEF Holding, Publishing, Busy, Ended, Inv, RunInv, HasServer
    <3> QED
      BY <3>1, OutsideServers DEF Existing
  <2> QED
    BY <1>0, <2>1, <2>2 DEF Nets, At
<1>8. ServerStates' /\ PlanShape(i)'
  BY <1>0, OutsideServers DEF Settled, ServerStates, PlanShape
<1> QED
  BY <1>3, <1>4, <1>5, <1>6, <1>7, <1>8 DEF Settled, Pictures

\* Every step keeps the invariant.
LEMMA SettlednessKept == Inv /\ Tidiness /\ Settledness /\ [Next]_vars => Settledness'
<1> SUFFICES ASSUME Inv, Tidiness, Settledness, [Next]_vars, NEW i \in Installers, Present' = {i}
             PROVE  Settled(i)'
  BY DEF Settledness
<1>0. RunShape
  BY DEF Inv, RunInv
<1>1. CASE UNCHANGED vars
  <2>1. Present = {i}
    BY <1>1 DEF vars, Present
  <2>2. Settled(i)
    BY <2>1 DEF Settledness
  <2>3. /\ UNCHANGED <<plan, run, images, servers, networks>>
        /\ Live' = Live /\ Shown(i)' = Shown(i) /\ Own(i)' = Own(i)
    BY <1>1 DEF vars, Live, Shown, Listed, Own, OfSite, Existing
  <2>4. OneImage(i)' /\ (\A m : Fits(i, m)' <=> Fits(i, m)) /\ \A p : Listed(p)' = Listed(p)
    BY <2>2, <2>3 DEF Settled, Pictures, OneImage, Fits, Listed
  <2>5. HasImage(i)' /\ LacksImage(i)' /\ ServersFit(i)'
    BY <2>2, <2>3, <2>4 DEF Settled, Pictures, HasImage, LacksImage, ServersFit, At
  <2>6. Nets(i)' /\ ServerStates' /\ PlanShape(i)'
    BY <2>2, <2>3 DEF Settled, Nets, ServerStates, PlanShape, OfSite, Existing, At
  <2> QED
    BY <2>4, <2>5, <2>6 DEF Settled, Pictures
<1>2. ASSUME NEW j \in Installers, Works(j) \/ Disturbed(j) PROVE Settled(i)'
  <2>1. Stepped(j)
    BY <1>0, <1>2, CameFrom
  <2>2. Present' = Present /\ j \in Present
    BY <2>1 DEF Stepped, Present
  <2>3. j = i /\ Tidy(i) /\ Settled(i)
    BY <2>2 DEF Tidiness, Settledness
  <2>4. PlanShape(i)'
    BY <2>1, <2>3 DEF Stepped, Settled, PlanShape
  <2> QED
    BY <1>0, <1>2, <2>3, <2>4, PicturesKept, NetsKept, ServerStatesKept DEF Settled
<1>3. CASE Platform \/ Trouble
  <2>1. Present = {i}
    BY <1>3, OutsideServers DEF Present
  <2> QED
    BY <1>3, <2>1, SettledFromOutside DEF Tidiness, Settledness
<1> QED
  BY <1>1, <1>2, <1>3 DEF Next

\* What SettledStart says of the start is the invariant there.
LEMMA SettlednessBegins == ASSUME SettledStart PROVE Init => Settledness
<1> SUFFICES ASSUME Init, NEW i \in Installers, Present = {i} PROVE Settled(i)
  BY DEF Settledness
<1>1. PICK c \in Scenarios :
        /\ plan = c.plan
        /\ run = [j \in Installers |-> NoRun(IF j \in c.present THEN "ready" ELSE "absent")]
        /\ networks = c.networks /\ servers = c.servers /\ images = c.images
  BY DEF Init
<1>2. \A j \in Installers : run[j].at = IF j \in c.present THEN "ready" ELSE "absent"
  BY <1>1, NoRunFields
<1>3. Installers \cap c.present = {i}
  BY <1>2 DEF Present
<1>4. run[i].at = "ready"
  BY <1>2, <1>3
<1> DEFINE shown == {m \in Ids : /\ c.images[m].status # "none" /\ c.images[m].label = "match"
                                 /\ \/ c.images[m].owner \in {"home", c.plan[i].owner}
                                    \/ {"home", c.plan[i].owner, "organization"}
                                          \cap c.images[m].shared # {}}
           named == {x \in Ids : c.servers[x].status # "none" /\ c.servers[x].site = c.plan[i].site}
<1>5. /\ c.plan[i].image = 0 =>
            /\ OnlyOneOf(shown)
            /\ \A m \in shown : \/ c.images[m].owner \in {"home", c.plan[i].owner}
                                \/ c.images[m].status = "available"
      /\ c.plan[i].server = 0 =>
            \A x \in named :
               LET m == c.servers[x].image
               IN  /\ c.plan[i].network = 0 => c.servers[x].net \in c.networks["home"]
                   /\ \/ m = 0
                      \/ /\ m \in Ids /\ c.images[m].status = "available"
                         /\ IF c.plan[i].image = 0 THEN m \in shown ELSE m = c.plan[i].image
                      \/ m # c.plan[i].image /\ c.plan[i].image # 0 /\ c.servers[x].status # "creating"
      /\ c.plan[i].server # 0 => \A x \in named : c.servers[x].net # 0
      /\ 0 \notin c.networks["home"]
  BY <1>3 DEF SettledStart
<1>6. Shown(i) = shown /\ OfSite(plan[i].site) = named
  <2>1. \A m : m \in Shown(i) <=> m \in shown
    BY <1>1 DEF Shown, Live, Listed
  <2>2. OfSite(plan[i].site) = named
    BY <1>1 DEF OfSite, Existing
  <2> QED
    BY <2>1, <2>2
<1> HIDE DEF shown, named
<1>7. /\ plan[i].image \in Ids \cup {0} /\ plan[i].address \in Ids \cup {0}
      /\ \A s \in Ids : servers[s].status \in {"none", "creating", "active", "error"}
  BY <1>1, ScenarioAssumption
<1>8. OneImage(i)
  BY <1>1, <1>5, <1>6 DEF OneImage
<1>9. HasImage(i) /\ LacksImage(i)
  BY <1>4 DEF HasImage, LacksImage, At, Known, Pictured, Sighted, Holding, Publishing, Importing
<1>10. ServersFit(i)
  <2>1. ASSUME NEW s \in Own(i)
        PROVE  /\ servers[s].image \in Ids /\ Fits(i, servers[s].image)
               /\ images[servers[s].image].status = "available"
    <3>1. /\ s \in named /\ c.plan[i].server = 0 /\ c.servers[s].image # 0
          /\ c.plan[i].image = 0 \/ c.servers[s].status = "creating"
             \/ c.servers[s].image = c.plan[i].image
      BY <1>1, <1>6 DEF Own
    <3>2. /\ c.servers[s].image \in Ids /\ c.images[c.servers[s].image].status = "available"
          /\ IF c.plan[i].image = 0 THEN c.servers[s].image \in shown
                                    ELSE c.servers[s].image = c.plan[i].image
      BY <1>5, <3>1
    <3>3. plan[i].image = 0 => plan[i].image \notin Live
      BY IdsAreNumbers DEF Live
    <3> QED
      BY <1>1, <1>6, <3>2, <3>3 DEF Fits
  <2>2. run[i].at \notin Choosing
    BY <1>4 DEF Choosing
  <2> QED
    BY <2>1, <2>2 DEF ServersFit
<1>11. Nets(i)
  <2>1. run[i].at \notin Networked /\ run[i].at \notin Holding
    BY <1>4 DEF Networked, Importing, Known, Pictured, Sighted, Holding, Publishing
  <2> QED
    BY <1>1, <1>4, <1>5, <1>6, <2>1 DEF Nets, At
<1> QED
  BY <1>7, <1>8, <1>9, <1>10, <1>11 DEF Settled, Pictures, ServerStates, PlanShape

-----------------------------------------------------------------------------
(* Refusals.                                                               *)

\* The server of a run is where the run looks for it, or there is a cause.
LEMMA OffNetHasCause ==
    ASSUME Inv, NEW i \in Installers, Tidy(i), Nets(i), run[i].at \in Holding,
           servers[run[i].server].net # run[i].net
    PROVE  ServerCause(i)
<1> PICK s : s = run[i].server
  OBVIOUS
<1>1. s \in Named(i) /\ s \in OfSite(plan[i].site)
  BY DEF Inv, RunInv, HasServer, Named, OfSite
<1>2. run[i].at \in Networked
  BY DEF Networked, Known, Pictured, Sighted
<1>3. plan[i].server = 0
  BY DEF Nets
<1>4. CASE plan[i].network = 0
  <2>1. run[i].net \in networks["home"] /\ servers[s].net \in networks["home"]
    BY <1>1, <1>2, <1>3, <1>4 DEF Nets
  <2>2. OnlyOneOf(networks["home"])
    BY DEF Tidy, NetworksTidy, Projects
  <2> QED
    BY <2>1, <2>2 DEF OnlyOneOf
<1>5. CASE plan[i].network # 0
  BY <1>1, <1>2, <1>5 DEF Nets, ServerCause
<1> QED
  BY <1>4, <1>5

\* A lookup of the server refuses only over servers of the name.
LEMMA FoundServerRefused ==
    ASSUME Inv, NEW i \in Installers, Settled(i), FindServer(i), run'[i].at = "refused"
    PROVE  ServerCause(i)
<1>0. RunShape /\ run[i].at = "server" /\ plan[i].server = 0
  BY DEF Inv, RunInv, FindServer, At
<1>1. ~To(i, "makeServer")
  BY <1>0, GoesTo
<1>2. \A s : ~Learns(i, [server |-> s], "waitServer") /\ ~Learns(i, [server |-> s], "bootstrap")
  BY <1>0, Arrives
<1>3. PICK s \in Named(i) :
          \/ servers[s].status = "error"
          \/ servers[s].status = "active" /\ servers[s].image # run[i].image
  BY <1>1, <1>2, Order DEF FindServer
<1>4. CASE /\ servers[s].image # 0 /\ servers[s].image # run[i].image
           /\ plan[i].image = 0 \/ servers[s].image = plan[i].image
  <2>1. s \in Own(i)
    BY <1>0, <1>3, <1>4 DEF Own, Named, OfSite
  <2> QED
    BY <1>0, <1>4, <2>1 DEF Settled, Pictures, ServersFit, Choosing
<1> QED
  BY <1>3, <1>4 DEF ServerCause

\* A wait for the server refuses only over a server in error.
LEMMA WaitedServerRefused ==
    ASSUME Inv, NEW i \in Installers, WaitServer(i), run'[i].at = "refused"
    PROVE  ServerCause(i)
<1>0. RunShape /\ run[i].at = "waitServer"
  BY DEF Inv, RunInv, WaitServer, At
<1>1. ~To(i, "bootstrap")
  BY <1>0, GoesTo
<1>2. servers[run[i].server].status = "error"
  BY <1>1, Order DEF WaitServer
<1>3. run[i].server \in Named(i)
  BY <1>0 DEF Inv, RunInv, HasServer, Holding, Named
<1> QED
  BY <1>2, <1>3 DEF ServerCause

\* A server found before is refused only for what the operator configured: its image
\* and its network are those of the run.
LEMMA AdoptedServerRefused ==
    ASSUME Inv, NEW i \in Installers, Tidy(i), Settled(i), AdoptServer(i), run'[i].at = "refused"
    PROVE  ServerCause(i)
<1> PICK s : s = plan[i].server
  OBVIOUS
<1>0. /\ RunShape /\ run[i].at = "server" /\ s # 0 /\ s \in Ids
  BY DEF Inv, RunInv, ThingInv, ThingShape, AdoptServer, At
<1>1. ~Learns(i, [server |-> s], "attachGroup") /\ ~Learns(i, [server |-> s], "bootstrap")
  BY <1>0, Arrives
<1>2. ~Adoptable(i)
  BY <1>1, Order DEF AdoptServer
<1>3. CASE s \in Named(i)
  <2>1. servers[s].status \in {"creating", "active", "error"} /\ servers[s].site = plan[i].site
    BY <1>0, <1>3 DEF Named, Existing, Settled, ServerStates
  <2>2. servers[s].status = "error" \/ servers[s].net # run[i].net
    BY <1>2, <2>1 DEF Adoptable
  <2>3. ASSUME servers[s].net # run[i].net PROVE ServerCause(i)
    <3>1. run[i].at \in Networked
      BY <1>0 DEF Networked, Known, Pictured, Sighted
    <3>2. CASE plan[i].network # 0
      BY <1>3, <2>3, <3>1, <3>2 DEF Settled, Nets, ServerCause
    <3>3. CASE plan[i].network = 0
      <4>1. run[i].net \in networks["home"] /\ OnlyOneOf(networks["home"])
        BY <3>1, <3>3 DEF Settled, Nets, Tidy, NetworksTidy, Projects
      <4>2. servers[s].net \notin networks["home"]
        BY <2>3, <4>1 DEF OnlyOneOf
      <4>3. servers[s].net # 0
        BY <1>0, <1>3 DEF Settled, Nets, Named, OfSite
      <4> QED
        BY <1>0, <3>3, <4>2, <4>3 DEF ServerCause
    <3> QED
      BY <3>2, <3>3
  <2> QED
    BY <1>3, <2>2, <2>3 DEF ServerCause
<1> QED
  BY <1>0, <1>3 DEF ServerCause

\* A lookup of the image refuses only over the images that there are.
LEMMA FoundImageRefused ==
    ASSUME Inv, NEW i \in Installers, Tidy(i), Settled(i), FindImage(i), run'[i].at = "refused"
    PROVE  ImageCause(i)
<1>0. RunShape /\ run[i].at = "image"
  BY DEF Inv, RunInv, FindImage, At
<1>1. ~To(i, "ownerImage")
  BY <1>0, GoesTo
<1>2. ASSUME NEW m PROVE ~Chosen(i, m)
  BY <1>0, Arrives DEF Chosen
<1>3. plan[i].image # 0 /\ ~(Configured(i) /\ Accepted(plan[i].image))
  BY <1>1, <1>2 DEF FindImage
<1>4. plan[i].image \in Ids
  BY <1>3 DEF Settled, PlanShape
<1>5. ~Configured(i) => images[plan[i].image].status = "none"
                          \/ images[plan[i].image].owner # plan[i].owner
  BY <1>4 DEF Configured, Listed
<1>6. ~Accepted(plan[i].image) => images[plan[i].image].status = "none"
                                   \/ images[plan[i].image].label # "match"
  BY <1>4 DEF Accepted, Tidy, ImagesTidy
<1> QED
  BY <1>3, <1>5, <1>6 DEF ImageCause

\* An image to be marked is refused only when it is the configured one, for its label.
LEMMA MarkedImageRefused ==
    ASSUME Inv, NEW i \in Installers, Settled(i), MarkImage(i), run'[i].at = "refused"
    PROVE  ImageCause(i)
<1> PICK m : m = run[i].image
  OBVIOUS
<1>0. RunShape /\ run[i].at = "markImage"
  BY DEF Inv, RunInv, MarkImage, At
<1>1. ~To(i, "shareImage")
  BY <1>0, GoesTo
<1>2. images[m].label # "match"
  BY <1>1 DEF MarkImage
<1>3. Fits(i, m)
  BY <1>0 DEF Settled, Pictures, HasImage, Known, Pictured
<1>4. plan[i].image # 0
  BY <1>2, <1>3, ShownIn DEF Fits
<1>5. plan[i].image \in Live => m = plan[i].image
  BY <1>3 DEF Fits
<1>6. plan[i].image \notin Live => images[plan[i].image].status = "none"
  BY <1>4 DEF Live, Settled, PlanShape
<1> QED
  BY <1>2, <1>4, <1>5, <1>6 DEF ImageCause

\* The choice of an address refuses only over the configured one, or over a server off
\* its network.
LEMMA AddressRefused ==
    ASSUME Inv, NEW i \in Installers, Tidy(i), Settled(i), ChooseAddress(i), run'[i].at = "refused"
    PROVE  ServerCause(i) \/ AddressCause(i)
<1> PICK s : s = run[i].server
  OBVIOUS
<1> PICK wish : wish = plan[i].address
  OBVIOUS
<1>0. /\ RunShape /\ run[i].at = "address" /\ run[i].at \in Holding
      /\ s \in Named(i) /\ s \in OfSite(plan[i].site)
  <2>1. RunShape /\ run[i].at = "address" /\ run[i].at \in Holding
    BY DEF Inv, RunInv, ChooseAddress, At, Holding, Publishing
  <2> QED
    BY <2>1 DEF Inv, RunInv, HasServer, Named, OfSite
<1>1. ~To(i, "makeAddress")
  BY <1>0, GoesTo
<1>2. \A a : /\ ~Learns(i, [address |-> a], "attachAddress")
             /\ ~Learns(i, [address |-> a], After(i, "address"))
  BY <1>0, Arrives, Order
<1>3. \/ ~HasNic(i)
      \/ Attached(s) = {} /\ wish # 0 /\ (wish \notin Reserved \/ addresses[wish].nic # 0)
  BY <1>1, <1>2 DEF ChooseAddress
<1>4. CASE ~HasNic(i)
  BY <1>0, <1>4, OffNetHasCause DEF HasNic, Settled
<1>5. CASE Attached(s) = {} /\ wish # 0 /\ (wish \notin Reserved \/ addresses[wish].nic # 0)
  <2>1. wish \in Ids
    BY <1>5 DEF Settled, PlanShape
  <2>2. ASSUME addresses[wish].there, addresses[wish].nic \in {0} \cup Named(i) PROVE FALSE
    <3>1. wish \in Reserved /\ addresses[wish].nic \in Named(i)
      BY <1>5, <2>1, <2>2 DEF Reserved
    <3>2. OnlyOneOf(OfSite(plan[i].site)) /\ addresses[wish].nic \in OfSite(plan[i].site)
      BY <3>1 DEF Tidy, ServersTidy, Named, OfSite, Inv, ThingInv, ThingShape
    <3>3. addresses[wish].nic = s
      BY <1>0, <3>2 DEF OnlyOneOf
    <3> QED
      BY <1>5, <3>1, <3>3 DEF Attached
  <2> QED
    BY <1>5, <2>2 DEF AddressCause
<1> QED
  BY <1>3, <1>4, <1>5

\* The steps on the zone and the balancer refuse only over the name, or over a server
\* off its network.
LEMMA NameRefused ==
    ASSUME Inv, NEW i \in Installers, Tidy(i), Settled(i), run'[i].at = "refused",
           FindZone(i) \/ WaitZone(i) \/ ListBalancers(i) \/ WaitBalancer(i)
    PROVE  ServerCause(i) \/ NameCause(i)
<1>0. RunShape /\ run[i].at # "absent"
  BY DEF Inv, RunInv, FindZone, WaitZone, ListBalancers, WaitBalancer, At
<1>1. \A p \in {"network", "waitZone", "makeZone", "makeBalancer", "waitBalancer", "record"} : ~To(i, p)
  BY <1>0, GoesTo
<1>2. CASE FindZone(i)
  BY <1>1, <1>2, Order DEF FindZone, NameCause
<1>3. CASE WaitZone(i)
  BY <1>1, <1>3, Order DEF WaitZone, NameCause
<1>4. CASE WaitBalancer(i)
  BY <1>1, <1>4, Order DEF WaitBalancer, NameCause
<1>5. CASE ListBalancers(i)
  <2>1. \A v : ~Learns(i, [seen |-> v], "updateBalancer")
    BY <1>0, Arrives
  <2>2. ~HasPrivateIP(i)
    BY <1>1, <1>5, <2>1 DEF ListBalancers
  <2>3. run[i].at \in Holding
    BY <1>5 DEF ListBalancers, At, Holding, Publishing
  <2> QED
    BY <2>2, <2>3, OffNetHasCause DEF HasPrivateIP, Settled
<1> QED
  BY <1>2, <1>3, <1>4, <1>5

\* The steps at which a run refuses to go on.
LEMMA Refusing ==
    ASSUME RunShape, NEW i \in Installers, Works(i) \/ Disturbed(i), run'[i].at = "refused"
    PROVE  \/ FindServer(i) \/ WaitServer(i) \/ AdoptServer(i) \/ ChooseAddress(i)
           \/ FindImage(i) \/ MarkImage(i)
           \/ FindZone(i) \/ WaitZone(i) \/ ListBalancers(i) \/ WaitBalancer(i)
<1> USE DEF Comes
<1>1. CASE (Start(i) \/ Secure(i)) \/ Disturbed(i)
  BY <1>1, OtherWays DEF Disturbed
<1>2. CASE Resource(i)
  BY <1>2, ResourceWays DEF Resource
<1>3. CASE Image(i)
  BY <1>3, ImageWays DEF Image
<1>4. CASE Expose(i)
  BY <1>4, ExposeWays DEF Expose
<1> QED
  BY <1>1, <1>2, <1>3, <1>4 DEF Works

\* An installer that works alone refuses to go on only for a cause that its
\* operator can see: a server, an image or an address that does not fit what is
\* configured, or a zone, server or load balancer that STACKIT could not make;
\* never for what an earlier run, cut off anywhere, has left half done.
THEOREM RefusalsHaveCause ==
    ASSUME TidyStart, SettledStart PROVE Spec => RefusalHasCause
<1> DEFINE Caused ==
        \A i \in Present :
          Single /\ ~At(i, "refused") /\ At(i, "refused")' =>
              ServerCause(i) \/ ImageCause(i) \/ AddressCause(i) \/ NameCause(i)
<1>1. Inv /\ Tidiness /\ Settledness /\ [Next]_vars => [Caused]_vars
  <2> SUFFICES ASSUME Inv, Tidiness, Settledness, Next, NEW i \in Present, Single,
                      ~At(i, "refused"), At(i, "refused")'
               PROVE  ServerCause(i) \/ ImageCause(i) \/ AddressCause(i) \/ NameCause(i)
    OBVIOUS
  <2>0. RunShape /\ i \in Installers
    BY DEF Inv, RunInv, Present
  <2>1. Present = {i}
    BY <2>0, OnlyOne DEF Single, Present
  <2>2. Tidy(i) /\ Settled(i)
    BY <2>0, <2>1 DEF Tidiness, Settledness
  <2>3. Works(i) \/ Disturbed(i)
    <3>1. ~(Platform \/ Trouble)
      BY OutsideServers DEF At
    <3>2. PICK j \in Installers : Works(j) \/ Disturbed(j)
      BY <3>1 DEF Next
    <3>3. Stepped(j)
      BY <2>0, <3>2, CameFrom
    <3>4. j = i
      BY <2>1, <3>3 DEF Stepped, Present
    <3> QED
      BY <3>2, <3>4
  <2> QED
    BY <2>0, <2>2, <2>3, Refusing, FoundServerRefused, WaitedServerRefused, AdoptedServerRefused,
       FoundImageRefused, MarkedImageRefused, AddressRefused, NameRefused DEF At
<1>2. Init => Tidiness /\ Settledness
  BY TidinessBegins, SettlednessBegins
<1> QED
  BY <1>1, <1>2, TidinessKept, SettlednessKept, DeploymentInvariant, PTL DEF Spec, RefusalHasCause

-----------------------------------------------------------------------------
(* What a run that succeeds has made, and what it still knows of it.       *)

\* The points at which a run knows its server; the server works; it is known
\* to be in the run's network.
Serving == {"waitBalancer", "record", "writeRecord", "direct"} \cup Holding
Working == Serving \ {"waitServer", "attachGroup"}
Joined == {"attachAddress", "makeAddress", "makeBalancer", "updateBalancer", "waitBalancer",
           "record", "writeRecord", "direct"}

\* The points at which the group has all its rules and the server may not be in it.
Grouped == {"image", "ownerImage", "dropImage", "attachGroup"} \cup Importing \cup Choosing

\* The points of the phases that depend on the mode.
Addressing == {"address", "attachAddress", "makeAddress"}
Balancing == {"balancer", "updateBalancer", "makeBalancer", "waitBalancer"}
Naming == {"record", "writeRecord"}

\* A server is behind all rules.
Covered(s) == \E g \in servers[s].groups \cap groups : Rules \subseteq rules[g]

\* The rules that a run counts its group has; past the phase, it has them all.
HasRules(i) ==
    /\ At(i, "rules") => run[i].group \in groups /\ run[i].have \subseteq rules[run[i].group]
    /\ run[i].at \in Grouped => run[i].group \in groups /\ Rules \subseteq rules[run[i].group]

\* The server of a run has the name and the rules, and works and is in the network
\* from the points on that have looked.
HasGuardedServer(i) ==
    /\ run[i].at \in Serving => run[i].server \in OfSite(Site(i))
    /\ run[i].at \in Serving \ {"attachGroup"} => Covered(run[i].server)
    /\ run[i].at \in Joined => servers[run[i].server].net = run[i].net
    /\ run[i].at \in Working /\ plan[i].server = 0 => servers[run[i].server].status = "active"
    /\ run[i].at \in {"makeServer", "waitServer"} => plan[i].server = 0
    /\ At(i, "attachGroup") => plan[i].server # 0

\* Each way in is for its mode.
ModeFits(i) ==
    /\ run[i].at \in Addressing => plan[i].mode \notin {"private", "balancer"}
    /\ run[i].at \in Certifying \cup Balancing \cup {"certificate"} => plan[i].mode = "balancer"
    /\ run[i].at \in Naming => plan[i].mode \in {"named", "balancer"}
    /\ At(i, "direct") => plan[i].mode = "named"

\* The run has a certificate for its site, past the phase that orders it.
HasCertificate(i) ==
    run[i].at \in Balancing \/ (run[i].at \in Naming /\ plan[i].mode = "balancer") =>
        run[i].cert \in Ids /\ certs[run[i].cert].site = Site(i)

\* A run that knows its image knows it by its number.
ImageNamed(i) == run[i].at \in Known => run[i].image \in Ids

Fitting(i) == HasRules(i) /\ HasGuardedServer(i) /\ ModeFits(i) /\ HasCertificate(i) /\ ImageNamed(i)

\* What there is of groups, records and certificates.
CloudShape ==
    /\ groups \subseteq Ids /\ DOMAIN rules = Ids /\ DOMAIN records = Sites
    /\ DOMAIN certs = Ids /\ \A c \in Ids : DOMAIN certs[c] = {"site", "fresh"}

\* A server is made from an image, and behind all rules from its start.
ServersCovered ==
    \A s \in Existing : /\ servers[s].status = "creating" => servers[s].image # 0
                        /\ servers[s].image # 0 => Covered(s)

\* What holds of every run, whoever else is at work.
Fitness == CloudShape /\ ServersCovered /\ \A i \in Installers : Fitting(i)

\* An installer of whose deployment and of whose addresses nobody else takes care.
Lone(i) == i \in Present /\ Alone(i)

\* There is one server of the site, and none where the run is about to make one.
OneServer(i) ==
    /\ OnlyOneOf(OfSite(Site(i)))
    /\ At(i, "makeServer") => OfSite(Site(i)) = {}

\* The address of a run leads to its server once the run is past it.
HasAddress(i) ==
    /\ At(i, "attachAddress") => run[i].address \in Ids
    /\ run[i].at \in Naming \cup {"direct"} /\ plan[i].mode = "named" =>
          addresses[run[i].address].nic = run[i].server

\* The record leads to the address.
HasRecord(i) == At(i, "direct") => records[Site(i)] = {ViaAddress(run[i].address)}

\* The load balancer has the certificate of the run, and works once the run is past it.
HasBalancer(i) ==
    /\ At(i, "waitBalancer") \/ (run[i].at \in Naming /\ plan[i].mode = "balancer") =>
          balancers[Site(i)].status # "none" /\ balancers[Site(i)].cert = run[i].cert
    /\ run[i].at \in Naming /\ plan[i].mode = "balancer" => balancers[Site(i)].status = "ready"

\* A server that is not configured is one of the image of the run.
SameImage(i) ==
    plan[i].server = 0 /\ run[i].at \in Serving => servers[run[i].server].image = run[i].image

Agreeing(i) == OneServer(i) /\ HasAddress(i) /\ HasRecord(i) /\ HasBalancer(i) /\ SameImage(i)

Agreement == \A i \in Installers : Lone(i) => Agreeing(i)

\* Several installers that find one image, which is available, use it.
Elsewhere == {"ownerImage", "dropImage", "waitImage", "upload"} \cup Importing

Stands(m) ==
    /\ DOMAIN images = Ids /\ \A x \in Ids : DOMAIN images[x] = ImageFields
    /\ images[m].status = "available" /\ images[m].owner = "home" /\ images[m].label = "match"
    /\ \A x \in Listed("home") : images[x].label = "match" => x = m
    /\ \A j \in Present : /\ plan[j].image = 0 /\ plan[j].owner = "home"
                          /\ run[j].at \notin Elsewhere
                          /\ run[j].at \in Pictured => run[j].image = m
    /\ \A s \in Ids : servers[s].status = "creating" => servers[s].image = m

Standing == (\E i \in Present : Alone(i) /\ Present # {i}) => \E m \in Ids : Stands(m)

-----------------------------------------------------------------------------
(* What a run remembers of the group, the address and the certificate.     *)

Notes == {"group", "address", "cert"}

\* A run that learns something keeps the other notes.
LEMMA KeepsNote ==
    ASSUME RunShape, NEW i \in Installers, NEW facts, NEW p, NEW f \in Notes, f \notin DOMAIN facts,
           Learns(i, facts, p)
    PROVE  Recalls(i, f)
<1>1. f \in Fields /\ f # "at"
  BY DEF Notes, Fields
<1> QED
  BY <1>1 DEF Learns, RunShape, Recalls

\* A run that only goes on keeps its notes.
LEMMA GoesRecallsNote ==
    ASSUME RunShape, NEW i \in Installers, NEW p, NEW f \in Notes, To(i, p)
    PROVE  Recalls(i, f)
<1>1. f \in Fields /\ f # "at"
  BY DEF Notes, Fields
<1> QED
  BY <1>1 DEF To, RunShape, Recalls

\* What is learnt besides is none of the notes.
LEMMA NoteFacts ==
    ASSUME RunShape, NEW i \in Installers, NEW p, NEW v, NEW w, NEW f \in Notes,
           \/ Learns(i, [net |-> v], p) \/ Learns(i, [have |-> v], p)
           \/ Learns(i, [image |-> v], p) \/ Learns(i, [server |-> v], p)
           \/ Learns(i, [seen |-> v], p) \/ Learns(i, [seen |-> v, txt |-> w], p)
           \/ Learns(i, [txt |-> v], p) \/ Learns(i, [valid |-> v], p)
           \/ Learns(i, [txt |-> v, valid |-> w], p)
    PROVE  Recalls(i, f)
<1> USE KeepsNote DEF Notes
<1>1. CASE Learns(i, [net |-> v], p)  BY <1>1
<1>2. CASE Learns(i, [have |-> v], p)  BY <1>2
<1>3. CASE Learns(i, [image |-> v], p)  BY <1>3
<1>4. CASE Learns(i, [server |-> v], p)  BY <1>4
<1>5. CASE Learns(i, [seen |-> v], p)  BY <1>5
<1>6. CASE Learns(i, [seen |-> v, txt |-> w], p)  BY <1>6
<1>7. CASE Learns(i, [txt |-> v], p)  BY <1>7
<1>8. CASE Learns(i, [valid |-> v], p)  BY <1>8
<1>9. CASE Learns(i, [txt |-> v, valid |-> w], p)  BY <1>9
<1> QED
  BY <1>1, <1>2, <1>3, <1>4, <1>5, <1>6, <1>7, <1>8, <1>9

\* A run that notes its group keeps the other notes.
LEMMA GroupNoted ==
    ASSUME RunShape, NEW i \in Installers, NEW p, NEW v, NEW w, Learns(i, [group |-> v, have |-> w], p)
    PROVE  run'[i].group = v /\ run'[i].have = w /\ Recalls(i, "address") /\ Recalls(i, "cert")
<1>1. DOMAIN run = Installers /\ DOMAIN run[i] = Fields
  BY DEF RunShape
<1>2. Recalls(i, "address") /\ Recalls(i, "cert")
  BY KeepsNote DEF Notes
<1> QED
  BY <1>1, <1>2 DEF Learns, Fields

\* A run that notes its address keeps the other notes.
LEMMA AddressNoted ==
    ASSUME RunShape, NEW i \in Installers, NEW p, NEW v, Learns(i, [address |-> v], p)
    PROVE  run'[i].address = v /\ Recalls(i, "group") /\ Recalls(i, "cert")
<1>1. DOMAIN run = Installers /\ DOMAIN run[i] = Fields
  BY DEF RunShape
<1>2. Recalls(i, "group") /\ Recalls(i, "cert")
  BY KeepsNote DEF Notes
<1> QED
  BY <1>1, <1>2 DEF Learns, Fields

\* A run that notes its certificate keeps the other notes.
LEMMA CertificateNoted ==
    ASSUME RunShape, NEW i \in Installers, NEW p, NEW v, Learns(i, [cert |-> v], p)
    PROVE  run'[i].cert = v /\ Recalls(i, "group") /\ Recalls(i, "address")
<1>1. DOMAIN run = Installers /\ DOMAIN run[i] = Fields
  BY DEF RunShape
<1>2. Recalls(i, "group") /\ Recalls(i, "address")
  BY KeepsNote DEF Notes
<1> QED
  BY <1>1, <1>2 DEF Learns, Fields

\* A step on resources notes a group or an address, or nothing.
LEMMA ResourceNotes ==
    ASSUME RunShape, NEW i \in Installers, Resource(i)
    PROVE  /\ Recalls(i, "group") \/ FindGroup(i) \/ MakeGroup(i)
           /\ Recalls(i, "address") \/ ChooseAddress(i) \/ MakeAddress(i)
           /\ Recalls(i, "cert")
<1> USE NoteFacts, GroupNoted, AddressNoted, CertificateNoted, GoesRecallsNote, StopsRecalls
<1>0. {"refused", "failed"} \subseteq Forgotten /\ {"group", "address", "cert"} \subseteq Notes
  BY DEF Forgotten, Notes
<1>1. CASE FindNetwork(i)
  <2>1. \/ \E v, p : Learns(i, [net |-> v], p)
        \/ To(i, "makeNetwork")
    BY <1>1 DEF FindNetwork
  <2> QED
    BY <1>0, <2>1
<1>2. CASE MakeNetwork(i)
  BY <1>0, <1>2 DEF MakeNetwork
<1>3. CASE FindGroup(i)
  BY <1>0, <1>3 DEF FindGroup
<1>4. CASE MakeGroup(i)
  BY <1>0, <1>4 DEF MakeGroup
<1>5. CASE AddRule(i)
  BY <1>0, <1>5 DEF AddRule
<1>6. CASE GroupReady(i)
  BY <1>0, <1>6 DEF GroupReady
<1>7. CASE FindServer(i)
  BY <1>0, <1>7 DEF FindServer
<1>8. CASE MakeServer(i)
  BY <1>0, <1>8 DEF MakeServer
<1>9. CASE WaitServer(i)
  BY <1>0, <1>9 DEF WaitServer
<1>10. CASE AdoptServer(i)
  <2>1. \/ \E v, p : Learns(i, [server |-> v], p)
        \/ Stops(i, "refused")
    BY <1>10 DEF AdoptServer
  <2> QED
    BY <1>0, <2>1
<1>11. CASE AttachGroup(i)
  BY <1>0, <1>11 DEF AttachGroup
<1>12. CASE BootstrapServer(i)
  BY <1>0, <1>12 DEF BootstrapServer
<1>13. CASE ChooseAddress(i)
  BY <1>0, <1>13 DEF ChooseAddress
<1>14. CASE AttachAddress(i)
  BY <1>0, <1>14 DEF AttachAddress
<1>15. CASE MakeAddress(i)
  BY <1>0, <1>15 DEF MakeAddress
<1> QED
  BY <1>1, <1>2, <1>3, <1>4, <1>5, <1>6, <1>7, <1>8, <1>9, <1>10, <1>11, <1>12, <1>13, <1>14, <1>15
     DEF Resource

\* No step on images notes anything.
LEMMA ImageNotes ==
    ASSUME RunShape, NEW i \in Installers, Image(i)
    PROVE  Recalls(i, "group") /\ Recalls(i, "address") /\ Recalls(i, "cert")
<1> USE NoteFacts, GroupNoted, AddressNoted, CertificateNoted, GoesRecallsNote, StopsRecalls
<1>0. {"refused", "failed"} \subseteq Forgotten /\ {"group", "address", "cert"} \subseteq Notes
  BY DEF Forgotten, Notes
<1>1. CASE FindImage(i)
  <2>1. \/ \E v, p : Learns(i, [image |-> v], p)
        \/ Stops(i, "refused") \/ To(i, "ownerImage")
    BY <1>1 DEF FindImage, Chosen
  <2> QED
    BY <1>0, <2>1
<1>2. CASE FindOwnerImage(i)
  BY <1>0, <1>2 DEF FindOwnerImage, Chosen
<1>3. CASE DropImage(i)
  BY <1>0, <1>3 DEF DropImage
<1>4. CASE WaitImage(i)
  BY <1>0, <1>4 DEF WaitImage
<1>5. CASE FindImportNetwork(i)
  BY <1>0, <1>5 DEF FindImportNetwork
<1>6. CASE MakeImportNetwork(i)
  BY <1>0, <1>6 DEF MakeImportNetwork
<1>7. CASE Import(i)
  BY <1>0, <1>7 DEF Import
<1>8. CASE Upload(i)
  BY <1>0, <1>8 DEF Upload
<1>9. CASE MarkImage(i)
  BY <1>0, <1>9 DEF MarkImage
<1>10. CASE ShareImage(i)
  BY <1>0, <1>10 DEF ShareImage
<1>11. CASE WaitVisible(i)
  BY <1>0, <1>11 DEF WaitVisible
<1>12. CASE Deadline(i)
  BY <1>0, <1>12 DEF Deadline
<1> QED
  BY <1>1, <1>2, <1>3, <1>4, <1>5, <1>6, <1>7, <1>8, <1>9, <1>10, <1>11, <1>12 DEF Image

\* A step that exposes the appliance notes a certificate, or nothing.
LEMMA ExposeNotes ==
    ASSUME RunShape, NEW i \in Installers, Expose(i)
    PROVE  /\ Recalls(i, "group") /\ Recalls(i, "address")
           /\ Recalls(i, "cert") \/ FindCertificate(i) \/ StoreCertificate(i)
<1> USE NoteFacts, GroupNoted, AddressNoted, CertificateNoted, GoesRecallsNote, StopsRecalls
<1>0. {"refused", "failed"} \subseteq Forgotten /\ {"group", "address", "cert"} \subseteq Notes
  BY DEF Forgotten, Notes
<1>1. CASE FindZone(i)
  BY <1>0, <1>1 DEF FindZone
<1>2. CASE MakeZone(i)
  BY <1>0, <1>2 DEF MakeZone
<1>3. CASE WaitZone(i)
  BY <1>0, <1>3 DEF WaitZone
<1>4. CASE ListRecords(i)
  BY <1>0, <1>4 DEF ListRecords
<1>5. CASE WriteRecord(i)
  BY <1>0, <1>5 DEF WriteRecord
<1>6. CASE FindCertificate(i)
  BY <1>0, <1>6 DEF FindCertificate
<1>7. CASE ListTexts(i)
  BY <1>0, <1>7 DEF ListTexts
<1>8. CASE WriteText(i)
  BY <1>0, <1>8 DEF WriteText
<1>9. CASE Validate(i)
  BY <1>0, <1>9 DEF Validate
<1>10. CASE CleanUp(i)
  BY <1>0, <1>10 DEF CleanUp
<1>11. CASE StoreCertificate(i)
  BY <1>0, <1>11 DEF StoreCertificate
<1>12. CASE ListBalancers(i)
  BY <1>0, <1>12 DEF ListBalancers
<1>13. CASE UpdateBalancer(i)
  BY <1>0, <1>13 DEF UpdateBalancer
<1>14. CASE MakeBalancer(i)
  BY <1>0, <1>14 DEF MakeBalancer
<1>15. CASE WaitBalancer(i)
  BY <1>0, <1>15 DEF WaitBalancer
<1> QED
  BY <1>1, <1>2, <1>3, <1>4, <1>5, <1>6, <1>7, <1>8, <1>9, <1>10, <1>11, <1>12, <1>13, <1>14, <1>15
     DEF Expose

\* Neither the start of a run, nor its work on the certificate, nor what cuts it off.
LEMMA OtherNotes ==
    ASSUME RunShape, NEW i \in Installers, Start(i) \/ Secure(i) \/ Disturbed(i)
    PROVE  \A f \in Notes : Recalls(i, f)
<1> TAKE f \in Notes
<1>0. DOMAIN run = Installers /\ DOMAIN run[i] = Fields /\ f \in Fields \ {"at", "txt", "valid"}
  BY DEF RunShape, Notes, Fields
<1>1. CASE Start(i) \/ Interrupt(i) \/ Again(i) \/ UploadFails(i)
  BY <1>1, OtherWays DEF Comes, Recalls, Forgotten
<1>2. CASE Secure(i)
  BY <1>2, GoesRecallsNote DEF Secure
<1>3. CASE Invalid(i)
  BY <1>0, <1>3 DEF Invalid, Recalls
<1>4. CASE CleanUpFails(i)
  <2> DEFINE r == [run[i] EXCEPT !.txt = 0, !.valid = FALSE, !.at = "storeCertificate"]
  <2>1. r[f] = run[i][f]
    BY <1>0
  <2> HIDE DEF r
  <2>2. run' = [run EXCEPT ![i] = r]
    BY <1>4 DEF CleanUpFails, r
  <2> QED
    BY <1>0, <2>1, <2>2 DEF Recalls
<1> QED
  BY <1>1, <1>2, <1>3, <1>4 DEF Disturbed

\* Each note is made in one phase, and forgotten at the end of the run.
LEMMA RemembersNotes ==
    ASSUME RunShape, NEW i \in Installers, Works(i) \/ Disturbed(i)
    PROVE  /\ Recalls(i, "group") \/ FindGroup(i) \/ MakeGroup(i)
           /\ Recalls(i, "address") \/ ChooseAddress(i) \/ MakeAddress(i)
           /\ Recalls(i, "cert") \/ FindCertificate(i) \/ StoreCertificate(i)
<1>1. {"group", "address", "cert"} \subseteq Notes
  BY DEF Notes
<1> QED
  BY <1>1, ResourceNotes, ImageNotes, ExposeNotes, OtherNotes DEF Works

\* How a run comes to the points at which the deployment takes shape.
Reaches(i) ==
    /\ run'[i].at = "rules" => FindGroup(i) \/ MakeGroup(i) \/ AddRule(i)
    /\ run'[i].at \in Grouped => run[i].at \in Grouped \/ GroupReady(i)
    /\ run'[i].at \in Serving => run[i].at \in Serving \/ FindServer(i) \/ MakeServer(i) \/ AdoptServer(i)
    /\ run'[i].at \in Serving \ {"attachGroup"} =>
          run[i].at \in Serving \ {"attachGroup"} \/ FindServer(i) \/ MakeServer(i) \/ AdoptServer(i)
          \/ AttachGroup(i)
    /\ run'[i].at \in Working =>
          run[i].at \in Working \/ FindServer(i) \/ WaitServer(i) \/ AdoptServer(i) \/ AttachGroup(i)
    /\ run'[i].at = "waitServer" => FindServer(i) \/ MakeServer(i)
    /\ run'[i].at = "attachGroup" => AdoptServer(i)
    /\ run'[i].at \in Joined => run[i].at \in Joined \/ ChooseAddress(i) \/ ListBalancers(i)
    /\ run'[i].at \in Addressing => run[i].at \in Addressing \/ BootstrapServer(i)
    /\ run'[i].at \in Certifying \cup Balancing \cup {"certificate"} =>
          run[i].at \in Certifying \cup Balancing \cup {"certificate"} \/ BootstrapServer(i)
    /\ run'[i].at \in Balancing => run[i].at \in Balancing \/ FindCertificate(i) \/ StoreCertificate(i)
    /\ run'[i].at = "waitBalancer" => ListBalancers(i) \/ UpdateBalancer(i) \/ MakeBalancer(i)
    /\ run'[i].at \in Naming =>
          run[i].at \in Naming \/ ChooseAddress(i) \/ AttachAddress(i) \/ MakeAddress(i) \/ WaitBalancer(i)
    /\ run'[i].at = "direct" => WriteRecord(i)
    /\ run'[i].at \in Elsewhere => run[i].at \in Elsewhere \/ FindImage(i)
    /\ run'[i].at = "done" =>
          \/ BootstrapServer(i) \/ ChooseAddress(i) \/ AttachAddress(i) \/ MakeAddress(i)
          \/ WriteRecord(i) \/ Secure(i)

\* So a step on resources comes.
LEMMA ResourceReaches == ASSUME RunShape, NEW i \in Installers, Resource(i) PROVE Reaches(i)
<1> USE ResourceWays
    DEF Reaches, Comes, At, Serving, Working, Joined, Grouped, Addressing, Balancing, Naming, Elsewhere,
        Holding, Publishing, Importing, Choosing, Certifying
<1>1. CASE FindNetwork(i)  BY <1>1 DEF FindNetwork
<1>2. CASE MakeNetwork(i)  BY <1>2 DEF MakeNetwork
<1>3. CASE FindGroup(i)  BY <1>3 DEF FindGroup
<1>4. CASE MakeGroup(i)  BY <1>4 DEF MakeGroup
<1>5. CASE AddRule(i)  BY <1>5 DEF AddRule
<1>6. CASE GroupReady(i)  BY <1>6 DEF GroupReady
<1>7. CASE FindServer(i)  BY <1>7 DEF FindServer
<1>8. CASE MakeServer(i)  BY <1>8 DEF MakeServer
<1>9. CASE WaitServer(i)  BY <1>9 DEF WaitServer
<1>10. CASE AdoptServer(i)  BY <1>10 DEF AdoptServer
<1>11. CASE AttachGroup(i)  BY <1>11 DEF AttachGroup
<1>12. CASE BootstrapServer(i)  BY <1>12 DEF BootstrapServer
<1>13. CASE ChooseAddress(i)  BY <1>13 DEF ChooseAddress
<1>14. CASE AttachAddress(i)  BY <1>14 DEF AttachAddress
<1>15. CASE MakeAddress(i)  BY <1>15 DEF MakeAddress
<1> QED
  BY <1>1, <1>2, <1>3, <1>4, <1>5, <1>6, <1>7, <1>8, <1>9, <1>10, <1>11, <1>12, <1>13, <1>14, <1>15
     DEF Resource

\* So a step on images comes.
LEMMA ImageReaches == ASSUME RunShape, NEW i \in Installers, Image(i) PROVE Reaches(i)
<1> USE ImageWays
    DEF Reaches, Comes, At, Serving, Working, Joined, Grouped, Addressing, Balancing, Naming, Elsewhere,
        Holding, Publishing, Importing, Choosing, Certifying
<1>1. CASE FindImage(i)  BY <1>1 DEF FindImage
<1>2. CASE FindOwnerImage(i)  BY <1>2 DEF FindOwnerImage
<1>3. CASE DropImage(i)  BY <1>3 DEF DropImage
<1>4. CASE WaitImage(i)  BY <1>4 DEF WaitImage
<1>5. CASE FindImportNetwork(i)  BY <1>5 DEF FindImportNetwork
<1>6. CASE MakeImportNetwork(i)  BY <1>6 DEF MakeImportNetwork
<1>7. CASE Import(i)  BY <1>7 DEF Import
<1>8. CASE Upload(i)  BY <1>8 DEF Upload
<1>9. CASE MarkImage(i)  BY <1>9 DEF MarkImage
<1>10. CASE ShareImage(i)  BY <1>10 DEF ShareImage
<1>11. CASE WaitVisible(i)  BY <1>11 DEF WaitVisible
<1>12. CASE Deadline(i)  BY <1>12 DEF Deadline
<1> QED
  BY <1>1, <1>2, <1>3, <1>4, <1>5, <1>6, <1>7, <1>8, <1>9, <1>10, <1>11, <1>12 DEF Image

\* So a step that exposes the appliance comes.
LEMMA ExposeReaches == ASSUME RunShape, NEW i \in Installers, Expose(i) PROVE Reaches(i)
<1> USE ExposeWays
    DEF Reaches, Comes, At, Serving, Working, Joined, Grouped, Addressing, Balancing, Naming, Elsewhere,
        Holding, Publishing, Importing, Choosing, Certifying
<1>1. CASE FindZone(i)  BY <1>1 DEF FindZone
<1>2. CASE MakeZone(i)  BY <1>2 DEF MakeZone
<1>3. CASE WaitZone(i)  BY <1>3 DEF WaitZone
<1>4. CASE ListRecords(i)  BY <1>4 DEF ListRecords
<1>5. CASE WriteRecord(i)  BY <1>5 DEF WriteRecord
<1>6. CASE FindCertificate(i)  BY <1>6 DEF FindCertificate
<1>7. CASE ListTexts(i)  BY <1>7 DEF ListTexts
<1>8. CASE WriteText(i)  BY <1>8 DEF WriteText
<1>9. CASE Validate(i)  BY <1>9 DEF Validate
<1>10. CASE CleanUp(i)  BY <1>10 DEF CleanUp
<1>11. CASE StoreCertificate(i)  BY <1>11 DEF StoreCertificate
<1>12. CASE ListBalancers(i)  BY <1>12 DEF ListBalancers
<1>13. CASE UpdateBalancer(i)  BY <1>13 DEF UpdateBalancer
<1>14. CASE MakeBalancer(i)  BY <1>14 DEF MakeBalancer
<1>15. CASE WaitBalancer(i)  BY <1>15 DEF WaitBalancer
<1> QED
  BY <1>1, <1>2, <1>3, <1>4, <1>5, <1>6, <1>7, <1>8, <1>9, <1>10, <1>11, <1>12, <1>13, <1>14, <1>15
     DEF Expose

\* And so does every step of an installer.
LEMMA StepReaches ==
    ASSUME RunShape, NEW i \in Installers, Works(i) \/ Disturbed(i) PROVE Reaches(i)
<1>1. ASSUME Start(i) \/ Secure(i) \/ Disturbed(i) PROVE Reaches(i)
  <2> USE OtherWays
      DEF Reaches, Comes, At, Serving, Working, Joined, Grouped, Addressing, Balancing, Naming, Elsewhere,
          Holding, Publishing, Importing, Choosing, Certifying
  <2>1. CASE Start(i) \/ Again(i) \/ Interrupt(i) \/ UploadFails(i)  BY <2>1
  <2>2. CASE Secure(i)  BY <2>2
  <2>3. CASE Invalid(i)  BY <2>3 DEF Invalid
  <2>4. CASE CleanUpFails(i)  BY <2>4 DEF CleanUpFails
  <2> QED
    BY <1>1, <2>1, <2>2, <2>3, <2>4 DEF Disturbed
<1> QED
  BY <1>1, ResourceReaches, ImageReaches, ExposeReaches DEF Works

-----------------------------------------------------------------------------
(* What is made stays: groups, rules, certificates and, while a run is at  *)
(* work, servers.                                                          *)

\* A step takes none of it away, and changes none of what is fixed.
Grows ==
    /\ groups \subseteq groups' /\ \A g \in groups : rules[g] \subseteq rules'[g]
    /\ \A c \in Ids : certs[c].site # 0 => certs'[c].site = certs[c].site
    /\ \A s \in Existing \cap Existing' :
          /\ servers'[s].site = servers[s].site /\ servers'[s].image = servers[s].image
          /\ servers'[s].net = servers[s].net /\ servers[s].groups \subseteq servers'[s].groups
          /\ servers[s].status = "active" => servers'[s].status = "active"
          /\ servers'[s].status = "creating" => servers[s].status = "creating"

\* Which steps change rules, records and load balancers.
LEMMA ChangedToo ==
    ASSUME NEW i \in Installers, Works(i) \/ Disturbed(i)
    PROVE  /\ rules' = rules \/ MakeGroup(i) \/ AddRule(i)
           /\ records' = records \/ WriteRecord(i)
           /\ balancers' = balancers \/ UpdateBalancer(i) \/ MakeBalancer(i)
           /\ removed' = removed
<1>1. CASE (Start(i) \/ Secure(i)) /\ UNCHANGED <<resourceVars, images, exposureVars>>
  BY <1>1 DEF resourceVars, exposureVars
<1>2. CASE Disturbed(i)
  BY <1>2 DEF Disturbed, resourceVars, exposureVars
<1>3. CASE Resource(i)
  BY <1>3 DEF Resource, FindNetwork, MakeNetwork, FindGroup, MakeGroup, AddRule, GroupReady,
       FindServer, MakeServer, WaitServer, AdoptServer, AttachGroup, BootstrapServer,
       ChooseAddress, AttachAddress, MakeAddress, resourceVars
<1>4. CASE Image(i)
  BY <1>4 DEF Image
<1>5. CASE Expose(i)
  BY <1>5 DEF Expose, FindZone, MakeZone, WaitZone, ListRecords, WriteRecord, FindCertificate,
       ListTexts, WriteText, Validate, CleanUp, StoreCertificate, ListBalancers, UpdateBalancer,
       MakeBalancer, WaitBalancer, exposureVars
<1> QED
  BY <1>1, <1>2, <1>3, <1>4, <1>5 DEF Works

\* A run that makes a server makes it of its image, in its network and its group.
LEMMA ServerMade ==
    ASSUME Inv, NEW i \in Installers, MakeServer(i)
    PROVE  \E s \in Ids \ Existing :
              /\ servers' = [servers EXCEPT ![s] =
                    [status |-> "creating", site |-> plan[i].site, image |-> run[i].image,
                     net |-> run[i].net, groups |-> {run[i].group}, safe |-> FALSE]]
              /\ DOMAIN servers' = Ids /\ \A x \in Ids \ {s} : servers'[x] = servers[x]
              /\ servers'[s].status = "creating" /\ servers'[s].site = plan[i].site
              /\ servers'[s].image = run[i].image /\ servers'[s].net = run[i].net
              /\ servers'[s].groups = {run[i].group}
              /\ run'[i].server = s /\ run'[i].at = "waitServer"
<1>0. RunShape /\ run[i].at # "absent" /\ DOMAIN servers = Ids
  BY DEF Inv, RunInv, ThingInv, ThingShape, MakeServer, At
<1>1. PICK s \in Ids :
          /\ IsNext(s, Existing)
          /\ servers' = [servers EXCEPT ![s] =
                [status |-> "creating", site |-> plan[i].site, image |-> run[i].image,
                 net |-> run[i].net, groups |-> {run[i].group}, safe |-> FALSE]]
          /\ Learns(i, [server |-> s], "waitServer")
  BY DEF MakeServer
<1>2. run'[i].server = s /\ run'[i].at = "waitServer"
  BY <1>0, <1>1, ServerFacts, Arrives
<1> QED
  BY <1>0, <1>1, <1>2 DEF IsNext

\* What a step of a run does to the servers that there are.
LEMMA ServersGrow ==
    ASSUME Inv, NEW i \in Installers, Works(i) \/ Disturbed(i), NEW s \in Existing
    PROVE  /\ s \in Existing' /\ servers'[s].site = servers[s].site
           /\ servers'[s].image = servers[s].image /\ servers'[s].net = servers[s].net
           /\ servers[s].groups \subseteq servers'[s].groups
           /\ servers'[s].status = servers[s].status
<1>0. s \in Ids /\ DOMAIN servers = Ids /\ DOMAIN servers[s] = ServerFields
  BY DEF Inv, ThingInv, ThingShape, Existing
<1>1. CASE servers' = servers
  BY <1>1 DEF Existing
<1>2. CASE MakeServer(i)
  BY <1>0, <1>2, ServerMade DEF Existing
<1>3. CASE AttachGroup(i)
  <2>1. servers' = [servers EXCEPT ![run[i].server].groups = @ \cup {run[i].group}]
    BY <1>3 DEF AttachGroup
  <2>2. CASE s = run[i].server
    BY <1>0, <2>1, <2>2 DEF ServerFields, Existing
  <2>3. CASE s # run[i].server
    BY <1>0, <2>1, <2>3 DEF Existing
  <2> QED
    BY <2>2, <2>3
<1>4. CASE BootstrapServer(i)
  <2>1. servers' = [servers EXCEPT ![run[i].server].safe = @ \/ plan[i].bootstrap]
    BY <1>4 DEF BootstrapServer
  <2>2. CASE s = run[i].server
    BY <1>0, <2>1, <2>2 DEF ServerFields, Existing
  <2>3. CASE s # run[i].server
    BY <1>0, <2>1, <2>3 DEF Existing
  <2> QED
    BY <2>2, <2>3
<1> QED
  BY <1>1, <1>2, <1>3, <1>4, ChangedBy

\* Groups, their rules and certificates only become more.
LEMMA GroupsGrow ==
    ASSUME CloudShape, NEW i \in Installers, Works(i) \/ Disturbed(i)
    PROVE  /\ groups \subseteq groups' /\ \A g \in groups : rules[g] \subseteq rules'[g]
           /\ groups' \subseteq Ids /\ DOMAIN rules' = Ids
<1>1. CASE MakeGroup(i)
  BY <1>1 DEF MakeGroup, IsNext, CloudShape
<1>2. CASE AddRule(i)
  BY <1>2 DEF AddRule, CloudShape
<1> QED
  BY <1>1, <1>2, ChangedBy, ChangedToo DEF CloudShape

\* A certificate is stored beside the others.
LEMMA CertificatesGrow ==
    ASSUME CloudShape, NEW i \in Installers, Works(i) \/ Disturbed(i)
    PROVE  /\ \A c \in Ids : certs[c].site # 0 => certs'[c].site = certs[c].site
           /\ DOMAIN certs' = Ids /\ \A c \in Ids : DOMAIN certs'[c] = {"site", "fresh"}
<1>1. CASE StoreCertificate(i)
  <2>1. PICK c \in Ids : /\ certs[c] = NoCert
                         /\ certs' = [certs EXCEPT ![c] = [site |-> Site(i), fresh |-> TRUE]]
    BY <1>1 DEF StoreCertificate, IsNext
  <2> QED
    BY <2>1 DEF NoCert, CloudShape
<1> QED
  BY <1>1, ChangedBy DEF CloudShape

\* A step of a run makes more of each, and takes nothing away.
LEMMA StepGrows ==
    ASSUME Inv, CloudShape, NEW i \in Installers, Works(i) \/ Disturbed(i)
    PROVE  Grows /\ CloudShape' /\ Existing \subseteq Existing'
<1>1. DOMAIN records' = Sites
  BY ChangedToo DEF CloudShape, WriteRecord
<1> QED
  BY <1>1, ServersGrow, GroupsGrow, CertificatesGrow DEF Grows, CloudShape

\* What STACKIT and time do to the servers; only an operator takes one away.
LEMMA ServersFromOutside ==
    ASSUME Inv, Platform \/ Trouble, NEW s \in Existing
    PROVE  /\ (\E i \in Installers : Busy(i)) => s \in Existing'
           /\ s \in Existing' =>
                 /\ servers'[s].site = servers[s].site
                 /\ servers'[s].image = servers[s].image /\ servers'[s].net = servers[s].net
                 /\ servers[s].groups \subseteq servers'[s].groups
                 /\ servers[s].status = "active" => servers'[s].status = "active"
                 /\ servers'[s].status = "creating" => servers[s].status = "creating"
<1>0. s \in Ids /\ DOMAIN servers = Ids /\ DOMAIN servers[s] = ServerFields
  BY DEF Inv, ThingInv, ThingShape, Existing
<1>1. ASSUME NEW x \in Ids, NEW e \in {"active", "error"}, servers[x].status = "creating",
             servers' = [servers EXCEPT ![x].status = e]
      PROVE  /\ s \in Existing' /\ servers'[s].site = servers[s].site
             /\ servers'[s].image = servers[s].image /\ servers'[s].net = servers[s].net
             /\ servers[s].groups = servers'[s].groups
             /\ servers[s].status = "active" => servers'[s].status = "active"
             /\ servers'[s].status = "creating" => servers[s].status = "creating"
  <2>1. CASE s = x
    BY <1>0, <1>1, <2>1 DEF ServerFields, Existing
  <2>2. CASE s # x
    BY <1>0, <1>1, <2>2 DEF Existing
  <2> QED
    BY <2>1, <2>2
<1>2. CASE \E x \in Ids : ServerStarts(x) \/ ServerBreaks(x)
  BY <1>1, <1>2 DEF ServerStarts, ServerBreaks
<1>3. CASE \E x \in Ids : RemoveServer(x)
  <2>1. PICK x \in Ids : RemoveServer(x)
    BY <1>3
  <2>2. servers' = [servers EXCEPT ![x] = NoServer] /\ ~\E i \in Installers : Busy(i)
    BY <2>1 DEF RemoveServer
  <2>3. CASE s = x
    BY <1>0, <2>2, <2>3 DEF NoServer, Existing
  <2>4. CASE s # x
    BY <1>0, <2>2, <2>4 DEF Existing
  <2> QED
    BY <2>2, <2>3, <2>4
<1>4. CASE servers' = servers
  BY <1>4 DEF Existing
<1> QED
  BY <1>2, <1>3, <1>4
     DEF Platform, Trouble, ImageReady, ImageAges, ZoneEnds, BalancerEnds, CertificateAges

\* STACKIT and time take no group, no rule and no certificate away.
LEMMA OutsideGrows ==
    ASSUME Inv, CloudShape, Platform \/ Trouble
    PROVE  /\ Grows /\ CloudShape' /\ ((\E i \in Installers : Busy(i)) => Existing \subseteq Existing')
           /\ \A s \in Existing' : s \in Existing
<1>1. groups' = groups /\ rules' = rules
  BY DEF Platform, Trouble, ServerStarts, ServerBreaks, RemoveServer
<1>2. records' = records
  BY DEF Platform, Trouble, ZoneEnds, BalancerEnds, CertificateAges
<1>3. /\ \A c \in Ids : certs[c].site # 0 => certs'[c].site = certs[c].site
      /\ DOMAIN certs' = Ids /\ \A c \in Ids : DOMAIN certs'[c] = {"site", "fresh"}
  <2>1. CASE \E c \in Ids : CertificateAges(c)
    BY <2>1 DEF CertificateAges, CloudShape
  <2>2. CASE certs' = certs
    BY <2>2 DEF CloudShape
  <2> QED
    BY <2>1, <2>2 DEF Platform, Trouble, ZoneEnds, BalancerEnds
<1>4. \A s \in Existing' : s \in Existing
  <2>0. DOMAIN servers = Ids /\ \A x \in Ids : DOMAIN servers[x] = ServerFields
    BY DEF Inv, ThingInv, ThingShape
  <2>1. ASSUME NEW x \in Ids, ServerStarts(x) \/ ServerBreaks(x) \/ RemoveServer(x), NEW s \in Existing'
        PROVE  s \in Existing
    BY <2>0, <2>1 DEF ServerStarts, ServerBreaks, RemoveServer, Existing, NoServer
  <2>2. CASE servers' = servers
    BY <2>2 DEF Existing
  <2> QED
    BY <2>1, <2>2
       DEF Platform, Trouble, ImageReady, ImageAges, ZoneEnds, BalancerEnds, CertificateAges
<1> QED
  BY <1>1, <1>2, <1>3, <1>4, ServersFromOutside DEF Grows, CloudShape

-----------------------------------------------------------------------------
(* Fitness is kept.                                                        *)

\* A server that stays, stays behind all rules.
LEMMA CoveredGrows ==
    ASSUME Grows, NEW s \in Existing \cap Existing', Covered(s) PROVE Covered(s)'
  BY DEF Grows, Covered

\* A new server is behind all rules, and made from an image.
LEMMA ServersCoveredKept ==
    ASSUME Inv, Fitness, NEW i \in Installers, Works(i) \/ Disturbed(i)
    PROVE  ServersCovered'
<1>0. Grows /\ Existing \subseteq Existing'
  BY StepGrows DEF Fitness
<1>1. ASSUME NEW s \in Existing', s \in Existing
      PROVE  /\ servers'[s].status = "creating" => servers'[s].image # 0
             /\ servers'[s].image # 0 => Covered(s)'
  BY <1>0, <1>1, CoveredGrows DEF Grows, Fitness, ServersCovered
<1>2. ASSUME NEW s \in Existing', s \notin Existing
      PROVE  servers'[s].image # 0 /\ Covered(s)'
  <2>1. MakeServer(i)
    <3>1. CASE AttachGroup(i) \/ BootstrapServer(i) \/ servers' = servers
      BY <1>2, <3>1
         DEF AttachGroup, BootstrapServer, Existing, Inv, ThingInv, ThingShape, ServerFields
    <3> QED
      BY <3>1, ChangedBy
  <2>2. /\ servers'[s].image = run[i].image /\ servers'[s].groups = {run[i].group}
    BY <1>2, <2>1, ServerMade DEF Existing
  <2>3. run[i].at \in Grouped /\ run[i].at \in Known
    BY <2>1 DEF MakeServer, At, Grouped, Choosing, Known, Pictured, Sighted
  <2>4. run[i].group \in groups /\ Rules \subseteq rules[run[i].group] /\ run[i].image \in Ids
    BY <2>3 DEF Fitness, Fitting, HasRules, ImageNamed
  <2>5. groups' = groups /\ rules' = rules
    BY <2>1 DEF MakeServer
  <2> QED
    BY <2>2, <2>4, <2>5, IdsAreNumbers DEF Covered
<1> QED
  BY <1>1, <1>2 DEF ServersCovered

\* The group that a run finds or makes, and its rules so far.
LEMMA RulesLearnt ==
    ASSUME RunShape, CloudShape, NEW i \in Installers, FindGroup(i) \/ MakeGroup(i),
           run'[i].at = "rules"
    PROVE  run'[i].group \in groups' /\ run'[i].have \subseteq rules'[run'[i].group]
<1>0. run[i].at # "absent"
  BY DEF FindGroup, MakeGroup, At
<1>1. CASE FindGroup(i)
  <2>1. ~To(i, "makeGroup")
    BY <1>0, GoesTo
  <2>2. PICK g \in groups : Learns(i, [group |-> g, have |-> rules[g]], "rules")
    BY <1>1, <2>1 DEF FindGroup
  <2>3. run'[i].group = g /\ run'[i].have = rules[g]
    BY <2>2, GroupNoted
  <2> QED
    BY <1>1, <2>3 DEF FindGroup, resourceVars
<1>2. CASE MakeGroup(i)
  <2>1. PICK g \in Ids : /\ groups' = groups \cup {g} /\ rules' = [rules EXCEPT ![g] = {}]
                         /\ Learns(i, [group |-> g, have |-> {}], "rules")
    BY <1>2 DEF MakeGroup
  <2>2. run'[i].group = g /\ run'[i].have = {}
    BY <2>1, GroupNoted
  <2> QED
    BY <2>1, <2>2
<1> QED
  BY <1>1, <1>2

\* A rule that a run adds, it counts.
LEMMA RuleAdded ==
    ASSUME RunShape, CloudShape, NEW i \in Installers, HasRules(i), AddRule(i)
    PROVE  run'[i].group \in groups' /\ run'[i].have \subseteq rules'[run'[i].group]
<1>1. PICK r : /\ rules' = [rules EXCEPT ![run[i].group] = @ \cup {r}]
               /\ Learns(i, [have |-> run[i].have \cup {r}], "rules")
  BY DEF AddRule
<1>2. run'[i].have = run[i].have \cup {r} /\ run'[i].group = run[i].group
  <2>1. DOMAIN run = Installers /\ DOMAIN run[i] = Fields
    BY DEF RunShape
  <2> QED
    BY <1>1, <2>1 DEF Learns, Fields
<1>3. run[i].group \in groups /\ run[i].have \subseteq rules[run[i].group]
  BY DEF AddRule, At, HasRules
<1>4. groups' = groups
  BY DEF AddRule
<1> QED
  BY <1>1, <1>2, <1>3, <1>4 DEF CloudShape

\* A run has the rules of its group, which others only add to.
LEMMA HasRulesKept ==
    ASSUME Inv, CloudShape, NEW i \in Installers, HasRules(i), Works(i) \/ Disturbed(i)
    PROVE  HasRules(i)'
<1>0. RunShape /\ Grows /\ Reaches(i)
  BY StepGrows, StepReaches DEF Inv, RunInv
<1>1. ASSUME run'[i].at = "rules"
      PROVE  run'[i].group \in groups' /\ run'[i].have \subseteq rules'[run'[i].group]
  BY <1>0, <1>1, RulesLearnt, RuleAdded DEF Reaches
<1>2. ASSUME run'[i].at \in Grouped
      PROVE  run'[i].group \in groups' /\ Rules \subseteq rules'[run'[i].group]
  <2>1. run[i].group \in groups /\ Rules \subseteq rules[run[i].group]
    <3>1. CASE GroupReady(i)
      BY <3>1 DEF GroupReady, At, HasRules
    <3>2. CASE run[i].at \in Grouped
      BY <3>2 DEF HasRules
    <3> QED
      BY <1>0, <1>2, <3>1, <3>2 DEF Reaches
  <2>2. run'[i].group = run[i].group
    <3>1. ~(FindGroup(i) \/ MakeGroup(i))
      BY <1>0, <1>2, ResourceWays
         DEF Comes, Grouped, Importing, Choosing
    <3>2. run'[i].at \notin Forgotten
      BY <1>2 DEF Grouped, Importing, Choosing, Forgotten
    <3> QED
      BY <1>0, <3>1, <3>2, RemembersNotes DEF Recalls
  <2> QED
    BY <1>0, <2>1, <2>2 DEF Grows
<1> QED
  BY <1>1, <1>2 DEF HasRules, At

\* Each phase that depends on the mode is for its mode.
LEMMA ModeFitsKept ==
    ASSUME RunShape, NEW i \in Installers, ModeFits(i), Works(i) \/ Disturbed(i)
    PROVE  ModeFits(i)'
<1>0. Reaches(i) /\ Stepped(i) /\ plan' = plan
  BY StepReaches, CameFrom DEF Stepped
<1>1. ASSUME BootstrapServer(i)
      PROVE  run'[i].at = CASE plan[i].mode = "balancer" -> "certificate"
                            [] plan[i].mode = "private"  -> "done"
                            [] OTHER                     -> "address"
  <2>1. run'[i].at = After(i, "bootstrap")
    BY <1>0, <1>1, Arrives, Order DEF BootstrapServer, Stepped
  <2> QED
    BY <2>1 DEF After
<1>2. ASSUME ChooseAddress(i) \/ AttachAddress(i) \/ MakeAddress(i), run'[i].at \in Naming
      PROVE  plan[i].mode = "named"
  <2>1. run'[i].at = After(i, "address")
    <3>1. /\ \A x : ~Learns(i, [address |-> x], "attachAddress")
          /\ ~To(i, "makeAddress") /\ ~Stops(i, "refused")
      BY <1>0, <1>2, Arrives DEF Stepped, Naming
    <3>2. ChooseAddress(i) => \E x : Learns(i, [address |-> x], After(i, "address"))
      BY <3>1 DEF ChooseAddress
    <3>3. MakeAddress(i) => \E x : Learns(i, [address |-> x], After(i, "address"))
      BY DEF MakeAddress
    <3>4. AttachAddress(i) => To(i, After(i, "address"))
      BY DEF AttachAddress
    <3> QED
      BY <1>0, <1>2, <3>2, <3>3, <3>4, Arrives, Order DEF Stepped
  <2> QED
    BY <1>2, <2>1 DEF After, Naming
<1>3. ASSUME WriteRecord(i), run'[i].at = "direct" PROVE plan[i].mode = "named"
  <2>1. After(i, "record") = "direct"
    <3>1. ~Stops(i, "failed")
      BY <1>0, <1>3, Arrives DEF Stepped
    <3>2. \E facts : Learns(i, facts, After(i, "record"))
      BY <1>3, <3>1 DEF WriteRecord
    <3> QED
      BY <1>0, <1>3, <3>2, Arrives, Order DEF Stepped
  <2> QED
    BY <2>1 DEF After
<1>4. run'[i].at \in Addressing => plan[i].mode \notin {"private", "balancer"}
  BY <1>0, <1>1 DEF Reaches, ModeFits, Addressing
<1>5. run'[i].at \in Certifying \cup Balancing \cup {"certificate"} => plan[i].mode = "balancer"
  BY <1>0, <1>1 DEF Reaches, ModeFits, Certifying, Balancing
<1>6. run'[i].at \in Naming => plan[i].mode \in {"named", "balancer"}
  BY <1>0, <1>2 DEF Reaches, ModeFits, WaitBalancer, At, Balancing
<1> QED
  BY <1>0, <1>3, <1>4, <1>5, <1>6 DEF Reaches, ModeFits, At

\* The certificate of a run is one for its site.
LEMMA HasCertificateKept ==
    ASSUME Inv, CloudShape, NEW i \in Installers, ModeFits(i), HasCertificate(i), Works(i) \/ Disturbed(i)
    PROVE  HasCertificate(i)'
<1>0. RunShape /\ Grows /\ Reaches(i) /\ Stepped(i) /\ plan' = plan /\ Site(i) # 0
  BY StepGrows, StepReaches, CameFrom, IdsAreNumbers
     DEF Inv, RunInv, Stepped, ThingInv, ThingShape, Site
<1> SUFFICES ASSUME run'[i].at \in Balancing \/ (run'[i].at \in Naming /\ plan[i].mode = "balancer")
             PROVE  run'[i].cert \in Ids /\ certs'[run'[i].cert].site = Site(i)
  BY <1>0 DEF HasCertificate, Site
<1>1. run'[i].at \notin Forgotten \cup {"present", "absent"}
  BY DEF Balancing, Naming, Forgotten
<1>2. CASE FindCertificate(i)
  <2>1. ~To(i, "present")
    BY <1>0, <1>1, Arrives DEF Stepped
  <2>2. PICK c \in Ids : /\ certs[c] = [site |-> Site(i), fresh |-> TRUE]
                         /\ Learns(i, [cert |-> c], After(i, "certificate"))
    BY <1>2, <2>1 DEF FindCertificate
  <2>3. run'[i].cert = c
    BY <1>0, <2>2, CertificateNoted
  <2> QED
    BY <1>0, <2>2, <2>3 DEF Grows
<1>3. CASE StoreCertificate(i)
  <2>1. PICK c \in Ids : /\ certs' = [certs EXCEPT ![c] = [site |-> Site(i), fresh |-> TRUE]]
                         /\ Learns(i, [cert |-> c], After(i, "certificate"))
    BY <1>3 DEF StoreCertificate, IsNext
  <2>2. run'[i].cert = c
    BY <1>0, <2>1, CertificateNoted
  <2> QED
    BY <2>1, <2>2 DEF CloudShape
<1>4. CASE ~FindCertificate(i) /\ ~StoreCertificate(i)
  <2>1. run'[i].cert = run[i].cert
    BY <1>0, <1>1, <1>4, RemembersNotes DEF Recalls
  <2>2. CASE run[i].at \in Balancing \/ (run[i].at \in Naming /\ plan[i].mode = "balancer")
    BY <1>0, <2>1, <2>2 DEF HasCertificate, Grows
  <2>3. CASE /\ plan[i].mode = "balancer" /\ run'[i].at \in Naming
             /\ ChooseAddress(i) \/ AttachAddress(i) \/ MakeAddress(i) \/ WaitBalancer(i)
    BY <2>2, <2>3
       DEF ModeFits, ChooseAddress, AttachAddress, MakeAddress, WaitBalancer, At, Addressing,
       Balancing
  <2> QED
    BY <1>0, <1>4, <2>2, <2>3 DEF Reaches
<1> QED
  BY <1>2, <1>3, <1>4

\* The image of a run is one of those that there may be.
LEMMA ImageNamedKept ==
    ASSUME Inv, NEW i \in Installers, ImageNamed(i), Works(i) \/ Disturbed(i)
    PROVE  ImageNamed(i)'
<1>0. RunShape /\ Comings(i) /\ Stepped(i)
  BY StepComings, CameFrom DEF Inv, RunInv
<1> SUFFICES ASSUME run'[i].at \in Known PROVE run'[i].image \in Ids
  BY DEF ImageNamed
<1>1. run'[i].at \notin Forgotten \cup {"ownerImage", "importNetwork", "absent"}
  BY DEF Known, Pictured, Sighted, Holding, Publishing, Forgotten
<1>2. ASSUME NEW m \in Ids, Chosen(i, m) PROVE run'[i].image \in Ids
  BY <1>0, <1>2, ImageFacts DEF Chosen
<1>3. ~To(i, "ownerImage") /\ ~To(i, "importNetwork") /\ ~Stops(i, "refused")
  BY <1>0, <1>1, Arrives DEF Stepped, Forgotten
<1>4. \A p : Found(p) \subseteq Ids
  BY DEF Found, Local, Matching, Listed
<1>5. CASE FindImage(i)
  BY <1>2, <1>3, <1>4, <1>5 DEF FindImage, Configured, Listed
<1>6. CASE FindOwnerImage(i)
  BY <1>2, <1>3, <1>4, <1>6 DEF FindOwnerImage
<1>7. CASE Import(i)
  BY <1>0, <1>7, ImageFacts DEF Import
<1>8. CASE ~FindImage(i) /\ ~FindOwnerImage(i) /\ ~Import(i)
  BY <1>0, <1>1, <1>8, Remembers DEF Comings, Recalls, ImageNamed
<1> QED
  BY <1>5, <1>6, <1>7, <1>8

\* The server that a run finds by its name: behind all rules, and working if
\* the run goes on to its bootstrap.
LEMMA ServerFound ==
    ASSUME Inv, Fitness, NEW i \in Installers, FindServer(i), run'[i].at \in Serving
    PROVE  /\ plan[i].server = 0 /\ servers' = servers
           /\ run'[i].at \in {"waitServer", "bootstrap"}
           /\ run'[i].server \in OfSite(Site(i)) /\ Covered(run'[i].server)
           /\ run'[i].at = "waitServer" => servers[run'[i].server].status = "creating"
           /\ run'[i].at = "bootstrap" => /\ servers[run'[i].server].status = "active"
                                         /\ servers[run'[i].server].image = run[i].image
<1>0. RunShape /\ run[i].at = "server" /\ plan[i].server = 0 /\ servers' = servers
  BY DEF Inv, RunInv, FindServer, At, resourceVars
<1>1. ~To(i, "makeServer") /\ ~Stops(i, "refused")
  BY <1>0, Arrives DEF Serving, Holding, Publishing
<1>2. PICK s \in Named(i) :
          \/ servers[s].status = "creating" /\ Learns(i, [server |-> s], "waitServer")
          \/ /\ servers[s].status = "active" /\ servers[s].image = run[i].image
             /\ Learns(i, [server |-> s], "bootstrap")
  BY <1>1, Order DEF FindServer
<1>3. s \in OfSite(Site(i)) /\ s \in Existing
  BY DEF Named, OfSite, Site
<1>4. run[i].image \in Ids
  BY <1>0 DEF Fitness, Fitting, ImageNamed, Known, Pictured, Sighted
<1>5. Covered(s)
  BY <1>2, <1>3, <1>4, IdsAreNumbers DEF Fitness, ServersCovered
<1>6. run'[i].server = s
  BY <1>0, <1>2, ServerFacts
<1>7. \/ run'[i].at = "waitServer" /\ servers[s].status = "creating"
      \/ run'[i].at = "bootstrap" /\ servers[s].status = "active" /\ servers[s].image = run[i].image
  BY <1>0, <1>2, Arrives
<1> QED
  BY <1>0, <1>3, <1>5, <1>6, <1>7

\* The server that is configured: it has the name, and is in the group or will be.
LEMMA ServerAccepted ==
    ASSUME Inv, Fitness, NEW i \in Installers, AdoptServer(i), run'[i].at \in Serving
    PROVE  /\ plan[i].server # 0 /\ servers' = servers
           /\ run'[i].at \in {"attachGroup", "bootstrap"}
           /\ run'[i].server \in OfSite(Site(i))
           /\ run'[i].at = "bootstrap" => Covered(run'[i].server)
<1> PICK s : s = plan[i].server
  OBVIOUS
<1>0. RunShape /\ run[i].at = "server" /\ s # 0 /\ s \in Ids /\ servers' = servers
  BY DEF Inv, RunInv, ThingInv, ThingShape, AdoptServer, At, resourceVars
<1>1. ~Stops(i, "refused")
  BY <1>0, Arrives DEF Serving, Holding, Publishing
<1>2. /\ Adoptable(i)
      /\ \/ Learns(i, [server |-> s], "attachGroup")
         \/ run[i].group \in servers[s].groups /\ Learns(i, [server |-> s], "bootstrap")
  BY <1>1, Order DEF AdoptServer
<1>3. s \in OfSite(Site(i))
  BY <1>0, <1>2 DEF Adoptable, OfSite, Existing, Site
<1>4. run[i].group \in groups /\ Rules \subseteq rules[run[i].group]
  BY <1>0 DEF Fitness, Fitting, HasRules, Grouped, Choosing
<1>5. run'[i].server = s
  BY <1>0, <1>2, ServerFacts
<1>6. \/ run'[i].at = "attachGroup"
      \/ run'[i].at = "bootstrap" /\ run[i].group \in servers[s].groups
  BY <1>0, <1>2, Arrives
<1> QED
  BY <1>0, <1>3, <1>4, <1>5, <1>6 DEF Covered

\* The server that a run makes is behind all rules.
LEMMA ServerMadeCovered ==
    ASSUME Inv, Fitness, NEW i \in Installers, Works(i) \/ Disturbed(i), MakeServer(i)
    PROVE  /\ run'[i].at = "waitServer" /\ (run[i].server \in OfSite(Site(i)))' /\ Covered(run[i].server)'
           /\ servers'[run'[i].server].image = run[i].image
<1>1. PICK s \in Ids \ Existing :
          /\ servers'[s].status = "creating" /\ servers'[s].site = plan[i].site
          /\ servers'[s].image = run[i].image
          /\ run'[i].server = s /\ run'[i].at = "waitServer"
  BY ServerMade
<1>2. s \in Existing' /\ plan' = plan
  BY <1>1, CameFrom DEF Existing, Inv, RunInv, Stepped
<1>3. Covered(s)'
  BY <1>1, <1>2, ServersCoveredKept DEF ServersCovered
<1> QED
  BY <1>1, <1>2, <1>3 DEF OfSite, Site, Covered

\* A run that stays with its server.
LEMMA ServerStays ==
    ASSUME Inv, Fitness, NEW i \in Installers, Works(i) \/ Disturbed(i),
           run[i].at \in Serving, run'[i].at \in Serving
    PROVE  /\ run'[i].server = run[i].server /\ run'[i].net = run[i].net
           /\ run'[i].image = run[i].image
<1>0. RunShape
  BY DEF Inv, RunInv
<1>1. run'[i].at \notin Forgotten
  BY DEF Serving, Holding, Publishing, Forgotten
<1>2. run[i].at \notin {"network", "makeNetwork", "server", "makeServer", "image", "ownerImage", "import"}
  BY DEF Serving, Holding, Publishing
<1> QED
  BY <1>0, <1>1, <1>2, Remembers
     DEF Recalls, FindNetwork, MakeNetwork, FindServer, MakeServer, AdoptServer, FindImage,
         FindOwnerImage, Import, At

\* A server that is put into the group, is behind its rules.
LEMMA ServerAttached ==
    ASSUME Inv, Fitness, NEW i \in Installers, AttachGroup(i)
    PROVE  Covered(run[i].server)'
<1> PICK s : s = run[i].server
  OBVIOUS
<1>0. /\ RunShape /\ run[i].at = "attachGroup" /\ groups' = groups /\ rules' = rules
      /\ DOMAIN servers = Ids /\ s \in Ids /\ DOMAIN servers[s] = ServerFields
  BY DEF Inv, RunInv, ThingInv, ThingShape, AttachGroup, At, HasServer, Holding, Existing
<1>1. run[i].group \in groups /\ Rules \subseteq rules[run[i].group]
  BY <1>0 DEF Fitness, Fitting, HasRules, Grouped
<1>2. servers' = [servers EXCEPT ![s].groups = @ \cup {run[i].group}]
  BY DEF AttachGroup
<1>3. run[i].group \in servers'[s].groups
  BY <1>0, <1>2 DEF ServerFields
<1>4. run'[i].server = s
  BY <1>0, GoesTo, Order DEF AttachGroup
<1> QED
  BY <1>0, <1>1, <1>3, <1>4 DEF Covered

\* The server of a run keeps its name and stays behind all rules.
LEMMA ServerGuarded ==
    ASSUME Inv, Fitness, NEW i \in Installers, Works(i) \/ Disturbed(i), run'[i].at \in Serving
    PROVE  /\ (run[i].server \in OfSite(Site(i)))'
           /\ run'[i].at # "attachGroup" => Covered(run[i].server)'
<1>0. Grows /\ Existing \subseteq Existing' /\ Reaches(i) /\ RunShape /\ plan' = plan
  BY StepGrows, StepReaches, CameFrom DEF Inv, RunInv, Fitness, Stepped
<1>1. CASE FindServer(i)
  BY <1>0, <1>1, ServerFound DEF OfSite, Existing, Site, FindServer, resourceVars, Covered
<1>2. CASE AdoptServer(i)
  BY <1>0, <1>2, ServerAccepted DEF OfSite, Existing, Site, AdoptServer, resourceVars, Covered
<1>3. CASE MakeServer(i)
  BY <1>3, ServerMadeCovered
<1>4. CASE run[i].at \in Serving
  <2> PICK s : s = run[i].server
    OBVIOUS
  <2>1. run'[i].server = s
    BY <1>4, ServerStays
  <2>2. s \in OfSite(Site(i)) /\ s \in Existing
    BY <1>4 DEF Fitness, Fitting, HasGuardedServer, OfSite
  <2>3. s \in Existing' /\ servers'[s].site = servers[s].site
    BY <1>0, <2>2 DEF Grows
  <2>4. ASSUME run'[i].at # "attachGroup" PROVE Covered(s)'
    <3>1. CASE AttachGroup(i)
      BY <2>1, <3>1, ServerAttached DEF Covered
    <3>2. CASE run[i].at # "attachGroup"
      <4>1. Covered(s)
        BY <1>4, <3>2 DEF Fitness, Fitting, HasGuardedServer
      <4> QED
        BY <1>0, <2>2, <2>3, <4>1, CoveredGrows
    <3>3. CASE FindServer(i) \/ AdoptServer(i) \/ MakeServer(i)
      BY <1>4, <3>3 DEF FindServer, AdoptServer, MakeServer, At, Serving, Holding, Publishing
    <3> QED
      BY <1>0, <2>4, <3>1, <3>2, <3>3 DEF Reaches
  <2> QED
    BY <1>0, <2>1, <2>2, <2>3, <2>4 DEF OfSite, Site, Covered
<1> QED
  BY <1>0, <1>1, <1>2, <1>3, <1>4 DEF Reaches

\* A run that needs the server's address has seen that it is in its network.
LEMMA ServerJoined ==
    ASSUME Inv, Fitness, NEW i \in Installers, Works(i) \/ Disturbed(i), run'[i].at \in Joined
    PROVE  servers'[run'[i].server].net = run'[i].net
<1>0. Grows /\ Existing \subseteq Existing' /\ Reaches(i) /\ RunShape /\ run[i].at # "absent"
  BY StepGrows, StepReaches, CameFrom DEF Inv, RunInv, Fitness, Stepped
<1>1. run'[i].at \in Serving
  BY DEF Joined, Serving, Holding, Publishing
<1>2. run[i].at \in Serving /\ servers[run[i].server].net = run[i].net
  <2>1. CASE run[i].at \in Joined
    BY <2>1 DEF Joined, Serving, Holding, Publishing, Fitness, Fitting, HasGuardedServer
  <2>2. CASE ChooseAddress(i)
    <3>1. ~Stops(i, "refused")
      BY <1>0, Arrives DEF Joined
    <3> QED
      BY <2>2, <3>1 DEF ChooseAddress, At, HasNic, Serving, Holding, Publishing
  <2>3. CASE ListBalancers(i)
    <3>1. ~Stops(i, "refused")
      BY <1>0, Arrives DEF Joined
    <3> QED
      BY <2>3, <3>1 DEF ListBalancers, At, HasPrivateIP, Serving, Holding, Publishing
  <2> QED
    BY <1>0, <2>1, <2>2, <2>3 DEF Reaches
<1>3. run'[i].server = run[i].server /\ run'[i].net = run[i].net
  BY <1>1, <1>2, ServerStays
<1>4. run[i].server \in Existing
  BY <1>2 DEF Fitness, Fitting, HasGuardedServer, OfSite
<1> QED
  BY <1>0, <1>2, <1>3, <1>4 DEF Grows

\* A server that the installer made or found by its name, works.
LEMMA ServerWorks ==
    ASSUME Inv, Fitness, NEW i \in Installers, Works(i) \/ Disturbed(i), run'[i].at \in Working,
           plan[i].server = 0
    PROVE  servers'[run'[i].server].status = "active"
<1>0. Grows /\ Existing \subseteq Existing' /\ Reaches(i) /\ RunShape /\ run[i].at # "absent"
  BY StepGrows, StepReaches, CameFrom DEF Inv, RunInv, Fitness, Stepped
<1>1. run'[i].at \in Serving /\ run'[i].at # "waitServer"
  BY DEF Working, Serving
<1>2. CASE FindServer(i)
  BY <1>1, <1>2, ServerFound
<1>3. CASE run[i].at \in Working \/ WaitServer(i)
  <2>1. run[i].at \in Serving
    BY <1>3 DEF Working, Serving, WaitServer, At, Holding
  <2>2. servers[run[i].server].status = "active"
    <3>1. ~Stops(i, "refused")
      BY <1>0, <1>1, Arrives DEF Serving, Holding, Publishing
    <3> QED
      BY <1>3, <3>1 DEF WaitServer, Fitness, Fitting, HasGuardedServer
  <2>3. run[i].server \in Existing
    BY <2>1 DEF Fitness, Fitting, HasGuardedServer, OfSite
  <2> QED
    BY <1>0, <1>1, <2>1, <2>2, <2>3, ServerStays DEF Grows
<1>4. ~AdoptServer(i) /\ ~AttachGroup(i)
  <2>1. ~AttachGroup(i)
    BY DEF AttachGroup, At, Fitness, Fitting, HasGuardedServer
  <2> QED
    BY <2>1 DEF AdoptServer
<1> QED
  BY <1>0, <1>2, <1>3, <1>4 DEF Reaches

\* What a run knows of its server is kept.
LEMMA HasGuardedServerKept ==
    ASSUME Inv, Fitness, NEW i \in Installers, Works(i) \/ Disturbed(i)
    PROVE  HasGuardedServer(i)'
<1>0. Reaches(i) /\ RunShape /\ Stepped(i) /\ plan' = plan
  BY StepReaches, CameFrom DEF Inv, RunInv, Stepped
<1>1. ASSUME run'[i].at = "makeServer" PROVE plan[i].server = 0
  BY <1>0, <1>1, CameFrom DEF FindServer
<1>2. ASSUME run'[i].at = "waitServer" PROVE plan[i].server = 0
  BY <1>0, <1>2 DEF Reaches, FindServer, MakeServer, Fitness, Fitting, HasGuardedServer, At
<1>3. ASSUME run'[i].at = "attachGroup" PROVE plan[i].server # 0
  BY <1>0, <1>3 DEF Reaches, AdoptServer
<1>4. ASSUME run'[i].at \in Serving
      PROVE  /\ (run[i].server \in OfSite(Site(i)))'
             /\ run'[i].at # "attachGroup" => Covered(run[i].server)'
  BY <1>4, ServerGuarded
<1>5. ASSUME run'[i].at \in Joined PROVE servers'[run'[i].server].net = run'[i].net
  BY <1>5, ServerJoined
<1>6. ASSUME run'[i].at \in Working, plan[i].server = 0
      PROVE  servers'[run'[i].server].status = "active"
  BY <1>6, ServerWorks
<1> QED
  BY <1>0, <1>1, <1>2, <1>3, <1>4, <1>5, <1>6 DEF HasGuardedServer, At

\* What another run knows is not disturbed.
LEMMA FittingStays ==
    ASSUME Inv, Fitness, Grows, NEW j \in Installers, Busy(j) => Existing \subseteq Existing',
           run'[j] = run[j], plan' = plan
    PROVE  Fitting(j)'
<1>0. Fitting(j)
  BY DEF Fitness
<1>1. HasRules(j)'
  BY <1>0 DEF Fitting, HasRules, Grows, At
<1>2. HasGuardedServer(j)'
  <2> PICK s : s = run[j].server
    OBVIOUS
  <2>1. ASSUME run[j].at \in Serving
        PROVE  /\ s \in Existing \cap Existing' /\ servers[s].site = Site(j)
               /\ servers'[s].site = servers[s].site /\ servers'[s].net = servers[s].net
               /\ servers[s].status = "active" => servers'[s].status = "active"
               /\ Covered(s) => Covered(s)'
    <3>1. Busy(j)
      BY <2>1 DEF Busy, Ended, Serving, Holding, Publishing
    <3>2. s \in Existing \cap Existing' /\ servers[s].site = Site(j)
      BY <1>0, <2>1, <3>1 DEF Fitting, HasGuardedServer, OfSite
    <3> QED
      BY <3>2, CoveredGrows DEF Grows
  <2>2. ASSUME run[j].at \in Serving
        PROVE  /\ (run[j].server \in OfSite(Site(j)))'
               /\ Covered(run[j].server) => Covered(run[j].server)'
    BY <2>1, <2>2 DEF OfSite, Site, Covered
  <2>3. Joined \subseteq Serving /\ Working \subseteq Serving
    BY DEF Joined, Working, Serving, Holding, Publishing
  <2> QED
    BY <1>0, <2>1, <2>2, <2>3 DEF Fitting, HasGuardedServer, At
<1>3. ModeFits(j)'
  BY <1>0 DEF Fitting, ModeFits, At
<1>4. HasCertificate(j)'
  <2>1. Site(j) # 0
    BY IdsAreNumbers DEF Inv, ThingInv, ThingShape, Site
  <2> QED
    BY <1>0, <2>1 DEF Fitting, HasCertificate, Site, Grows
<1>5. ImageNamed(j)'
  BY <1>0 DEF Fitting, ImageNamed
<1> QED
  BY <1>1, <1>2, <1>3, <1>4, <1>5 DEF Fitting

\* Every step keeps what the runs know of what they have made.
LEMMA FitnessKept == Inv /\ Fitness /\ [Next]_vars => Fitness'
<1> SUFFICES ASSUME Inv, Fitness, [Next]_vars PROVE Fitness'
  OBVIOUS
<1>1. CASE UNCHANGED vars
  BY <1>1 DEF vars, Fitness, CloudShape, ServersCovered, Covered, Existing, Fitting, HasRules,
       HasGuardedServer, OfSite, Site, ModeFits, HasCertificate, ImageNamed, At
<1>2. ASSUME NEW i \in Installers, Works(i) \/ Disturbed(i) PROVE Fitness'
  <2>0. Grows /\ CloudShape' /\ Existing \subseteq Existing' /\ Stepped(i) /\ RunShape
    BY <1>2, StepGrows, CameFrom DEF Inv, RunInv, Fitness
  <2>1. Fitting(i)'
    BY <1>2, <2>0, HasRulesKept, HasGuardedServerKept, ModeFitsKept, HasCertificateKept,
       ImageNamedKept
       DEF Fitness, Fitting
  <2>2. \A j \in Installers \ {i} : Fitting(j)'
    BY <2>0, FittingStays DEF Stepped
  <2> QED
    BY <1>2, <2>0, <2>1, <2>2, ServersCoveredKept DEF Fitness
<1>3. CASE Platform \/ Trouble
  <2>0. /\ Grows /\ CloudShape' /\ \A s \in Existing' : s \in Existing
        /\ (\E i \in Installers : Busy(i)) => Existing \subseteq Existing'
    BY <1>3, OutsideGrows DEF Fitness
  <2>1. plan' = plan /\ run' = run
    BY <1>3, OutsideServers
  <2>2. \A j \in Installers : Fitting(j)'
    BY <2>0, <2>1, FittingStays
  <2>3. ServersCovered'
    BY <2>0, CoveredGrows DEF ServersCovered, Fitness, Grows
  <2> QED
    BY <2>0, <2>2, <2>3 DEF Fitness
<1> QED
  BY <1>1, <1>2, <1>3 DEF Next

\* The clouds to start from are so.
LEMMA FitnessBegins == ASSUME AgreedStart PROVE Init => Fitness
<1> SUFFICES ASSUME Init PROVE Fitness
  OBVIOUS
<1>1. PICK c \in Scenarios :
        /\ plan = c.plan
        /\ run = [j \in Installers |-> NoRun(IF j \in c.present THEN "ready" ELSE "absent")]
        /\ groups = c.groups /\ rules = c.rules /\ servers = c.servers
        /\ records = [k \in Sites |-> {}] /\ certs = [x \in Ids |-> NoCert]
  BY DEF Init
<1>2. \A j \in Installers : run[j].at \in {"ready", "absent"}
  BY <1>1, NoRunFields
<1>3. CloudShape
  BY <1>1, ScenarioAssumption DEF CloudShape, NoCert
<1>4. ServersCovered
  BY <1>1 DEF AgreedStart, ServersCovered, Covered, Existing
<1>5. ASSUME NEW j \in Installers PROVE Fitting(j)
  BY <1>2 DEF Fitting, HasRules, HasGuardedServer, ModeFits, HasCertificate, ImageNamed, At, Grouped,
     Importing, Choosing, Serving, Holding, Publishing, Working, Joined, Addressing, Certifying,
     Balancing, Naming, Known, Pictured, Sighted
<1> QED
  BY <1>3, <1>4, <1>5 DEF Fitness

-----------------------------------------------------------------------------
(* The image that a run uses is there, and is the one of its server.       *)

\* No step changes who is at work, or what is configured.
LEMMA SameInstallers ==
    ASSUME Inv, [Next]_vars
    PROVE  plan' = plan /\ Present' = Present /\ \A i \in Installers : Lone(i)' <=> Lone(i)
<1>1. plan' = plan /\ Present' = Present
  <2>1. ASSUME NEW i \in Installers, Stepped(i) PROVE plan' = plan /\ Present' = Present
    BY <2>1 DEF Stepped, Present
  <2>2. CASE Platform \/ Trouble
    BY <2>2, OutsideServers DEF Present
  <2>3. CASE UNCHANGED vars
    BY <2>3 DEF vars, Present
  <2> QED
    BY <2>1, <2>2, <2>3, CameFrom DEF Next, Inv, RunInv
<1> QED
  BY <1>1 DEF Lone, Alone, Site

\* The image of a run, and of the server that it is about to wait for.
PictureAgrees(i) ==
    /\ run[i].at \in Sighted =>
          run[i].image \in Listed("home") /\ images[run[i].image].status = "available"
    /\ At(i, "server") /\ plan[i].server = 0 =>
          \A s \in OfSite(Site(i)) : servers[s].status = "creating" => servers[s].image = run[i].image

\* So it is for an installer that works alone, and for those that share an image.
LEMMA PicturesAgree ==
    ASSUME Inv, Fitness, Settledness, Standing, NEW i \in Installers, Lone(i)
    PROVE  PictureAgrees(i)
<1>1. CASE Present = {i}
  <2>1. HasImage(i) /\ ServersFit(i)
    BY <1>1 DEF Settledness, Settled, Pictures
  <2>2. Sighted \subseteq Pictured /\ "server" \in Choosing
    BY DEF Pictured, Choosing
  <2>3. ASSUME At(i, "server"), plan[i].server = 0, NEW s \in OfSite(Site(i)),
               servers[s].status = "creating"
        PROVE  servers[s].image = run[i].image
    <3>1. servers[s].image # 0
      BY <2>3 DEF Fitness, ServersCovered, OfSite
    <3>2. s \in Own(i)
      BY <2>3, <3>1 DEF Own, Site
    <3> QED
      BY <2>1, <2>2, <2>3, <3>2 DEF ServersFit, At
  <2> QED
    BY <2>1, <2>2, <2>3 DEF PictureAgrees, HasImage
<1>2. CASE Present # {i}
  <2>1. PICK m \in Ids : Stands(m)
    BY <1>2 DEF Standing, Lone
  <2>2. Sighted \subseteq Pictured /\ "server" \in Pictured
    BY DEF Pictured, Sighted
  <2>3. m \in Listed("home") /\ images[m].status = "available"
    BY <2>1 DEF Stands, Listed
  <2> QED
    BY <2>1, <2>2, <2>3 DEF Stands, PictureAgrees, Lone, At, OfSite, Existing
<1> QED
  BY <1>1, <1>2

\* The image that stands is what is found.
LEMMA StandsFound ==
    ASSUME NEW m \in Ids, Stands(m), NEW i \in Present, FindImage(i), RunShape
    PROVE  run'[i].at = "markImage" /\ run'[i].image = m
<1>0. run[i].at # "absent" /\ plan[i].image = 0 /\ i \in Installers
  BY DEF Stands, Present
<1>1. m \in Local("home", "available")
  BY DEF Stands, Local, Matching, Listed
<1>2. \A x \in Local("home", "available") : x = m
  BY DEF Stands, Local, Matching
<1>3. m \in Found("home") /\ \A x \in Found("home") : x = m
  BY <1>1, <1>2 DEF Found
<1>4. Chosen(i, m)
  BY <1>0, <1>3 DEF FindImage
<1>5. Learns(i, [image |-> m], "markImage")
  BY <1>4 DEF Chosen, Stands
<1> QED
  BY <1>0, <1>5, ImageFacts, Arrives

\* The runs mark and share it, and do nothing else to images.
LEMMA StandsImages ==
    ASSUME Inv, NEW m \in Ids, Stands(m), NEW i \in Installers, Works(i) \/ Disturbed(i)
    PROVE  /\ DOMAIN images' = Ids
           /\ \A x \in Ids : /\ DOMAIN images'[x] = ImageFields
                             /\ images'[x].status = images[x].status
                             /\ images'[x].owner = images[x].owner
                             /\ images'[x].label = images[x].label
           /\ \A x \in Ids \ {m} : images'[x].shared = images[x].shared
<1>0. i \in Present
  BY CameFrom DEF Inv, RunInv, Stepped, Present
<1>1. ~DropImage(i) /\ ~Import(i) /\ ~Upload(i) /\ ~UploadFails(i)
  BY <1>0 DEF Stands, Elsewhere, Importing, DropImage, Import, Upload, UploadFails, At
<1>2. CASE images' = images
  BY <1>2 DEF Stands
<1>3. CASE MarkImage(i) \/ ShareImage(i)
  <2>1. run[i].image = m
    BY <1>0, <1>3 DEF Stands, MarkImage, ShareImage, At, Pictured
  <2>2. \/ images' = images
        \/ \E v : images' = [images EXCEPT ![m].agent = v]
        \/ \E v : images' = [images EXCEPT ![m].shared = v]
    BY <1>3, <2>1 DEF MarkImage, ShareImage
  <2> QED
    BY <2>2 DEF Stands, ImageFields
<1> QED
  BY <1>1, <1>2, <1>3, ChangedBy

\* A step of a run leaves the image standing.
LEMMA StandsThroughRuns ==
    ASSUME Inv, Fitness, NEW m \in Ids, Stands(m), NEW i \in Installers, Works(i) \/ Disturbed(i)
    PROVE  Stands(m)'
<1>0. /\ RunShape /\ Stepped(i) /\ plan' = plan /\ Present' = Present /\ i \in Present
      /\ Reaches(i) /\ Comings(i) /\ Grows /\ Existing \subseteq Existing'
  BY CameFrom, StepReaches, StepComings, StepGrows DEF Inv, RunInv, Stepped, Present, Fitness
<1>1. \A x \in Listed("home")' : images'[x].label = "match" => x = m
  BY StandsImages DEF Stands, Listed
<1>2. run'[i].at \notin Elsewhere
  <2>1. "markImage" \notin Elsewhere
    BY DEF Elsewhere, Importing
  <2> QED
    BY <1>0, <2>1, StandsFound DEF Reaches, Stands
<1>3. ASSUME run'[i].at \in Pictured PROVE run'[i].image = m
  <2>1. ~FindOwnerImage(i) /\ ~WaitImage(i) /\ ~Import(i)
    BY <1>0 DEF Stands, Elsewhere, Importing, FindOwnerImage, WaitImage, Import, At
  <2>2. CASE FindImage(i)
    BY <1>0, <2>2, StandsFound
  <2>3. CASE ~FindImage(i) /\ run[i].at \in Pictured
    <3>1. run'[i].at \notin Forgotten
      BY <1>3, ForgottenPoints DEF Known
    <3> QED
      BY <1>0, <2>1, <2>3, <3>1, Remembers DEF Recalls, Stands
  <2> QED
    BY <1>0, <1>3, <2>1, <2>2, <2>3 DEF Comings
<1>4. ASSUME NEW s \in Ids, servers'[s].status = "creating" PROVE servers'[s].image = m
  <2>1. CASE s \in Existing
    BY <1>0, <1>4, <2>1 DEF Grows, Stands
  <2>2. CASE s \notin Existing
    <3>1. MakeServer(i)
      BY <1>4, <2>2, ServersInNets DEF Existing
    <3>2. servers'[s].image = run[i].image
      BY <1>4, <2>2, <3>1, ServerMade DEF Existing
    <3> QED
      BY <1>0, <3>1, <3>2 DEF Stands, MakeServer, At, Pictured, Sighted
  <2> QED
    BY <2>1, <2>2
<1>5. \A j \in Present \ {i} : run'[j] = run[j]
  BY <1>0 DEF Stepped, Present
<1> QED
  BY <1>0, <1>1, <1>2, <1>3, <1>4, <1>5, StandsImages DEF Stands

\* Nor does STACKIT take it away.
LEMMA StandsOutside ==
    ASSUME Inv, NEW m \in Ids, Stands(m), Platform \/ Trouble
    PROVE  Stands(m)'
<1>0. plan' = plan /\ run' = run /\ Present' = Present
  BY OutsideServers DEF Present
<1>1. /\ DOMAIN images' = Ids
      /\ \A x \in Ids : /\ DOMAIN images'[x] = ImageFields
                        /\ images'[x].status = "none" <=> images[x].status = "none"
                        /\ images[x].status = "available" => images'[x].status = "available"
                        /\ images'[x].owner = images[x].owner
                        /\ images'[x].label = images[x].label
                        /\ images'[x].shared = images[x].shared
  <2>1. CASE images' = images
    BY <2>1 DEF Stands
  <2>2. ASSUME NEW x \in Ids, ImageReady(x) \/ ImageAges(x)
        PROVE  \/ /\ images[x].status = "creating"
                  /\ images' = [images EXCEPT ![x].status = "available", ![x].old = FALSE]
               \/ images' = [images EXCEPT ![x].old = TRUE]
    BY <2>2 DEF ImageReady, ImageAges
  <2>3. CASE \E x \in Ids : ImageReady(x) \/ ImageAges(x)
    <3>1. PICK x \in Ids : ImageReady(x) \/ ImageAges(x)
      BY <2>3
    <3>2. CASE images' = [images EXCEPT ![x].old = TRUE]
      BY <3>2 DEF Stands, ImageFields
    <3>3. CASE /\ images[x].status = "creating"
               /\ images' = [images EXCEPT ![x].status = "available", ![x].old = FALSE]
      <4>1. /\ DOMAIN images' = Ids
            /\ \A y \in Ids \ {x} : images'[y] = images[y]
        BY <3>3 DEF Stands
      <4>2. images'[x] = [images[x] EXCEPT !.status = "available", !.old = FALSE]
        BY <3>3 DEF Stands, ImageFields
      <4>3. DOMAIN images'[x] = ImageFields
        BY <4>2 DEF Stands
      <4>4. /\ images'[x].status = "available"
            /\ images'[x].owner = images[x].owner
            /\ images'[x].label = images[x].label
            /\ images'[x].shared = images[x].shared
        BY <4>2 DEF Stands, ImageFields
      <4> QED
        BY <3>3, <4>1, <4>3, <4>4 DEF Stands
    <3> QED
      BY <2>2, <3>1, <3>2, <3>3
  <2> QED
    BY <2>1, <2>3 DEF Platform, Trouble
<1>2. \A x \in Listed("home")' : images'[x].label = "match" => x = m
  BY <1>1 DEF Stands, Listed
<1>3. \A s \in Ids : servers'[s].status = "creating" => servers'[s].image = m
  BY OutsideServers DEF Stands
<1> QED
  BY <1>0, <1>1, <1>2, <1>3 DEF Stands

\* So installers that share an image keep it.
LEMMA StandingKept == Inv /\ Fitness /\ Standing /\ [Next]_vars => Standing'
<1> SUFFICES ASSUME Inv, Fitness, Standing, [Next]_vars, (\E i \in Present : Alone(i) /\ Present # {i})'
             PROVE  (\E m \in Ids : Stands(m))'
  BY DEF Standing
<1>1. \E i \in Present : Alone(i) /\ Present # {i}
  BY SameInstallers DEF Alone, Site
<1>2. PICK m \in Ids : Stands(m)
  BY <1>1 DEF Standing
<1>3. CASE UNCHANGED vars
  BY <1>2, <1>3 DEF vars, Stands, Listed, Present
<1>4. CASE \E i \in Installers : Works(i) \/ Disturbed(i)
  BY <1>2, <1>4, StandsThroughRuns
<1>5. CASE Platform \/ Trouble
  BY <1>2, <1>5, StandsOutside
<1> QED
  BY <1>3, <1>4, <1>5 DEF Next

\* The clouds in which several installers start have such an image.
LEMMA StandingBegins == ASSUME AgreedStart PROVE Init => Standing
<1> SUFFICES ASSUME Init, NEW i \in Present, Alone(i), Present # {i} PROVE \E m \in Ids : Stands(m)
  BY DEF Standing
<1>1. PICK c \in Scenarios :
        /\ plan = c.plan
        /\ run = [j \in Installers |-> NoRun(IF j \in c.present THEN "ready" ELSE "absent")]
        /\ servers = c.servers /\ images = c.images
  BY DEF Init
<1>2. \A j \in Installers : run[j].at = IF j \in c.present THEN "ready" ELSE "absent"
  BY <1>1, NoRunFields
<1>3. Present = Installers \cap c.present
  BY <1>2 DEF Present
<1>4. OneImageStands(c, Present)
  BY <1>1, <1>3 DEF AgreedStart, Alone, Site
<1>5. PICK m \in Ids :
        /\ images[m].status = "available" /\ images[m].owner = "home" /\ images[m].label = "match"
        /\ \A x \in Ids \ {m} :
              \/ images[x].status = "none" \/ images[x].label # "match"
              \/ images[x].owner # "home" /\ {"home", "organization"} \cap images[x].shared = {}
        /\ \A j \in Present : plan[j].image = 0 /\ plan[j].owner = "home"
        /\ \A x \in Ids : servers[x].status = "creating" => servers[x].image = m
  BY <1>1, <1>4 DEF OneImageStands
<1>6. DOMAIN images = Ids /\ \A x \in Ids : DOMAIN images[x] = ImageFields
  BY <1>1, ScenarioAssumption, NoImageFields
<1>7. \A x \in Listed("home") : images[x].label = "match" => x = m
  BY <1>5 DEF Listed
<1>8. \A j \in Present : run[j].at = "ready"
  BY <1>2, <1>3
<1>9. "ready" \notin Elsewhere \cup Pictured
  BY DEF Elsewhere, Importing, Pictured, Sighted, Holding, Publishing
<1> QED
  BY <1>5, <1>6, <1>7, <1>8, <1>9 DEF Stands

-----------------------------------------------------------------------------
(* Agreement is kept.                                                      *)

\* What a step of somebody else leaves an installer.
Apart(i) ==
    /\ run'[i] = run[i] /\ plan' = plan /\ Grows
    /\ OfSite(Site(i))' \subseteq OfSite(Site(i))
    /\ Busy(i) => /\ Existing \subseteq Existing' /\ addresses' = addresses
                  /\ records'[Site(i)] = records[Site(i)]
                  /\ balancers'[Site(i)].cert = balancers[Site(i)].cert
                  /\ balancers[Site(i)].status # "none" => balancers'[Site(i)].status # "none"
                  /\ balancers[Site(i)].status = "ready" => balancers'[Site(i)].status = "ready"

\* What the run has made, it then still has.
LEMMA AgreeingStays ==
    ASSUME Fitness, NEW i \in Installers, Agreeing(i), Apart(i) PROVE Agreeing(i)'
<1>0. Site(i)' = Site(i)
  BY DEF Apart, Site
<1>1. OneServer(i)'
  BY <1>0 DEF Agreeing, OneServer, Apart, At, OnlyOneOf
<1>2. run[i].at \in Serving => Busy(i)
  BY DEF Busy, Ended, Serving, Holding, Publishing
<1>3. {"attachAddress", "direct", "waitBalancer"} \cup Naming \subseteq Serving
  BY DEF Naming, Serving, Holding, Publishing
<1>4. HasAddress(i)' /\ HasRecord(i)'
  BY <1>0, <1>2, <1>3 DEF Agreeing, HasAddress, HasRecord, Apart, At
<1>5. HasBalancer(i)'
  BY <1>0, <1>2, <1>3 DEF Agreeing, HasBalancer, Apart, At
<1>6. SameImage(i)'
  <2>1. ASSUME run[i].at \in Serving
        PROVE  run[i].server \in Existing \cap Existing'
    BY <1>2, <2>1 DEF Fitness, Fitting, HasGuardedServer, OfSite, Apart
  <2> QED
    BY <2>1 DEF Agreeing, SameImage, Apart, Grows
<1> QED
  BY <1>1, <1>4, <1>5, <1>6 DEF Agreeing

\* No other installer works on the deployment of an installer that is alone
\* there, nor on addresses.
LEMMA OthersApart ==
    ASSUME Inv, Fitness, NEW i \in Installers, Lone(i), NEW j \in Installers \ {i},
           Works(j) \/ Disturbed(j)
    PROVE  Apart(i)
<1>0. Stepped(j) /\ Grows /\ Existing \subseteq Existing' /\ ThingShape
  BY StepGrows, CameFrom DEF Inv, RunInv, ThingInv, Fitness
<1>1. Site(j) # Site(i) /\ plan[j].mode = "balancer"
  BY <1>0 DEF Stepped, Lone, Alone, Present
<1>2. plan' = plan /\ run'[i] = run[i]
  BY <1>0 DEF Stepped
<1>3. addresses' = addresses
  <2>1. run[j].at \notin Addressing
    BY <1>1 DEF Fitness, Fitting, ModeFits
  <2> QED
    BY <2>1, ChangedBy DEF AttachAddress, MakeAddress, At, Addressing
<1>4. records'[Site(i)] = records[Site(i)]
  <2>1. Site(i) \in DOMAIN records
    BY <1>0 DEF Fitness, CloudShape, ThingShape, Site
  <2> QED
    BY <1>1, <2>1, ChangedToo DEF WriteRecord
<1>5. balancers'[Site(i)] = balancers[Site(i)]
  <2>1. Site(i) \in DOMAIN balancers
    BY <1>0 DEF ThingShape, Site
  <2> QED
    BY <1>1, <2>1, ChangedToo DEF UpdateBalancer, MakeBalancer, Configure
<1>6. ASSUME NEW s \in Existing', servers'[s].site = Site(i) PROVE s \in OfSite(Site(i))
  <2>1. CASE s \in Existing
    BY <1>0, <1>6, <2>1 DEF Grows, OfSite
  <2>2. CASE s \notin Existing
    <3>1. CASE MakeServer(j)
      BY <1>1, <1>6, <2>2, <3>1, ServerMade DEF Existing, Site
    <3>2. CASE servers' = servers \/ AttachGroup(j) \/ BootstrapServer(j)
      BY <1>0, <2>2, <3>2 DEF AttachGroup, BootstrapServer, Existing, ThingShape, ServerFields
    <3> QED
      BY <3>1, <3>2, ChangedBy
  <2> QED
    BY <2>1, <2>2
<1>7. OfSite(Site(i))' \subseteq OfSite(Site(i))
  BY <1>2, <1>6 DEF OfSite, Site
<1> QED
  BY <1>0, <1>2, <1>3, <1>4, <1>5, <1>7 DEF Apart

\* STACKIT ends what is begun; an operator takes a server only between runs.
LEMMA OutsideApart ==
    ASSUME Inv, Fitness, Platform \/ Trouble, NEW i \in Installers PROVE Apart(i)
<1>0. /\ Grows /\ \A s \in Existing' : s \in Existing
      /\ (\E j \in Installers : Busy(j)) => Existing \subseteq Existing'
      /\ run' = run /\ plan' = plan
  BY OutsideGrows, OutsideServers DEF Fitness
<1>1. Busy(i) => addresses' = addresses
  BY DEF Platform, Trouble, ServerStarts, ServerBreaks, RemoveServer
<1>2. records' = records
  BY DEF Platform, Trouble, ZoneEnds, BalancerEnds, CertificateAges
<1>3. /\ balancers'[Site(i)].cert = balancers[Site(i)].cert
      /\ balancers[Site(i)].status # "none" => balancers'[Site(i)].status # "none"
      /\ balancers[Site(i)].status = "ready" => balancers'[Site(i)].status = "ready"
  <2>1. CASE balancers' = balancers
    BY <2>1
  <2>2. ASSUME NEW k \in Sites, NEW e \in {"ready", "error"}, BalancerEnds(k, e)
        PROVE  /\ balancers'[Site(i)].cert = balancers[Site(i)].cert
               /\ balancers[Site(i)].status # "none" => balancers'[Site(i)].status # "none"
               /\ balancers[Site(i)].status = "ready" => balancers'[Site(i)].status = "ready"
    <3>1. ThingShape
      BY DEF Inv, ThingInv
    <3>2. balancers[k].status = "pending" /\ balancers' = [balancers EXCEPT ![k].status = e]
      BY <2>2 DEF BalancerEnds
    <3>3. CASE k = Site(i)
      BY <3>1, <3>2, <3>3 DEF ThingShape
    <3>4. CASE k # Site(i)
      BY <3>1, <3>2, <3>4 DEF ThingShape
    <3> QED
      BY <3>3, <3>4
  <2> QED
    BY <2>1, <2>2 DEF Platform, Trouble, ZoneEnds, CertificateAges
<1>4. OfSite(Site(i))' \subseteq OfSite(Site(i))
  BY <1>0 DEF OfSite, Site, Grows
<1> QED
  BY <1>0, <1>1, <1>2, <1>3, <1>4 DEF Apart

\* A run makes a server only where it found none.
LEMMA OneServerKept ==
    ASSUME Inv, Fitness, NEW i \in Installers, OneServer(i), Works(i) \/ Disturbed(i)
    PROVE  OneServer(i)'
<1>0. Stepped(i) /\ plan' = plan /\ RunShape /\ Grows /\ ThingShape
  BY StepGrows, CameFrom DEF Inv, RunInv, ThingInv, Fitness, Stepped
<1>1. OnlyOneOf(OfSite(Site(i))')
  <2>1. CASE MakeServer(i)
    <3>1. OfSite(Site(i)) = {}
      BY <2>1 DEF MakeServer, OneServer
    <3>2. PICK x \in Ids \ Existing : \A s \in Ids \ {x} : servers'[s] = servers[s]
      BY <2>1, ServerMade
    <3>3. \A s \in OfSite(Site(i))' : s = x
      BY <1>0, <3>1, <3>2 DEF OfSite, Existing, Site
    <3> QED
      BY <3>3 DEF OnlyOneOf
  <2>2. CASE servers' = servers \/ AttachGroup(i) \/ BootstrapServer(i)
    <3>1. OfSite(Site(i))' \subseteq OfSite(Site(i))
      BY <1>0, <2>2 DEF AttachGroup, BootstrapServer, OfSite, Existing, Site, ThingShape, ServerFields
    <3> QED
      BY <3>1 DEF OneServer, OnlyOneOf
  <2> QED
    BY <2>1, <2>2, ChangedBy
<1>2. ASSUME run'[i].at = "makeServer" PROVE OfSite(Site(i))' = {}
  <2>1. FindServer(i)
    BY <1>0, <1>2, CameFrom
  <2>2. Named(i) = {} /\ servers' = servers
    <3>1. \A s : /\ ~Learns(i, [server |-> s], "waitServer")
                 /\ ~Learns(i, [server |-> s], After(i, "server"))
      BY <1>0, <1>2, Arrives, Order DEF Stepped
    <3>2. ~Stops(i, "refused")
      BY <1>0, <1>2, Arrives DEF Stepped
    <3> QED
      BY <2>1, <3>1, <3>2 DEF FindServer, resourceVars
  <2> QED
    BY <1>0, <2>2 DEF Named, OfSite, Existing, Site
<1> QED
  BY <1>1, <1>2 DEF OneServer, At, OnlyOneOf

\* The address that a run attaches or finds attached leads to its server.
LEMMA AddressTaken ==
    ASSUME Inv, Fitness, NEW i \in Installers, HasAddress(i),
           ChooseAddress(i) \/ AttachAddress(i) \/ MakeAddress(i), run'[i].at \in {"record", "done"}
    PROVE  addresses'[run'[i].address].nic = run[i].server
<1>0. RunShape /\ run[i].at # "absent" /\ DOMAIN addresses = Ids
  BY DEF Inv, RunInv, ThingInv, ThingShape, ChooseAddress, AttachAddress, MakeAddress, At
<1>1. CASE ChooseAddress(i)
  <2>1. /\ \A x : ~Learns(i, [address |-> x], "attachAddress")
        /\ ~To(i, "makeAddress") /\ ~Stops(i, "refused")
    BY <1>0, Arrives
  <2>2. PICK a \in Attached(run[i].server) : Learns(i, [address |-> a], After(i, "address"))
    BY <1>1, <2>1 DEF ChooseAddress
  <2>3. run'[i].address = a /\ addresses' = addresses
    BY <1>0, <1>1, <2>2, AddressNoted DEF ChooseAddress, resourceVars
  <2> QED
    BY <2>2, <2>3 DEF Attached
<1>2. CASE AttachAddress(i)
  <2>1. run[i].address \in Ids
    BY <1>2 DEF AttachAddress, HasAddress
  <2>2. run'[i].address = run[i].address
    BY <1>0, <1>2, GoesTo, Order DEF AttachAddress
  <2> QED
    BY <1>0, <1>2, <2>1, <2>2 DEF AttachAddress
<1>3. CASE MakeAddress(i)
  <2>1. PICK a \in Ids :
          /\ addresses' = [addresses EXCEPT ![a] =
                              [there |-> TRUE, nic |-> run[i].server, managed |-> TRUE]]
          /\ Learns(i, [address |-> a], After(i, "address"))
    BY <1>3 DEF MakeAddress
  <2>2. run'[i].address = a
    BY <1>0, <2>1, AddressNoted
  <2> QED
    BY <1>0, <2>1, <2>2
<1> QED
  BY <1>1, <1>2, <1>3

\* The address of a run is one of those that there are, and stays its server's.
LEMMA HasAddressKept ==
    ASSUME Inv, Fitness, NEW i \in Installers, HasAddress(i), Works(i) \/ Disturbed(i)
    PROVE  HasAddress(i)'
<1>0. RunShape /\ Stepped(i) /\ Reaches(i) /\ plan' = plan
  BY StepReaches, CameFrom DEF Inv, RunInv, Stepped
<1>1. ASSUME run'[i].at = "attachAddress" PROVE run'[i].address \in Ids
  <2>1. ChooseAddress(i)
    BY <1>0, <1>1, CameFrom
  <2>2. \A a : ~Learns(i, [address |-> a], After(i, "address"))
    BY <1>0, <1>1, Arrives, Order DEF Stepped
  <2>3. ~To(i, "makeAddress") /\ ~Stops(i, "refused")
    BY <1>0, <1>1, Arrives DEF Stepped
  <2>4. \E a \in Reserved : Learns(i, [address |-> a], "attachAddress")
    BY <2>1, <2>2, <2>3 DEF ChooseAddress, FreeManaged
  <2> QED
    BY <1>0, <2>4, AddressNoted DEF Reserved
<1>2. ASSUME run'[i].at \in Naming \cup {"direct"}, plan[i].mode = "named"
      PROVE  addresses'[run'[i].address].nic = run'[i].server
  <2>1. run[i].at \in Serving /\ run'[i].server = run[i].server
    <3>1. run[i].at \in Serving
      BY <1>0, <1>2 DEF Reaches, Naming, Serving, Holding, Publishing, ChooseAddress, AttachAddress,
         MakeAddress, WaitBalancer, WriteRecord, At
    <3>2. run'[i].at \in Serving
      BY <1>2 DEF Naming, Serving
    <3> QED
      BY <3>1, <3>2, ServerStays
  <2>2. CASE ChooseAddress(i) \/ AttachAddress(i) \/ MakeAddress(i)
    <3>1. run'[i].at \in {"record", "done"}
      BY <1>0, <1>2, <2>2, ResourceWays DEF Comes, Naming
    <3> QED
      BY <2>1, <2>2, <3>1, AddressTaken
  <2>3. CASE run[i].at \in Naming
    <3>1. ~ChooseAddress(i) /\ ~AttachAddress(i) /\ ~MakeAddress(i)
      BY <2>3 DEF Naming, ChooseAddress, AttachAddress, MakeAddress, At
    <3>2. addresses' = addresses /\ run'[i].address = run[i].address
      BY <1>0, <1>2, <3>1, ChangedBy, RemembersNotes DEF Recalls, Naming, Forgotten
    <3> QED
      BY <1>2, <2>1, <2>3, <3>2 DEF HasAddress
  <2>4. ~WaitBalancer(i)
    BY <1>2 DEF WaitBalancer, At, Fitness, Fitting, ModeFits, Balancing
  <2> QED
    BY <1>0, <1>2, <2>2, <2>3, <2>4 DEF Reaches, WriteRecord, At, Naming
<1> QED
  BY <1>0, <1>1, <1>2 DEF HasAddress, At

\* A record that a run has written leads where the mode says.
LEMMA RecordWritten ==
    ASSUME Inv, Fitness, NEW i \in Installers, WriteRecord(i), run'[i].at # "failed"
    PROVE  records'[Site(i)] = {Value(i)} /\ balancers' = balancers
<1>0. RunShape /\ run[i].at # "absent" /\ Site(i) \in DOMAIN records
  BY DEF Inv, RunInv, ThingInv, ThingShape, Site, Fitness, CloudShape, WriteRecord, At
<1>1. ~Stops(i, "failed")
  BY <1>0, Arrives
<1> QED
  BY <1>0, <1>1 DEF WriteRecord

\* The record of a run leads to its address.
LEMMA HasRecordKept ==
    ASSUME Inv, Fitness, NEW i \in Installers, Works(i) \/ Disturbed(i)
    PROVE  HasRecord(i)'
<1> SUFFICES ASSUME run'[i].at = "direct" PROVE records'[Site(i)'] = {ViaAddress(run'[i].address)}
  BY DEF HasRecord, At
<1>0. RunShape /\ Stepped(i) /\ Reaches(i) /\ Site(i)' = Site(i)
  BY StepReaches, CameFrom DEF Inv, RunInv, Stepped, Site
<1>1. WriteRecord(i)
  BY <1>0 DEF Reaches
<1>2. records'[Site(i)] = {Value(i)}
  BY <1>1, RecordWritten
<1>3. plan[i].mode = "named"
  <2>1. ModeFits(i)'
    BY <1>0, ModeFitsKept DEF Fitness, Fitting
  <2> QED
    BY <1>0, <2>1 DEF ModeFits, At, Stepped
<1>4. run'[i].address = run[i].address
  BY <1>0, <1>1, RemembersNotes DEF Recalls, Forgotten, WriteRecord, ChooseAddress, MakeAddress, At
<1> QED
  BY <1>0, <1>2, <1>3, <1>4 DEF Value

\* The load balancer of a run has its certificate, and works when it is named.
LEMMA HasBalancerKept ==
    ASSUME Inv, Fitness, NEW i \in Installers, HasBalancer(i), Works(i) \/ Disturbed(i)
    PROVE  HasBalancer(i)'
<1> PICK k : k = Site(i)
  OBVIOUS
<1>0. /\ RunShape /\ Stepped(i) /\ Reaches(i) /\ plan' = plan /\ k = Site(i)' /\ k \in DOMAIN balancers
  BY StepReaches, CameFrom DEF Inv, RunInv, Stepped, Site, ThingInv, ThingShape
<1>1. ASSUME run'[i].at = "waitBalancer"
      PROVE  balancers'[k].status # "none" /\ balancers'[k].cert = run'[i].cert
  <2>1. run'[i].cert = run[i].cert
    BY <1>0, <1>1, RemembersNotes
       DEF Recalls, Forgotten, Reaches, ListBalancers, UpdateBalancer, MakeBalancer, FindCertificate,
           StoreCertificate, At
  <2>2. CASE ListBalancers(i)
    <3>1. \A v : ~Learns(i, [seen |-> v], "updateBalancer")
      BY <1>0, <1>1, Arrives DEF Stepped
    <3>2. ~To(i, "makeBalancer") /\ ~Stops(i, "refused")
      BY <1>0, <1>1, Arrives DEF Stepped
    <3>3. balancers[k].status # "none" /\ balancers[k].cert = run[i].cert
      BY <2>2, <3>1, <3>2 DEF ListBalancers
    <3> QED
      BY <2>1, <2>2, <3>3 DEF ListBalancers, exposureVars
  <2>3. CASE UpdateBalancer(i) \/ MakeBalancer(i)
    <3>1. ~Stops(i, "failed")
      BY <1>0, <1>1, Arrives DEF Stepped
    <3>2. Configure(i)
      BY <2>3, <3>1 DEF UpdateBalancer, MakeBalancer
    <3> QED
      BY <1>0, <2>1, <3>2 DEF Configure, Desired
  <2> QED
    BY <1>0, <1>1, <2>2, <2>3 DEF Reaches
<1>2. ASSUME run'[i].at \in Naming, plan[i].mode = "balancer"
      PROVE  balancers'[k].status = "ready" /\ balancers'[k].cert = run'[i].cert
  <2>1. run[i].at \in Naming \/ WaitBalancer(i)
    BY <1>0, <1>2
       DEF Reaches, ChooseAddress, AttachAddress, MakeAddress, At, Fitness, Fitting, ModeFits,
       Addressing
  <2>2. balancers' = balancers /\ run'[i].cert = run[i].cert
    BY <1>0, <1>2, <2>1, ChangedToo, RemembersNotes
       DEF Recalls, Naming, Forgotten, WaitBalancer, UpdateBalancer, MakeBalancer, FindCertificate,
           StoreCertificate, At
  <2>3. CASE WaitBalancer(i)
    <3>1. ~Stops(i, "refused")
      BY <1>0, <1>2, Arrives DEF Stepped, Naming
    <3> QED
      BY <2>2, <2>3, <3>1 DEF WaitBalancer, HasBalancer
  <2>4. CASE run[i].at \in Naming
    BY <1>2, <2>2, <2>4 DEF HasBalancer
  <2> QED
    BY <2>1, <2>3, <2>4
<1> QED
  BY <1>0, <1>1, <1>2 DEF HasBalancer, At

\* The server of a run was made from its image, or accepted for it.
LEMMA SameImageKept ==
    ASSUME Inv, Fitness, NEW i \in Installers, SameImage(i), PictureAgrees(i), Works(i) \/ Disturbed(i)
    PROVE  SameImage(i)'
<1>0. /\ RunShape /\ Stepped(i) /\ Reaches(i) /\ plan' = plan
      /\ Grows /\ Existing \subseteq Existing'
  BY StepReaches, StepGrows, CameFrom DEF Inv, RunInv, Stepped, Fitness
<1> SUFFICES ASSUME plan[i].server = 0, run'[i].at \in Serving
             PROVE  servers'[run'[i].server].image = run'[i].image
  BY <1>0 DEF SameImage
<1>1. run'[i].at \notin Forgotten
  BY DEF Serving, Holding, Publishing, Forgotten
<1>2. CASE FindServer(i) \/ MakeServer(i)
  <2>1. run'[i].image = run[i].image
    BY <1>0, <1>1, <1>2, Remembers
       DEF Recalls, FindServer, MakeServer, FindImage, FindOwnerImage, Import, At
  <2>2. CASE FindServer(i)
    <3>1. servers[run'[i].server].image = run[i].image
      BY <2>2, ServerFound DEF PictureAgrees, FindServer
    <3> QED
      BY <2>1, <2>2, <3>1, ServerFound
  <2>3. CASE MakeServer(i)
    BY <2>1, <2>3, ServerMadeCovered
  <2> QED
    BY <1>2, <2>2, <2>3
<1>3. CASE run[i].at \in Serving
  <2>1. run[i].server \in Existing
    BY <1>3 DEF Fitness, Fitting, HasGuardedServer, OfSite
  <2> QED
    BY <1>0, <1>3, <2>1, ServerStays DEF SameImage, Grows
<1> QED
  BY <1>0, <1>2, <1>3 DEF Reaches, AdoptServer

\* What a run has made fits together, whoever takes a step.
LEMMA AgreementKept ==
    Inv /\ Fitness /\ Settledness /\ Standing /\ Agreement /\ [Next]_vars => Agreement'
<1> SUFFICES ASSUME Inv, Fitness, Settledness, Standing, Agreement, [Next]_vars,
                    NEW i \in Installers, Lone(i)'
             PROVE  Agreeing(i)'
  BY DEF Agreement
<1>0. Lone(i) /\ Agreeing(i)
  BY SameInstallers DEF Agreement
<1>1. CASE UNCHANGED vars
  BY <1>0, <1>1 DEF vars, Agreeing, OneServer, HasAddress, HasRecord, HasBalancer, SameImage, OfSite,
     Existing, Site, At, OnlyOneOf
<1>2. CASE Works(i) \/ Disturbed(i)
  <2>1. PictureAgrees(i)
    BY <1>0, PicturesAgree
  <2> QED
    BY <1>0, <1>2, <2>1, OneServerKept, HasAddressKept, HasRecordKept, HasBalancerKept, SameImageKept
       DEF Agreeing
<1>3. ASSUME NEW j \in Installers \ {i}, Works(j) \/ Disturbed(j) PROVE Agreeing(i)'
  BY <1>0, <1>3, OthersApart, AgreeingStays
<1>4. CASE Platform \/ Trouble
  BY <1>0, <1>4, OutsideApart, AgreeingStays
<1> QED
  BY <1>1, <1>2, <1>3, <1>4 DEF Next

\* An installer that is alone on its deployment starts with at most one server.
LEMMA AgreementBegins == ASSUME AgreedStart PROVE Init => Agreement
<1> SUFFICES ASSUME Init, NEW i \in Installers, Lone(i) PROVE Agreeing(i)
  BY DEF Agreement
<1>1. PICK c \in Scenarios :
        /\ plan = c.plan /\ servers = c.servers
        /\ run = [j \in Installers |-> NoRun(IF j \in c.present THEN "ready" ELSE "absent")]
  BY DEF Init
<1>2. \A j \in Installers : run[j].at = IF j \in c.present THEN "ready" ELSE "absent"
  BY <1>1, NoRunFields
<1>3. Present = Installers \cap c.present
  BY <1>2 DEF Present
<1>4. \A j \in Present \ {i} : c.plan[j].site # c.plan[i].site /\ c.plan[j].mode = "balancer"
  BY <1>1 DEF Lone, Alone, Site
<1>5. OnlyOneOf({x \in Ids : c.servers[x].status # "none" /\ c.servers[x].site = c.plan[i].site})
  BY <1>3, <1>4 DEF AgreedStart, Lone
<1>6. OnlyOneOf(OfSite(Site(i)))
  BY <1>1, <1>5 DEF OnlyOneOf, OfSite, Existing, Site
<1>7. run[i].at \in {"ready", "absent"}
  BY <1>2
<1> QED
  BY <1>6, <1>7 DEF Agreeing, OneServer, HasAddress, HasRecord, HasBalancer, SameImage, At, Naming,
     Serving, Holding, Publishing

-----------------------------------------------------------------------------
(* What a run reports.                                                     *)

\* The step that ends a run with success changes nothing of what the run knows,
\* but for an address that it finds or makes.
LEMMA Finishing ==
    ASSUME Inv, Fitness, NEW i \in Installers, Works(i) \/ Disturbed(i), run'[i].at = "done"
    PROVE  /\ run[i].at \in Working
           /\ run'[i].server = run[i].server /\ run'[i].net = run[i].net
           /\ run'[i].image = run[i].image /\ run'[i].cert = run[i].cert
           /\ \/ BootstrapServer(i) /\ plan[i].mode = "private"
              \/ /\ ChooseAddress(i) \/ AttachAddress(i) \/ MakeAddress(i)
                 /\ plan[i].mode \notin {"private", "named", "balancer"}
              \/ WriteRecord(i) /\ plan[i].mode = "balancer"
              \/ Secure(i) /\ plan[i].mode = "named"
<1>0. RunShape /\ Stepped(i) /\ Reaches(i)
  BY StepReaches, CameFrom DEF Inv, RunInv
<1>1. \/ BootstrapServer(i) \/ ChooseAddress(i) \/ AttachAddress(i) \/ MakeAddress(i)
      \/ WriteRecord(i) \/ Secure(i)
  BY <1>0 DEF Reaches
<1>2. run[i].at \in {"bootstrap", "address", "attachAddress", "makeAddress", "writeRecord", "direct"}
  BY <1>1 DEF BootstrapServer, ChooseAddress, AttachAddress, MakeAddress, WriteRecord, Secure, At
<1>3. run[i].at \in Working
  BY <1>2 DEF Working, Serving, Holding, Publishing
<1>4. /\ run'[i].server = run[i].server /\ run'[i].net = run[i].net
      /\ run'[i].image = run[i].image /\ run'[i].cert = run[i].cert
  BY <1>0, <1>2, Remembers, RemembersNotes
     DEF Recalls, Forgotten, FindNetwork, MakeNetwork, FindImage, FindOwnerImage, Import, FindServer,
         MakeServer, AdoptServer, FindCertificate, StoreCertificate, At
<1>5. CASE BootstrapServer(i)
  <2>1. After(i, "bootstrap") = "done"
    BY <1>0, <1>5, Arrives, Order DEF BootstrapServer, Stepped
  <2>2. plan[i].mode = "private"
    BY <2>1 DEF After
  <2> QED
    BY <1>3, <1>4, <1>5, <2>2
<1>6. CASE ChooseAddress(i) \/ AttachAddress(i) \/ MakeAddress(i)
  <2>1. After(i, "address") = "done"
    <3>1. /\ \A x : ~Learns(i, [address |-> x], "attachAddress")
          /\ ~To(i, "makeAddress") /\ ~Stops(i, "refused")
      BY <1>0, Arrives DEF Stepped
    <3>2. \/ \E x : Learns(i, [address |-> x], After(i, "address"))
          \/ To(i, After(i, "address"))
      BY <1>6, <3>1 DEF ChooseAddress, MakeAddress, AttachAddress
    <3> QED
      BY <1>0, <3>2, Arrives, Order DEF Stepped
  <2>2. plan[i].mode # "named"
    BY <2>1 DEF After
  <2>3. plan[i].mode \notin {"private", "balancer"}
    BY <1>6 DEF ChooseAddress, AttachAddress, MakeAddress, At, Addressing, Fitness, Fitting, ModeFits
  <2> QED
    BY <1>3, <1>4, <1>6, <2>2, <2>3
<1>7. CASE WriteRecord(i)
  <2>1. After(i, "record") = "done"
    <3>1. ~Stops(i, "failed")
      BY <1>0, Arrives DEF Stepped
    <3>2. \E facts : Learns(i, facts, After(i, "record"))
      BY <1>7, <3>1 DEF WriteRecord
    <3> QED
      BY <1>0, <3>2, Arrives, Order DEF Stepped
  <2>2. plan[i].mode # "named"
    BY <2>1 DEF After
  <2>3. plan[i].mode \in {"named", "balancer"}
    BY <1>7 DEF WriteRecord, At, Naming, Fitness, Fitting, ModeFits
  <2> QED
    BY <1>3, <1>4, <1>7, <2>2, <2>3
<1>8. CASE Secure(i)
  BY <1>3, <1>4, <1>8 DEF Secure, At, Fitness, Fitting, ModeFits
<1> QED
  BY <1>1, <1>5, <1>6, <1>7, <1>8

\* The server that a run reports.
LEMMA ReportedServer ==
    ASSUME Inv, Fitness, NEW i \in Installers, SameImage(i), Works(i) \/ Disturbed(i), run'[i].at = "done",
           NEW s, s = run[i].server
    PROVE  /\ servers'[s].site = Site(i)
           /\ plan[i].mode # "private" => servers'[s].net = run[i].net
           /\ plan[i].server = 0 => servers'[s].image = run[i].image /\ servers'[s].status = "active"
           /\ \E g \in servers'[s].groups : Rules \subseteq rules'[g]
<1>0. Grows /\ Existing \subseteq Existing' /\ RunShape /\ Stepped(i)
  BY StepGrows, CameFrom DEF Inv, RunInv, Fitness
<1>1. run[i].at \in Working /\ run[i].at \in Serving \ {"attachGroup"}
  BY Finishing DEF Working
<1>2. s \in OfSite(Site(i)) /\ Covered(s)
  BY <1>1 DEF Fitness, Fitting, HasGuardedServer
<1>3. s \in Existing \cap Existing' /\ servers[s].site = Site(i)
  BY <1>0, <1>2 DEF OfSite
<1>4. ASSUME plan[i].mode # "private" PROVE servers[s].net = run[i].net
  <2>1. CASE ChooseAddress(i)
    <3>1. ~Stops(i, "refused")
      BY <1>0, Arrives DEF Stepped
    <3> QED
      BY <2>1, <3>1 DEF ChooseAddress, HasNic
  <2>2. CASE AttachAddress(i) \/ MakeAddress(i) \/ WriteRecord(i) \/ Secure(i)
    <3>1. run[i].at \in Joined
      BY <2>2 DEF AttachAddress, MakeAddress, WriteRecord, Secure, At, Joined
    <3> QED
      BY <3>1 DEF Fitness, Fitting, HasGuardedServer
  <2> QED
    BY <1>4, <2>1, <2>2, Finishing
<1>5. ASSUME plan[i].server = 0
      PROVE  servers[s].image = run[i].image /\ servers[s].status = "active"
  BY <1>1, <1>5 DEF Fitness, Fitting, HasGuardedServer, SameImage
<1>6. Covered(s)'
  BY <1>0, <1>2, <1>3, CoveredGrows
<1>7. \E g \in servers'[s].groups : Rules \subseteq rules'[g]
  BY <1>6 DEF Covered
<1> QED
  BY <1>0, <1>3, <1>4, <1>5, <1>7 DEF Grows

\* The way in that a run reports.
LEMMA ReportedWay ==
    ASSUME Inv, Fitness, NEW i \in Installers, Agreeing(i), Works(i) \/ Disturbed(i), run'[i].at = "done",
           NEW k, k = Site(i)
    PROVE  /\ plan[i].mode \in {"address", "named"} =>
                 addresses'[run'[i].address].nic = run[i].server
           /\ plan[i].mode = "named" => records'[k] = {ViaAddress(run'[i].address)}
           /\ plan[i].mode = "balancer" =>
                 /\ records'[k] = {ViaBalancer}
                 /\ balancers'[k].cert = run[i].cert /\ certs'[run[i].cert].site = k
                 /\ balancers'[k].status = "ready"
                 /\ balancers'[k].target = run[i].server \/ k \in removed'
<1>0. RunShape /\ Grows /\ k \in Sites
  BY StepGrows DEF Inv, RunInv, ThingInv, ThingShape, Site, Fitness
<1>1. CASE BootstrapServer(i) /\ plan[i].mode = "private"
  BY <1>1
<1>2. CASE /\ ChooseAddress(i) \/ AttachAddress(i) \/ MakeAddress(i)
           /\ plan[i].mode \notin {"private", "named", "balancer"}
  BY <1>2, AddressTaken DEF Agreeing
<1>3. CASE Secure(i) /\ plan[i].mode = "named"
  <2>1. run[i].at = "direct" /\ run'[i].address = run[i].address
    BY <1>0, <1>3, GoesTo, Order DEF Secure, At
  <2>2. addresses' = addresses /\ records' = records
    BY <2>1, ChangedBy, ChangedToo DEF AttachAddress, MakeAddress, WriteRecord, At
  <2>3. run'[i].server = run[i].server
    BY Finishing
  <2> QED
    BY <1>3, <2>1, <2>2 DEF Agreeing, HasAddress, HasRecord, At
<1>4. CASE WriteRecord(i) /\ plan[i].mode = "balancer"
  <2>1. records'[k] = {ViaBalancer} /\ balancers' = balancers
    BY <1>4, RecordWritten DEF Value
  <2>2. run[i].at \in Naming /\ run[i].at \in Serving
    BY <1>4 DEF WriteRecord, At, Naming, Serving
  <2>3. balancers[k].status = "ready" /\ balancers[k].cert = run[i].cert
    BY <1>4, <2>2 DEF Agreeing, HasBalancer
  <2>4. run[i].cert \in Ids /\ certs[run[i].cert].site = k /\ k # 0
    BY <1>0, <1>4, <2>2, IdsAreNumbers DEF Fitness, Fitting, HasCertificate
  <2>5. ASSUME k \notin removed PROVE balancers[k].target = run[i].server
    <3>1. balancers[k].target \in OfSite(k)
      BY <1>0, <2>3, <2>5 DEF Inv, ThingInv, BalancersLead, OfSite
    <3>2. run[i].server \in OfSite(k)
      BY <2>2 DEF Fitness, Fitting, HasGuardedServer
    <3> QED
      BY <3>1, <3>2 DEF Agreeing, OneServer, OnlyOneOf
  <2>6. removed' = removed
    BY ChangedToo
  <2> QED
    BY <1>0, <1>4, <2>1, <2>3, <2>4, <2>5, <2>6 DEF Grows
<1> QED
  BY <1>1, <1>2, <1>3, <1>4, Finishing

\* What a run reports when it succeeds fits together, whatever the runs before it
\* have left and whoever is at work on other deployments: the image is available
\* and is the server's, the server is in its network and behind all rules, and
\* the record leads to its address or to its load balancer, whose certificate is
\* the one of the run.
THEOREM SuccessesAgree ==
    ASSUME TidyStart, SettledStart, AgreedStart PROVE Spec => SuccessAgrees
<1> DEFINE Agreed == \A i \in Installers : ~At(i, "done") /\ At(i, "done")' /\ Alone(i) => Reported(i)'
           Seen == \A i \in Installers : Lone(i) => PictureAgrees(i)
<1>1. Inv /\ Fitness /\ Agreement /\ Seen' /\ [Next]_vars => [Agreed]_vars
  <2> SUFFICES ASSUME Inv, Fitness, Agreement, Seen', Next,
                      NEW i \in Installers, ~At(i, "done"), At(i, "done")', Alone(i)
               PROVE  Reported(i)'
    OBVIOUS
  <2>1. Works(i) \/ Disturbed(i)
    <3>1. ~(Platform \/ Trouble)
      BY OutsideServers DEF At
    <3>2. PICK j \in Installers : Works(j) \/ Disturbed(j)
      BY <3>1 DEF Next
    <3>3. Stepped(j)
      BY <3>2, CameFrom DEF Inv, RunInv
    <3> QED
      BY <3>2, <3>3 DEF Stepped, At
  <2>2. Stepped(i) /\ run'[i].at = "done" /\ plan' = plan /\ Site(i)' = Site(i)
    BY <2>1, CameFrom DEF Inv, RunInv, At, Stepped, Site
  <2>3. Lone(i) /\ Lone(i)'
    BY <2>2, SameInstallers DEF Lone, Stepped, Present
  <2>4. Agreeing(i) /\ SameImage(i)
    BY <2>3 DEF Agreement, Agreeing
  <2>5. PictureAgrees(i)'
    BY <2>3
  <2>6. run'[i].image \in Listed("home")' /\ images'[run'[i].image].status = "available"
    BY <2>2, <2>5 DEF PictureAgrees, Sighted
  <2>7. PICK s, k : s = run[i].server /\ k = Site(i)
    OBVIOUS
  <2>8. /\ run'[i].server = s /\ run'[i].net = run[i].net
        /\ run'[i].image = run[i].image /\ run'[i].cert = run[i].cert
    BY <2>1, <2>2, <2>7, Finishing
  <2>9. /\ servers'[s].site = k
        /\ plan[i].mode # "private" => servers'[s].net = run[i].net
        /\ plan[i].server = 0 => servers'[s].image = run[i].image /\ servers'[s].status = "active"
        /\ \E g \in servers'[s].groups : Rules \subseteq rules'[g]
    BY <2>1, <2>2, <2>4, <2>7, ReportedServer
  <2>10. /\ plan[i].mode \in {"address", "named"} => addresses'[run'[i].address].nic = s
         /\ plan[i].mode = "named" => records'[k] = {ViaAddress(run'[i].address)}
         /\ plan[i].mode = "balancer" =>
               /\ records'[k] = {ViaBalancer}
               /\ balancers'[k].cert = run[i].cert /\ certs'[run[i].cert].site = k
               /\ balancers'[k].status = "ready"
               /\ balancers'[k].target = s \/ k \in removed'
    BY <2>1, <2>2, <2>4, <2>7, ReportedWay
  <2> QED
    BY <2>2, <2>6, <2>7, <2>8, <2>9, <2>10 DEF Reported
<1>2. Inv /\ Fitness /\ Settledness /\ Standing => Seen
  BY PicturesAgree
<1>3. Init => Tidiness /\ Settledness /\ Fitness /\ Standing /\ Agreement
  BY TidinessBegins, SettlednessBegins, FitnessBegins, StandingBegins, AgreementBegins
<1> QED
  BY <1>1, <1>2, <1>3, TidinessKept, SettlednessKept, FitnessKept, StandingKept, AgreementKept,
     DeploymentInvariant, PTL DEF Spec, SuccessAgrees
=============================================================================
