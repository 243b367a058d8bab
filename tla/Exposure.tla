------------------------------ MODULE Exposure ------------------------------
(***************************************************************************)
(* The name and the way in: the DNS zone and the A record (dns.go), the    *)
(* ACME challenge and the certificate store (acme.go), the Application     *)
(* Load Balancer (alb.go).  A listing and the write that follows from it   *)
(* are two steps.  Record sets and load balancers are unique by name, so   *)
(* that STACKIT refuses a second one.                                      *)
(***************************************************************************)
EXTENDS Phases

VARIABLES
    zone,       \* the state of the zone
    records,    \* the A record of each site: a set of at most one value
    texts,      \* the challenge of each site: its id and whose token it holds
    certs,      \* the certificate store
    balancers   \* the load balancer of each site

exposureVars == <<zone, records, texts, certs, balancers>>

NoText == [id |-> 0, of |-> {}]
NoCert == [site |-> 0, fresh |-> FALSE]
NoBalancer == [status |-> "none", cert |-> 0, target |-> 0]

Site(i) == plan[i].site
-----------------------------------------------------------------------------
(* Zone.                                                                   *)

FindZone(i) ==
    /\ At(i, "zone")
    /\ \/ zone = "active" /\ To(i, After(i, "zone"))
       \/ zone = "creating" /\ To(i, "waitZone")
       \/ zone = "failed" /\ Stops(i, "refused")
       \/ zone = "none" /\ plan[i].createZone /\ To(i, "makeZone")
       \/ zone = "none" /\ ~plan[i].createZone /\ Stops(i, "refused")
    /\ UNCHANGED exposureVars

MakeZone(i) ==
    /\ At(i, "makeZone")
    /\ \/ zone = "none" /\ zone' = "creating" /\ To(i, "waitZone")
       \/ zone # "none" /\ Stops(i, "failed") /\ UNCHANGED zone
    /\ UNCHANGED <<records, texts, certs, balancers>>

WaitZone(i) ==
    /\ At(i, "waitZone")
    /\ \/ zone = "active" /\ To(i, After(i, "zone"))
       \/ zone = "failed" /\ Stops(i, "refused")
    /\ UNCHANGED exposureVars
-----------------------------------------------------------------------------
(* A record.                                                               *)

ViaBalancer == [kind |-> "balancer", id |-> 0]
ViaAddress(a) == [kind |-> "address", id |-> a]

Value(i) == IF plan[i].mode = "balancer" THEN ViaBalancer ELSE ViaAddress(run[i].address)

\* The listing has one page: in a crowded zone the record is on another.
ListRecords(i) ==
    /\ At(i, "record")
    /\ Learns(i, [seen |-> IF plan[i].crowded THEN {} ELSE records[Site(i)]], "writeRecord")
    /\ UNCHANGED exposureVars

WriteRecord(i) ==
    /\ At(i, "writeRecord")
    /\ \/ /\ run[i].seen # {} \/ records[Site(i)] = {}
          /\ records' = [records EXCEPT ![Site(i)] = {Value(i)}]
          /\ Learns(i, [seen |-> {}], After(i, "record"))
       \/ /\ run[i].seen = {} /\ records[Site(i)] # {}
          /\ Stops(i, "failed")
          /\ UNCHANGED records
    /\ UNCHANGED <<zone, texts, certs, balancers>>
-----------------------------------------------------------------------------
(* Certificate.                                                            *)

FindCertificate(i) ==
    /\ At(i, "certificate")
    /\ LET usable == {c \in Ids : certs[c] = [site |-> Site(i), fresh |-> TRUE]}
       IN  \/ \E c \in usable : Learns(i, [cert |-> c], After(i, "certificate"))
           \/ usable = {} /\ To(i, "present")
    /\ UNCHANGED exposureVars

\* Present, the listing.
ListTexts(i) ==
    /\ At(i, "present")
    /\ Learns(i, [seen |-> IF plan[i].crowded \/ texts[Site(i)].id = 0
                           THEN {}
                           ELSE {texts[Site(i)].id}],
              "writeText")
    /\ UNCHANGED exposureVars

InUse == {texts[s].id : s \in Sites} \cup {run[j].txt : j \in Installers}
            \cup UNION {run[j].seen : j \in {k \in Installers : At(k, "writeText")}}

\* Present, the write: the record of the listing is overwritten, whoever made
\* it, and its id is remembered for CleanUp.
WriteText(i) ==
    /\ At(i, "writeText")
    /\ \/ \E id \in run[i].seen :
             /\ texts[Site(i)].id = id
             /\ texts' = [texts EXCEPT ![Site(i)].of = {i}]
             /\ Learns(i, [seen |-> {}, txt |-> id], "validate")
       \/ /\ run[i].seen = {} /\ texts[Site(i)].id = 0
          /\ \E id \in Ids :
                /\ IsNext(id, InUse)
                /\ texts' = [texts EXCEPT ![Site(i)] = [id |-> id, of |-> {i}]]
                /\ Learns(i, [txt |-> id], "validate")
       \/ /\ texts[Site(i)].id \notin run[i].seen
          /\ run[i].seen # {} \/ texts[Site(i)].id # 0
          /\ Stops(i, "failed")
          /\ UNCHANGED texts
    /\ UNCHANGED <<zone, records, certs, balancers>>

\* The authority reads the record: it must hold the token of this run.
Validate(i) ==
    /\ At(i, "validate")
    /\ Learns(i, [valid |-> texts[Site(i)].of = {i}], "cleanUp")
    /\ UNCHANGED exposureVars

\* The authority refuses for another reason: CleanUp is still called.
Invalid(i) ==
    /\ At(i, "validate")
    /\ Costs
    /\ run' = [run EXCEPT ![i].at = "cleanUp"]
    /\ UNCHANGED exposureVars

\* The record is deleted by its id, whoever's token it holds by now.
CleanUp(i) ==
    /\ At(i, "cleanUp")
    /\ texts' = [texts EXCEPT ![Site(i)] = IF @.id = run[i].txt THEN NoText ELSE @]
    /\ IF run[i].valid
       THEN Learns(i, [txt |-> 0, valid |-> FALSE], "storeCertificate")
       ELSE Stops(i, "failed")
    /\ UNCHANGED <<zone, records, certs, balancers>>

\* An error of CleanUp is only logged: the certificate is stored, the record
\* stays.
CleanUpFails(i) ==
    /\ At(i, "cleanUp") /\ run[i].valid
    /\ Costs
    /\ run' = [run EXCEPT ![i] = [@ EXCEPT !.txt = 0, !.valid = FALSE, !.at = "storeCertificate"]]
    /\ UNCHANGED exposureVars

StoreCertificate(i) ==
    /\ At(i, "storeCertificate")
    /\ \E c \in Ids :
          /\ IsNext(c, {d \in Ids : certs[d] # NoCert})
          /\ certs' = [certs EXCEPT ![c] = [site |-> Site(i), fresh |-> TRUE]]
          /\ Learns(i, [cert |-> c], After(i, "certificate"))
    /\ UNCHANGED <<zone, records, texts, balancers>>
-----------------------------------------------------------------------------
(* Load balancer.  The version that an update names is, here, what the     *)
(* listing showed: STACKIT refuses the update of another version.          *)

Desired(i) == [cert |-> run[i].cert, target |-> run[i].server]
Version(b) == [cert |-> b.cert, target |-> b.target]

\* serverPrivateIP: the address of the server in the network of the run.
HasPrivateIP(i) == servers[run[i].server].net = run[i].net

\* A load balancer that has the certificate is left as it is.
ListBalancers(i) ==
    LET b == balancers[Site(i)]
    IN  /\ At(i, "balancer")
        /\ \/ ~HasPrivateIP(i) /\ Stops(i, "refused")
           \/ HasPrivateIP(i) /\ b.status = "none" /\ To(i, "makeBalancer")
           \/ /\ HasPrivateIP(i) /\ b.status # "none" /\ b.cert = run[i].cert
              /\ To(i, "waitBalancer")
           \/ /\ HasPrivateIP(i) /\ b.status # "none" /\ b.cert # run[i].cert
              /\ Learns(i, [seen |-> {Version(b)}], "updateBalancer")
        /\ UNCHANGED exposureVars

Configure(i) ==
    balancers' = [balancers EXCEPT ![Site(i)] =
        [status |-> "pending", cert |-> Desired(i).cert, target |-> Desired(i).target]]

UpdateBalancer(i) ==
    /\ At(i, "updateBalancer")
    /\ \/ /\ Version(balancers[Site(i)]) \in run[i].seen
          /\ Configure(i)
          /\ Learns(i, [seen |-> {}], "waitBalancer")
       \/ /\ Version(balancers[Site(i)]) \notin run[i].seen
          /\ Stops(i, "failed")
          /\ UNCHANGED balancers
    /\ UNCHANGED <<zone, records, texts, certs>>

MakeBalancer(i) ==
    /\ At(i, "makeBalancer")
    /\ \/ /\ balancers[Site(i)].status = "none"
          /\ Configure(i)
          /\ To(i, "waitBalancer")
       \/ /\ balancers[Site(i)].status # "none"
          /\ Stops(i, "failed")
          /\ UNCHANGED balancers
    /\ UNCHANGED <<zone, records, texts, certs>>

WaitBalancer(i) ==
    /\ At(i, "waitBalancer")
    /\ \/ balancers[Site(i)].status = "ready" /\ To(i, After(i, "balancer"))
       \/ balancers[Site(i)].status = "error" /\ Stops(i, "refused")
    /\ UNCHANGED exposureVars
-----------------------------------------------------------------------------
(* STACKIT, and time.                                                      *)

ZoneEnds(state) ==
    /\ zone = "creating" /\ zone' = state
    /\ \/ state = "active" /\ UNCHANGED <<plan, credit>>
       \/ state = "failed" /\ Costs
    /\ UNCHANGED <<run, records, texts, certs, balancers>>

BalancerEnds(s, state) ==
    /\ balancers[s].status = "pending"
    /\ balancers' = [balancers EXCEPT ![s].status = state]
    /\ \/ state = "ready" /\ UNCHANGED <<plan, credit>>
       \/ state = "error" /\ Costs
    /\ UNCHANGED <<run, zone, records, texts, certs>>

\* A certificate comes up for renewal.
CertificateAges(c) ==
    /\ certs[c].fresh
    /\ Costs
    /\ certs' = [certs EXCEPT ![c].fresh = FALSE]
    /\ UNCHANGED <<run, zone, records, texts, balancers>>
=============================================================================
