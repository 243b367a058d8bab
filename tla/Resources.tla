----------------------------- MODULE Resources -----------------------------
(***************************************************************************)
(* Network, security group, server, bootstrap and public address of a      *)
(* deployment (stackit.go 538-835).  Everything is found again by name,    *)
(* label or relation, and created when it is not found.  What is listed    *)
(* and what is done with it are two calls: another run may come between.   *)
(***************************************************************************)
EXTENDS Phases

VARIABLES
    groups,     \* the security groups of the configured name
    rules,      \* the ingress rules of each group
    addresses,  \* the server a public address is attached to, 0 for none
    removed     \* history: sites whose server was removed by their operator

resourceVars == <<networks, groups, rules, servers, addresses, removed>>

NoServer == [status |-> "none", site |-> 0, image |-> 0, net |-> 0,
             groups |-> {}, safe |-> FALSE]

Existing == {s \in Ids : servers[s].status # "none"}
Reserved == {a \in Ids : addresses[a].there}
-----------------------------------------------------------------------------
(* Network and security group.                                             *)

FindNetwork(i) ==
    /\ At(i, "network")
    /\ \/ /\ plan[i].network # 0
          /\ Learns(i, [net |-> plan[i].network], After(i, "network"))
       \/ /\ plan[i].network = 0
          /\ \E n \in networks["home"] : Learns(i, [net |-> n], After(i, "network"))
       \/ /\ plan[i].network = 0 /\ networks["home"] = {}
          /\ To(i, "makeNetwork")
    /\ UNCHANGED resourceVars

MakeNetwork(i) ==
    /\ At(i, "makeNetwork")
    /\ \E n \in Ids :
          /\ IsNext(n, networks["home"])
          /\ networks' = [networks EXCEPT !["home"] = @ \cup {n}]
          /\ Learns(i, [net |-> n], After(i, "network"))
    /\ UNCHANGED <<groups, rules, servers, addresses, removed>>

\* As if a group that is found had all its rules.
FindGroupComplete(i) ==
    /\ At(i, "group")
    /\ \/ \E g \in groups : Learns(i, [group |-> g, have |-> Rules], "rules")
       \/ groups = {} /\ To(i, "makeGroup")
    /\ UNCHANGED resourceVars

\* The rules of a found group are those of the listing.
FindGroup(i) ==
    /\ At(i, "group")
    /\ \/ \E g \in groups : Learns(i, [group |-> g, have |-> rules[g]], "rules")
       \/ groups = {} /\ To(i, "makeGroup")
    /\ UNCHANGED resourceVars

MakeGroup(i) ==
    /\ At(i, "makeGroup")
    /\ \E g \in Ids :
          /\ IsNext(g, groups)
          /\ groups' = groups \cup {g}
          /\ rules' = [rules EXCEPT ![g] = {}]
          /\ Learns(i, [group |-> g, have |-> {}], "rules")
    /\ UNCHANGED <<networks, servers, addresses, removed>>

AddRule(i) ==
    /\ At(i, "rules")
    /\ \E r \in Rules \ run[i].have :
          /\ \A other \in Rules \ run[i].have : r <= other
          /\ rules' = [rules EXCEPT ![run[i].group] = @ \cup {r}]
          /\ Learns(i, [have |-> run[i].have \cup {r}], "rules")
    /\ UNCHANGED <<networks, groups, servers, addresses, removed>>

GroupReady(i) ==
    /\ At(i, "rules")
    /\ Rules \subseteq run[i].have
    /\ To(i, After(i, "group"))
    /\ UNCHANGED resourceVars
-----------------------------------------------------------------------------
(* Server.                                                                 *)

\* As if a server were found by its name only once it works.
NamedWorking(i) == {s \in Existing : servers[s].site = plan[i].site /\ servers[s].status = "active"}

Named(i) == {s \in Existing : servers[s].site = plan[i].site}

\* As if a server that exists had been bootstrapped by the run that made it.
FindServerSetUp(i) ==
    /\ At(i, "server") /\ plan[i].server = 0
    /\ \/ /\ Named(i) = {} /\ To(i, "makeServer")
       \/ \E s \in Named(i) :
             /\ servers[s].image = run[i].image
             /\ Learns(i, [server |-> s], After(i, "bootstrap"))
    /\ UNCHANGED resourceVars

\* As if only a server that works could be used.
FindServerWorking(i) ==
    /\ At(i, "server") /\ plan[i].server = 0
    /\ \/ /\ Named(i) = {} /\ To(i, "makeServer")
       \/ \E s \in Named(i) :
             IF servers[s].status = "active" /\ servers[s].image = run[i].image
             THEN Learns(i, [server |-> s], After(i, "server"))
             ELSE Stops(i, "refused")
    /\ UNCHANGED resourceVars

\* A missing label is printed as "<nil>", which is no image: it is refused
\* like another image.  A server that is still being created is not asked.
FindServer(i) ==
    /\ At(i, "server") /\ plan[i].server = 0
    /\ \/ /\ Named(i) = {} /\ To(i, "makeServer")
       \/ \E s \in Named(i) :
             \/ servers[s].status = "creating" /\ Learns(i, [server |-> s], "waitServer")
             \/ servers[s].status = "error" /\ Stops(i, "refused")
             \/ /\ servers[s].status = "active"
                /\ servers[s].image # run[i].image
                /\ Stops(i, "refused")
             \/ /\ servers[s].status = "active"
                /\ servers[s].image = run[i].image
                /\ Learns(i, [server |-> s], After(i, "server"))
    /\ UNCHANGED resourceVars

MakeServer(i) ==
    /\ At(i, "makeServer")
    /\ \E s \in Ids :
          /\ IsNext(s, Existing)
          /\ servers' = [servers EXCEPT ![s] =
                [status |-> "creating", site |-> plan[i].site, image |-> run[i].image,
                 net |-> run[i].net, groups |-> {run[i].group}, safe |-> FALSE]]
          /\ Learns(i, [server |-> s], "waitServer")
    /\ UNCHANGED <<networks, groups, rules, addresses, removed>>

WaitServer(i) ==
    /\ At(i, "waitServer")
    /\ \/ servers[run[i].server].status = "active" /\ To(i, After(i, "server"))
       \/ servers[run[i].server].status = "error" /\ Stops(i, "refused")
    /\ UNCHANGED resourceVars

\* server.id: the server must have the configured name, work, and be in the
\* network; its image is not looked at.
Adoptable(i) ==
    LET s == servers[plan[i].server]
    IN  s.status \in {"creating", "active"} /\ s.site = plan[i].site /\ s.net = run[i].net

AdoptServer(i) ==
    /\ At(i, "server") /\ plan[i].server # 0
    /\ \/ ~Adoptable(i) /\ Stops(i, "refused")
       \/ /\ Adoptable(i) /\ run[i].group \notin servers[plan[i].server].groups
          /\ Learns(i, [server |-> plan[i].server], "attachGroup")
       \/ /\ Adoptable(i) /\ run[i].group \in servers[plan[i].server].groups
          /\ Learns(i, [server |-> plan[i].server], After(i, "server"))
    /\ UNCHANGED resourceVars

AttachGroup(i) ==
    /\ At(i, "attachGroup")
    /\ servers' = [servers EXCEPT ![run[i].server].groups = @ \cup {run[i].group}]
    /\ To(i, After(i, "server"))
    /\ UNCHANGED <<networks, groups, rules, addresses, removed>>

\* bootstrap.go is the subject of Bootstrap: here it makes a server safe.
BootstrapServer(i) ==
    /\ At(i, "bootstrap")
    /\ servers' = [servers EXCEPT ![run[i].server].safe = @ \/ plan[i].bootstrap]
    /\ To(i, After(i, "bootstrap"))
    /\ UNCHANGED <<networks, groups, rules, addresses, removed>>
-----------------------------------------------------------------------------
(* Public address.                                                         *)

Attached(s) == {a \in Reserved : addresses[a].nic = s}
\* The interface of the server is looked for in the network of the run.
HasNic(i) == servers[run[i].server].net = run[i].net

FreeManaged == {a \in Reserved : addresses[a].managed /\ addresses[a].nic = 0}

\* As if the requested address were taken from wherever it is.
ChooseAddressAnyway(i) ==
    LET s == run[i].server
        wish == plan[i].address
    IN  /\ At(i, "address")
        /\ \/ \E a \in Attached(s) : Learns(i, [address |-> a], After(i, "address"))
           \/ Attached(s) = {} /\ wish # 0 /\ Learns(i, [address |-> wish], "attachAddress")
           \/ Attached(s) = {} /\ wish = 0 /\ To(i, "makeAddress")
        /\ UNCHANGED resourceVars

\* The server's own address, the requested one, a free one of the installer,
\* or a new one.
ChooseAddress(i) ==
    LET s == run[i].server
        wish == plan[i].address
    IN  /\ At(i, "address")
        /\ \/ ~HasNic(i) /\ Stops(i, "refused")
           \/ \E a \in Attached(s) : HasNic(i) /\ Learns(i, [address |-> a], After(i, "address"))
           \/ /\ HasNic(i) /\ Attached(s) = {} /\ wish # 0
              /\ \/ /\ wish \in Reserved /\ addresses[wish].nic = 0
                    /\ Learns(i, [address |-> wish], "attachAddress")
                 \/ /\ wish \notin Reserved \/ addresses[wish].nic # 0
                    /\ Stops(i, "refused")
           \/ /\ HasNic(i) /\ Attached(s) = {} /\ wish = 0
              /\ \/ \E a \in FreeManaged : Learns(i, [address |-> a], "attachAddress")
                 \/ FreeManaged = {} /\ To(i, "makeAddress")
        /\ UNCHANGED resourceVars

\* The update attaches the address, also when another run has attached it
\* since it was listed as free.
AttachAddress(i) ==
    /\ At(i, "attachAddress")
    /\ addresses' = [addresses EXCEPT ![run[i].address] =
                        [there |-> TRUE, nic |-> run[i].server, managed |-> TRUE]]
    /\ To(i, After(i, "address"))
    /\ UNCHANGED <<networks, groups, rules, servers, removed>>

MakeAddress(i) ==
    /\ At(i, "makeAddress")
    /\ \E a \in Ids :
          /\ IsNext(a, Reserved)
          /\ addresses' = [addresses EXCEPT ![a] =
                              [there |-> TRUE, nic |-> run[i].server, managed |-> TRUE]]
          /\ Learns(i, [address |-> a], After(i, "address"))
    /\ UNCHANGED <<networks, groups, rules, servers, removed>>
-----------------------------------------------------------------------------
(* STACKIT, and an operator who removes the server of a deployment between *)
(* two runs.  The next server may get its private address.                 *)

ServerStarts(s) ==
    /\ servers[s].status = "creating"
    /\ servers' = [servers EXCEPT ![s].status = "active"]
    /\ UNCHANGED <<plan, run, credit, networks, groups, rules, addresses, removed>>

ServerBreaks(s) ==
    /\ servers[s].status = "creating"
    /\ Costs
    /\ servers' = [servers EXCEPT ![s].status = "error"]
    /\ UNCHANGED <<run, networks, groups, rules, addresses, removed>>

RemoveServer(s) ==
    /\ servers[s].status # "none"
    /\ \A i \in Installers : ~Busy(i)
    /\ Costs
    /\ servers' = [servers EXCEPT ![s] = NoServer]
    /\ addresses' = [a \in Ids |-> IF addresses[a].nic = s
                                   THEN [addresses[a] EXCEPT !.nic = 0]
                                   ELSE addresses[a]]
    /\ removed' = removed \cup {servers[s].site}
    /\ UNCHANGED <<run, networks, groups, rules>>
=============================================================================
