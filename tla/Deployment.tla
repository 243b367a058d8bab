----------------------------- MODULE Deployment -----------------------------
(***************************************************************************)
(* The phases of RunWithExtensions over one cloud: any number of           *)
(* installers, for the same or for different deployments, with runs that   *)
(* are cut off anywhere and repeated.                                      *)
(***************************************************************************)
EXTENDS Resources, ImageSelection, Exposure

\* In a cloud to start from an address is attached to a server that exists and
\* has been set up, and a configuration names things by their numbers.
ASSUME ScenarioAssumption ==
    \A s \in Scenarios :
        /\ DOMAIN s.plan = Installers
        /\ \A i \in Installers : /\ s.plan[i].site \in Sites
                                 /\ s.plan[i].server \in Ids \cup {0}
                                 /\ s.plan[i].image \in Ids \cup {0}
                                 /\ s.plan[i].address \in Ids \cup {0}
                                 /\ s.plan[i].owner \in Projects
        /\ DOMAIN s.networks = Projects
        /\ s.groups \subseteq Ids /\ DOMAIN s.rules = Ids
        /\ DOMAIN s.images = Ids
        /\ \A m \in Ids : /\ DOMAIN s.images[m] = DOMAIN NoImage
                          /\ s.images[m].status \in {"none", "creating", "available"}
        /\ DOMAIN s.servers = Ids
        /\ \A x \in Ids : /\ DOMAIN s.servers[x] = DOMAIN NoServer
                          /\ s.servers[x].status \in {"none", "creating", "active", "error"}
        /\ DOMAIN s.addresses = Ids
        /\ \A a \in Ids :
              LET x == s.addresses[a]
              IN  /\ DOMAIN x = {"there", "nic", "managed"}
                  /\ ~x.there => x.nic = 0
                  /\ x.nic # 0 => x.nic \in Ids /\ s.servers[x.nic].status # "none"
                                    /\ s.servers[x.nic].safe

vars == <<plan, run, credit, networks, groups, rules, servers, addresses, removed,
          images, zone, records, texts, certs, balancers>>

Init ==
    \E s \in Scenarios :
        /\ plan = s.plan
        /\ run = [i \in Installers |-> NoRun(IF i \in s.present THEN "ready" ELSE "absent")]
        /\ credit = s.credit
        /\ networks = s.networks
        /\ groups = s.groups
        /\ rules = s.rules
        /\ servers = s.servers
        /\ addresses = s.addresses
        /\ removed = {}
        /\ images = s.images
        /\ zone = s.zone
        /\ records = [k \in Sites |-> {}]
        /\ texts = [k \in Sites |-> NoText]
        /\ certs = [c \in Ids |-> NoCert]
        /\ balancers = [k \in Sites |-> NoBalancer]

\* A run takes a step of its own.
Resource(i) ==
    /\ \/ FindNetwork(i) \/ MakeNetwork(i)
       \/ FindGroup(i) \/ MakeGroup(i) \/ AddRule(i) \/ GroupReady(i)
       \/ FindServer(i) \/ (MakeServer(i) /\ ImageThere(i)) \/ WaitServer(i)
       \/ AdoptServer(i) \/ AttachGroup(i) \/ BootstrapServer(i)
       \/ ChooseAddress(i) \/ AttachAddress(i) \/ MakeAddress(i)
    /\ UNCHANGED <<images, zone, records, texts, certs, balancers>>

Image(i) ==
    /\ \/ FindImage(i) \/ FindOwnerImage(i) \/ DropImage(i) \/ WaitImage(i)
       \/ FindImportNetwork(i) \/ MakeImportNetwork(i) \/ Import(i) \/ Upload(i)
       \/ MarkImage(i) \/ ShareImage(i) \/ WaitVisible(i) \/ Deadline(i)
    /\ UNCHANGED <<groups, rules, servers, addresses, removed,
                   zone, records, texts, certs, balancers>>

Expose(i) ==
    /\ \/ FindZone(i) \/ MakeZone(i) \/ WaitZone(i)
       \/ ListRecords(i) \/ WriteRecord(i)
       \/ FindCertificate(i) \/ ListTexts(i) \/ WriteText(i) \/ Validate(i)
       \/ CleanUp(i) \/ StoreCertificate(i)
       \/ ListBalancers(i) \/ UpdateBalancer(i) \/ MakeBalancer(i) \/ WaitBalancer(i)
    /\ UNCHANGED <<networks, groups, rules, servers, addresses, removed, images>>

Works(i) ==
    \/ (Start(i) \/ Secure(i)) /\ UNCHANGED <<resourceVars, images, exposureVars>>
    \/ Resource(i)
    \/ Image(i)
    \/ Expose(i)

\* What may go wrong in a run, and a run that is not needed.
Disturbed(i) ==
    /\ \/ (Interrupt(i) \/ Again(i) \/ Invalid(i) \/ CleanUpFails(i)) /\ UNCHANGED images
       \/ UploadFails(i)
    /\ UNCHANGED <<resourceVars, exposureVars>>

\* STACKIT ends what it has begun, and an import ages.
Platform ==
    \/ /\ \E s \in Ids : ServerStarts(s)
       /\ UNCHANGED <<images, zone, records, texts, certs, balancers>>
    \/ /\ \E m \in Ids : ImageReady(m) \/ ImageAges(m)
       /\ UNCHANGED <<groups, rules, servers, addresses, removed,
                      zone, records, texts, certs, balancers>>
    \/ /\ ZoneEnds("active") \/ \E k \in Sites : BalancerEnds(k, "ready")
       /\ UNCHANGED <<networks, groups, rules, servers, addresses, removed, images>>

Trouble ==
    \/ /\ \E s \in Ids : ServerBreaks(s) \/ RemoveServer(s)
       /\ UNCHANGED <<images, zone, records, texts, certs, balancers>>
    \/ /\ \/ ZoneEnds("failed")
          \/ \E k \in Sites : BalancerEnds(k, "error")
          \/ \E c \in Ids : CertificateAges(c)
       /\ UNCHANGED <<networks, groups, rules, servers, addresses, removed, images>>

Next ==
    \/ \E i \in Installers : Works(i) \/ Disturbed(i)
    \/ Platform
    \/ Trouble

Spec == Init /\ [][Next]_vars

\* A run goes on and is repeated after an error; STACKIT ends what it began.
\* Nothing is fair about faults.
LiveSpec ==
    Spec /\ WF_vars(Platform) /\ \A i \in Installers : WF_vars(Works(i))
-----------------------------------------------------------------------------
Present == {i \in Installers : run[i].at # "absent"}
Single == \E i \in Installers : Present = {i}

\* However often its runs are cut off, also when only the answer of a create
\* call was lost, an installer that works alone has one network in each
\* project, one group, one server, one address of its own, one import that
\* counts and one certificate that is not due: every phase finds what an
\* earlier run has made (stackit.go 542-808, acme.go 104-120).
NothingTwice ==
    Single =>
        /\ \A p \in Projects : Cardinality(networks[p]) <= 1
        /\ Cardinality(groups) <= 1
        /\ \A k \in Sites : Cardinality({s \in Existing : servers[s].site = k}) <= 1
        /\ Cardinality({a \in Reserved : addresses[a].managed}) <= 1
        /\ \A p \in Projects :
              Cardinality({m \in Ids : /\ images[m].status # "none" /\ images[m].label = "match"
                                       /\ images[m].owner = p}) <= 1
        /\ \A k \in Sites :
              Cardinality({c \in Ids : certs[c] = [site |-> k, fresh |-> TRUE]}) <= 1

\* What NothingTwice asks of a cloud to start from, when one installer is at
\* work: at most one of each, an address of the installer that is its to attach
\* again, and no image but the one that is configured.
OnlyOneOf(S) == \A x, y \in S : x = y

TidyStart ==
    \A s \in Scenarios, i \in Installers : Installers \cap s.present = {i} =>
        LET p       == s.plan[i]
            managed == {a \in Ids : s.addresses[a].there /\ s.addresses[a].managed}
            stored  == {m \in Ids : s.images[m].status # "none" /\ s.images[m].label = "match"}
        IN  /\ \A q \in Projects : /\ OnlyOneOf(s.networks[q])
                                   /\ OnlyOneOf({m \in stored : s.images[m].owner = q})
            /\ OnlyOneOf(s.groups)
            /\ \A k \in Sites :
                  OnlyOneOf({x \in Ids : s.servers[x].status # "none" /\ s.servers[x].site = k})
            /\ OnlyOneOf(managed)
            /\ \A a \in managed :
                  IF p.address = 0
                  THEN s.addresses[a].nic = 0 \/ s.servers[s.addresses[a].nic].site = p.site
                  ELSE a = p.address
            /\ p.image # 0 => \A m \in stored : s.images[m].owner = p.owner => m = p.image

\* A server that can be reached from outside, through an address or a load
\* balancer, has been bootstrapped: it no longer has the vendor's password
\* (command.go 354-444).  A load balancer keeps the private address of a
\* server that was removed, which the next server may get: see the README.
Public(s) ==
    \/ \E a \in Ids : addresses[a].nic = s
    \/ \E k \in Sites \ removed : balancers[k].status # "none" /\ balancers[k].target = s

Bootstrapping == \A i \in Installers : plan[i].bootstrap

ExposedIsSafe ==
    Bootstrapping => \A s \in Existing : Public(s) => servers[s].safe

\* When a run reports success, what it reports fits together, whatever the
\* runs before it have left: the image is available to the project and is the
\* server's, the server is in the network of the run and behind all rules, and
\* the record leads to its address, or to a load balancer with the certificate
\* of the run and with the server as its target (command.go 375-445).  Other
\* installers may be at work on other deployments.  A load balancer that has
\* the certificate keeps a target that was removed (alb.go 75).
Reported(i) ==
    LET r == run[i]
        s == servers[r.server]
        k == Site(i)
    IN  /\ s.site = k
        /\ plan[i].mode # "private" => s.net = r.net
        /\ plan[i].server = 0 => s.image = r.image /\ s.status = "active"
        /\ r.image \in Listed("home") /\ images[r.image].status = "available"
        /\ \E g \in s.groups : Rules \subseteq rules[g]
        /\ plan[i].mode \in {"address", "named"} => addresses[r.address].nic = r.server
        /\ plan[i].mode = "named" => records[k] = {ViaAddress(r.address)}
        /\ plan[i].mode = "balancer" =>
              /\ records[k] = {ViaBalancer}
              /\ balancers[k].cert = r.cert /\ certs[r.cert].site = k
              /\ balancers[k].status = "ready"
              /\ balancers[k].target = r.server \/ k \in removed

Alone(i) == \A j \in Present \ {i} : Site(j) # Site(i) /\ plan[j].mode = "balancer"

SuccessAgrees ==
    [][\A i \in Installers :
          ~At(i, "done") /\ At(i, "done")' /\ Alone(i) => Reported(i)']_vars

\* An installer that works alone takes no address from a server, and a server
\* keeps the address it has: a requested address of another server is refused
\* and the address of the server comes first (stackit.go 732-798).
AddressKept ==
    [][Single => \A a \in Ids :
          addresses[a].nic # 0 /\ addresses'[a].nic # addresses[a].nic =>
              /\ addresses'[a].nic = 0
              /\ servers'[addresses[a].nic].status = "none"]_vars

\* An installer that works alone refuses to go on only for a cause that its
\* operator can see, never for what an earlier run of it has left half done.
ServerCause(i) ==
    \/ \E s \in Named(i) :
          \/ servers[s].status = "error"
          \/ servers[s].image = 0
          \/ plan[i].image # 0 /\ servers[s].image # plan[i].image
          \/ plan[i].network # 0 /\ servers[s].net # plan[i].network
    \/ plan[i].server # 0 /\ plan[i].server \notin Named(i)
    \/ plan[i].server # 0 /\ servers[plan[i].server].net \notin networks["home"] \cup {plan[i].network}

ImageCause(i) ==
    LET m == images[plan[i].image]
    IN  plan[i].image # 0 /\ (m.status = "none" \/ m.label # "match" \/ m.owner # plan[i].owner)

AddressCause(i) ==
    plan[i].address # 0 /\ ~(addresses[plan[i].address].there
                              /\ addresses[plan[i].address].nic \in {0} \cup Named(i))

NameCause(i) ==
    zone = "failed" \/ (zone = "none" /\ ~plan[i].createZone) \/ balancers[Site(i)].status = "error"

RefusalHasCause ==
    [][\A i \in Present :
          Single /\ ~At(i, "refused") /\ At(i, "refused")' =>
              ServerCause(i) \/ ImageCause(i) \/ AddressCause(i) \/ NameCause(i)]_vars

\* What RefusalHasCause asks of a cloud to start from, besides TidyStart: the
\* installer can see at most one image of the hash, and the servers of its name
\* are in its network and were made from no image, from that one, or from
\* another than the configured one.
SettledStart ==
    \A s \in Scenarios, i \in Installers : Installers \cap s.present = {i} =>
        LET p       == s.plan[i]
            shown   == {m \in Ids : /\ s.images[m].status # "none" /\ s.images[m].label = "match"
                                    /\ \/ s.images[m].owner \in {"home", p.owner}
                                       \/ {"home", p.owner, "organization"} \cap s.images[m].shared # {}}
            named   == {x \in Ids : s.servers[x].status # "none" /\ s.servers[x].site = p.site}
        IN  /\ p.image = 0 =>
                  /\ OnlyOneOf(shown)
                  /\ \A m \in shown : \/ s.images[m].owner \in {"home", p.owner}
                                      \/ s.images[m].status = "available"
            /\ p.server = 0 =>
                  \A x \in named :
                     LET m == s.servers[x].image
                     IN  /\ p.network = 0 => s.servers[x].net \in s.networks["home"]
                         /\ \/ m = 0
                            \/ /\ m \in Ids /\ s.images[m].status = "available"
                               /\ IF p.image = 0 THEN m \in shown ELSE m = p.image
                            \/ m # p.image /\ p.image # 0 /\ s.servers[x].status # "creating"
            /\ p.server # 0 => \A x \in named : s.servers[x].net # 0
            /\ 0 \notin s.networks["home"]

\* What SuccessAgrees asks of a cloud to start from, besides TidyStart and
\* SettledStart: a server that was made from an image is in a group with all
\* rules; a deployment that no other installer works on has at most one server;
\* and where others are at work, all find one image that is available.
OneImageStands(s, present) ==
    \E m \in Ids :
        /\ s.images[m].status = "available" /\ s.images[m].owner = "home"
        /\ s.images[m].label = "match"
        /\ \A x \in Ids \ {m} :
              \/ s.images[x].status = "none" \/ s.images[x].label # "match"
              \/ s.images[x].owner # "home" /\ {"home", "organization"} \cap s.images[x].shared = {}
        /\ \A j \in present : s.plan[j].image = 0 /\ s.plan[j].owner = "home"
        /\ \A x \in Ids : s.servers[x].status = "creating" => s.servers[x].image = m

AgreedStart ==
    \A s \in Scenarios :
        LET present == Installers \cap s.present
        IN  /\ \A x \in Ids :
                  LET server == s.servers[x]
                  IN  /\ server.status = "creating" => server.image # 0
                      /\ server.status # "none" /\ server.image # 0 =>
                            \E g \in server.groups \cap s.groups : Rules \subseteq s.rules[g]
            /\ \A i \in present :
                  (\A j \in present \ {i} : s.plan[j].site # s.plan[i].site
                                            /\ s.plan[j].mode = "balancer") =>
                      /\ OnlyOneOf({x \in Ids : /\ s.servers[x].status # "none"
                                                /\ s.servers[x].site = s.plan[i].site})
                      /\ present # {i} => OneImageStands(s, present)

\* Once faults have stopped, the reruns of an installer that works alone come
\* to a deployment or to a refusal.  Two cases are left out, which never end:
\* an unfinished import of the deployment's project, when images are kept in
\* another (stackit.go 267), and a record set behind the first page (dns.go 27).
Hindered(i) ==
    \/ plan[i].crowded
    \/ plan[i].owner # "home" /\ \E m \in Ids : images[m].owner = "home" /\ Orphan(m)

EventuallyDeployed ==
    \A i \in Installers :
        (i \in Present /\ Single /\ ~Hindered(i)) ~> run[i].at \in {"done", "refused"}
=============================================================================
