---------------------------- MODULE MCDeployment ----------------------------
(* Configurations and clouds to start from, for Deployment.                *)
EXTENDS Deployment

CONSTANTS i1, i2

Plain ==
    [site |-> 1, mode |-> "named", agent |-> TRUE, bootstrap |-> TRUE, network |-> 0,
     server |-> 0, image |-> 0, owner |-> "home", share |-> {}, address |-> 0,
     createZone |-> TRUE, crowded |-> FALSE]

Empty ==
    [plan |-> [i \in Installers |-> Plain], present |-> {i1}, credit |-> 4,
     networks |-> [p \in Projects |-> {}], groups |-> {}, rules |-> [g \in Ids |-> {}],
     servers |-> [s \in Ids |-> NoServer],
     addresses |-> [a \in Ids |-> [there |-> FALSE, nic |-> 0, managed |-> FALSE]],
     images |-> [m \in Ids |-> NoImage], zone |-> "none"]

Server(image, groups_) ==
    [status |-> "active", site |-> 1, image |-> image, net |-> 1, groups |-> groups_, safe |-> FALSE]

Stored(owner, label) ==
    [NoImage EXCEPT !.status = "available", !.owner = owner, !.label = label, !.fed = TRUE]

Orphaned(owner) == [NoImage EXCEPT !.status = "creating", !.owner = owner, !.label = "match"]

Free(managed) == [there |-> TRUE, nic |-> 0, managed |-> managed]

With(mode) == [Empty EXCEPT !.plan[i1].mode = mode]

\* One installer, in every mode, from an empty project.
Fresh == {With(mode) : mode \in {"private", "address", "named", "balancer"}}

\* One installer that is given, or finds, what others have made.
Given ==
    {[With("address") EXCEPT !.plan[i1].address = 2, !.addresses[2] = Free(m)] : m \in BOOLEAN}
      \cup
    {[With("address") EXCEPT !.plan[i1].address = 2,
                             !.addresses[2] = [Free(FALSE) EXCEPT !.nic = 3],
                             !.servers[3] = [Server(0, {}) EXCEPT !.site = 2, !.safe = TRUE]],
     [With("address") EXCEPT !.plan[i1].address = 3],
     [With("address") EXCEPT !.addresses[1] = Free(TRUE), !.groups = {1}]}
      \cup
    {[With("address") EXCEPT !.plan[i1].server = 2, !.plan[i1].network = n,
                             !.networks["home"] = {1}, !.groups = {1},
                             !.servers[2] = Server(0, gs)] : n \in {0, 2}, gs \in {{}, {1}}}
      \cup
    {[With("private") EXCEPT !.networks["home"] = {1}, !.servers[1] = Server(0, {})],
     [With("address") EXCEPT !.plan[i1].bootstrap = FALSE],
     [With("named") EXCEPT !.plan[i1].crowded = TRUE, !.zone = "creating"],
     [With("named") EXCEPT !.plan[i1].createZone = FALSE]}
      \cup
    {[With(mode) EXCEPT !.plan[i1].network = 2, !.networks["home"] = {1},
                        !.images[1] = Stored("home", "match"), !.groups = {1},
                        !.servers[1] = Server(1, {1}), !.rules[1] = Rules]
        : mode \in {"address", "balancer"}}

\* One installer, and images in its project or in that of the owner.
Imaged ==
    {[With("private") EXCEPT !.plan[i1].owner = o, !.plan[i1].image = id,
                             !.plan[i1].share = IF id = 1 THEN {"organization"} ELSE {},
                             !.images[1] = image]
        : o \in Projects, id \in {0, 1},
          image \in {Stored(p, l) : p \in Projects, l \in {"match", "raw", "other"}}
                      \cup {Orphaned(p) : p \in Projects} \cup {NoImage}}

\* Two installers: for one deployment, or for two that share their project.
Two(mode, site, img) ==
    [With(mode) EXCEPT !.present = {i1, i2}, !.credit = 0, !.plan[i2].mode = mode,
                       !.plan[i2].site = site, !.zone = "active", !.images[1] = img]

\* Their servers are there: what is left are certificate, balancer and record.
Served(site, c) ==
    [Two("balancer", site, Stored("home", "match")) EXCEPT
        !.credit = c, !.networks["home"] = {1}, !.groups = {1}, !.rules[1] = Rules,
        !.servers = [s \in Ids |-> IF s \in {1, site}
                                   THEN [Server(1, {1}) EXCEPT !.site = s, !.safe = TRUE]
                                   ELSE NoServer]]

Shared ==
    {Served(1, 2), Served(2, 1), Two("balancer", 2, Stored("home", "match")),
     Two("address", 2, Stored("home", "match")), Two("private", 2, Orphaned("home")),
     Two("private", 1, NoImage),
     [Two("named", 1, Stored("home", "match")) EXCEPT !.zone = "none"]}

SomeScenarios == Fresh \cup Given \cup Imaged \cup Shared

\* The hypotheses of the theorems on the clouds to start from.
ASSUME ScenariosAreTidy == TidyStart
ASSUME ScenariosAreSettled == SettledStart
ASSUME ScenariosAgree == AgreedStart
=============================================================================
