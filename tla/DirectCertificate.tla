------------------------- MODULE DirectCertificate -------------------------
(***************************************************************************)
(* ensureDirectCertificate (certificate_direct.go): runs of the installer  *)
(* give the appliance a certificate for its DNS name.  Five scripts work   *)
(* on a staging directory, on the active files and on the services that    *)
(* serve them; a run is cut off, a script fails or the appliance restarts  *)
(* between any two of their steps.                                         *)
(*                                                                         *)
(* Keys and certificates are numbers in the order of their creation, 1 is  *)
(* the vendor's.  A file is as good as absent or whole, no half a file.    *)
(* That a certificate is valid for another day, which the apply script     *)
(* asks (line 235), follows from the renewal window of the staged probe.   *)
(***************************************************************************)
EXTENDS Naturals, Sequences

CONSTANTS
    Names,       \* names that the configuration may give the appliance
    Vendor,      \* the name of the vendor's certificate
    MetalHub,    \* whether the metal export provider is enabled
    MaxRenames,  \* bound on changes of the name
    MaxExpired,  \* bound on issued certificates that come up for renewal
    MaxOrders,   \* the authority's rate limit, more than the orders that fit
    MaxFaults    \* bound on faults

ASSUME NamesAssumption  == Names # {} /\ Vendor \notin Names
ASSUME HubAssumption    == MetalHub \in BOOLEAN
ASSUME BoundsAssumption ==
    /\ MaxRenames \in Nat /\ MaxExpired \in Nat /\ MaxFaults \in Nat
    /\ MaxOrders \in Nat /\ MaxOrders > 1 + MaxRenames + MaxExpired + MaxFaults

VARIABLES
    pc,       \* the script or the step of one that comes next
    at,       \* file that the installation or the rollback is at
    name,     \* fqdn of this run
    got,      \* certificate that this run obtained
    stage,    \* /var/lib/coriolis-stackit/tls-staging
    backup,   \* /var/lib/coriolis-stackit/tls-rollback
    active,   \* the files that the services are configured with
    served,   \* certificate that each service presents, 0 when it is down
    issued,   \* what each certificate was issued for
    keys,     \* number of keys generated
    expired,  \* certificates 1..expired are in the renewal window
    renames, faults,
    budget,   \* history: certificates that may have been asked for
    torn,     \* history: whether an installation or a rollback was cut off
              \* and none was completed since
    undone    \* history: whether an installation was rolled back that had come
              \* to the metal hub's files, and none was completed since

run   == <<pc, at, name, got>>
files == <<stage, backup, active, served>>
world == <<issued, keys, expired>>
cuts  == <<torn, undone>>
count == <<renames, faults, budget, cuts>>
vars  == <<run, files, world, count>>

None     == 0
NoCsr    == [key |-> None, name |-> Vendor]
NoStage  == [key |-> None, csr |-> NoCsr, pem |-> None, issuer |-> "absent", fqdn |-> Vendor]
\* The web proxy on port 443 and the API on port 5000.
Services == {"web", "api"}
\* What is saved and restored: "rest" stands for the bundle, the combined file
\* and the certificate authorities, "host" for the host name and the configuration.
Saved    == <<"cert", "key", "rest", "mark", "host">>
\* What is installed: with the metal hub's five files, which are not saved.
Files    == <<"cert", "key", "rest", "mark", "hub", "host">>
VendorFiles == [cert |-> 1, key |-> 1, rest |-> 1, mark |-> "absent", hub |-> 1, host |-> Vendor]

Init ==
    /\ pc = "idle" /\ at = 1 /\ name \in Names /\ got = None
    /\ stage = NoStage /\ backup = VendorFiles
    /\ active = VendorFiles /\ served = [s \in Services |-> 1]
    /\ issued = <<[key |-> 1, name |-> Vendor]>> /\ keys = 1 /\ expired = 1
    /\ renames = 0 /\ faults = 0 /\ budget = 1 /\ torn = FALSE /\ undone = FALSE

Goto(a, b) == pc = a /\ pc' = b

\* openssl x509 -checkhost and -checkend.
Covers(c, n) == c # None /\ issued[c].name = n
Good(c, n)   == Covers(c, n) /\ c > expired
Pair(c, k)   == c # None /\ issued[c].key = k

\* What a service presents once it has read the files.
Load(a) == IF Pair(a.cert, a.key) THEN a.cert ELSE None

-----------------------------------------------------------------------------
(* The run and what it finds.                                              *)

Start(n) ==
    /\ pc \in {"idle", "done"} /\ pc' = "probe"
    /\ n # name => renames < MaxRenames
    /\ name' = n
    /\ renames' = IF n = name THEN renames ELSE renames + 1
    /\ budget' = IF n = name THEN budget ELSE budget + 1
    /\ UNCHANGED <<at, got, files, world, faults, cuts>>

\* Mutant: the probe does not ask what is served.
CurrentUnserved(n) == active.mark = "present" /\ Good(active.cert, n)

\* The active certificate is a good one and the web proxy presents it; the API
\* is not asked.
Current(n) == active.mark = "present" /\ Good(active.cert, n) /\ served.web = active.cert

Probe ==
    /\ pc = "probe"
    /\ pc' = IF Current(name) THEN "done" ELSE "inspect"
    /\ UNCHANGED <<at, name, got, files, world, count>>

StageFull == stage.pem # None /\ stage.issuer = "present" /\ stage.key # None

Reusable == active.mark = "present" /\ Good(active.cert, name)

\* Mutant: a good active pair is not taken over.
InspectOnly ==
    /\ Goto("inspect", "ready")
    /\ UNCHANGED <<at, name, got, files, world, count>>

\* With something missing in the staging directory a good active pair is copied.
Inspect ==
    /\ pc = "inspect"
    /\ pc' = IF ~StageFull /\ Reusable THEN "copyCert" ELSE "ready"
    /\ UNCHANGED <<at, name, got, files, world, count>>

CopyCert ==
    /\ Goto("copyCert", "copyKey")
    /\ stage' = [stage EXCEPT !.pem = active.cert, !.issuer = "present"]
    /\ UNCHANGED <<at, name, got, backup, active, served, world, count>>

CopyKey ==
    /\ Goto("copyKey", "copyName")
    /\ stage' = [stage EXCEPT !.key = active.key]
    /\ UNCHANGED <<at, name, got, backup, active, served, world, count>>

CopyName ==
    /\ Goto("copyName", "ready")
    /\ stage' = [stage EXCEPT !.fqdn = name]
    /\ UNCHANGED <<at, name, got, backup, active, served, world, count>>

\* Mutant: what is staged is not looked at.
StageReadyNever == FALSE

StageReady == StageFull /\ Good(stage.pem, name) /\ Pair(stage.pem, stage.key)

StagedProbe ==
    /\ pc = "ready"
    /\ pc' = IF StageReady THEN "chain" ELSE "csr"
    /\ UNCHANGED <<at, name, got, files, world, count>>

-----------------------------------------------------------------------------
(* A key, a request, a certificate.                                        *)

\* Mutant: the key of another name is kept.
KeyUsableAnyName == stage.key # None

KeyUsable == stage.key # None /\ stage.fqdn = name

Request ==
    /\ pc = "csr"
    /\ IF KeyUsable
       THEN pc' = "checkCsr" /\ stage' = stage
       ELSE pc' = "genKey" /\ stage' = [NoStage EXCEPT !.fqdn = stage.fqdn]
    /\ UNCHANGED <<at, name, got, backup, active, served, world, count>>

GenKey ==
    /\ Goto("genKey", "genCsr")
    /\ keys' = keys + 1
    /\ stage' = [stage EXCEPT !.key = keys']
    /\ UNCHANGED <<at, name, got, backup, active, served, issued, expired, count>>

GenCsr ==
    /\ Goto("genCsr", "writeName")
    /\ stage' = [stage EXCEPT !.csr = [key |-> stage.key, name |-> name]]
    /\ UNCHANGED <<at, name, got, backup, active, served, world, count>>

WriteName ==
    /\ Goto("writeName", "checkCsr")
    /\ stage' = [stage EXCEPT !.fqdn = name]
    /\ UNCHANGED <<at, name, got, backup, active, served, world, count>>

\* The script fails without a request, the installer when it is for another name.
CheckCsr ==
    /\ pc = "checkCsr"
    /\ pc' = IF stage.csr.name = name THEN "order" ELSE "idle"
    /\ UNCHANGED <<at, name, got, files, world, count>>

\* The order for a request that is not for the staged key is in vain.
Order ==
    /\ Goto("order", "stagePem")
    /\ Len(issued) <= MaxOrders
    /\ issued' = Append(issued, stage.csr)
    /\ got' = Len(issued')
    /\ budget' = IF stage.csr.key = stage.key THEN budget ELSE budget + 1
    /\ UNCHANGED <<at, name, files, keys, expired, renames, faults, cuts>>

OrderRefused ==
    /\ Goto("order", "idle")
    /\ Len(issued) > MaxOrders
    /\ UNCHANGED <<at, name, got, files, world, count>>

StagePem ==
    /\ Goto("stagePem", "stageIssuer")
    /\ stage' = [stage EXCEPT !.pem = got]
    /\ UNCHANGED <<at, name, got, backup, active, served, world, count>>

StageIssuer ==
    /\ Goto("stageIssuer", "chain")
    /\ stage' = [stage EXCEPT !.issuer = "present"]
    /\ UNCHANGED <<at, name, got, backup, active, served, world, count>>

Chain ==
    /\ pc = "chain"
    /\ pc' = IF stage.issuer = "present" /\ Covers(stage.pem, name) THEN "prepare" ELSE "idle"
    /\ UNCHANGED <<at, name, got, files, world, count>>

-----------------------------------------------------------------------------
(* Installation and rollback.                                              *)

\* Mutant: key and certificate are not compared.
PrepareUnmatched ==
    /\ pc = "prepare"
    /\ pc' = IF StageFull /\ Covers(stage.pem, name) THEN "backUp" ELSE "idle"
    /\ UNCHANGED <<at, name, got, files, world, count>>

Prepare ==
    /\ pc = "prepare"
    /\ pc' = IF StageFull /\ Covers(stage.pem, name) /\ Pair(stage.pem, stage.key)
             THEN "backUp" ELSE "idle"
    /\ UNCHANGED <<at, name, got, files, world, count>>

BackUp ==
    /\ Goto("backUp", "install") /\ at' = 1
    /\ backup' = [active EXCEPT !.hub = None]
    /\ UNCHANGED <<name, got, stage, active, served, world, count>>

New(file) ==
    CASE file \in {"cert", "rest"} -> stage.pem
      [] file = "key"              -> stage.key
      [] file = "mark"             -> "present"
      [] file = "hub"              -> IF MetalHub THEN stage.pem ELSE active.hub
      [] file = "host"             -> name

\* From one file to the next, and on to "to" after the last one.
NextFile(list, here, to) ==
    /\ pc = here
    /\ IF at < Len(list) THEN  pc' = here /\ at' = at + 1
                          ELSE pc' = to /\ at' = 1

Install ==
    /\ NextFile(Files, "install", "expose")
    /\ active' = [active EXCEPT ![Files[at]] = New(Files[at])]
    /\ UNCHANGED <<name, got, stage, backup, served, world, count>>

\* expose_coriolis.py may or may not make a service read its files.
Exposed(a, b) ==
    /\ Goto(a, b)
    /\ served' \in [web : {served.web, Load(active)}, api : {served.api, Load(active)}]
    /\ UNCHANGED <<at, name, got, stage, backup, active, world>>

Expose == Exposed("expose", "restart") /\ UNCHANGED count

Restart ==
    /\ Goto("restart", "verify")
    /\ served' = [s \in Services |-> Load(active)]
    /\ UNCHANGED <<at, name, got, stage, backup, active, world, count>>

\* The script rolls back: has it come to the metal hub's files?
Undo == undone' = (undone \/ (pc = "install" => Files[at] \in {"hub", "host"}))

Verify ==
    /\ pc = "verify"
    /\ IF \A s \in Services : served[s] = active.cert
       THEN pc' = "clean" /\ undone' = undone
       ELSE pc' = "restore" /\ Undo
    /\ UNCHANGED <<at, name, got, files, world, renames, faults, budget, torn>>

Cleaned(to) ==
    /\ Goto("clean", to)
    /\ stage' = NoStage /\ backup' = VendorFiles
    /\ torn' = FALSE /\ undone' = FALSE
    /\ UNCHANGED <<at, name, got, active, served, world, renames, budget>>

CleanUp == Cleaned("done") /\ UNCHANGED faults

Restore ==
    /\ NextFile(Saved, "restore", "reexpose")
    /\ active' = [active EXCEPT ![Saved[at]] = backup[Saved[at]]]
    /\ UNCHANGED <<name, got, stage, backup, served, world, count>>

Reexpose == Exposed("reexpose", "idle") /\ UNCHANGED count

\* An ambiguous end of the apply script is settled by the probe.
Confirm ==
    /\ pc = "confirm"
    /\ pc' = IF Current(name) THEN "done" ELSE "idle"
    /\ UNCHANGED <<at, name, got, files, world, count>>

-----------------------------------------------------------------------------
(* Faults.                                                                 *)

Applying == {"install", "expose", "restart", "verify"}
Rolling  == {"restore", "reexpose"}
Early    == {"probe", "inspect", "copyCert", "copyKey", "copyName", "ready", "csr",
             "genKey", "genCsr", "writeName", "checkCsr", "order", "stagePem",
             "stageIssuer", "chain", "prepare", "backUp", "confirm"}
Ordered  == {"stagePem", "stageIssuer"}

Fault == faults < MaxFaults /\ faults' = faults + 1

\* A certificate that was not yet staged is lost.
Charged == budget' = IF pc \in Ordered THEN budget + 1 ELSE budget

\* A script fails, a call fails or the installer is cut off.
Abort ==
    /\ pc \in Early /\ pc' = "idle"
    /\ Fault /\ Charged
    /\ UNCHANGED <<at, name, got, files, world, renames, cuts>>

\* Mutant: the script ends where it fails.
ApplyFailsAtOnce ==
    /\ pc \in Applying /\ pc' = "idle" /\ at' = 1
    /\ Fault
    /\ UNCHANGED <<name, got, files, world, renames, budget, cuts>>

ApplyFails ==
    /\ pc \in Applying /\ pc' = "restore" /\ at' = 1
    /\ Fault /\ Undo
    /\ UNCHANGED <<name, got, files, world, renames, budget, torn>>

\* A restore fails: the script ends.  Only for the host name it goes on.
RestoreFails ==
    /\ pc = "restore" /\ at' = 1
    /\ pc' = IF Saved[at] = "host" THEN "reexpose" ELSE "idle"
    /\ Fault /\ torn' = TRUE
    /\ UNCHANGED <<name, got, files, world, renames, budget, undone>>

\* rm -rf was cut off and left some of the staged files.
PartOfStage ==
    stage' \in [key : {stage.key, None}, csr : {stage.csr, NoCsr}, pem : {stage.pem, None},
                issuer : {stage.issuer, "absent"}, fqdn : {stage.fqdn, Vendor}]

CleanFails ==
    /\ Goto("clean", "idle")
    /\ Fault /\ PartOfStage /\ torn' = FALSE /\ undone' = FALSE
    /\ UNCHANGED <<at, name, got, backup, active, served, world, renames, budget>>

\* The outcome of the apply script is not known to the installer.
Unanswered ==
    \/ Cleaned("confirm") /\ Fault
    \/ Exposed("reexpose", "confirm") /\ Fault /\ UNCHANGED <<renames, budget, cuts>>

\* The appliance restarts: its services read the files that are there.
Reboot ==
    /\ pc \in Early \cup Applying \cup Rolling \cup {"clean"}
    /\ pc' \in IF pc \in Early THEN {"idle"} ELSE {"idle", "confirm"}
    /\ at' = 1
    /\ IF pc = "clean" THEN PartOfStage ELSE stage' = stage
    /\ served' = [s \in Services |-> Load(active)]
    /\ torn' = (torn \/ pc \in {"install", "restore"})
    /\ Fault /\ Charged
    /\ UNCHANGED <<name, got, backup, active, world, renames, undone>>

\* A service goes down, or restarts without a certificate.
ServicesDown ==
    /\ pc \in {"idle", "done"}
    /\ \E s \in Services : served[s] # None /\ served' = [served EXCEPT ![s] = None]
    /\ Fault
    /\ UNCHANGED <<run, stage, backup, active, world, renames, budget, cuts>>

\* A certificate comes up for renewal.
Expire ==
    /\ expired < Len(issued) /\ expired <= MaxExpired
    /\ expired' = expired + 1 /\ budget' = budget + 1
    /\ UNCHANGED <<run, files, issued, keys, renames, faults, cuts>>

-----------------------------------------------------------------------------
Script ==
    \/ Probe \/ Inspect \/ CopyCert \/ CopyKey \/ CopyName \/ StagedProbe
    \/ Request \/ GenKey \/ GenCsr \/ WriteName \/ CheckCsr
    \/ Order \/ OrderRefused \/ StagePem \/ StageIssuer \/ Chain
    \/ Prepare \/ BackUp \/ Install \/ Expose \/ Restart \/ Verify \/ CleanUp
    \/ Restore \/ Reexpose \/ Confirm

Trouble ==
    \/ Abort \/ ApplyFails \/ RestoreFails \/ CleanFails \/ Unanswered
    \/ Reboot \/ ServicesDown \/ Expire

Again == \E n \in Names : Start(n)

Next == Again \/ Script \/ Trouble

Spec == Init /\ [][Next]_vars

\* A failed run is repeated; a script goes on until it ends or fails.
LiveSpec == Spec /\ WF_vars(Again) /\ WF_vars(Script)

-----------------------------------------------------------------------------
(* Properties.                                                             *)

Between == {"idle", "done"} \cup Early
Points  == Between \cup Applying \cup Rolling \cup {"clean"}
Certs    == 1..Len(issued)
Presence == {"absent", "present"}
Hosts    == Names \cup {Vendor}
Requests == [key : 0..keys, name : Hosts]
Stages   == [key : 0..keys, csr : Requests, pem : 0..Len(issued), issuer : Presence, fqdn : Hosts]
FileSets == [cert : Certs, key : 1..keys, rest : Certs, mark : Presence,
             hub : 0..Len(issued), host : Hosts]

TypeOK ==
    /\ pc \in Points /\ at \in 1..Len(Files) /\ name \in Names
    /\ got \in 0..Len(issued)
    /\ stage \in Stages /\ backup \in FileSets /\ active \in FileSets
    /\ served \in [web : 0..Len(issued), api : 0..Len(issued)]
    /\ issued \in Seq([key : 1..keys, name : Hosts]) /\ issued # <<>>
    /\ keys \in Nat /\ expired \in 1..MaxExpired + 1
    /\ renames \in 0..MaxRenames /\ faults \in 0..MaxFaults
    /\ budget \in Nat /\ torn \in BOOLEAN /\ undone \in BOOLEAN

\* A request names the key it is for, and what a run works with is there.
Locals ==
    /\ pc \notin {"install", "restore"} => at = 1
    /\ pc = "restore" => at <= Len(Saved)
    /\ stage.csr.name # Vendor => stage.csr.key # None
    /\ pc = "genCsr" => stage.key # None
    /\ pc = "order" => stage.csr.name = name
    /\ issued[1] = [key |-> 1, name |-> Vendor]

\* All files that are saved are those of one certificate.
Whole(a) ==
    /\ Pair(a.cert, a.key) /\ a.rest = a.cert
    /\ (a.mark = "present" <=> a.cert # 1) /\ a.host = issued[a.cert].name

StagedFits ==
    pc \in Applying \cup {"backUp", "clean"} =>
        StageFull /\ Covers(stage.pem, name) /\ Pair(stage.pem, stage.key)

InstallsInOrder ==
    pc = "install" => \A i \in 1..Len(Files) :
        /\ i < at => active[Files[i]] = New(Files[i])
        /\ i >= at /\ Files[i] # "hub" => active[Files[i]] = backup[Files[i]]

RestoresInOrder ==
    pc = "restore" /\ ~torn =>
        \A i \in 1..at - 1 : active[Saved[i]] = backup[Saved[i]]

\* The metal hub has the certificate c, when it is enabled.
HubHas(c) == MetalHub => active.hub = c

Installed ==
    /\ pc \in {"expose", "restart", "verify", "clean"} =>
           active.cert = stage.pem /\ Whole(active) /\ HubHas(stage.pem)
    /\ pc = "clean" => \A s \in Services : served[s] = active.cert

WholeUnlessTorn ==
    /\ ~torn /\ pc \in Between \cup {"reexpose"} => Whole(active)
    /\ ~torn /\ pc \in Applying \cup Rolling => Whole(backup)

\* What the installation has not saved, or not reached, is of the certificate
\* that was active before it.
Follows ==
    LET before == IF pc \in {"install", "restore"} THEN backup.cert ELSE active.cert IN
    ~torn /\ ~undone /\ pc \notin {"expose", "restart", "verify"} =>
        /\ served.api \in {before, None}
        /\ (pc = "install" => Files[at] # "host") => HubHas(before)

\* What holds at every step: an installation has a pair that fits and replaces
\* the files that it has saved one after the other, a rollback brings them all
\* back (apply script, lines 233-353).
Inv ==
    /\ TypeOK /\ Locals
    /\ StagedFits /\ InstallsInOrder /\ Installed /\ RestoresInOrder /\ WholeUnlessTorn
    /\ Follows

\* Between two runs the files that an installation saves are all of one
\* certificate, the vendor's or an issued one, whatever step of it failed, unless
\* a restart or a failing rollback cut it off.  The metal hub's files are of the
\* same certificate, unless the step that failed came after they were written:
\* the rollback leaves them (lines 244-257, 271-302 and 318-326).
FailureRestores ==
    pc \in {"idle", "done"} /\ ~torn =>
        Whole(active) /\ (~undone => HubHas(active.cert))

\* A run that reports success, also one that confirms an ambiguous apply, has
\* an appliance whose web proxy presents the active certificate, one for the
\* configured name, and its key and all other files are active with it unless
\* a cut-off installation was never repeated (lines 409-412 and 479-489).  Of
\* the API only a run that installed knows that it presents the certificate; any
\* other finds it with that one or down, if no installation was rolled back late.
SuccessIsServed ==
    [][pc # "done" /\ pc' = "done" =>
        /\ served.web = active.cert /\ Covers(active.cert, name)
        /\ pc = "clean" => served.api = active.cert /\ HubHas(active.cert)
        /\ ~torn => Whole(active)
        /\ ~torn /\ ~undone => served.api \in {active.cert, None} /\ HubHas(active.cert)]_vars

\* Reruns do not ask the certificate authority again: a certificate is obtained
\* once, and again only for a new name, for a renewal, when a run was cut off
\* between the order and the staging of what it got, and for a request that
\* does not fit the staged key (lines 413-463).
OrdersBounded == Len(issued) - 1 <= budget

\* Services that have not read a good active pair cost no order, as long as
\* the name is the same (lines 96-112).
ReloadCostsNoOrder ==
    [][issued' # issued /\ renames = 0 =>
        ~(Reusable /\ Pair(active.cert, active.key))]_vars

\* A staged key without a request that fits it and its name: the request script
\* keeps the key and fails, or the installer refuses the request, or the
\* certificate is for another key (lines 72, 78, 239, 424-437).
Orphan ==
    /\ stage.key # None /\ stage.fqdn = name
    /\ stage.csr # [key |-> stage.key, name |-> name]

\* When faults, renewals and renames are over, runs succeed again and again,
\* unless the staging directory holds an orphaned key.
EventuallyInstalled == []<>(pc = "done") \/ <>[]Orphan
=============================================================================
