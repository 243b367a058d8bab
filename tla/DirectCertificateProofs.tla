---------------------- MODULE DirectCertificateProofs ----------------------
(* Proofs about DirectCertificate, for any set of names and any bounds.     *)
EXTENDS DirectCertificate, TLAPS

-----------------------------------------------------------------------------
(* Types.                                                                  *)

\* An ordered certificate is the last one; the others stay what they were.
LEMMA Appended ==
    ASSUME NEW R, NEW s \in Seq(R), NEW e \in R
    PROVE  /\ Append(s, e) \in Seq(R) /\ Append(s, e) # <<>>
           /\ Len(Append(s, e)) = Len(s) + 1 /\ Len(s) \in Nat
           /\ Append(s, e)[Len(s) + 1] = e
           /\ \A c \in 1..Len(s) : Append(s, e)[c] = s[c]
  OBVIOUS

\* A sequence over a set is one over a larger set.
LEMMA SeqGrows ==
    ASSUME NEW R, NEW T, R \subseteq T, NEW s \in Seq(R) PROVE s \in Seq(T)
  OBVIOUS

\* The initial state has all that the invariant says.
LEMMA InitInv == Init => Inv
<1> SUFFICES ASSUME Init PROVE Inv
  OBVIOUS
<1> USE NamesAssumption, BoundsAssumption, HubAssumption
<1>1. keys = 1 /\ issued = <<[key |-> 1, name |-> Vendor]>> /\ Len(issued) = 1
  BY DEF Init
<1>2. issued \in Seq([key : 1..keys, name : Hosts]) /\ issued # <<>>
  BY <1>1 DEF Hosts
<1>3. active \in FileSets /\ backup = active
  BY <1>1 DEF Init, FileSets, VendorFiles, Certs, Hosts, Presence
<1>4. stage \in Stages
  BY <1>1 DEF Init, Stages, NoStage, NoCsr, Requests, Hosts, Presence, None
<1>5. torn \in BOOLEAN /\ undone \in BOOLEAN /\ Len(Files) = 6
  BY DEF Init, Files
<1>6. TypeOK
  <2>1. served \in [web : 0..Len(issued), api : 0..Len(issued)]
    BY <1>1 DEF Init, Services
  <2> QED
    BY <1>1, <1>2, <1>3, <1>4, <1>5, <2>1 DEF Init, TypeOK, Points, Between, None
<1>7. Locals
  BY DEF Init, Locals, NoStage, NoCsr, None
<1>8. Whole(active)
  BY <1>1 DEF Init, Whole, VendorFiles, Pair, None
<1>9. Follows
  BY DEF Init, Follows, HubHas, Services, VendorFiles
<1> QED
  BY <1>6, <1>7, <1>8, <1>9 DEF Init, Inv, StagedFits, InstallsInOrder, Installed,
     RestoresInOrder, WholeUnlessTorn, Applying, Rolling

-----------------------------------------------------------------------------
(* Steps outside an installation.                                          *)

\* A step that leaves the active files alone and begins and ends outside the
\* apply script keeps the invariant, when the types hold and what is about to
\* be installed fits.
LEMMA Outside ==
    ASSUME Inv, TypeOK', Locals', pc \in Between, pc' \in Between,
           active' = active, issued' = issued, torn' = torn, undone' = undone,
           served'.api \in {served.api, None},
           pc' = "backUp" => StagedFits'
    PROVE  Inv'
<1>1. pc' \notin Applying \cup Rolling \cup {"clean"}
  BY DEF Between, Early, Applying, Rolling
<1>2. StagedFits'
  BY <1>1 DEF StagedFits
<1>3. InstallsInOrder' /\ Installed' /\ RestoresInOrder'
  BY <1>1 DEF InstallsInOrder, Installed, RestoresInOrder, Applying, Rolling
<1>4. ~torn => Whole(active)
  BY DEF Inv, WholeUnlessTorn
<1>5. Whole(active)' = Whole(active)
  BY DEF Whole, Pair
<1>6. WholeUnlessTorn'
  BY <1>1, <1>4, <1>5 DEF WholeUnlessTorn, Rolling
<1>7. Follows'
  BY <1>1 DEF Inv, Follows, HubHas, Between, Early, Applying, Rolling
<1> QED
  BY <1>2, <1>3, <1>6, <1>7 DEF Inv

\* The same for a step that only moves the run on.
LEMMA Moves ==
    ASSUME Inv, pc \in Between, pc' \in Between \ {"genCsr"},
           UNCHANGED <<at, name, got, files, world, renames, cuts>>,
           faults' \in 0..MaxFaults, budget' \in Nat,
           pc' = "order" => stage.csr.name = name,
           pc' = "backUp" =>
               StageFull /\ Covers(stage.pem, name) /\ Pair(stage.pem, stage.key)
    PROVE  Inv'
<1>1. TypeOK'
  BY DEF Inv, TypeOK, Points, Stages, FileSets, Certs, Requests, files, world, cuts
<1>2. Locals'
  BY DEF Inv, Locals, Between, Early, files, world
<1>3. StagedFits'
  BY DEF StagedFits, StageFull, Covers, Pair, files, world, Between, Early, Applying
<1> QED
  BY <1>1, <1>2, <1>3, Outside DEF files, world, cuts

\* Probes, checks and refusals.
LEMMA Checks ==
    ASSUME Inv,
           Probe \/ Inspect \/ StagedProbe \/ CheckCsr \/ OrderRefused \/ Chain
               \/ Prepare \/ Confirm \/ Abort
    PROVE  Inv'
<1> USE DEF Between, Early
<1>0. faults \in 0..MaxFaults /\ budget \in Nat /\ MaxFaults \in Nat
  BY BoundsAssumption DEF Inv, TypeOK
<1>1. CASE Probe
  BY <1>0, <1>1, Moves DEF Probe, count, cuts
<1>2. CASE Inspect
  BY <1>0, <1>2, Moves DEF Inspect, count, cuts
<1>3. CASE StagedProbe
  BY <1>0, <1>3, Moves DEF StagedProbe, count, cuts
<1>4. CASE CheckCsr
  BY <1>0, <1>4, Moves DEF CheckCsr, count, cuts
<1>5. CASE OrderRefused
  BY <1>0, <1>5, Moves DEF OrderRefused, Goto, count, cuts
<1>6. CASE Chain
  BY <1>0, <1>6, Moves DEF Chain, count, cuts
<1>7. CASE Prepare
  BY <1>0, <1>7, Moves DEF Prepare, count, cuts
<1>8. CASE Confirm
  BY <1>0, <1>8, Moves DEF Confirm, count, cuts
<1>9. CASE Abort
  <2>1. faults' \in 0..MaxFaults /\ budget' \in Nat
    BY <1>0, <1>9 DEF Abort, Fault, Charged
  <2> QED
    BY <1>9, <2>1, Moves DEF Abort
<1> QED
  BY <1>1, <1>2, <1>3, <1>4, <1>5, <1>6, <1>7, <1>8, <1>9

\* A run begins, or the services go down.
LEMMA Begins == ASSUME Inv, Again \/ ServicesDown PROVE Inv'
<1> USE DEF Between, Early
<1>0. budget \in Nat /\ renames \in 0..MaxRenames /\ MaxRenames \in Nat
      /\ faults \in 0..MaxFaults /\ MaxFaults \in Nat
  BY BoundsAssumption DEF Inv, TypeOK
<1>1. CASE Again
  <2> PICK n \in Names : Start(n)
    BY <1>1 DEF Again
  <2>1. budget' \in Nat /\ renames' \in 0..MaxRenames
    BY <1>0 DEF Start
  <2>2. TypeOK'
    BY <2>1 DEF Start, Inv, TypeOK, Points, Stages, FileSets, Certs, Requests, files, world, cuts
  <2>3. Locals'
    BY DEF Start, Inv, Locals, files, world
  <2>4. /\ pc \in Between /\ pc' = "probe" /\ UNCHANGED <<active, issued, served, cuts>>
    BY DEF Start, files, world
  <2> QED
    BY <2>2, <2>3, <2>4, Outside DEF cuts
<1>2. CASE ServicesDown
  <2>1. faults' \in 0..MaxFaults
    BY <1>0, <1>2 DEF ServicesDown, Fault
  <2>2. Len(issued) \in Nat /\ served \in [web : 0..Len(issued), api : 0..Len(issued)]
    BY DEF Inv, TypeOK
  <2>5. /\ served' \in [web : 0..Len(issued), api : 0..Len(issued)]
        /\ served'.api \in {served.api, None}
    <3> PICK s \in Services : served' = [served EXCEPT ![s] = None]
      BY <1>2 DEF ServicesDown
    <3> QED
      BY <2>2 DEF Services, None
  <2>3. TypeOK'
    BY <1>2, <2>1, <2>2, <2>5 DEF ServicesDown, Inv, TypeOK, Points, Stages, FileSets, Certs,
       Requests, run, world, cuts
  <2>4. Locals'
    BY <1>2 DEF ServicesDown, Inv, Locals, run, world
  <2> QED
    BY <1>2, <2>3, <2>4, <2>5, Outside DEF ServicesDown, run, world, cuts
<1> QED
  BY <1>1, <1>2

\* A step that writes to the staging directory.
LEMMA Writes ==
    ASSUME Inv, pc \in Between, pc' \in Between \ {"order", "backUp"},
           stage' \in Stages,
           UNCHANGED <<at, name, got, backup, active, served, world, count>>,
           stage'.csr = stage.csr \/ stage'.csr.name = Vendor \/ stage'.csr.key # None,
           pc' = "genCsr" => stage'.key # None
    PROVE  Inv'
<1>1. TypeOK'
  BY DEF Inv, TypeOK, Points, Stages, FileSets, Certs, Requests, world, count, cuts
<1>2. Locals'
  BY DEF Inv, Locals, Between, Early, world, count, cuts
<1> QED
  BY <1>1, <1>2, Outside DEF world, count, cuts

\* Every write to the staging directory leaves keys and requests that belong
\* together (certificateStagedProbeScript, certificateCSRScript).
LEMMA StageWrites ==
    ASSUME Inv, CopyCert \/ CopyKey \/ CopyName \/ Request \/ GenCsr \/ WriteName
                    \/ StagePem \/ StageIssuer
    PROVE  Inv'
<1> USE DEF Between, Early, Goto
<1>0. /\ stage \in Stages /\ active \in FileSets /\ name \in Hosts
      /\ got \in 0..Len(issued) /\ keys \in Nat /\ Len(issued) \in Nat
      /\ "present" \in Presence
  BY DEF Inv, TypeOK, Hosts, Presence
<1>1. CASE CopyCert
  <2>0. active.cert \in 0..Len(issued)
    BY <1>0 DEF FileSets, Certs
  <2>1. stage' = [key |-> stage.key, csr |-> stage.csr, pem |-> active.cert,
                  issuer |-> "present", fqdn |-> stage.fqdn]
    BY <1>0, <1>1 DEF CopyCert, Stages
  <2>2. stage' \in Stages /\ stage'.csr = stage.csr
    BY <1>0, <2>0, <2>1 DEF Stages
  <2> QED
    BY <1>1, <2>2, Writes DEF CopyCert
<1>2. CASE CopyKey
  <2>1. stage' \in Stages /\ stage'.csr = stage.csr
    BY <1>0, <1>2 DEF CopyKey, Stages, FileSets
  <2> QED
    BY <1>2, <2>1, Writes DEF CopyKey
<1>3. CASE CopyName
  <2>1. stage' \in Stages /\ stage'.csr = stage.csr
    BY <1>0, <1>3 DEF CopyName, Stages
  <2> QED
    BY <1>3, <2>1, Writes DEF CopyName
<1>4. CASE Request
  <2>1. stage' \in Stages /\ (stage'.csr = stage.csr \/ stage'.csr.name = Vendor)
    BY <1>0, <1>4 DEF Request, Stages, Requests, NoStage, NoCsr, None, Hosts, Presence
  <2> QED
    BY <1>4, <2>1, Writes DEF Request
<1>5. CASE GenCsr
  <2>1. stage' \in Stages /\ stage'.csr.key = stage.key
    BY <1>0, <1>5 DEF GenCsr, Stages, Requests
  <2>2. stage.key # None
    BY <1>5 DEF GenCsr, Inv, Locals
  <2> QED
    BY <1>5, <2>1, <2>2, Writes DEF GenCsr
<1>6. CASE WriteName
  <2>1. stage' \in Stages /\ stage'.csr = stage.csr
    BY <1>0, <1>6 DEF WriteName, Stages
  <2> QED
    BY <1>6, <2>1, Writes DEF WriteName
<1>7. CASE StagePem
  <2>1. stage' \in Stages /\ stage'.csr = stage.csr
    BY <1>0, <1>7 DEF StagePem, Stages
  <2> QED
    BY <1>7, <2>1, Writes DEF StagePem
<1>8. CASE StageIssuer
  <2>1. stage' \in Stages /\ stage'.csr = stage.csr
    BY <1>0, <1>8 DEF StageIssuer, Stages
  <2> QED
    BY <1>8, <2>1, Writes DEF StageIssuer
<1> QED
  BY <1>1, <1>2, <1>3, <1>4, <1>5, <1>6, <1>7, <1>8

\* A key is generated.
LEMMA KeyGenerated == ASSUME Inv, GenKey PROVE Inv'
<1> USE DEF Between, Early, Goto
<1>0. keys \in Nat /\ keys' = keys + 1 /\ issued' = issued /\ Len(issued) \in Nat
      /\ stage \in Stages /\ stage' = [stage EXCEPT !.key = keys + 1]
  BY DEF GenKey, Inv, TypeOK
<1>1. 0..keys \subseteq 0..keys' /\ 1..keys \subseteq 1..keys' /\ keys' \in Nat /\ keys' # None
  BY <1>0 DEF None
<1>2. /\ stage' \in Stages' /\ stage'.key = keys'
      /\ stage'.csr = stage.csr
  BY <1>0, <1>1 DEF Stages, Requests
<1>3. active \in FileSets' /\ backup \in FileSets'
  BY <1>0, <1>1 DEF Inv, TypeOK, FileSets, Certs
<1>4. issued \in Seq([key : 1..keys', name : Hosts])
  <2>1. [key : 1..keys, name : Hosts] \subseteq [key : 1..keys', name : Hosts]
    BY <1>1
  <2>2. issued \in Seq([key : 1..keys, name : Hosts])
    BY DEF Inv, TypeOK
  <2> QED
    BY <2>1, <2>2, SeqGrows
<1>5. TypeOK'
  BY <1>0, <1>1, <1>2, <1>3, <1>4 DEF GenKey, Inv, TypeOK, Points, count, cuts
<1>6. Locals'
  BY <1>0, <1>1, <1>2 DEF GenKey, Inv, Locals, count, cuts
<1> QED
  BY <1>0, <1>5, <1>6, Outside DEF GenKey, count, cuts

\* A certificate is issued.
LEMMA Orders == ASSUME Inv, Order PROVE Inv'
<1> USE DEF Between, Early, Goto
<1>0. /\ issued \in Seq([key : 1..keys, name : Hosts]) /\ keys \in Nat
      /\ stage \in Stages /\ name \in Names /\ Len(issued) \in Nat
      /\ pc = "order" /\ pc' = "stagePem" /\ issued' = Append(issued, stage.csr)
      /\ stage' = stage /\ active' = active /\ backup' = backup /\ keys' = keys
      /\ issued # <<>> /\ active \in FileSets /\ backup \in FileSets
      /\ UNCHANGED <<torn, undone, served>> /\ budget \in Nat
      /\ served \in [web : 0..Len(issued), api : 0..Len(issued)]
  BY DEF Order, Inv, TypeOK, files, cuts
<1>1. stage.csr \in [key : 1..keys, name : Hosts]
  <2>1. stage.csr.name = name /\ stage.csr.key # 0
    BY <1>0, NamesAssumption DEF Inv, Locals, None
  <2> QED
    BY <1>0, <2>1 DEF Stages, Requests
<1>2. /\ issued' \in Seq([key : 1..keys, name : Hosts]) /\ issued' # <<>>
      /\ Len(issued') = Len(issued) + 1
      /\ \A c \in 1..Len(issued) : issued'[c] = issued[c]
  BY <1>0, <1>1, Appended
<1>3. 1..Len(issued) \subseteq 1..Len(issued') /\ 0..Len(issued) \subseteq 0..Len(issued')
      /\ Len(issued') \in 0..Len(issued') /\ 1 \in 1..Len(issued)
  BY <1>0, <1>2
<1>4. active' \in FileSets' /\ backup' \in FileSets' /\ stage' \in Stages'
  BY <1>0, <1>3 DEF FileSets, Certs, Stages, Requests
<1>5. budget' \in Nat /\ served' \in [web : 0..Len(issued'), api : 0..Len(issued')]
  BY <1>0, <1>3 DEF Order
<1>6. TypeOK'
  BY <1>0, <1>2, <1>3, <1>4, <1>5 DEF Order, Inv, TypeOK, Points, files
<1>7. Locals'
  BY <1>0, <1>2, <1>3 DEF Order, Inv, Locals, files
<1>8. Whole(active) => Whole(active)'
  BY <1>0, <1>2 DEF Whole, Pair, FileSets, Certs
<1>9. ~torn => Whole(active)
  BY <1>0 DEF Inv, WholeUnlessTorn
<1>10. Follows'
  BY <1>0 DEF Inv, Follows, HubHas
<1> QED
  BY <1>0, <1>6, <1>7, <1>8, <1>9, <1>10 DEF Inv, StagedFits, InstallsInOrder, Installed,
     RestoresInOrder, WholeUnlessTorn, Applying, Rolling

-----------------------------------------------------------------------------
(* The apply script.                                                       *)

\* The files in the order in which the apply script replaces them, and those
\* that it has saved.
LEMMA FilesAre ==
    /\ Len(Files) = 6 /\ 1..Len(Files) = {1, 2, 3, 4, 5, 6}
    /\ Files[1] = "cert" /\ Files[2] = "key" /\ Files[3] = "rest"
    /\ Files[4] = "mark" /\ Files[5] = "hub" /\ Files[6] = "host"
    /\ Len(Saved) = 5 /\ 1..Len(Saved) = {1, 2, 3, 4, 5}
    /\ Saved[1] = "cert" /\ Saved[2] = "key" /\ Saved[3] = "rest"
    /\ Saved[4] = "mark" /\ Saved[5] = "host"
  BY DEF Files, Saved

\* Their names.
FileNames == {"cert", "key", "rest", "mark", "hub", "host"}
SavedNames == FileNames \ {"hub"}

\* Replacing one file by one of its kind.
OneReplaced(c, a, f, b) == c = [a EXCEPT ![f] = b[f]]

\* What one replacement changes, and that it leaves a set of files.
LEMMA OneFile ==
    ASSUME NEW a \in FileSets, NEW f \in FileNames, NEW b \in FileSets, NEW c,
           OneReplaced(c, a, f, b)
    PROVE  /\ c \in FileSets
           /\ \A g \in FileNames : c[g] = IF g = f THEN b[g] ELSE a[g]
  BY DEF FileSets, OneReplaced, FileNames

\* The files that an installation puts in place.
Staged == [cert |-> stage.pem, key |-> stage.key, rest |-> stage.pem,
           mark |-> "present", hub |-> IF MetalHub THEN stage.pem ELSE active.hub,
           host |-> name]

\* When the staged pair fits, they are files of one certificate.
LEMMA StagedIsWhole ==
    ASSUME TypeOK, Locals, StageFull, Covers(stage.pem, name), Pair(stage.pem, stage.key)
    PROVE  /\ Staged \in FileSets /\ Whole(Staged)
           /\ \A f \in FileNames : New(f) = Staged[f]
<1>1. /\ stage.pem \in 1..Len(issued) /\ stage.key \in 1..keys /\ name \in Hosts
      /\ Len(issued) \in Nat
  BY DEF TypeOK, Stages, StageFull, None, Hosts
<1>a. active.hub \in 0..Len(issued)
  BY DEF TypeOK, FileSets
<1>2. Staged \in FileSets
  BY <1>1, <1>a DEF Staged, FileSets, Certs, Presence
<1>3. stage.pem # 1
  BY NamesAssumption DEF Covers, Locals, TypeOK
<1>4. Whole(Staged)
  BY <1>1, <1>3 DEF Staged, Whole, Covers, Pair
<1>5. \A f \in FileNames : New(f) = Staged[f]
  BY DEF New, Staged, FileNames
<1> QED
  BY <1>2, <1>4, <1>5

\* Files that agree one by one with whole ones are whole, as long as no
\* certificate changes.
LEMMA SameFiles ==
    ASSUME NEW a, NEW b, \A f \in SavedNames : a[f] = b[f], Whole(b)
    PROVE  Whole(a)
  BY DEF Whole, SavedNames, FileNames, Pair

\* The backup is a copy of files that are whole.
LEMMA BacksUp == ASSUME Inv, BackUp PROVE Inv'
<1> USE DEF Goto
<1>0. /\ pc = "backUp" /\ pc' = "install" /\ at' = 1 /\ active' = active
      /\ backup' = [active EXCEPT !.hub = None] /\ active \in FileSets /\ Len(issued) \in Nat
      /\ UNCHANGED <<name, got, stage, served, world, count>>
  BY DEF BackUp, Inv, TypeOK
<1>a. backup' \in FileSets /\ FileSets' = FileSets
      /\ \A f \in SavedNames : backup'[f] = active[f]
  BY <1>0 DEF FileSets, Certs, None, SavedNames, FileNames, world
<1>1. TypeOK'
  BY <1>0, <1>a, FilesAre DEF Inv, TypeOK, Points, Applying, Stages, Requests, world, count, cuts
<1>2. Locals'
  BY <1>0 DEF Inv, Locals, world, count, cuts
<1>3. StagedFits'
  BY <1>0 DEF Inv, StagedFits, StageFull, Covers, Pair, world
<1>4. InstallsInOrder'
  BY <1>0, <1>a, FilesAre DEF InstallsInOrder, SavedNames, FileNames
<1>5. Installed' /\ RestoresInOrder'
  BY <1>0 DEF Installed, RestoresInOrder
<1>6. WholeUnlessTorn'
  <2>1. ~torn => Whole(active)
    BY <1>0 DEF Inv, WholeUnlessTorn, Between, Early
  <2>2. Whole(active) => Whole(backup)'
    BY <1>0, <1>a DEF Whole, Pair, SavedNames, FileNames, world
  <2> QED
    BY <1>0, <2>1, <2>2 DEF WholeUnlessTorn, Between, Early, world, count, cuts
<1>7. Follows'
  BY <1>0, <1>a, FilesAre DEF Inv, Follows, HubHas, SavedNames, FileNames, count, cuts
<1> QED
  BY <1>1, <1>2, <1>3, <1>4, <1>5, <1>6, <1>7 DEF Inv

\* One more file is installed; after the last one all are of one certificate.
LEMMA Installs == ASSUME Inv, Install PROVE Inv'
<1>0. /\ pc = "install" /\ UNCHANGED <<name, got, stage, backup, served, world, count>>
      /\ active' = [active EXCEPT ![Files[at]] = New(Files[at])]
      /\ at \in 1..Len(Files) /\ active \in FileSets /\ backup \in FileSets
      /\ IF at < Len(Files) THEN pc' = "install" /\ at' = at + 1
                            ELSE pc' = "expose" /\ at' = 1
  BY DEF Install, NextFile, Inv, TypeOK
<1>a. Files[at] \in FileNames /\ \A i \in 1..Len(Files) : Files[i] \in FileNames
  BY <1>0, FilesAre DEF FileNames
<1>1. /\ Staged \in FileSets /\ Whole(Staged)
      /\ \A f \in FileNames : New(f) = Staged[f]
  BY <1>0, StagedIsWhole DEF Inv, StagedFits, Applying
<1>2. /\ active' \in FileSets
      /\ \A f \in FileNames : active'[f] = IF f = Files[at] THEN Staged[f] ELSE active[f]
  <2>1. OneReplaced(active', active, Files[at], Staged)
    BY <1>0, <1>a, <1>1 DEF OneReplaced
  <2>2. Files[at] \in FileNames /\ active \in FileSets /\ Staged \in FileSets
    BY <1>0, <1>a, <1>1
  <2> QED
    BY <2>1, <2>2, OneFile
<1>b. Staged' = Staged /\ \A f \in FileNames : New(f)' = New(f)
  <2>1. ~MetalHub => active'.hub = active.hub
    BY <1>2 DEF Staged, FileNames
  <2> QED
    BY <1>0, <2>1 DEF Staged, New, FileNames
<1>3. \A j \in 1..Len(Files) :
          /\ j < at => active[Files[j]] = Staged[Files[j]]
          /\ j >= at /\ Files[j] # "hub" => active[Files[j]] = backup[Files[j]]
  BY <1>0, <1>a, <1>1 DEF Inv, InstallsInOrder
<1>4. \A j \in 1..Len(Files) :
          /\ j <= at => active'[Files[j]] = Staged[Files[j]]
          /\ j > at /\ Files[j] # "hub" => active'[Files[j]] = backup[Files[j]]
  BY <1>0, <1>2, <1>3, FilesAre DEF FileNames
<1>5. TypeOK'
  <2>1. at' \in 1..Len(Files)'
    BY <1>0, FilesAre
  <2>2. FileSets' = FileSets /\ Stages' = Stages
    BY <1>0 DEF FileSets, Certs, Stages, Requests, world
  <2>3. pc' \in Points
    BY <1>0 DEF Points, Applying
  <2> QED
    BY <1>0, <1>2, <2>1, <2>2, <2>3 DEF Inv, TypeOK, world, count, cuts
<1>6. Locals'
  BY <1>0 DEF Inv, Locals, world, count, cuts
<1>7. StagedFits'
  BY <1>0 DEF Inv, StagedFits, Applying, StageFull, Covers, Pair, world
<1>8. InstallsInOrder' /\ RestoresInOrder'
  <2>1. ASSUME pc' = "install", NEW i \in 1..Len(Files)
        PROVE  /\ i < at' => active'[Files[i]] = New(Files[i])'
               /\ i >= at' /\ Files[i] # "hub" => active'[Files[i]] = backup'[Files[i]]
    <3>1. at' = at + 1 /\ at \in Nat /\ i \in Nat
      BY <1>0, <2>1, FilesAre
    <3>2. New(Files[i])' = Staged[Files[i]]
      BY <1>a, <1>b, <1>1
    <3> QED
      BY <1>0, <1>4, <3>1, <3>2
  <2> QED
    BY <1>0, <2>1 DEF InstallsInOrder, RestoresInOrder
<1>9. Installed'
  <2> SUFFICES ASSUME pc' = "expose"
               PROVE  active'.cert = stage'.pem /\ Whole(active)' /\ HubHas(stage.pem)'
    BY <1>0 DEF Installed
  <2>1. at = 6
    BY <1>0, FilesAre
  <2>2. \A f \in FileNames : active'[f] = Staged[f]
    BY <1>4, <2>1, FilesAre DEF FileNames
  <2>3. Whole(active')
    BY <1>1, <2>2, SameFiles DEF SavedNames
  <2>4. Whole(active)'
    BY <1>0, <2>3 DEF Whole, Pair, world
  <2> QED
    BY <1>0, <2>2, <2>4 DEF Staged, HubHas, FileNames
<1>10. WholeUnlessTorn'
  <2>1. ~torn => Whole(backup)
    BY <1>0 DEF Inv, WholeUnlessTorn, Applying
  <2>2. Whole(backup)' = Whole(backup)
    BY <1>0 DEF Whole, Pair, world
  <2> QED
    BY <1>0, <2>1, <2>2 DEF WholeUnlessTorn, Between, Early, count, cuts
<1>11. Follows'
  <2> SUFFICES ASSUME pc' = "install", ~torn, ~undone
               PROVE  /\ served.api \in {backup.cert, None}
                      /\ Files[at'] # "host" => (MetalHub => active'.hub = backup.cert)
    BY <1>0 DEF Follows, HubHas, count, cuts
  <2>1. served.api \in {backup.cert, None}
    BY <1>0 DEF Inv, Follows
  <2>2. ASSUME Files[at'] # "host" PROVE at \in {1, 2, 3, 4}
    BY <1>0, <2>2, FilesAre
  <2>3. ASSUME at \in {1, 2, 3, 4} PROVE Files[at] \notin {"hub", "host"}
    BY <2>3, FilesAre
  <2>4. ASSUME Files[at'] # "host", MetalHub PROVE active'.hub = backup.cert
    <3>1. active.hub = backup.cert
      BY <1>0, <2>2, <2>3, <2>4 DEF Inv, Follows, HubHas
    <3>2. active'.hub = active.hub
      BY <1>2, <2>2, <2>3, <2>4 DEF FileNames
    <3> QED
      BY <3>1, <3>2
  <2> QED
    BY <2>1, <2>4
<1> QED
  BY <1>5, <1>6, <1>7, <1>8, <1>9, <1>10, <1>11 DEF Inv

\* What a service presents when it has read the files is the active certificate.
LEMMA Loads ==
    ASSUME TypeOK
    PROVE  /\ Load(active) \in 0..Len(issued) /\ Len(issued) \in Nat
           /\ Load(active) \in {active.cert, None}
<1>1. Len(issued) \in Nat /\ active.cert \in 1..Len(issued)
  BY DEF TypeOK, FileSets, Certs
<1> QED
  BY <1>1 DEF Load, None

\* The services are told to read the files, or are asked what they present.
LEMMA Serves == ASSUME Inv, Expose \/ Restart \/ Verify PROVE Inv'
<1> USE DEF Goto
<1>0. /\ pc \in {"expose", "restart", "verify"}
      /\ pc' \in {"restart", "verify", "clean", "restore"}
      /\ pc' = "clean" => \A s \in Services : served'[s] = active.cert
      /\ pc' = "restore" => undone'
      /\ UNCHANGED <<at, name, got, stage, backup, active, world, renames, faults, budget, torn>>
      /\ undone' \in {undone, TRUE}
      /\ undone \in BOOLEAN /\ served \in [web : 0..Len(issued), api : 0..Len(issued)]
      /\ served' = served \/ served' = [s \in Services |-> Load(active)]
           \/ served' \in [web : {served.web, Load(active)}, api : {served.api, Load(active)}]
  <2>1. undone \in BOOLEAN /\ served \in [web : 0..Len(issued), api : 0..Len(issued)]
    BY DEF Inv, TypeOK
  <2>2. CASE Expose
    BY <2>1, <2>2 DEF Expose, Exposed, count, cuts
  <2>3. CASE Restart
    BY <2>1, <2>3 DEF Restart, count, cuts
  <2>4. CASE Verify
    <3>1. undone' = undone \/ (undone' = TRUE /\ pc' = "restore")
      BY <2>1, <2>4 DEF Verify, Undo
    <3> QED
      BY <2>1, <2>4, <3>1 DEF Verify, Undo, files
  <2> QED
    BY <2>2, <2>3, <2>4
<1>a. served' \in [web : 0..Len(issued), api : 0..Len(issued)] /\ undone' \in BOOLEAN
  BY <1>0, Loads DEF Services, Inv
<1>1. TypeOK'
  <2>1. pc' \in Points
    BY <1>0 DEF Points, Applying, Rolling
  <2>2. FileSets' = FileSets /\ Stages' = Stages
    BY <1>0 DEF FileSets, Certs, Stages, Requests, world
  <2> QED
    BY <1>0, <1>a, <2>1, <2>2 DEF Inv, TypeOK, world
<1>2. Locals'
  BY <1>0, FilesAre DEF Inv, Locals, world
<1>3. StagedFits'
  BY <1>0 DEF Inv, StagedFits, Applying, StageFull, Covers, Pair, world
<1>4. at = 1 /\ at' = 1
  BY <1>0 DEF Inv, Locals
<1>5. InstallsInOrder' /\ RestoresInOrder'
  BY <1>0, <1>4 DEF InstallsInOrder, RestoresInOrder
<1>6. Whole(active)' = Whole(active) /\ Whole(backup)' = Whole(backup)
  BY <1>0 DEF Whole, Pair, world
<1>7. Installed'
  BY <1>0, <1>6 DEF Inv, Installed, HubHas
<1>8. WholeUnlessTorn'
  BY <1>0, <1>6 DEF Inv, WholeUnlessTorn, Applying, Rolling, Between, Early, count, cuts
<1>9. Follows'
  <2> SUFFICES ASSUME pc' = "clean" PROVE served'.api = active.cert /\ HubHas(active.cert)
    BY <1>0 DEF Follows, HubHas
  <2> QED
    BY <1>0 DEF Inv, Installed, HubHas, Services
<1> QED
  BY <1>1, <1>2, <1>3, <1>5, <1>7, <1>8, <1>9 DEF Inv

\* The script begins to roll back.
LEMMA RollsBack == ASSUME Inv, ApplyFails PROVE Inv'
<1>0. /\ pc \in Applying /\ pc' = "restore" /\ at' = 1
      /\ UNCHANGED <<name, got, files, world, renames, budget, torn>>
      /\ faults' \in 0..MaxFaults
  BY BoundsAssumption DEF ApplyFails, Fault, Inv, TypeOK
<1>a. /\ undone' \in BOOLEAN
      /\ ~undone' => ~undone /\ pc = "install" /\ Files[at] \notin {"hub", "host"}
  BY DEF ApplyFails, Undo
<1>1. TypeOK'
  BY <1>0, <1>a, FilesAre DEF Inv, TypeOK, Points, Rolling, Stages, FileSets, Certs, Requests,
     files, world
<1>2. Locals'
  BY <1>0, FilesAre DEF Inv, Locals, files, world
<1>3. StagedFits' /\ InstallsInOrder' /\ Installed' /\ RestoresInOrder'
  BY <1>0 DEF StagedFits, InstallsInOrder, Installed, RestoresInOrder, Applying
<1>4. Whole(backup)' = Whole(backup)
  BY <1>0 DEF Whole, Pair, files, world
<1>5. WholeUnlessTorn'
  BY <1>0, <1>4 DEF Inv, WholeUnlessTorn, Applying, Between, Early
<1>6. Follows'
  BY <1>0, <1>a DEF Inv, Follows, HubHas, files
<1> QED
  BY <1>1, <1>2, <1>3, <1>5, <1>6 DEF Inv

\* A rollback is at one of the saved files.
LEMMA RestoreAt == ASSUME Inv, pc = "restore" PROVE at \in 1..Len(Saved)
  BY FilesAre DEF Inv, TypeOK, Locals

\* A file is restored: after the last one all are those of the backup.
LEMMA Restores == ASSUME Inv, Restore PROVE Inv'
<1>0. /\ pc = "restore" /\ UNCHANGED <<name, got, stage, backup, served, world, count>>
      /\ OneReplaced(active', active, Saved[at], backup)
      /\ at \in 1..Len(Saved) /\ active \in FileSets /\ backup \in FileSets
      /\ IF at < Len(Saved) THEN pc' = "restore" /\ at' = at + 1
                            ELSE pc' = "reexpose" /\ at' = 1
  BY RestoreAt DEF Restore, NextFile, Inv, TypeOK, OneReplaced
<1>a. OneReplaced(active', active, Saved[at], backup)
  BY <1>0
<1>b. Saved[at] \in SavedNames /\ SavedNames \subseteq FileNames
      /\ active \in FileSets /\ backup \in FileSets
  BY <1>0, FilesAre DEF SavedNames, FileNames
<1>c. Saved[at] \in FileNames
  BY <1>b
<1>1. /\ active' \in FileSets
      /\ \A f \in FileNames : active'[f] = IF f = Saved[at] THEN backup[f] ELSE active[f]
  BY <1>a, <1>b, <1>c, OneFile
<1>2. ~torn => \A j \in 1..at : active'[Saved[j]] = backup[Saved[j]]
  BY <1>0, <1>1, FilesAre DEF Inv, RestoresInOrder, FileNames
<1>3. TypeOK'
  <2>1. at' \in 1..Len(Files)'
    BY <1>0, FilesAre
  <2>2. FileSets' = FileSets /\ Stages' = Stages
    BY <1>0 DEF FileSets, Certs, Stages, Requests, world
  <2>3. pc' \in Points
    BY <1>0 DEF Points, Rolling
  <2> QED
    BY <1>0, <1>1, <2>1, <2>2, <2>3 DEF Inv, TypeOK, world, count, cuts
<1>4. Locals'
  BY <1>0 DEF Inv, Locals, world, count, cuts
<1>5. StagedFits' /\ InstallsInOrder' /\ Installed'
  BY <1>0 DEF StagedFits, InstallsInOrder, Installed, Applying
<1>6. RestoresInOrder'
  BY <1>0, <1>2, FilesAre DEF RestoresInOrder, count, cuts
<1>7. WholeUnlessTorn'
  <2>1. ~torn => Whole(backup)
    BY <1>0 DEF Inv, WholeUnlessTorn, Rolling
  <2>2. Whole(backup)' = Whole(backup)
    BY <1>0 DEF Whole, Pair, world
  <2>3. ASSUME pc' = "reexpose", ~torn PROVE \A f \in SavedNames : active'[f] = backup[f]
    <3>1. at = 5
      BY <1>0, <2>3, FilesAre
    <3>2. \A j \in 1..5 : active'[Saved[j]] = backup[Saved[j]]
      BY <1>2, <2>3, <3>1
    <3> QED
      BY <3>2, FilesAre DEF SavedNames, FileNames
  <2>4. pc' = "reexpose" /\ ~torn => Whole(active')
    BY <2>1, <2>3, SameFiles
  <2>5. Whole(active') => Whole(active)'
    BY <1>0 DEF Whole, Pair, world
  <2> QED
    BY <1>0, <2>1, <2>2, <2>4, <2>5 DEF WholeUnlessTorn, Between, Early, count, cuts
<1>8. Follows'
  <2>1. active'.hub = active.hub
    BY <1>1, <1>b DEF SavedNames, FileNames
  <2>2. ~torn /\ pc' = "reexpose" => active'.cert = backup.cert
    BY <1>0, <1>2, FilesAre
  <2> QED
    BY <1>0, <2>1, <2>2 DEF Inv, Follows, HubHas, count, cuts
<1> QED
  BY <1>3, <1>4, <1>5, <1>6, <1>7, <1>8 DEF Inv

\* A step with which the script ends keeps the invariant when the files are
\* whole, or known to be torn.
LEMMA Ends ==
    ASSUME Inv, TypeOK', Locals', active' = active, issued' = issued,
           pc' \in (Between \ {"backUp"}) \cup {"reexpose"},
           ~torn' => Whole(active) /\ pc' \in Between,
           ~torn' /\ ~undone' => served'.api \in {active.cert, None} /\ HubHas(active.cert)
    PROVE  Inv'
<1>1. pc' \notin Applying \cup {"restore", "clean", "backUp"}
  BY DEF Between, Early, Applying
<1>2. StagedFits' /\ InstallsInOrder' /\ Installed' /\ RestoresInOrder'
  BY <1>1 DEF StagedFits, InstallsInOrder, Installed, RestoresInOrder, Applying
<1>3. Whole(active)' = Whole(active)
  BY DEF Whole, Pair
<1>4. WholeUnlessTorn'
  BY <1>1, <1>3 DEF WholeUnlessTorn, Rolling, Between, Early
<1>5. Follows'
  BY <1>1 DEF Follows, HubHas, Applying
<1> QED
  BY <1>2, <1>4, <1>5 DEF Inv

\* The installation is over and its directories are removed.
LEMMA Cleans ==
    ASSUME Inv, NEW to \in {"done", "confirm"}, Cleaned(to), faults' \in 0..MaxFaults
    PROVE  Inv'
<1> USE DEF Goto
<1>0. /\ pc = "clean" /\ pc' = to /\ torn' = FALSE /\ undone' = FALSE
      /\ stage' = NoStage /\ backup' = VendorFiles
      /\ UNCHANGED <<at, name, got, active, served, world, renames, budget>>
  BY DEF Cleaned
<1>1. stage' \in Stages /\ Stages' = Stages
  BY <1>0 DEF Stages, NoStage, NoCsr, Requests, Hosts, Presence, None, Inv, TypeOK, world
<1>2. FileSets' = FileSets /\ backup' \in FileSets
  <2>1. 1 \in Certs /\ 1 \in 1..keys
    BY SMTT(30) DEF Inv, TypeOK, FileSets, Certs
  <2> QED
    BY <1>0, <2>1 DEF FileSets, VendorFiles, Hosts, Presence, Certs, world
<1>3. TypeOK'
  BY <1>0, <1>1, <1>2 DEF Inv, TypeOK, Points, Between, Early, world
<1>4. Locals'
  BY <1>0 DEF Inv, Locals, NoStage, NoCsr, None, world
<1>5. Whole(active) /\ served'.api = active.cert /\ HubHas(active.cert)
  BY <1>0 DEF Inv, Installed, Services
<1> QED
  BY <1>0, <1>3, <1>4, <1>5, Ends DEF Between, Early, world

\* A rollback has told the services to read the files.
LEMMA RolledBack ==
    ASSUME Inv, NEW to \in {"idle", "confirm"}, Exposed("reexpose", to),
           faults' \in 0..MaxFaults, UNCHANGED <<renames, budget, cuts>>
    PROVE  Inv'
<1> USE DEF Goto
<1>0. /\ pc = "reexpose" /\ pc' = to
      /\ served' \in [web : {served.web, Load(active)}, api : {served.api, Load(active)}]
      /\ served \in [web : 0..Len(issued), api : 0..Len(issued)]
      /\ UNCHANGED <<at, name, got, stage, backup, active, world>>
  BY DEF Exposed, Inv, TypeOK
<1>a. served' \in [web : 0..Len(issued), api : 0..Len(issued)]
  BY <1>0, Loads DEF Inv
<1>1. TypeOK'
  BY <1>0, <1>a DEF Inv, TypeOK, Points, Between, Early, Stages, FileSets, Certs,
     Requests, world, cuts
<1>2. Locals'
  BY <1>0 DEF Inv, Locals, world
<1>3. ~torn => Whole(active)
  BY <1>0 DEF Inv, WholeUnlessTorn
<1>4. ~torn /\ ~undone => served'.api \in {active.cert, None} /\ HubHas(active.cert)
  <2>1. served'.api \in {served.api, Load(active)} /\ Load(active) \in {active.cert, None}
    BY <1>0, Loads DEF Inv
  <2> QED
    BY <1>0, <2>1 DEF Inv, Follows
<1> QED
  BY <1>0, <1>1, <1>2, <1>3, <1>4, Ends DEF Between, Early, world, cuts

\* A restore that fails leaves a mixture.
LEMMA Breaks == ASSUME Inv, RestoreFails PROVE Inv'
<1>0. /\ pc = "restore" /\ pc' \in {"idle", "reexpose"} /\ at' = 1 /\ torn' = TRUE
      /\ UNCHANGED <<name, got, files, world, renames, budget, undone>>
      /\ faults' \in 0..MaxFaults
  BY BoundsAssumption DEF RestoreFails, Fault, Inv, TypeOK
<1>1. TypeOK'
  BY <1>0, FilesAre DEF Inv, TypeOK, Points, Between, Rolling, Stages, FileSets, Certs,
     Requests, files, world
<1>2. Locals'
  BY <1>0 DEF Inv, Locals, files, world
<1> QED
  BY <1>0, <1>1, <1>2, Ends DEF Between, Early, files, world

\* What an interrupted rm -rf leaves is of its type.
LEMMA PartIsTyped ==
    ASSUME Inv, PartOfStage, issued' = issued, keys' = keys
    PROVE  stage' \in Stages' /\ (stage'.csr = stage.csr \/ stage'.csr = NoCsr)
<1>1. stage \in Stages /\ keys \in Nat /\ Len(issued) \in Nat
  BY DEF Inv, TypeOK
<1>2. /\ stage.key \in 0..keys /\ stage.csr \in Requests /\ stage.pem \in 0..Len(issued)
      /\ stage.issuer \in Presence /\ stage.fqdn \in Hosts
      /\ 0 \in 0..keys /\ 0 \in 0..Len(issued) /\ NoCsr \in Requests
      /\ "absent" \in Presence /\ Vendor \in Hosts
  BY <1>1 DEF Stages, Requests, NoCsr, Presence, Hosts, None
<1>3. Stages' = Stages
  BY DEF Stages, Requests
<1>4. stage' \in Stages
  BY <1>2 DEF PartOfStage, Stages, None
<1>5. stage'.csr = stage.csr \/ stage'.csr = NoCsr
  BY DEF PartOfStage
<1> QED
  BY <1>3, <1>4, <1>5

\* The installation is complete and cannot be tidied up.
LEMMA LeavesSome == ASSUME Inv, CleanFails PROVE Inv'
<1> USE DEF Goto
<1>0. /\ pc = "clean" /\ pc' = "idle" /\ torn' = FALSE /\ undone' = FALSE /\ PartOfStage
      /\ UNCHANGED <<at, name, got, backup, active, served, world, renames, budget>>
      /\ faults' \in 0..MaxFaults
  BY BoundsAssumption DEF CleanFails, Fault, Inv, TypeOK
<1>1. stage' \in Stages' /\ (stage'.csr = stage.csr \/ stage'.csr = NoCsr)
  BY <1>0, PartIsTyped DEF world
<1>2. TypeOK'
  BY <1>0, <1>1 DEF Inv, TypeOK, Points, Between, FileSets, Certs, world
<1>3. Locals'
  BY <1>0, <1>1 DEF Inv, Locals, NoCsr, world
<1>4. Whole(active) /\ served'.api = active.cert /\ HubHas(active.cert)
  BY <1>0 DEF Inv, Installed, Services
<1> QED
  BY <1>0, <1>2, <1>3, <1>4, Ends DEF Between, Early, world

\* The appliance restarts.
LEMMA Reboots == ASSUME Inv, Reboot PROVE Inv'
<1>0. /\ pc \in Early \cup Applying \cup Rolling \cup {"clean"}
      /\ pc' \in {"idle", "confirm"} /\ at' = 1
      /\ served' = [s \in Services |-> Load(active)]
      /\ UNCHANGED <<name, got, backup, active, world, renames, undone>>
      /\ torn' = (torn \/ pc \in {"install", "restore"})
  BY DEF Reboot
<1>1. faults' \in 0..MaxFaults /\ budget' \in Nat
  BY BoundsAssumption DEF Reboot, Fault, Charged, Inv, TypeOK
<1>2. stage' \in Stages' /\ (stage'.csr = stage.csr \/ stage'.csr = NoCsr)
  <2>1. CASE pc = "clean"
    BY <1>0, <2>1, PartIsTyped DEF Reboot, world
  <2>2. CASE pc # "clean"
    <3>1. stage' = stage /\ Stages' = Stages
      BY <1>0, <2>2 DEF Reboot, Stages, Requests, world
    <3> QED
      BY <3>1 DEF Inv, TypeOK
  <2> QED
    BY <2>1, <2>2
<1>3. torn' \in BOOLEAN /\ served' \in [web : 0..Len(issued), api : 0..Len(issued)]
  BY <1>0, Loads DEF Services, Inv
<1>4. TypeOK'
  BY <1>0, <1>1, <1>2, <1>3, FilesAre DEF Inv, TypeOK, Points, Between, Early,
     FileSets, Certs, world
<1>5. Locals'
  BY <1>0, <1>2 DEF Inv, Locals, NoCsr, world
<1>6. ~torn' => Whole(active)
  BY <1>0 DEF Inv, Installed, WholeUnlessTorn, Applying, Rolling, Between
<1>7. ~torn' /\ ~undone' => served'.api \in {active.cert, None} /\ HubHas(active.cert)
  <2>1. served'.api \in {active.cert, None}
    BY <1>0, Loads DEF Services, Inv
  <2>2. ASSUME ~torn', ~undone PROVE HubHas(active.cert)
    <3>1. ~torn /\ pc \notin {"install", "restore"}
      BY <1>0, <2>2
    <3> QED
      BY <2>2, <3>1 DEF Inv, Follows, Installed
  <2> QED
    BY <1>0, <2>1, <2>2
<1> QED
  BY <1>0, <1>4, <1>5, <1>6, <1>7, Ends DEF Between, Early, world

\* A certificate comes up for renewal: nothing on the appliance changes.
LEMMA Expires == ASSUME Inv, Expire PROVE Inv'
<1>0. /\ expired' = expired + 1 /\ expired <= MaxExpired /\ budget' = budget + 1
      /\ UNCHANGED <<run, files, issued, keys, renames, faults, cuts>>
  BY DEF Expire
<1>1. TypeOK'
  BY <1>0, BoundsAssumption DEF Inv, TypeOK, Points, Stages, FileSets, Certs, Requests,
     run, files, cuts
<1>2. Locals'
  BY <1>0 DEF Inv, Locals, run, files
<1>3. StagedFits'
  BY <1>0 DEF Inv, StagedFits, StageFull, Covers, Pair, run, files
<1>4. InstallsInOrder' /\ RestoresInOrder'
  BY <1>0 DEF Inv, InstallsInOrder, RestoresInOrder, New, run, files, cuts
<1>5. Installed' /\ WholeUnlessTorn' /\ Follows'
  BY <1>0 DEF Inv, Installed, WholeUnlessTorn, Follows, HubHas, Whole, Pair, run, files, cuts
<1> QED
  BY <1>1, <1>2, <1>3, <1>4, <1>5 DEF Inv

-----------------------------------------------------------------------------
(* Theorems.                                                               *)

\* Every step of a run, of a failure or of a renewal keeps the invariant.
LEMMA StepInv == Inv /\ [Next]_vars => Inv'
<1> SUFFICES ASSUME Inv, [Next]_vars PROVE Inv'
  OBVIOUS
<1>0. faults' \in 0..MaxFaults \/ faults' # faults
  BY DEF Inv, TypeOK
<1>1. CASE Again \/ ServicesDown
  BY <1>1, Begins
<1>2. CASE Script
  <2>1. CASE CleanUp
    BY <1>0, <2>1, Cleans DEF CleanUp
  <2>2. CASE Reexpose
    BY <1>0, <2>2, RolledBack DEF Reexpose, count, cuts
  <2> QED
    BY <1>2, <2>1, <2>2, Checks, StageWrites, KeyGenerated, Orders, BacksUp, Installs,
       Serves, Restores DEF Script
<1>3. CASE Unanswered
  <2>1. faults' \in 0..MaxFaults
    BY <1>3, BoundsAssumption DEF Unanswered, Fault, Inv, TypeOK
  <2> QED
    BY <1>3, <2>1, Cleans, RolledBack DEF Unanswered
<1>4. CASE Trouble /\ ~Unanswered /\ ~ServicesDown
  BY <1>4, Checks, RollsBack, Breaks, LeavesSome, Reboots, Expires DEF Trouble
<1>5. CASE UNCHANGED vars
  <2>1. TypeOK' /\ Locals'
    BY <1>5 DEF Inv, TypeOK, Locals, Points, Stages, FileSets, Certs, Requests,
       vars, run, files, world, count, cuts
  <2>2. StagedFits' /\ InstallsInOrder' /\ RestoresInOrder'
    BY <1>5 DEF Inv, StagedFits, InstallsInOrder, RestoresInOrder, StageFull, Covers, Pair,
       New, vars, run, files, world, count, cuts
  <2>3. Installed' /\ WholeUnlessTorn' /\ Follows'
    BY <1>5 DEF Inv, Installed, WholeUnlessTorn, Follows, HubHas, Whole, Pair, vars, run, files,
         world, count, cuts
  <2> QED
    BY <2>1, <2>2, <2>3 DEF Inv
<1> QED
  BY <1>1, <1>2, <1>3, <1>4, <1>5 DEF Next, Trouble

\* The invariant of the certificate's installation, for any names and bounds.
THEOREM CertificateInvariant == Spec => []Inv
<1>1. Init => Inv
  BY InitInv
<1>2. Inv /\ [Next]_vars => Inv'
  BY StepInv
<1> QED
  BY <1>1, <1>2, PTL DEF Spec

\* Whatever fails, between two runs the files that an installation saves are all
\* of one certificate unless an installation or a rollback was cut off, and the
\* metal hub's files are of it too unless an installation was rolled back that
\* had written them (the rollback of the apply script does not know them).
THEOREM FailuresRestore == Spec => []FailureRestores
<1>1. Inv => FailureRestores
  BY DEF Inv, WholeUnlessTorn, Follows, FailureRestores, Between
<1> QED
  BY <1>1, CertificateInvariant, PTL

\* A reported success is a certificate for the name that is active and that the
\* web proxy presents, with all its files unless they were torn.  The API presents
\* it too when the run installed it (verification); when the run only asked the
\* web proxy (probe), the API presents it or is down, unless files were torn or
\* an installation was rolled back late.
THEOREM SuccessServes == Spec => SuccessIsServed
<1> DEFINE Success == pc # "done" /\ pc' = "done" =>
                        /\ served.web = active.cert /\ Covers(active.cert, name)
                        /\ pc = "clean" => served.api = active.cert /\ HubHas(active.cert)
                        /\ ~torn => Whole(active)
                        /\ ~torn /\ ~undone =>
                               served.api \in {active.cert, None} /\ HubHas(active.cert)
<1>1. Inv /\ [Next]_vars => [Success]_vars
  <2> SUFFICES ASSUME Inv, Next, pc # "done", pc' = "done"
               PROVE  /\ served.web = active.cert /\ Covers(active.cert, name)
                      /\ pc = "clean" => served.api = active.cert /\ HubHas(active.cert)
                      /\ ~torn => Whole(active)
                      /\ ~torn /\ ~undone =>
                             served.api \in {active.cert, None} /\ HubHas(active.cert)
    OBVIOUS
  <2>1. (Probe \/ Confirm) \/ CleanUp
    BY DEF Next, Again, Start, Script, Trouble, Probe, Inspect, CopyCert, CopyKey, CopyName,
       StagedProbe, Request, GenKey, GenCsr, WriteName, CheckCsr, Order, OrderRefused, StagePem,
       StageIssuer, Chain, Prepare, BackUp, Install, NextFile, Expose, Exposed, Restart, Verify,
       CleanUp, Restore, Reexpose, Confirm, Abort, ApplyFails, RestoreFails, CleanFails,
       Unanswered, Cleaned, Reboot, ServicesDown, Expire, Goto, run
  <2>2. CASE Probe \/ Confirm
    BY <2>2 DEF Probe, Confirm, Current, Good, Inv, WholeUnlessTorn, Follows, Between, Early
  <2>3. CASE CleanUp
    <3>1. pc = "clean"
      BY <2>3 DEF CleanUp, Cleaned, Goto
    <3> QED
      BY <3>1 DEF Inv, Installed, StagedFits, Services
  <2> QED
    BY <2>1, <2>2, <2>3
<1>2. Spec => [][Success]_vars
  BY <1>1, CertificateInvariant, PTL DEF Spec
<1> QED
  BY <1>2 DEF SuccessIsServed

-----------------------------------------------------------------------------
(* Reloads.                                                                *)

\* The steps at which a run asks for a certificate, and those at which it has
\* one that it still has to stage.
Requesting == {"csr", "genKey", "genCsr", "writeName", "checkCsr", "order"}
Ordering == Requesting \cup Ordered

\* The active certificate is a good one, and what is staged is of one certificate.
GoodActive == Good(active.cert, name)
SamePair(c) == stage.pem \in {None, c} /\ stage.key \in {None, issued[c].key}

\* As long as the active certificate is a good one nothing of another is staged
\* and none is asked for; an installation or a rollback that was cut off before
\* key and marker fit has left all files staged, so that a run goes on with them.
ReloadParts ==
    /\ GoodActive => SamePair(active.cert) /\ pc \notin Ordering
    /\ GoodActive /\ (active.mark = "absent" \/ ~Pair(active.cert, active.key)) => StageFull
    /\ GoodActive /\ pc = "ready" => StageFull
    /\ GoodActive /\ pc \in {"copyCert", "copyKey", "copyName"} => Pair(active.cert, active.key)
    /\ GoodActive /\ pc \in {"copyKey", "copyName"} =>
          stage.pem = active.cert /\ stage.issuer = "present"
    /\ GoodActive /\ pc = "copyName" => stage.key = active.key
    /\ pc \in Applying \cup Rolling /\ Good(backup.cert, name) => stage.pem = backup.cert
    /\ pc \in Rolling => StageFull /\ Pair(stage.pem, stage.key)

\* That is so as long as the name has not changed.
ReloadInv == renames = 0 => ReloadParts

\* The types of the files, by field.
LEMMA FieldTypes ==
    ASSUME TypeOK
    PROVE  /\ active.cert \in 1..Len(issued) /\ active.key \in 1..keys
           /\ active.mark \in {"absent", "present"} /\ backup.cert \in 1..Len(issued)
           /\ stage.pem \in 0..Len(issued) /\ stage.key \in 0..keys
           /\ Len(issued) \in Nat /\ expired \in Nat /\ keys \in Nat
           /\ DOMAIN active = {"cert", "key", "rest", "mark", "hub", "host"}
           /\ DOMAIN stage = {"key", "csr", "pem", "issuer", "fqdn"}
<1>1. active \in FileSets /\ backup \in FileSets
  BY DEF TypeOK
<1>2. /\ active.cert \in 1..Len(issued) /\ active.key \in 1..keys
      /\ active.mark \in {"absent", "present"} /\ backup.cert \in 1..Len(issued)
      /\ DOMAIN active = {"cert", "key", "rest", "mark", "hub", "host"}
  BY <1>1 DEF FileSets, Certs, Presence
<1>3. /\ stage.pem \in 0..Len(issued) /\ stage.key \in 0..keys
      /\ Len(issued) \in Nat /\ expired \in Nat /\ keys \in Nat
      /\ DOMAIN stage = {"key", "csr", "pem", "issuer", "fqdn"}
  BY BoundsAssumption DEF TypeOK, Stages
<1> QED
  BY <1>2, <1>3

\* A step of the run that leaves files and certificates alone.
LEMMA ReloadMoves ==
    ASSUME Inv, ReloadParts,
           UNCHANGED <<name, stage, backup, active, issued>>, expired' \in {expired, expired + 1},
           GoodActive => pc' \notin Ordering,
           pc' = "ready" => pc = "ready" \/ pc = "copyName" \/ StageFull \/ ~Reusable,
           pc' = "copyCert" => pc = "copyCert" \/ (~StageFull /\ Reusable),
           pc' \in {"copyKey", "copyName"} => pc' = pc,
           pc' \in Applying => pc \in Applying,
           pc' \in Rolling => pc \in Applying \cup Rolling
    PROVE  ReloadParts'
<1> USE FieldTypes DEF Inv
<1>1. GoodActive' => GoodActive
  BY DEF GoodActive, Good, Covers
<1>2. Good(backup.cert, name)' => Good(backup.cert, name)
  BY DEF Good, Covers
<1>3. (GoodActive => SamePair(active.cert) /\ pc \notin Ordering)'
  BY <1>1 DEF ReloadParts, SamePair
<1>4. (GoodActive /\ (active.mark = "absent" \/ ~Pair(active.cert, active.key)) => StageFull)'
  BY <1>1 DEF ReloadParts, Pair, StageFull
<1>5. (GoodActive /\ pc = "ready" => StageFull)'
  <2> SUFFICES ASSUME GoodActive, pc' = "ready" PROVE StageFull
    BY <1>1 DEF StageFull
  <2>1. CASE ~Reusable
    BY <2>1 DEF ReloadParts, Reusable, GoodActive
  <2>2. CASE pc = "copyName"
    BY <2>2 DEF ReloadParts, StageFull, None
  <2> QED BY <2>1, <2>2 DEF ReloadParts
<1>6. /\ (GoodActive /\ pc \in {"copyCert", "copyKey", "copyName"}
           => Pair(active.cert, active.key))'
      /\ (GoodActive /\ pc \in {"copyKey", "copyName"}
           => stage.pem = active.cert /\ stage.issuer = "present")'
      /\ (GoodActive /\ pc = "copyName" => stage.key = active.key)'
  BY <1>1 DEF ReloadParts, Pair, StageFull
<1>7. (pc \in Applying \cup Rolling /\ Good(backup.cert, name) => stage.pem = backup.cert)'
  BY <1>2 DEF ReloadParts
<1>8. (pc \in Rolling => StageFull /\ Pair(stage.pem, stage.key))'
  BY DEF ReloadParts, StageFull, Pair, StagedFits
<1> QED
  BY <1>3, <1>4, <1>5, <1>6, <1>7, <1>8 DEF ReloadParts

\* A step on the way to a certificate is taken without a good active one.
LEMMA ReloadOrders ==
    ASSUME Inv, ReloadParts, pc \in Ordering, UNCHANGED <<name, active>>, expired' = expired,
           \A c \in 1..Len(issued) : issued'[c] = issued[c],
           pc' \notin Applying \cup Rolling
    PROVE  ReloadParts'
<1>1. ~GoodActive
  BY DEF ReloadParts
<1>2. ~GoodActive'
  BY <1>1, FieldTypes DEF Inv, GoodActive, Good, Covers
<1> QED
  BY <1>2 DEF ReloadParts

\* A good active pair is copied file by file.
LEMMA ReloadCopies ==
    ASSUME Inv, ReloadParts, CopyCert \/ CopyKey \/ CopyName
    PROVE  ReloadParts'
<1> USE FieldTypes DEF Inv
<1>1. /\ UNCHANGED <<name, backup, active, issued, expired>>
      /\ pc \in {"copyCert", "copyKey", "copyName"} /\ pc' \in {"copyKey", "copyName", "ready"}
  BY DEF CopyCert, CopyKey, CopyName, Goto, world
<1>2. GoodActive' <=> GoodActive
  BY <1>1 DEF GoodActive, Good, Covers
<1>3. CASE ~GoodActive
  BY <1>1, <1>2, <1>3 DEF ReloadParts, Applying, Rolling, Ordering, Requesting, Ordered
<1>4. CASE GoodActive
  <2>1. SamePair(active.cert) /\ Pair(active.cert, active.key)
    BY <1>1, <1>4 DEF ReloadParts
  <2>2. CASE CopyCert
    <3>1. stage'.pem = active.cert /\ stage'.issuer = "present" /\ stage'.key = stage.key
          /\ pc' = "copyKey"
      BY <2>2 DEF CopyCert, Goto
    <3> QED BY <1>1, <1>2, <1>4, <2>1, <3>1
            DEF ReloadParts, SamePair, Pair, Ordering, Requesting, Ordered, Applying, Rolling,
                StageFull
  <2>3. CASE CopyKey
    <3>1. stage'.pem = stage.pem /\ stage'.issuer = stage.issuer /\ stage'.key = active.key
          /\ pc = "copyKey" /\ pc' = "copyName"
      BY <2>3 DEF CopyKey, Goto
    <3> QED BY <1>1, <1>2, <1>4, <2>1, <3>1
            DEF ReloadParts, SamePair, Pair, Ordering, Requesting, Ordered, Applying, Rolling,
                StageFull
  <2>4. CASE CopyName
    <3>1. stage'.pem = stage.pem /\ stage'.issuer = stage.issuer /\ stage'.key = stage.key
          /\ pc = "copyName" /\ pc' = "ready"
      BY <2>4 DEF CopyName, Goto
    <3> QED BY <1>1, <1>2, <1>4, <2>1, <3>1
            DEF ReloadParts, SamePair, Pair, Ordering, Requesting, Ordered, Applying, Rolling,
                StageFull, None
  <2> QED BY <2>2, <2>3, <2>4
<1> QED BY <1>3, <1>4

\* The backup of a good certificate is one of the staged certificate.
LEMMA ReloadBacksUp == ASSUME Inv, ReloadParts, BackUp PROVE ReloadParts'
<1> USE FieldTypes DEF Inv
<1>1. /\ UNCHANGED <<name, stage, active, issued, expired>> /\ backup'.cert = active.cert
      /\ pc = "backUp" /\ pc' = "install"
  BY DEF BackUp, Goto, world, count, cuts, TypeOK, FileSets
<1>2. StageFull
  BY <1>1 DEF StagedFits
<1>3. GoodActive' <=> GoodActive
  BY <1>1 DEF GoodActive, Good, Covers
<1>4. Good(backup.cert, name)' <=> GoodActive
  BY <1>1 DEF GoodActive, Good, Covers
<1> QED
  BY <1>1, <1>2, <1>3, <1>4
     DEF ReloadParts, SamePair, StageFull, None, Pair, Ordering, Requesting, Ordered, Rolling

\* A step of the installation or the rollback replaces one file.
LEMMA ReloadReplaces == ASSUME Inv, ReloadParts, Install \/ Restore PROVE ReloadParts'
<1> USE FieldTypes DEF Inv
<1>1. /\ UNCHANGED <<name, stage, backup, issued, expired>>
      /\ pc \in {"install", "restore"} /\ pc' \in {"install", "expose", "restore", "reexpose"}
      /\ pc' \in Rolling => pc \in Rolling
  BY DEF Install, Restore, NextFile, world, count, cuts, Rolling
<1>2. StageFull /\ Pair(stage.pem, stage.key)
  BY <1>1 DEF StagedFits, ReloadParts, Applying, Rolling
<1>3. active'.cert \in {active.cert, backup.cert, stage.pem}
  BY FilesAre DEF Install, Restore, New, TypeOK
<1>4. Good(backup.cert, name) => stage.pem = backup.cert
  BY <1>1 DEF ReloadParts, Applying, Rolling
<1>5. GoodActive' => stage.pem = active'.cert
  BY <1>1, <1>2, <1>3, <1>4 DEF GoodActive, Good, Covers, ReloadParts, SamePair, StageFull
<1>6. Good(backup.cert, name)' <=> Good(backup.cert, name)
  BY <1>1 DEF Good, Covers
<1> QED
  BY <1>1, <1>2, <1>4, <1>5, <1>6
     DEF ReloadParts, SamePair, StageFull, Pair, Ordering, Requesting, Ordered

\* What is left of the staging directory is of the pair that is active.
LEMMA ReloadTidies ==
    ASSUME Inv, ReloadParts, pc = "clean", PartOfStage \/ stage' = NoStage,
           UNCHANGED <<name, active, issued, expired>>, pc' \in {"done", "idle", "confirm"}
    PROVE  ReloadParts'
<1> USE FieldTypes DEF Inv
<1>1. Whole(active) /\ active.cert = stage.pem /\ Pair(stage.pem, stage.key)
  BY DEF Installed, StagedFits
<1>2. GoodActive' <=> GoodActive
  BY DEF GoodActive, Good, Covers
<1>3. stage'.pem \in {None, stage.pem} /\ stage'.key \in {None, stage.key}
  BY DEF PartOfStage, NoStage
<1>4. GoodActive => active.mark = "present"
  BY <1>1, NamesAssumption DEF GoodActive, Good, Covers, Whole, Locals, TypeOK
<1> QED
  BY <1>1, <1>2, <1>3, <1>4
     DEF ReloadParts, SamePair, Whole, Pair, Applying, Rolling, Ordering, Requesting, Ordered

\* Every step of a run that keeps the name.
LEMMA ReloadSteps ==
    ASSUME Inv, ReloadParts, Next, name' = name PROVE ReloadParts'
<1> USE DEF Ordering, Requesting, Ordered, Applying, Rolling
<1>1. CASE Again \/ ServicesDown \/ Expire
  <2>1. /\ expired' \in {expired, expired + 1} /\ pc' \in {pc, "probe"}
        /\ UNCHANGED <<stage, backup, active, issued>>
    BY <1>1 DEF Again, Start, ServicesDown, Expire, run, files, world
  <2>2. GoodActive => pc \notin Ordering
    BY DEF ReloadParts
  <2>3. CASE pc' = pc
    BY <2>1, <2>2, <2>3, ReloadMoves
  <2>4. CASE pc' = "probe"
    BY <2>1, <2>2, <2>4, ReloadMoves
  <2> QED
    BY <2>1, <2>3, <2>4
<1>2. CASE Probe \/ Inspect \/ StagedProbe
  <2>1. UNCHANGED <<stage, backup, active, issued, expired>>
    BY <1>2 DEF files, Probe, Inspect, StagedProbe, world
  <2>2. GoodActive => pc' \notin Ordering
    <3> SUFFICES ASSUME GoodActive, pc = "ready" PROVE pc' = "chain"
      BY <1>2 DEF Probe, Inspect, StagedProbe
    <3>1. StageFull /\ SamePair(active.cert)
      BY DEF ReloadParts
    <3>2. StageReady
      BY <3>1 DEF StageReady, StageFull, SamePair, Pair, GoodActive
    <3> QED
      BY <1>2, <3>2 DEF StagedProbe, Probe, Inspect
  <2>3. /\ pc' \in {"done", "inspect", "copyCert", "ready", "chain", "csr"}
        /\ pc' = "ready" => StageFull \/ ~Reusable
        /\ pc' = "copyCert" => ~StageFull /\ Reusable
    BY <1>2 DEF Probe, Inspect, StagedProbe
  <2> QED
    BY <2>1, <2>2, <2>3, ReloadMoves
<1>3. CASE Chain \/ Prepare \/ Expose \/ Restart \/ Verify \/ Reexpose \/ Confirm
  <2>1. /\ UNCHANGED <<stage, backup, active, issued, expired>>
        /\ pc' \in {"prepare", "idle", "backUp", "restart", "verify", "clean", "restore", "done"}
        /\ pc' \in Applying \cup Rolling => pc \in Applying
    BY <1>3 DEF Chain, Prepare, Expose, Restart, Verify, Reexpose, Exposed, Confirm, Goto,
       files, world
  <2> QED
    BY <2>1, ReloadMoves
<1>4. CASE Abort \/ ApplyFails \/ RestoreFails \/ Exposed("reexpose", "confirm")
        \/ (Reboot /\ pc # "clean")
  <2>1. /\ UNCHANGED <<stage, backup, active, issued, expired>>
        /\ pc' \in {"idle", "restore", "reexpose", "confirm"}
        /\ pc' \in Rolling => pc \in Applying \cup Rolling
    BY <1>4 DEF Abort, ApplyFails, RestoreFails, Exposed, Reboot, Goto,
       files, world
  <2> QED
    BY <2>1, ReloadMoves
<1>5. CASE Request \/ GenKey \/ GenCsr \/ WriteName \/ CheckCsr \/ Order \/ OrderRefused
        \/ StagePem \/ StageIssuer
  <2>1. /\ pc \in Ordering /\ UNCHANGED <<active, expired>>
        /\ pc' \notin Applying \cup Rolling
    BY <1>5 DEF Request, GenKey, GenCsr, WriteName, CheckCsr, Order, OrderRefused,
       StagePem, StageIssuer, Goto, files, world
  <2>2. \A c \in 1..Len(issued) : issued'[c] = issued[c]
    <3>1. CASE Order
      <4>1. issued \in Seq([key : 1..keys, name : Hosts])
        BY DEF Inv, TypeOK
      <4> QED
        BY <3>1, <4>1 DEF Order
    <3>2. CASE ~Order
      BY <1>5, <3>2 DEF Request, GenKey, GenCsr, WriteName, CheckCsr, OrderRefused,
         StagePem, StageIssuer, world
    <3> QED
      BY <3>1, <3>2
  <2> QED
    BY <2>1, <2>2, ReloadOrders
<1>6. CASE CopyCert \/ CopyKey \/ CopyName
  BY <1>6, ReloadCopies
<1>7. CASE BackUp
  BY <1>7, ReloadBacksUp
<1>8. CASE Install \/ Restore
  BY <1>8, ReloadReplaces
<1>9. CASE CleanUp \/ CleanFails \/ Unanswered \/ Reboot
  <2>1. CASE Exposed("reexpose", "confirm")
    BY <2>1, <1>4
  <2>2. CASE Reboot /\ pc # "clean"
    BY <2>2, <1>4
  <2>3. CASE ~Exposed("reexpose", "confirm") /\ ~(Reboot /\ pc # "clean")
    <3>1. /\ pc = "clean" /\ pc' \in {"done", "idle", "confirm"}
          /\ UNCHANGED <<active, issued, expired>>
          /\ PartOfStage \/ stage' = NoStage
      BY <1>9, <2>3 DEF CleanUp, Cleaned, CleanFails, Unanswered, Reboot, Goto, world
    <3> QED
      BY <3>1, ReloadTidies
  <2> QED
    BY <2>1, <2>2, <2>3
<1> QED
  <2>1. CASE Script
    BY <2>1, <1>2, <1>3, <1>5, <1>6, <1>7, <1>8, <1>9 DEF Script
  <2>2. CASE Trouble
    BY <2>2, <1>1, <1>4, <1>9 DEF Trouble
  <2> QED
    BY <1>1, <2>1, <2>2 DEF Next

\* Without a change of the name what is staged stays a copy of a good active
\* certificate, and nothing is ordered beside it.
LEMMA ReloadStep == Inv /\ ReloadInv /\ [Next]_vars => ReloadInv'
<1> SUFFICES ASSUME Inv, ReloadInv, [Next]_vars, renames' = 0 PROVE ReloadParts'
  BY DEF ReloadInv
<1>1. CASE Next
  <2>1. renames = 0 /\ name' = name
    <3>1. CASE Again
      <4>1. PICK n \in Names : Start(n)
        BY <3>1 DEF Again
      <4>2. renames \in Nat
        BY BoundsAssumption DEF Inv, TypeOK
      <4> QED
        BY <4>1, <4>2 DEF Start
    <3>2. CASE Script
      BY <3>2 DEF Script, Probe, Inspect, CopyCert, CopyKey, CopyName, StagedProbe, Request,
         GenKey, GenCsr, WriteName, CheckCsr, Order, OrderRefused, StagePem, StageIssuer,
         Chain, Prepare, BackUp, Install, Expose, Exposed, Restart, Verify, CleanUp, Cleaned,
         Restore, Reexpose, Confirm, count, cuts
    <3>3. CASE Trouble
      BY <3>3 DEF Trouble, Abort, ApplyFails, RestoreFails, CleanFails, Unanswered, Cleaned,
         Exposed, Reboot, ServicesDown, Expire, run
    <3> QED
      BY <1>1, <3>1, <3>2, <3>3 DEF Next
  <2> QED
    BY <1>1, <2>1, ReloadSteps DEF ReloadInv
<1>2. CASE UNCHANGED vars
  <2>1. ReloadParts
    BY <1>2 DEF ReloadInv, vars, count, cuts
  <2> QED
    BY <1>2, <2>1 DEF ReloadParts, GoodActive, Good, Covers, SamePair, Pair, StageFull,
       vars, run, files, world
<1> QED
  BY <1>1, <1>2

\* The first run finds the vendor's certificate.
LEMMA ReloadInit == Init => ReloadInv
<1> SUFFICES ASSUME Init PROVE ReloadParts
  BY DEF ReloadInv
<1>1. ~Good(active.cert, name) /\ ~Good(backup.cert, name)
  BY NamesAssumption DEF Init, VendorFiles, Good, Covers
<1> QED
  BY <1>1 DEF Init, ReloadParts, GoodActive, Applying, Rolling

\* Services that have not read a good active pair cost no order, for any names
\* and bounds (certificateStagedProbeScript, lines 96-112).
THEOREM ReloadsAreFree == Spec => ReloadCostsNoOrder
<1> DEFINE Free == issued' # issued /\ renames = 0 =>
                       ~(Reusable /\ Pair(active.cert, active.key))
<1>1. Inv /\ ReloadInv /\ [Next]_vars => [Free]_vars
  <2> SUFFICES ASSUME ReloadInv, Next, issued' # issued, renames = 0
               PROVE  ~Reusable
    OBVIOUS
  <2>1. pc = "order"
    BY DEF Next, Again, Start, Script, Trouble, Probe, Inspect, CopyCert, CopyKey, CopyName,
       StagedProbe, Request, GenKey, GenCsr, WriteName, CheckCsr, Order, OrderRefused, StagePem,
       StageIssuer, Chain, Prepare, BackUp, Install, Expose, Exposed, Restart, Verify,
       CleanUp, Restore, Reexpose, Confirm, Abort, ApplyFails, RestoreFails, CleanFails,
       Unanswered, Cleaned, Reboot, ServicesDown, Expire, Goto, world
  <2> QED
    BY <2>1 DEF ReloadInv, ReloadParts, Ordering, Requesting, GoodActive, Reusable
<1>2. Spec => [](Inv /\ ReloadInv)
  BY InitInv, StepInv, ReloadInit, ReloadStep, PTL DEF Spec
<1> QED
  BY <1>1, <1>2, PTL DEF Spec, ReloadCostsNoOrder

-----------------------------------------------------------------------------
(* Orders.                                                                 *)

\* Certificates obtained.
Spent == Len(issued) - 1

\* The certificate that was just obtained, for the key that is staged.
InTransit == /\ Good(got, name) /\ Pair(got, stage.key) /\ stage.key # None
             /\ pc = "stageIssuer" => stage.pem = got

\* A good active pair, and nothing of another one beside it.
Taken == Reusable /\ Pair(active.cert, active.key) /\ SamePair(active.cert)

\* The steps at which the staging directory is complete.
Complete ==
    {"copyName", "ready", "chain", "prepare", "backUp", "clean"} \cup Applying \cup Rolling

\* A run holds a good certificate with its key, staged, active or on the way
\* from the one to the other, and does not ask for one.
Held ==
    /\ pc \notin Requesting
    /\ pc \in Ordered => InTransit
    /\ pc \in Complete => StageReady
    /\ pc \in {"copyCert", "copyKey"} => Taken
    /\ pc = "copyKey" => stage.pem = active.cert /\ stage.issuer = "present"
    /\ pc \notin Ordered => StageReady \/ Taken

\* When as many certificates were obtained as there were occasions, the last
\* occasion's is held.
OrderInv ==
    /\ expired <= Len(issued)
    /\ Spent <= budget
    /\ Spent = budget => Held

\* What is staged in full beside a good active pair of the same certificate is
\* ready.
LEMMA FullIsReady == ASSUME StageFull, StageReady \/ Taken PROVE StageReady
  BY DEF StageFull, StageReady, Taken, Reusable, SamePair, Pair, Good, Covers, None

\* Steps that leave the staging directory alone and the active files as well,
\* unless what is staged is complete.
LEMMA HeldStays ==
    ASSUME Inv, Held, UNCHANGED <<name, stage, issued, expired>>, pc \notin Ordered,
           pc' \notin Requesting \cup Ordered \cup {"copyCert", "copyKey"},
           pc' \in Complete => StageReady,
           active' = active \/ StageReady
    PROVE  Held'
<1>1. StageReady => StageReady'
  BY DEF StageReady, StageFull, Good, Covers, Pair
<1>2. active' = active /\ Taken => Taken'
  BY DEF Taken, Reusable, SamePair, Good, Covers, Pair
<1> QED
  BY <1>1, <1>2 DEF Held

\* Probes, checks, failures and the steps of the apply script.
LEMMA HeldWaits ==
    ASSUME Inv, Held, pc \notin Ordered,
           \/ \E n \in Names : Start(n) /\ n = name
           \/ Probe \/ StagedProbe \/ CopyName \/ Chain \/ Prepare \/ Confirm
           \/ BackUp \/ Install \/ Expose \/ Restart \/ Verify \/ Restore \/ Reexpose
           \/ Abort \/ ApplyFails \/ RestoreFails \/ Exposed("reexpose", "confirm")
           \/ (Reboot /\ pc # "clean") \/ ServicesDown
    PROVE  Held'
<1> USE DEF Complete, Requesting, Ordered, Applying, Rolling
<1>1. CASE \/ \E n \in Names : Start(n) /\ n = name
           \/ Probe \/ Confirm \/ ServicesDown
  <2>1. /\ UNCHANGED <<name, stage, active, issued, expired>>
        /\ pc' \in {"probe", "done", "inspect", "idle"}
    BY <1>1 DEF Start, Probe, Confirm, ServicesDown, run, files, world
  <2> QED
    BY <2>1, HeldStays
<1>2. CASE StagedProbe \/ Chain \/ Prepare \/ Verify
  <2>1. UNCHANGED <<name, stage, active, issued, expired>>
    BY <1>2 DEF StagedProbe, Chain, Prepare, Verify, files, world
  <2>2. StageReady
    BY <1>2 DEF Held, StagedProbe, Chain, Prepare, Verify
  <2>3. pc' \notin Requesting \cup Ordered \cup {"copyCert", "copyKey"}
    BY <1>2, <2>2 DEF StagedProbe, Chain, Prepare, Verify
  <2> QED
    BY <2>1, <2>2, <2>3, HeldStays
<1>3. CASE BackUp \/ Install \/ Expose \/ Restart \/ Restore \/ Reexpose
           \/ Exposed("reexpose", "confirm")
  <2>1. /\ UNCHANGED <<name, stage, issued, expired>> /\ pc \in Complete
        /\ pc' \in {"install", "expose", "restart", "verify",
                   "restore", "reexpose", "idle", "confirm"}
    BY <1>3 DEF BackUp, Install, NextFile, Expose, Exposed, Restart, Restore, Reexpose, Goto,
       world
  <2>2. StageReady
    BY <2>1 DEF Held
  <2> QED
    BY <2>1, <2>2, HeldStays
<1>4. CASE Abort \/ ApplyFails \/ RestoreFails \/ (Reboot /\ pc # "clean")
  <2>1. /\ UNCHANGED <<name, stage, active, issued, expired>>
        /\ pc' \in {"idle", "confirm", "restore", "reexpose"}
        /\ pc' \in Complete => pc \in Complete
    BY <1>4 DEF Abort, ApplyFails, RestoreFails, Reboot, files, world
  <2>2. pc' \in Complete => StageReady
    BY <2>1 DEF Held
  <2> QED
    BY <2>1, <2>2, HeldStays
<1>5. CASE CopyName
  <2>1. /\ stage'.pem = stage.pem /\ stage'.key = stage.key /\ stage'.issuer = stage.issuer
        /\ pc = "copyName" /\ pc' = "ready" /\ UNCHANGED <<name, issued, expired>>
    BY <1>5, FieldTypes DEF CopyName, Goto, world, Inv
  <2>2. StageReady'
    BY <2>1 DEF Held, StageReady, StageFull, Good, Covers, Pair
  <2> QED
    BY <2>1, <2>2 DEF Held
<1> QED
  BY <1>1, <1>2, <1>3, <1>4, <1>5

\* A good active pair is taken over.
LEMMA HeldCopies == ASSUME Inv, Held, Inspect \/ CopyCert \/ CopyKey PROVE Held'
<1> USE FieldTypes DEF Inv, Complete, Requesting, Ordered, Applying, Rolling
<1>1. UNCHANGED <<name, active, issued, expired>>
  BY DEF Inspect, CopyCert, CopyKey, files, world
<1>2. CASE Inspect
  <2>1. stage' = stage /\ pc = "inspect" /\ pc' \in {"copyCert", "ready"}
        /\ (pc' = "copyCert" <=> ~StageFull /\ Reusable)
    BY <1>2 DEF Inspect, files
  <2>2. StageReady \/ Taken
    BY <2>1 DEF Held
  <2>3. (StageReady => StageReady') /\ (Taken => Taken')
    BY <1>1, <2>1 DEF StageReady, StageFull, Taken, Reusable, SamePair, Good, Covers, Pair
  <2>4. CASE pc' = "copyCert"
    <3>1. Taken
      BY <2>1, <2>2, <2>4 DEF StageReady
    <3> QED
      BY <2>3, <2>4, <3>1 DEF Held
  <2>5. CASE pc' = "ready"
    <3>1. StageReady
      BY <2>1, <2>2, <2>5, FullIsReady DEF Taken
    <3> QED
      BY <2>3, <2>5, <3>1 DEF Held
  <2> QED
    BY <2>1, <2>4, <2>5
<1>3. CASE CopyCert
  <2>1. /\ stage'.pem = active.cert /\ stage'.issuer = "present" /\ stage'.key = stage.key
        /\ pc = "copyCert" /\ pc' = "copyKey"
    BY <1>3 DEF CopyCert, Goto
  <2>2. Taken
    BY <2>1 DEF Held
  <2>3. Taken'
    BY <1>1, <2>1, <2>2 DEF Taken, Reusable, SamePair, Good, Covers, Pair
  <2> QED
    BY <1>1, <2>1, <2>3 DEF Held
<1>4. CASE CopyKey
  <2>1. /\ stage'.pem = stage.pem /\ stage'.issuer = stage.issuer /\ stage'.key = active.key
        /\ pc = "copyKey" /\ pc' = "copyName"
    BY <1>4 DEF CopyKey, Goto
  <2>2. Taken /\ stage.pem = active.cert /\ stage.issuer = "present"
    BY <2>1 DEF Held
  <2>3. StageReady'
    BY <1>1, <2>1, <2>2 DEF Taken, Reusable, StageReady, StageFull, Good, Covers, Pair, None
  <2> QED
    BY <2>1, <2>3 DEF Held
<1> QED
  BY <1>2, <1>3, <1>4

\* What was obtained is staged.
LEMMA HeldArrives == ASSUME Inv, Held, StagePem \/ StageIssuer PROVE Held'
<1> USE FieldTypes DEF Inv, Complete, Requesting, Ordered, Applying, Rolling
<1>1. /\ UNCHANGED <<name, got, active, issued, expired>> /\ stage'.key = stage.key
      /\ pc \in Ordered
  BY DEF StagePem, StageIssuer, Goto, world
<1>2. InTransit
  BY <1>1 DEF Held
<1>3. CASE StagePem
  <2>1. stage'.pem = got /\ pc' = "stageIssuer"
    BY <1>3 DEF StagePem, Goto
  <2> QED
    BY <1>1, <1>2, <2>1 DEF Held, InTransit, Good, Covers, Pair
<1>4. CASE StageIssuer
  <2>1. stage'.pem = got /\ stage'.issuer = "present" /\ pc' = "chain"
    BY <1>2, <1>4 DEF StageIssuer, Goto, InTransit
  <2>2. StageReady'
    BY <1>1, <1>2, <2>1 DEF InTransit, StageReady, StageFull, Good, Covers, Pair, None
  <2> QED
    BY <2>1, <2>2 DEF Held
<1> QED
  BY <1>3, <1>4

\* What was installed is active when the staging directory is removed.
LEMMA HeldTidies ==
    ASSUME Inv, Held, pc = "clean", PartOfStage \/ stage' = NoStage,
           UNCHANGED <<name, active, issued, expired>>, pc' \in {"done", "idle", "confirm"}
    PROVE  Held'
<1> USE FieldTypes DEF Inv, Complete, Requesting, Ordered, Applying, Rolling
<1>1. Whole(active) /\ active.cert = stage.pem /\ StageReady
  BY DEF Installed, Held
<1>2. active.mark = "present"
  BY <1>1, NamesAssumption DEF StageReady, Good, Covers, Whole, Locals, TypeOK
<1>3. stage'.pem \in {None, stage.pem} /\ stage'.key \in {None, stage.key}
  BY DEF PartOfStage, NoStage
<1>4. Taken'
  BY <1>1, <1>2, <1>3 DEF Taken, Reusable, SamePair, StageReady, Good, Covers, Pair, Whole
<1> QED
  BY <1>4 DEF Held

\* Steps that ask for no certificate and give no occasion for one.
Quiet == UNCHANGED <<issued, expired, budget>>

\* Every such step keeps what the run holds.
LEMMA HeldQuiet == ASSUME Inv, Held, Next, Quiet PROVE Held'
<1>1. CASE pc \in Requesting
  BY <1>1 DEF Held
<1>2. CASE pc \in Ordered
  <2>1. StagePem \/ StageIssuer \/ Again \/ Abort \/ Reboot
    BY <1>2 DEF Next, Script, Trouble, Ordered, Probe, Inspect, CopyCert, CopyKey, CopyName,
       StagedProbe, Request, GenKey, GenCsr, WriteName, CheckCsr, Order, OrderRefused,
       Chain, Prepare, BackUp, Install, NextFile, Expose, Exposed, Restart, Verify,
       CleanUp, Cleaned, Restore, Reexpose, Confirm, ApplyFails, RestoreFails, CleanFails,
       Unanswered, ServicesDown, Expire, Goto, Quiet, Inv, TypeOK, Applying
  <2>2. ~Again
    BY <1>2 DEF Again, Start, Ordered
  <2>3. ~Abort /\ ~Reboot
    BY <1>2 DEF Abort, Reboot, Charged, Quiet, Inv, TypeOK
  <2> QED
    BY <2>1, <2>2, <2>3, HeldArrives
<1>3. CASE pc \notin Requesting \cup Ordered
  <2>1. CASE Again
    <3>1. PICK n \in Names : Start(n)
      BY <2>1 DEF Again
    <3>2. n = name
      BY <3>1 DEF Start, Quiet, Inv, TypeOK
    <3> QED
      BY <1>3, <3>1, <3>2, HeldWaits
  <2>2. CASE CleanUp \/ CleanFails \/ Unanswered \/ Reboot
    <3>1. CASE Exposed("reexpose", "confirm") \/ (Reboot /\ pc # "clean")
      BY <1>3, <3>1, HeldWaits
    <3>2. CASE ~Exposed("reexpose", "confirm") /\ ~(Reboot /\ pc # "clean")
      <4>1. /\ pc = "clean" /\ pc' \in {"done", "idle", "confirm"}
            /\ UNCHANGED <<name, active, issued, expired>>
            /\ PartOfStage \/ stage' = NoStage
        BY <2>2, <3>2 DEF CleanUp, Cleaned, CleanFails, Unanswered, Reboot, Goto, world
      <4> QED
        BY <4>1, HeldTidies
    <3> QED
      BY <3>1, <3>2
  <2>3. ~(Request \/ GenKey \/ GenCsr \/ WriteName \/ CheckCsr \/ Order \/ OrderRefused
            \/ StagePem \/ StageIssuer)
    BY <1>3 DEF Request, GenKey, GenCsr, WriteName, CheckCsr, Order, OrderRefused,
       StagePem, StageIssuer, Goto, Requesting, Ordered
  <2>4. ~Expire
    BY DEF Expire, Quiet, Inv, TypeOK
  <2>5. CASE Script
    BY <1>3, <2>2, <2>3, <2>5, HeldWaits, HeldCopies DEF Script
  <2>6. CASE Trouble
    BY <1>3, <2>2, <2>4, <2>6, HeldWaits DEF Trouble
  <2> QED
    BY <2>1, <2>5, <2>6 DEF Next
<1> QED
  BY <1>1, <1>2, <1>3

\* An order is placed with an occasion to spare, or its result is held.
LEMMA OrderOrders == ASSUME Inv, OrderInv, Order PROVE OrderInv'
<1> USE DEF Spent
<1>0. /\ issued \in Seq([key : 1..keys, name : Hosts]) /\ Len(issued) \in Nat
      /\ expired \in Nat /\ budget \in Nat /\ stage \in Stages
  BY BoundsAssumption DEF Inv, TypeOK
<1>1. /\ pc = "order" /\ pc' = "stagePem" /\ UNCHANGED <<name, stage, expired>>
      /\ Len(issued') = Len(issued) + 1 /\ got' = Len(issued')
      /\ issued'[got'] = stage.csr
      /\ budget' = IF stage.csr.key = stage.key THEN budget ELSE budget + 1
  BY <1>0 DEF Order, Goto, files
<1>2. Spent < budget
  BY <1>0, <1>1 DEF OrderInv, Held, Requesting
<1>3. expired' <= Len(issued') /\ Spent' <= budget'
  BY <1>0, <1>1, <1>2 DEF OrderInv
<1>4. ASSUME Spent' = budget' PROVE Held'
  <2>1. stage.csr.key = stage.key
    BY <1>0, <1>1, <1>2, <1>4
  <2>2. stage.csr.name = name /\ stage.csr.key # None
    BY <1>1, NamesAssumption DEF Inv, TypeOK, Locals
  <2>3. Good(got, name)' /\ Pair(got, stage.key)' /\ stage'.key # None
    BY <1>0, <1>1, <2>1, <2>2 DEF Good, Covers, Pair, OrderInv, None
  <2> QED
    BY <1>1, <2>3 DEF Held, InTransit, Requesting, Ordered, Complete, Applying, Rolling
<1> QED
  BY <1>3, <1>4 DEF OrderInv

\* Every step: an order uses an occasion up, the others give one or hold on.
LEMMA OrderStep == Inv /\ OrderInv /\ [Next]_vars => OrderInv'
<1> SUFFICES ASSUME Inv, OrderInv, [Next]_vars PROVE OrderInv'
  OBVIOUS
<1> USE DEF Spent
<1>0. Len(issued) \in Nat /\ expired \in Nat /\ budget \in Nat
  BY BoundsAssumption DEF Inv, TypeOK
<1>1. CASE Order
  BY <1>1, OrderOrders
<1>2. CASE Next /\ ~Order
  <2>1. /\ issued' = issued /\ expired' <= Len(issued)
        /\ budget' \in {budget, budget + 1}
        /\ budget' = budget => expired' = expired
    <3>1. CASE Again
      BY <1>0, <3>1 DEF Again, Start, world, OrderInv
    <3>2. CASE Script
      BY <1>0, <1>2, <3>2 DEF OrderInv, Script, Probe, Inspect, CopyCert, CopyKey, CopyName,
         StagedProbe, Request, GenKey, GenCsr, WriteName, CheckCsr, OrderRefused, StagePem,
         StageIssuer, Chain, Prepare, BackUp, Install, Expose, Exposed, Restart, Verify,
         CleanUp, Cleaned, Restore, Reexpose, Confirm, world, count, cuts
    <3>3. CASE Trouble
      BY <1>0, <3>3 DEF OrderInv, Trouble, Abort, ApplyFails, RestoreFails, CleanFails,
         Unanswered, Cleaned, Exposed, Reboot, Charged, ServicesDown, Expire, world
    <3> QED
      BY <1>2, <3>1, <3>2, <3>3 DEF Next
  <2>2. CASE budget' = budget
    <3>1. Spent = budget => Held'
      BY <1>2, <2>1, <2>2, HeldQuiet DEF OrderInv, Quiet
    <3> QED
      BY <2>1, <2>2, <3>1 DEF OrderInv
  <2>3. CASE budget' = budget + 1
    BY <1>0, <2>1, <2>3 DEF OrderInv
  <2> QED
    BY <2>1, <2>2, <2>3
<1>3. CASE UNCHANGED vars
  BY <1>3 DEF OrderInv, Held, InTransit, Taken, Reusable, SamePair, StageReady, StageFull,
     Good, Covers, Pair, vars, run, files, world, count, cuts
<1> QED
  BY <1>1, <1>2, <1>3

\* The first run has an occasion to obtain a certificate.
LEMMA OrderInit == Init => OrderInv
<1> SUFFICES ASSUME Init PROVE OrderInv
  OBVIOUS
<1>1. Len(issued) = 1 /\ expired = 1 /\ budget = 1
  BY DEF Init
<1> QED
  BY <1>1 DEF OrderInv, Spent

\* Reruns do not ask the certificate authority again, for any names and bounds
\* (ensureDirectCertificate, lines 413-463).
THEOREM OrdersAreBounded == Spec => []OrdersBounded
<1>1. Spec => [](Inv /\ OrderInv)
  BY InitInv, StepInv, OrderInit, OrderStep, PTL DEF Spec
<1>2. OrderInv => OrdersBounded
  BY DEF OrderInv, Spent, OrdersBounded
<1> QED
  BY <1>1, <1>2, PTL
=============================================================================
