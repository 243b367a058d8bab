# A verification project for the Coriolis installer

`coriolis-stackit` deploys the vendor's Coriolis appliance (an OVA) into a
STACKIT project: it turns the OVA into a reusable image, creates network,
security group, server and public address, changes the appliance's password,
gives it a certificate and puts a DNS name or a load balancer before it.  The
installer keeps no local state.  Everything it knows after a crash, an expired
deadline or a second call it finds by listing what is in the project, and every
phase is meant to be repeatable.  That is what is hard about it, and what the
modules here are about.

All paths below are relative to the repository; line numbers are those of the
commit that `src/` holds.

## 1. Inventory

| Component | Code | State it keeps | Operations | Works with |
|---|---|---|---|---|
| Image import and normalization | `src/installer/stackit.go` 247-323, 452-477; `normalization.go` | images, two volumes, helper VM, scripts on it, all in the project | `ensureImage`, `normalizeAndUploadImage`, `exportNormalizedVolume`, the clean-ups | STACKIT IaaS, the helper's Run Command agent, the transfer |
| Helper access and VMDK transfer | `helper_transfer.go` | key pairs, one group, addresses; `source.vmdk.tmp` and `source.vmdk` on the scratch volume | `prepareHelperTransfer`, `uploadOVAToHelper`, `cleanupStaleHelperAccess` | SSH to the helper |
| Appliance bootstrap | `bootstrap.go` | password file, marker, Kolla's `passwords.yml`, openrc file, Keystone | `bootstrapAppliance`, the script it builds | Run Command |
| Progress reporting | `progress.go` | the slice of activities, one heartbeat goroutine each, the time of the last line | `progressAction`, `deploymentPhase`, `heartbeat`, `finish` | all of the installer |
| Run Command service | `service_enablement.go` | the state of the project's service | `ensureRunCommandService`, `requireRunCommandService` | the service, other installers, administrators |
| Run Command client | `stackit.go` 58-186 | what of a command's output was printed | `runShellScript`, `waitRunCommand`, `commandOutputDelta` | bootstrap, normalization, certificate |
| Deployment phases | `command.go` 230-450 | the deadline of a phase | `RunWithExtensions` | all components, in order |
| Image lookup and sharing | `stackit.go` 188-245, 325-395 | images of the deployment and the owner project, their shares | `resolveImage`, `findImage`, `ensureImageShare`, `waitImageVisible` | image import |
| Network, group, server, address | `stackit.go` 538-835 | resources found by label or name | `ensureNetwork`, `ensureSecurityGroup`, `ensureServer`, `ensurePublicIP` | IaaS API |
| DNS | `dns.go` | the record of the appliance | `ensureDNS` | DNS API |
| ACME | `acme.go` | account and certificate files, TXT records | `ensureCertificate`, `Present`, `CleanUp` | DNS, the load balancer |
| Certificate on the appliance | `certificate_direct.go` | staged key, CSR, chain, backup and installed files | `ensureDirectCertificate` and four scripts | Run Command |
| Load balancer | `alb.go` | the load balancer and its certificate | `ensureALB`, `waitALB` | ALB and certificate API |
| Placement | `stackit.go` 398-536 | none | `chooseZone`, `validateMachineType` and the like | IaaS API |
| OVA inspection | `ova.go` | none | `inspectOVA` | a local file |
| Configuration | `config.go`, `command.go` | none after start | defaults, YAML, flags, validation | |
| Extensions, entry point | `extensions.go`, `src/cmd/coriolis-stackit/main.go` | none | interfaces | |

What is hard, and the property each part needs:

* **Import.** A run is cut off between any two calls; the next one finds half
  of the resources, in any state.  Two runs overlap.  The scripts on the helper
  go on without the installer.  Needed: work that an image is still made from is
  never deleted; reruns reuse what is there instead of creating a second one;
  nothing temporary is left after a success; what is deployed is a completely
  normalized appliance; and reruns get somewhere.
* **Transfer.** A stream of tens of gigabytes, resumed by size only, over
  connections that drop, on helpers that are replaced.  Needed: what is staged is
  the VMDK; no usable part is sent again; the attempts end.
* **Bootstrap.** Five copies of one password are changed one after the other.
  Needed: after a crash between two of them a rerun can log in, ends with all of
  them equal, and returns the password that was returned before.
* **Progress.** One goroutine per activity prints on the same terminal.
  Needed: `finish` returns, and nothing is printed for an activity that is over.
* **Service.** Every read of the shared service is stale when it is used.
  Needed: a lost race is no error, and nobody waits without end.
* **Certificate on the appliance.** Installation with backup and rollback, cut
  off anywhere.  Needed: a failure brings the old files back, a success is served,
  reruns finish what was staged and order nothing twice.
* **Run Command client.** A command's output is a window that rolls; two
  successive windows are compared and only what is new is printed.  Needed: the
  user reads what was written, once, across failed polls; what the callers parse
  is the end of the output of a command that has ended well.
* **Deployment.** A run is cut off between any two calls, the answer of a create
  call is lost, and the next run begins again at the first phase and finds by
  name, label or relation what is there, finished or not.  Other installers share
  the project.  Needed: reruns make nothing twice and refuse nothing that an
  earlier run left; a server is reachable only after its bootstrap; no address is
  taken from a server; what a success reports fits together; and reruns arrive.

## 2. The modules

| Module | What it is |
|---|---|
| `Normalization` | the import: `ensureImage`, `normalizeAndUploadImage`, access and clean-up |
| `ImageImport` | the abstract promise of the import to its caller |
| `NormalizationProofs` | proofs: the invariant, and that `Normalization` implements `ImageImport` |
| `HelperTransfer`, `HelperTransferProofs` | `uploadOVAToHelper` and its proofs |
| `Bootstrap`, `BootstrapProofs` | `bootstrapAppliance` and its script, and proofs |
| `Progress`, `ProgressProofs` | activities and heartbeats, and proofs |
| `ServiceEnablement`, `ServiceEnablementProofs` | the service and the installers that race for it, and proofs |
| `DirectCertificate`, `DirectCertificateProofs` | `ensureDirectCertificate` and its five scripts, and proofs |
| `RunCommand`, `RunCommandProofs` | the poll of a command and `commandOutputDelta`, and proofs |
| `Phases` | the order of the phases, what a run knows, and how a run is cut off |
| `Resources` | phases: network, security group, server, bootstrap, public address |
| `ImageSelection` | phase: which image, whose, imported and shared how |
| `Exposure` | phases: zone and record, challenge and certificate, load balancer |
| `Deployment`, `DeploymentProofs` | the phases over one cloud, any number of installers; proofs |
| `MCNormalization`, `MCBootstrap`, `MCProgress`, `MCServiceEnablement`, `MCDirectCertificate`, `MCDeployment` | constants, fault models and scenarios for TLC |

An operator that is commented "Mutant ..." or "As if ..." is a deliberately wrong
variant of the definition after it, no part of any specification.  Each property is accompanied
by one: with the variant in place of the definition, TLC finds the property
violated, so the property does depend on that line of the code.

### Normalization

One program counter per installer; each of its values is the call of the code
that is made next.  The project is what the API shows: `imgStatus`, `volState`,
`srvStatus` with the volumes a helper holds, `addr`, `keys` and `group`; `disk`
is what a source volume holds (blank, partly overwritten, imported, agent
installed, normalized).  A run's locals (`img`, `src`, `scr`, `helper`, `key`)
vanish when it ends; the project does not.  Several calls that are not separated
by another actor's interesting step are one action (the wait for a server and
the wait for its agent); a wait that polls is one action that becomes enabled
when the poll would succeed, and another for the poll that must fail.

| Actions | Code |
|---|---|
| `Start` ... `WaitImageFails` | `ensureImage`, `stackit.go` 247-323 |
| `ReuseSource` ... `VolumeWaitFails` | `normalization.go`, the two volumes |
| `LookupHelper` ... `Purged` | the found helper: adopted, or removed |
| `SweepAddr` ... `VolumesBroken` | `cleanupStaleHelperAccess`, and the wait for the volumes |
| `CreateKey` ... `Upload` | a new helper and its access |
| `StartImport` ... `Published` | the three scripts, the image |
| `DropHelper` ... `DropGroup` | `cleanupNormalizationResources`, every failure a warning |
| `Abort`, `Deadline` | a run that is cut off, a wait that is hopeless |
| `Volume*`, `Server*`, `Helper*`, `Script*`, `Export*`, `Image*` | STACKIT and the scripts on the helper |

`ImageImport` has three variables for each image, volume and installer: an
image appears, becomes available or goes; volumes are erased only when an image
has been available; an answer is an image that has been available.
`KeepsPromise` is the refinement.

Modelled but external: the STACKIT state machines (a volume attached to a server
cannot be deleted, a security group in use cannot be deleted, creation of a
server fails with a missing volume, key or group) and the helper's agent, which runs
one command at a time: the probe of a rerun does not pass while a script of an earlier
run is still at work.  Two steps that list and then delete, the sweep and the removal
of found helpers, fail when another run has deleted in between (`PurgeFails`,
`SweepFails`).

### HelperTransfer

The VMDK is the sequence 1..Chunks; the partial file is a sequence, so a
resumption at a wrong place shows as a wrong content.  One attempt is `Dial`,
`Status` (sizes of both files), `Reset`, `Open` (`cat >` or `cat >>`), `Send`
per chunk, `Sent`, `Verify` (compare the size, rename).  `Drop` breaks the
connection; `Rerun` replaces the helper and keeps what had reached the scratch
volume.  A remote `cat` whose session is gone may go on writing what is in its
pipe: `LateWrite`, up to `Window` chunks.  The history variable `outlived` says
that this has happened; the safety properties are stated until then.

### Bootstrap

The script is a step per change: choose and write the password file, compare
(`runtime_current`), host name, log in with either credential, Keystone,
`passwords.yml`, openrc, `expose_coriolis.py`, verify, marker.  It is a command in
the agent's queue; the agent runs one at a time, also those whose creation the
installer never heard of.  `Crash` and `ScriptFails` cut it off anywhere.  The
installer makes three attempts.  External: the agent's order, and that
`expose_coriolis.py` sets Keystone and the openrc file from `passwords.yml`.  Histories: `changed` says
that two runs had different settings, `lost` that a restart left the password
file empty; the properties that such an event rightly breaks are stated without
it.

### Progress

`List`, `Start`, `Stop`, `Finish`, `Unlist` are the lock regions and the channel
operations of `startProgressActivity` and `finish`; `Tick`, `CheckForeground`,
`CheckAge`, `Wait`, `Leave` those of `heartbeat`.  What happens between two lock
regions is another goroutine's.

### ServiceEnablement

Each read and each request is a step.  `EnableUnanswered` is a request that was
carried out and whose answer was lost.  `Deadline` is the phase's.

### DirectCertificate

Keys and certificates are numbers in the order of their creation; `issued` says
for which key and name a certificate is.  `stage` is the staging directory,
`active` the files that are configured (certificate, key, the rest, the mark of a
custom certificate, the metal hub's five files as one, the host name), `backup` the
copy that the apply script makes of them, of all but the metal hub's (`Saved`, `Files`), and
`served` what each of the two services presents, the web proxy on port 443 and the API
on port 5000, which the installation checks both and the probe does not.  `Probe` ... `StagedProbe` are the two
probes and the copy of an active pair into the staging directory, `Request` ...
`StageIssuer` the request, the order and the staging, `Chain` and `Prepare` the
checks before anything is changed, `BackUp` ... `CleanUp` the installation, one
file at a time, `Restore` and `Reexpose` its rollback and `Confirm` the probe
after an ambiguous outcome.  A script can fail or be cut off by a restart at each
step (`Abort`, `ApplyFails`, `RestoreFails`, `CleanFails`, `Reboot`), the services can go
down (`ServicesDown`), and certificates come up for renewal in the order of their
issue (`Expire`).  `MetalHub` says whether the metal export provider is enabled, for
which the script installs five more files.  A script that goes on after its installer was cut off ends before
the next run's first command, because the agent runs one command at a time: it is
a script whose outcome is lost.  External: when the services read their files
(`expose_coriolis.py` may or may not make them do so, a restart does), and the
authority, which refuses orders beyond its rate limit.  The history `budget` counts
the orders that the code may make, and `torn` says that an installation or a
rollback was cut off and none has been completed since, and `undone` that an
installation was rolled back after it had come to the metal hub's files.

### RunCommand

`output` is all that the command has written, and `Window` the last `Limit`
characters of it, which is what a poll returns.  `Delta` is
`commandOutputDelta`: the prefix test, the search for the probe from the end on
(a recursive function, with Go's `LastIndex` on the shortened string) and the
short overlaps.  `Poll`, `PollTransient`, `PollFails` and `Pause` are the loop of
`waitRunCommand`; `Write` and `Change` are the command.  The history `unclear`
says that some poll could not tell what is new, whatever the algorithm:
nothing of the window before is left, the repetition is ambiguous, or the search
skips the right place (`Clear`).

### Deployment

The state of the cloud is spread over `Resources` (networks, groups with their
rules, servers, addresses), `ImageSelection` (images of the deployment's project
and of `image.owner_project_id`, with owner, label, shares) and `Exposure` (zone,
records, challenge, certificates, load balancers).  `run[i]` is what a run has
learned so far, with `at` the call it makes next; it is lost when the run
ends, and that is the point of the module.  A listing and the write that follows
from it are two steps; another run, or STACKIT, may come between.

| Actions | Code |
|---|---|
| `Start`, `Again`, `Interrupt`, `After` | `command.go` 230-450: the order, and a run that ends anywhere |
| `FindNetwork` ... `GroupReady` | `ensureNetwork`, `ensureSecurityGroup`: a rule is a call of its own |
| `FindServer` ... `AttachGroup`, `BootstrapServer` | `ensureServer` by name or by `server.id` |
| `ChooseAddress` ... `MakeAddress` | `ensurePublicIP` |
| `FindImage` ... `WaitVisible`, `UploadFails`, `Deadline` | `resolveImage`, `findImage`, `ensureImage`, `ensureImageShare`, `waitImageVisible` |
| `FindZone` ... `WriteRecord` | `dns.go` |
| `FindCertificate` ... `StoreCertificate`, `Invalid` | `acme.go` with `Present` and `CleanUp` |
| `ListBalancers` ... `WaitBalancer` | `alb.go`: the version of the listing goes into the update |
| `ServerStarts` ... `CertificateAges`, `RemoveServer` | STACKIT, time, an operator (external) |

The parts that have a module of their own are one step here: an import is
`Import` (the image exists), `Upload` (its data are sent) and STACKIT's
`ImageReady`; when its run ends in between it is an orphan.  `BootstrapServer`
makes a server `safe`, and `Secure` stands for `DirectCertificate`.  Service and
placement come before all resources and change none, so they are no steps.

An error that the code reports is "failed" when the next run may not meet
it and "refused" when its operator must act; a refused run is not repeated.
A *scenario* is a configuration for each installer with a cloud to start from:
everything an operator can give (a network, server, image or address, the owner
project, shares) and what can be there already.  `credit` bounds faults and
events: interruptions, failed uploads, refused challenges, broken servers,
zones and balancers, certificates that come up for renewal, removed servers,
and repeated successes.  An unfinished image ages for nothing, also while its data are
sent or processed (`ImageAges`), and a run that finds it then deletes it; the run it was
taken from fails at the next call that names it (`ImageThere`, `Deadline`).  `removed` is a history of sites whose server was removed.

## 3. What the runs check

Runs that must pass:

| Run | Properties | Bounds and why they are enough |
|---|---|---|
| `one` | `Inv`, `OneLiveImage`, `OneWorkVolume`, `AccessDoesNotPile`, `RerunLeavesNothing`, `RerunIsComplete`, `EventuallyImported` | one installer, three faults of any kind at any point, four ids of each resource and two keys: faulty runs, faulty reruns and a good one get their own resources, and a quota of keys that is used up is reached too |
| `two` | `KeptUntilPublished`, `KeepsPromise` | two installers from start to end and again, no injected fault: deleting each other's helper is the fault; two ids of each |
| `upload` | `UploadInv`, `StagedIsExact`, `NothingResent`, `UploadEnds` | four chunks, so that a resumption has a beginning, a middle and an end; three attempts, two runs, a late writer of two chunks |
| `passwords` | `TypeOK`, `LoginSteady`, `ReportedWorks`, `CompletedWorks`, `EventuallyReported` | four runs with two configured passwords or a generated one and two host names, three faults or changes of the setting |
| `heartbeats` | `Inv`, `NoWaitAfterDone`, `FinishReturns` | three activities: an outer one, an inner one and a successor |
| `certificate` | `Inv`, `FailureRestores`, `OrdersBounded`, `SuccessIsServed`, `ReloadCostsNoOrder`, `EventuallyInstalled` | two names and two changes, so that the name may come back; two faults, one renewal; seven orders, one more than can fit; the metal hub enabled (disabled, its files never change) |
| `service` | `RaceInv`, `NobodyRefused`, `EveryoneServed`, `EveryoneAnswered` | two installers that may enable the service, one that may not, any initial state, two faults |
| `output` | `Inv`, `PrintedIsWritten`, `ReturnsFinal` | two letters, a window of six, a probe of three (64 in the code), ten characters: the window rolls beyond its length, shares more and less than a probe with the one before, and repeats itself; one failed poll |
| `deployment` | `NothingTwice`, `ExposedIsSafe`, `RefusalHasCause`, `SuccessAgrees`, `AddressKept`, `EventuallyDeployed` | about sixty scenarios (`MCDeployment`): one installer in every mode from an empty project, with given or found resources, and with images of either project in every state, each with four faults or events; two installers for one deployment or for two that share their project, with up to two; three ids of each kind, two rules, so that a group can be half complete |

`RerunLeavesNothing` and `RerunIsComplete` are what is true of the promises that the
runs `leak` and `half` refute.  The history `faults.marks` remembers whether a
fault was one of those that the code cannot make good: "resource" for a volume
that failed, a clean-up call that was answered with a warning, and a run cut off
when its image exists; "script" for a script that failed, and for a run cut off while it
waits for an import or normalize script.  Without such a fault reruns remove every temporary resource and publish only
complete images.

Symmetry over ids is used in runs without a temporal property only.  In `one`, ids are
numbers and the action constraint `InOrder` says that the API hands them out in
order: every behaviour is one of these up to the names of ids, and nothing the
code does compares ids, so the constraint removes no behaviour that a property
could tell apart.

In `deployment` some properties speak of an installer that works alone
(`Single`), because the code does not lock: what goes wrong with two is listed
below.  `ExposedIsSafe` and the scenarios of `SuccessAgrees` in which each
installer has a deployment of its own hold with several.

Runs in which the code does something else than its documents say:

| Run | What it shows |
|---|---|
| `leak` | A run is cut off after `CreateImage`; the next one waits for that image and succeeds. It never reaches the clean-up of `normalizeAndUploadImage`, so helper, volumes, address, key and group stay. `docs/en/architecture.md:60` promises their deletion after a successful import. |
| `half` | `normalizeApplianceScript` fails after it has installed the agent (line 48), for instance in its cloud-init clean-up. Its run ends with an error and keeps helper and volumes; the next one adopts the helper, and the probe, which asks for the enabled unit of the agent, passes: it exports a disk that is not completely normalized (`normalization.go:445`). |
| `lockout` | `admin_password` is configured as p, the run is cut off after Keystone was set, and the next run is configured with q. The openrc file still holds the vendor's password, the script tries that one and q, and Keystone has p: exit 31, now and in every rerun. The comment at `bootstrap.go:71-73` says that either credential is accepted. |

A run that is cut off during the script leads to the same image by a longer way, which
is why `RerunIsComplete` leaves it out too: the agent finishes the script unless its
helper goes, so that takes a rerun whose probe meets an error while the script is still
at work.  That rerun deletes the helper and with it ends the script; when it is cut off
once the next helper has the volumes, the rerun after it finds a disk that passes.

More behaviours are visible in the models, and no run is about them.  Six are
in `DirectCertificate`, excluded from its properties by the name that is given here:

* The probe compares certificates, not keys (`certificate_direct.go:56`).  When a
  rollback is cut off between certificate and key, the services still present the
  certificate, the run reports that it is current, and the next restart of the
  services finds a pair that does not match (`torn` in `SuccessIsServed`).  The same
  probe accepts an appliance that restarted after the key was installed and before
  the bundle and the combined file.
* After such a cut the next run deletes the only backup of the good files and makes
  one of the mixture (line 244); a later rollback restores that (`torn` in
  `FailureRestores`).
* The staging directory can hold a key without its request: after a copy of an
  active pair that was not installed before it came up for renewal, after an
  `rm -rf` that was cut off, or when the name is changed and changed back between
  key and request.  Every rerun then keeps the key and fails; with a request of
  another key for the same name each rerun orders a certificate that cannot be
  installed (`Orphan` in `EventuallyInstalled`, `Order` in `OrdersBounded`).
* A good active pair that only needs a reload is not reused while the staging
  directory is full for another name: `docs/en/architecture.md:126` says that it is
  (`renames = 0` in `ReloadCostsNoOrder`).
* With the metal export provider five more files are installed (lines 318-326) and not
  saved: when a later step fails, the rollback restores the others and leaves these on
  the new certificate and key.  `docs/en/operations.md:117` says "Restore vendor files and
  hostname" (`undone` in `FailureRestores` and `SuccessIsServed`).
* The probe asks the web proxy only (line 55), the installation also the API.  A rerun,
  or the confirmation of an apply script whose answer was lost, reports success when
  the web proxy presents the certificate while the API is down, or, after an
  installation that was rolled back late, may present another one.  `docs/en/architecture.md:122`
  demands both ports and 126 that a service that has not read the file reloads it
  (`pc = "clean"` and `served.api` in `SuccessIsServed`).

Four are in the other components of single phases:

* `Normalization!DropStale` deletes the image that was judged stale even if it has
  become available since (`stackit.go:269`), and whoever may be using it.
* A late `cat` can append chunks twice, and a file of the right size with the wrong
  content is staged (`helper_transfer.go:327`, the reason for the condition `~outlived`).
* A restart right after the password file was truncated loses it, and the rerun
  draws another password (`bootstrap.go:35`, history `lost`).
* An outer heartbeat that has passed its check prints its line inside an inner
  activity (`progress.go:79`); only the order of two lines is at stake.

One is in `RunCommand` (`Clear`, `unclear`):

* The search for the overlap goes on before the place it has tried, and so
  skips places that overlap the one tried before (`stackit.go:130`).  Output with a
  run of equal characters, at least one longer than the probe, at the end of a
  rolled window is printed again as a whole, although the comment at
  `stackit.go:134-136` says that it is not; and when a periodic output moves the window by
  a multiple of its period, the window looks unchanged and the new part is not
  printed.

And these are in `Deployment`:

* A missing label is formatted with `fmt.Sprint` and becomes `<nil>`: a
  configured image without a hash is refused although the warning at
  `stackit.go:204` says that it is used, and so is a server without an image
  label (`stackit.go:679`; `Accepted` and `FindServer`).
* A server that is found in creation is waited for and returned, without a look at
  its image label; `docs/en/operations.md` says that a name with another image label
  fails.
* `ensurePublicIP` lists first and updates later.  Another run may attach the
  address in between, and the update then moves it, against "Requested public IP
  belongs to another NIC: fail safely" of `docs/en/operations.md`.  `AddressKept`
  is therefore about one installer.
* A requested address gets the label `managed-by=coriolis-installer` when it is
  attached, and is later taken for a free address of the installer.
* A load balancer that has the certificate is reused with the target it has
  (`alb.go:75`).  After the server was replaced it leads to the old private address;
  if STACKIT gives that address to another server, a server that was not yet
  bootstrapped is reachable.  `removed` excludes this from `ExposedIsSafe` and
  `SuccessAgrees`.  `docs/en/security.md` says that the reuse is "primarily based
  on name and certificate".
* `ensureCertificate` compares DNS names with `strings.Contains`: a certificate for
  a longer name that contains the configured one would count.  `Sites` are names
  of which none contains another.
* An unfinished import of the deployment's project, while images are kept in another
  project, is neither deleted nor finished: every run waits for it until its deadline
  (`stackit.go:267`).  A configured `image.id` that is stale is deleted.
  `Hindered` excludes the first from `EventuallyDeployed`.
* Only the first hundred record sets are listed (`dns.go:27`): in a larger zone
  the record may be on another page, creating it is refused, and the reruns never
  come to an end (`crowded`, also in `Hindered`).  Of certificates (`acme.go:104`) and load
  balancers (`alb.go:66`) one page of a hundred is listed as well.  The models see all
  of them: with more, a rerun would order a certificate again, against what `NothingTwice`
  says, or fail to create a load balancer that exists.
* A rule of the security group is found by its description and direction
  (`stackit.go:603`): one with the description of a wanted rule and another port or
  range counts for it.  In `Resources` a rule is its description, so `SuccessAgrees`
  says that a rule of each description is there, and not what it lets pass.
* Two installers may each create a network, group, server or image.
  `findImage` takes the last image of the listing, so that a later run may refuse
  the server that was made from the other one.  `NothingTwice` and
  `RefusalHasCause` are about one installer.
* The errors of `CleanUp` are only logged: the challenge's TXT record stays
  until the next order.  Two orders for one name at a time overwrite and delete each
  other's record; one fails, and neither stores a certificate that was validated
  with the other's token (`Validate`).
* A direct certificate or a bootstrap that is enabled while the agent is disabled
  passes `validate()` and fails at its first command.  The scenarios have the agent
  enabled.
* `waitImageVisible` treats every error, and an image in `ERROR`, like one that is not
  there yet: it waits until the deadline.

## 4. Fairness

* `Normalization`: a run goes on (`Run`), because every poll has a timer and
  every API call returns; a failed run is rerun by its operator; STACKIT finishes
  creations and deletions; the scripts go on; an image that is not finished ages.
  `Deadline` is fair only for a wait that cannot end otherwise.  No fairness for
  faults.  `EventuallyImported` therefore says nothing of a project in which
  faults never stop.
* `HelperTransfer`: an attempt goes on.  A hung session is one whose TCP
  connection is ended by keepalive, that is `Drop`, which leads on to `Retry`.
* `Bootstrap`: the operator reruns, the agent runs its queue.
* `Progress`: goroutines that can run do.  `Leave` has strong fairness: a
  heartbeat with a tick and a closed `stop` channel chooses at random, so it
  cannot choose the tick for ever.  Nothing makes the action of an activity end.
* `DirectCertificate`: a failed run is repeated, a script goes on until it ends or
  fails.  No fairness for faults, renewals, changes of the name, or for the
  services reading their files before they are restarted.
* `ServiceEnablement`: polls and requests are answered, a transition of the
  service ends, and a wait for a service that is off meets the deadline.

* `Deployment`: a run goes on, since calls return and waits have timers, and is
  started again after an error that may pass; STACKIT ends what it has begun
  (a server, an import that has its data, a zone, a balancer).  `Deadline` is part of a
  run and fires only for an orphan, whose wait cannot end otherwise.  Nothing is
  fair about faults, events, the repetition of a success, or anything an operator
  does besides starting the next run.
* `RunCommand` needs none: its properties are about safety.  The end of a command is
  the assumption of `Bootstrap` and `Normalization`.

## 5. What is proved

TLAPS proves, for every number of installers, resources, chunks, attempts,
activities, names, characters, deployments, scenarios and faults, except that the
theorems marked with * are about one installer (`SuccessesAgree`: also about one
whose deployment no other installer works on):

| Module | Theorem | Says |
|---|---|---|
| `NormalizationProofs` | `TypeCorrect`, `Invariance`, `WorkIsKept`, `Refinement` | `[]TypeOK`, `[]Inv`, `[]KeptUntilPublished`, `KeepsPromise` |
| | `SoloInvariant`*, `OneImport`*, `OneVolumeEach`*, `AccessIsSingle`*, `RerunsAreComplete`*, `RerunsLeaveNothing`* | `[]Alone`, `[]OneLiveImage`, `[]OneWorkVolume`, `[]AccessDoesNotPile`, `[]RerunIsComplete`, `[]RerunLeavesNothing` |
| `HelperTransferProofs` | `UploadInvariant`, `StagedExactly`, `NothingIsResent` | `[]UploadInv`, `[]StagedIsExact`, `NothingResent` |
| `BootstrapProofs` | `TypeCorrect`, `BootstrapInvariant`, `ScriptsLogIn`, `ReportsStayTrue`, `SuccessAgreesEverywhere` | `[]TypeOK`, `[]Inv`, `[]LoginSteady`, `[]ReportedWorks`, `CompletedWorks` |
| `ProgressProofs` | `ProgressInvariant`, `SliceMatches`, `SilentAfterDone` | `[]Inv`, `[]SliceIsOpen`, `NoWaitAfterDone` |
| `ServiceEnablementProofs` | `RaceInvariant`, `NobodyIsRefused` | `[]RaceInv`, `[]NobodyRefused` |
| `DirectCertificateProofs` | `CertificateInvariant`, `FailuresRestore`, `SuccessServes`, `OrdersAreBounded`, `ReloadsAreFree` | `[]Inv`, `[]FailureRestores`, `SuccessIsServed`, `[]OrdersBounded`, `ReloadCostsNoOrder` |
| `RunCommandProofs` | `CommandInvariant`, `ReturnsTheEnd`, `GrowingIsPrinted`, `TextIsPrinted` | `[]Inv`, `[]ReturnsFinal`, that what is printed is what was written as long as the output fits into the window, `[]PrintedIsWritten` |
| `DeploymentProofs` | `DeploymentInvariant`, `ServersExposedAreSafe`, `AddressesAreKept`, `NothingIsMadeTwice`*, `RefusalsHaveCause`*, `SuccessesAgree`* | `[]Inv`, `[]ExposedIsSafe`, `AddressKept`, `[]NothingTwice`, `RefusalHasCause`, `SuccessAgrees` |

Assumptions are those on the constants, stated in the component's module: ids
of different resources differ from the nil id, source and scratch volumes are
different, bounds are natural numbers, `MetalHub` is a Boolean,
`Enabling` is a subset of `Installers`, the vendor's name is not a configured one, resources of a deployment are numbered from one and
no deployment is named 0 (`IdsAreNumbers`), and in a cloud to start from an attached address belongs to a
server that exists and has been bootstrapped, and what there is is what the API can
show, configured resources included (`ScenarioAssumption`; TLC checks it for the
scenarios of the run).

Four hypotheses are no assumptions of a module; the theorems marked * have one or more
of them.
`OneInstaller` says that the project has one installer: of two that list at the same
time each creates what neither has seen, so these statements are about crashes and
reruns and not about races; the runs with two installers show what holds then.
(`VolumesAlone` is kept by any number of them, but only because listing the volumes and
creating one is a single step of the model.)  `TidyStart` says that the cloud
a scenario starts from has at most one resource of a kind, as a run alone leaves it;
TLC evaluates it for the scenarios of the run (`ScenariosAreTidy`).  `SettledStart` says
that the installer can see at most one image of the hash there, and that servers of
its name are in its network and were made from no image, from that image, or from another
than the configured one (`ScenariosAreSettled`).  `AgreedStart` says that a server made
from an image is in a group with all rules, as `MakeServer` leaves it, that a deployment
nobody else works on has at most one server, and that, where others are at work on
other deployments, all find one image of the hash that is available
(`ScenariosAgree`).  The last is needed: of two installers that do not find the image each
imports one, the next lookup may take either, and a server that is still
being created from the first one is reused without a look at its image
(`stackit.go:672`); with one fault TLC finds that counterexample.
`NothingTwice` and `RefusalHasCause` themselves speak of the times at which one installer
is at work.

* **Normalization.** `KeptUntilPublished` is not inductive: that a volume is
  deleted only when an image has been published rests on the program counter (a
  run at a clean-up point holds an image in `published`), which rests on what
  the image's status was when the run passed `Published`, on images becoming
  `AVAILABLE` only together with an entry in `published`, and on the locals being
  set at the points that use them, also while another installer deletes the
  image.  `Inv` is the conjunction.  The refinement uses `Inv` for the two steps
  of `ImageImport` with a guard: an erased volume and an answer.
* **Normalization, one installer.** `Alone` has a part per kind of resource, each of
  which relates what there is to where the run is.  `ImagesAlone`: one image is alive,
  and none while the run is before its creation.  `VolumesAlone`: one source and one scratch volume is
  usable.  `AccessAlone`: there is one key and one live address, and from the
  sweep to the creation none, so they do not pile up over the reruns.
  `HelpersAlone`: there is one helper, the run's, and it holds the run's
  source volume.  `ScriptsWhole`: while no script was cut off, the
  disk is as far as the script says, so what is exported is normalized.
  `NothingLeft`: while nothing was left behind by a failed call, each point of the
  clean-up finds what is before it removed.
* **HelperTransfer.** The code compares sizes only.  That equal size means equal
  content follows from `Exact`: the partial file is a prefix, and a session sends
  the chunk after its end.  Prefixes are kept by appending, by writing at the end,
  and by what a replaced helper had not flushed (`AppendPrefix`, `WriteIsAppend`,
  `TruncatedPrefix`).  `NextType` covers late writes, `NextExact` everything until
  one.
* **Bootstrap.** `CompletedWorks` needs what a script has done when it comes to a
  point (`Progressing`), in particular that it found or wrote `passwords.yml`.  The
  other two need, while the setting stays, that there is one new password, the one
  in the file, and that Keystone has it before the openrc file does
  (`OnePassword`): a script that is cut off between the two can log in with the old one
  or with `$password`, and never finds a third.
* **Progress.** `SliceIsOpen` needs that the slice has no duplicates (else
  `Unlist` would leave one) and `BeatsWhileOpen` that `Finish` has seen the
  heartbeat end.
* **ServiceEnablement.** What an installer has read still holds while nothing
  fails: `ReadsHold` relates each program counter to the present state.
* **DirectCertificate.** `FailureRestores` speaks of two moments between which
  the installed files change one at a time.  `InstallsInOrder` says how far an
  installation has come: what is before `at` is new, the rest as in the backup;
  `StagedFits`, that the new files are of one certificate, carries it to the end
  (`Installed`).  `RestoresInOrder` says the same of a rollback, which may begin
  after any of these steps, and brings back the backup, which is whole
  (`WholeUnlessTorn`).  `torn` is set where a cut leaves a mixture, and there only.
  `Follows` says the same of what a rollback does not reach, the metal hub's files, and
  of what the probe does not ask, the API: as long as no installation was rolled back
  late (`~undone`) they belong to the active certificate, and while files are installed
  or restored, until the script comes to them, to the one in the backup.
  `OrdersBounded` compares two counters that no single step relates; the
  proof keeps the books between them (`OrderInv`): when as many certificates were obtained as
  there were occasions, a run holds a good one with its key (`Held`), staged, active
  or on the way from the one to the other, and does not ask for another.
  `ReloadInv` says that beside a good active pair nothing of another certificate
  is staged, and that an installation that was cut off is staged in full.
* **RunCommand.** What was shown last is the window at the last successful poll
  (`Inv`), and a command that has ended writes no more; so what is returned is the
  end of its output.  While nothing has left the window, the window before is a
  prefix of the next one (`GrowingIsPrinted`).  Once it has moved,
  `commandOutputDelta` searches for the place where the old window goes on as the new one.
  `OverlapFound` says where that search ends; it goes down from the end of the
  window, and its argument is that a set of numbers has a least one (`LeastNumber`, from
  `NatLessThanWellFounded` and `WFMin`, which are stated of a set and need no operator
  as a parameter).  The overlap it finds is the right one when it can be told (`Told`), which
  is what `unclear` records.
* **Deployment.** A server becomes reachable many steps after the bootstrap, and
  the run that makes it so remembers only its number.  `HasServer` and
  `HasSafeServer` carry over these steps that the server of a run exists, is of
  the run's site and, past the bootstrap, is safe, also while other runs create
  servers and STACKIT starts or breaks them: a number is not given away while its server
  exists, and servers are removed only while nobody works.  Addresses and balancers
  lead to existing servers, so an address or target of a new server's number is never left
  over, but for the balancers of `removed` sites.  `HasFreeAddress` says that the
  address a run is about to attach is still free when it works alone.
* **Deployment, nothing twice.** `Tidiness` says of an installer that is alone that there
  is at most one of each, and none of a kind where its run is about to make
  one; of addresses also whose they are, of images which one the run is about to drop.
  A step is the installer's, and then the kind it makes was missing when it
  looked and still is, or STACKIT's, which makes nothing, or the first one of another
  installer, which is not alone then.  `NetworksKept` ... `CertificatesKept` say
  this one kind at a time.
* **Deployment, refusals.** A run may refuse a server for an image or a network that
  it looked up long before.  That the lookup is not to blame needs two facts,
  in `Settledness`.  `Pictures`: there is one image that the installer can see, the
  run has it, or imports it because nothing was there, and the servers of its
  name were made from it, so a server that differs differs from what was
  configured.  `Nets`: the server of a run is in its network, which is the only one
  or the configured one.  Both are about what a run remembers, so the proof also
  says which steps change that (`ResourceRecalls`, `ImageRecalls`, ...) and
  that each point is reached from a point of its kind (`StepComings`).
* **Deployment, success.** What a run reports at its end it has looked up or made in up to
  nine phases, each long before.  `Fitness` holds of every run, whoever else is at work:
  its group has the rules it counts, its server has the name and, once it is in the
  group, all rules, it works and is in the network from the points that have looked, and its
  certificate is one for its site.  It is kept because every step only adds (`Grows`):
  rules, certificates, servers, and servers are removed only while nobody works.
  `Agreement` holds of an installer on whose deployment nobody else works: there is
  one server of the site, the address leads to it, the record to the address or to
  the load balancer, which has the certificate of the run, and the server is of
  the run's image.  No step of another installer disturbs this (`OthersApart`): it
  works at another site, and in the mode with a load balancer it never comes to the
  phase that moves addresses.  That the image itself is still there and available is `Settledness`
  for one installer, and `Standing` for several, which share it.  The target of the load
  balancer follows from `BalancersLead` and from there being one server.

Model-checked only: everything temporal under fairness, which is out of the
prover's reach.

## 6. Not modelled, and the plan

Left out, because they hold no state between two calls and no other actor
takes part: `inspectOVA` (it reads one local file), defaults, YAML, flags and
validation of the configuration, `chooseZone` and `validateMachineType` (they
choose a parameter of two create calls), `check-cloud` and the dry run (they
change nothing), the interfaces of `extensions.go` and `main`.  Their
results are constants of the models: a configuration that is accepted, a zone, a
VMDK.  SSH host keys and cloud-init text as data, logging and layout are abstracted.
A deployment without a public address and without a load balancer is the mode
"private".

What would be added next, in this order:

1. A proof of `SuccessAgrees` for several installers that find no image, or an
   unfinished import: what becomes of the image that one of them waits for.
2. Three installers in `Deployment`, two of them for one deployment, when the
   state space allows it.
