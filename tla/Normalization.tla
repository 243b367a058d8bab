--------------------------- MODULE Normalization ---------------------------
(***************************************************************************)
(* How the installer turns a vendor OVA into a reusable STACKIT image:     *)
(* ensureImage (stackit.go), normalizeAndUploadImage and what it calls     *)
(* (normalization.go), and the temporary access it gives itself            *)
(* (helper_transfer.go).                                                   *)
(*                                                                         *)
(* The installer keeps no local state.  A run is cut off at any point by a *)
(* crash, by an API error or by its phase's deadline; the next run finds   *)
(* what is left in the project by listing it.  The scripts it sent to the  *)
(* helper VM go on without it.                                             *)
(***************************************************************************)
EXTENDS Naturals, FiniteSets

CONSTANTS
    Installers,     \* the processes that deploy into the project
    ImageIds, SourceIds, ScratchIds, ServerIds, KeyIds,  \* ids STACKIT hands out
    NoId,           \* Go's nil pointer or empty id
    AbortPoints,    \* the program points at which a run may be cut off
    FaultKinds,     \* which of the faults below may happen
    MaxFaults       \* bound on how many of them happen

ASSUME IdAssumption == NoId \notin ImageIds \cup SourceIds \cup ScratchIds
                                   \cup ServerIds \cup KeyIds
ASSUME VolumeAssumption == SourceIds \cap ScratchIds = {}
ASSUME FaultAssumption == MaxFaults \in Nat

VARIABLES
    imgStatus,  \* image -> status of the STACKIT image
    imgOld,     \* image -> updatedAt is more than 30 minutes ago
    imgDisk,    \* image -> the disk content its QCOW2 was converted from
    published,  \* history: the images that have ever been AVAILABLE
    volState,   \* volume -> life cycle of a normalization volume
    disk,       \* source volume -> what the appliance disk holds
    srvStatus,  \* server -> status of a helper VM
    srvSrc, srvScr,  \* server -> the volumes attached to it
    addr,       \* server -> its temporary public IP
    keys,       \* temporary key pairs that exist
    group,      \* whether the temporary security group exists
    job,        \* server -> the import or normalize script run on it
    exp, expSrv,     \* image -> its export script, and the helper that runs it
    pc, img, src, scr, helper, key, todo,  \* an installer's control and locals
    faults      \* history: how many faults so far, and what they may have left

platform == <<imgStatus, imgOld, imgDisk, published>>
volumes  == <<volState, disk>>
servers  == <<srvStatus, srvSrc, srvScr>>
access   == <<addr, keys, group>>
scripts  == <<job, exp, expSrv>>
locals   == <<img, src, scr, helper, key, todo>>
project  == <<platform, volumes, servers, access, scripts>>
vars     == <<project, pc, locals, faults>>

Volumes == SourceIds \cup ScratchIds

\* What the probe script can tell of a disk: the agent's unit symlink is there.
\* "tornMarked" is a disk that a new import is overwriting, or overwrote in
\* part, while the symlink of an earlier normalization is still readable.
Marked == {"agent", "normalized", "tornMarked"}
Disks  == {"blank", "torn", "imported"} \cup Marked

CleanupPoints == {"dropHelper", "dropSource", "dropScratch", "dropAddr",
                  "dropKey", "dropGroup", "endAddr", "endKeys", "endGroup"}
ScriptPoints  == {"importWait", "normalizeWait"}
ActivePoints  == {"find", "stale", "monitor", "source", "sourceWait", "scratch",
                  "scratchWait", "lookup", "adopt", "probe", "list", "purge", "sweepAddr",
                  "sweepKeys", "sweepGroup", "detached", "key", "group", "server",
                  "boot", "address", "upload", "import", "normalize",
                  "createImage", "export", "exportWait", "dropImage",
                  "publishWait"} \cup ScriptPoints \cup CleanupPoints
Points == ActivePoints \cup {"idle", "done"}

-----------------------------------------------------------------------------
(* What the STACKIT API shows of the project.                              *)

Exists(s)    == srvStatus[s] \notin {"unused", "DELETED"}
Holds(s, v)  == Exists(s) /\ v \in {srvSrc[s], srvScr[s]}
Attached(v)  == \E s \in ServerIds : Holds(s, v)
Available(v) == volState[v] = "ready" /\ ~Attached(v)
\* Mutant of Usable: a volume still being created is not found.
UsableReadyOnly(v) == volState[v] = "ready"
Usable(v)    == volState[v] \in {"creating", "ready"}
AddrAttached(s)  == addr[s] = "live" /\ Exists(s)
AddrDetached(s)  == addr[s] = "live" /\ ~Exists(s)
GroupInUse   == \E s \in ServerIds : Exists(s)

Images(st) == {m \in ImageIds : imgStatus[m] = st}
Listed     == {s \in ServerIds : Exists(s)}

Init ==
    /\ imgStatus = [m \in ImageIds |-> "unused"]
    /\ imgOld = [m \in ImageIds |-> FALSE]
    /\ imgDisk = [m \in ImageIds |-> "blank"]
    /\ published = {}
    /\ volState = [v \in Volumes |-> "unused"]
    /\ disk = [v \in SourceIds |-> "blank"]
    /\ srvStatus = [s \in ServerIds |-> "unused"]
    /\ srvSrc = [s \in ServerIds |-> NoId]
    /\ srvScr = [s \in ServerIds |-> NoId]
    /\ addr = [s \in ServerIds |-> "none"]
    /\ keys = {}
    /\ group = FALSE
    /\ job = [s \in ServerIds |-> "none"]
    /\ exp = [m \in ImageIds |-> "none"]
    /\ expSrv = [m \in ImageIds |-> NoId]
    /\ pc = [i \in Installers |-> "idle"]
    /\ img = [i \in Installers |-> NoId]
    /\ src = [i \in Installers |-> NoId]
    /\ scr = [i \in Installers |-> NoId]
    /\ helper = [i \in Installers |-> NoId]
    /\ key = [i \in Installers |-> NoId]
    /\ todo = [i \in Installers |-> {}]
    /\ faults = [count |-> 0, marks |-> {}]

Goto(i, a, b) == pc[i] = a /\ pc' = [pc EXCEPT ![i] = b]

\* A return from ensureImage drops the locals; with an image it is the answer.
Return(i, to, answer) ==
    /\ pc' = [pc EXCEPT ![i] = to]
    /\ img' = [img EXCEPT ![i] = answer]
    /\ src' = [src EXCEPT ![i] = NoId]
    /\ scr' = [scr EXCEPT ![i] = NoId]
    /\ helper' = [helper EXCEPT ![i] = NoId]
    /\ key' = [key EXCEPT ![i] = NoId]
    /\ todo' = [todo EXCEPT ![i] = {}]

Fail(i) == Return(i, "idle", NoId)

\* Two marks remember for the properties what a fault may have left behind: a
\* "resource" that no later step is sure to look for, or a disk on which a
\* "script" was cut off.
Marks == {"resource", "script"}
FaultHistories == [count : 0..MaxFaults, marks : SUBSET Marks]

\* "abort", "probe", "group", "server", "warning" in the installer's calls,
\* "volume", "boot", "script", "image" in what STACKIT or the helper does.
MarkingFault(kind, marks) ==
    /\ kind \in FaultKinds
    /\ faults.count < MaxFaults
    /\ faults' = [count |-> faults.count + 1, marks |-> faults.marks \cup marks]

Fault(kind) == MarkingFault(kind, {})

-----------------------------------------------------------------------------
(* ensureImage: find an image, or decide to import one.                    *)

\* A (re)run of the installer.
Start(i) ==
    /\ pc[i] \in {"idle", "done"}
    /\ Return(i, "find", NoId)
    /\ UNCHANGED <<project, faults>>

\* findImage returned an AVAILABLE image: it is used as it is.
FindAvailable(i) ==
    /\ pc[i] = "find"
    /\ \E m \in Images("AVAILABLE") : Return(i, "done", m)
    /\ UNCHANGED <<project, faults>>

\* Mutant of FindCreating: an import is never judged stale.
FindCreatingNeverStale(i) ==
    /\ Images("AVAILABLE") = {}
    /\ \E m \in Images("CREATING") :
          /\ Goto(i, "find", "monitor")
          /\ img' = [img EXCEPT ![i] = m]
    /\ UNCHANGED <<project, src, scr, helper, key, todo, faults>>

\* findImage returned an import still CREATING.  Its age is judged here, once.
FindCreating(i) ==
    /\ Images("AVAILABLE") = {}
    /\ \E m \in Images("CREATING") :
          /\ Goto(i, "find", IF imgOld[m] THEN "stale" ELSE "monitor")
          /\ img' = [img EXCEPT ![i] = m]
    /\ UNCHANGED <<project, src, scr, helper, key, todo, faults>>

\* Mutant of FindNothing: imports that are still CREATING are overlooked.
FindNothingAvailable(i) ==
    /\ Images("AVAILABLE") = {}
    /\ Goto(i, "find", "source")
    /\ UNCHANGED <<project, locals, faults>>

FindNothing(i) ==
    /\ Images("AVAILABLE") \cup Images("CREATING") = {}
    /\ Goto(i, "find", "source")
    /\ UNCHANGED <<project, locals, faults>>

\* DeleteImage of the import judged stale, whatever it has become since.
DropStale(i) ==
    /\ Goto(i, "stale", "source")
    /\ imgStatus[img[i]] \notin {"unused", "DELETED"}
    /\ imgStatus' = [imgStatus EXCEPT ![img[i]] = "DELETED"]
    /\ img' = [img EXCEPT ![i] = NoId]
    /\ UNCHANGED <<imgOld, imgDisk, published, volumes, servers, access, scripts,
                   src, scr, helper, key, todo, faults>>

\* Another run deleted it first: DeleteImage fails, and the run with it.
DropStaleFails(i) ==
    /\ pc[i] = "stale"
    /\ imgStatus[img[i]] = "DELETED"
    /\ Fail(i)
    /\ UNCHANGED <<project, faults>>

\* Mutant of Monitored: the found import is returned while it is CREATING.
MonitoredAtOnce(i) ==
    /\ pc[i] = "monitor"
    /\ Return(i, "done", img[i])
    /\ UNCHANGED <<project, faults>>

\* waitImage on a found import: this run neither made nor cleans up anything.
Monitored(i) ==
    /\ pc[i] = "monitor"
    /\ imgStatus[img[i]] = "AVAILABLE"
    /\ Return(i, "done", img[i])
    /\ UNCHANGED <<project, faults>>

WaitImageFails(i) ==
    /\ pc[i] \in {"monitor", "publishWait"}
    /\ imgStatus[img[i]] \in {"ERROR", "DELETED"}
    /\ Fail(i)
    /\ UNCHANGED <<project, faults>>

-----------------------------------------------------------------------------
(* normalizeAndUploadImage: the two volumes.                               *)

\* findNormalizationVolume: any labelled volume that is not broken or going.
Reuse(i, ids, local, a, b) ==
    /\ Goto(i, a, b)
    /\ \E v \in ids : Usable(v) /\ local' = [local EXCEPT ![i] = v]

Create(i, ids, local, a, b) ==
    /\ Goto(i, a, b)
    /\ ~ \E v \in ids : Usable(v)
    /\ \E v \in ids : /\ volState[v] = "unused"
                      /\ volState' = [volState EXCEPT ![v] = "creating"]
                      /\ local' = [local EXCEPT ![i] = v]

ReuseSource(i) ==
    /\ Reuse(i, SourceIds, src, "source", "scratch")
    /\ UNCHANGED <<project, img, scr, helper, key, todo, faults>>

CreateSource(i) ==
    /\ Create(i, SourceIds, src, "source", "sourceWait")
    /\ UNCHANGED <<platform, disk, servers, access, scripts, img, scr, helper, key, todo, faults>>

ReuseScratch(i) ==
    /\ Reuse(i, ScratchIds, scr, "scratch", "lookup")
    /\ UNCHANGED <<project, img, src, helper, key, todo, faults>>

CreateScratch(i) ==
    /\ Create(i, ScratchIds, scr, "scratch", "scratchWait")
    /\ UNCHANGED <<platform, disk, servers, access, scripts, img, src, helper, key, todo, faults>>

\* waitVolume accepts AVAILABLE and ATTACHED.
VolumeWaited(i) ==
    /\ \/ Goto(i, "sourceWait", "scratch") /\ volState[src[i]] = "ready"
       \/ Goto(i, "scratchWait", "lookup") /\ volState[scr[i]] = "ready"
    /\ UNCHANGED <<project, locals, faults>>

VolumeWaitFails(i) ==
    /\ \/ pc[i] = "sourceWait" /\ volState[src[i]] \in {"error", "deleted"}
       \/ pc[i] = "scratchWait" /\ volState[scr[i]] \in {"error", "deleted"}
    /\ Fail(i)
    /\ UNCHANGED <<project, faults>>

-----------------------------------------------------------------------------
(* A helper left by an earlier run: resume its finished work, or remove it.*)

LookupHelper(i) ==
    /\ \E s \in Listed : /\ Goto(i, "lookup", "adopt")
                         /\ helper' = [helper EXCEPT ![i] = s]
    /\ UNCHANGED <<project, img, src, scr, key, todo, faults>>

\* Mutant of LookupNone: the nil helper is waited for.
LookupNoneUnchecked(i) ==
    /\ Goto(i, "lookup", "adopt")
    /\ Listed = {}
    /\ UNCHANGED <<project, locals, faults>>

LookupNone(i) ==
    /\ Goto(i, "lookup", "list")
    /\ Listed = {}
    /\ UNCHANGED <<project, locals, faults>>

\* waitServerInProject and waitServerAgent succeed.
Adopted(i) ==
    /\ Goto(i, "adopt", "probe")
    /\ srvStatus[helper[i]] = "ACTIVE"
    /\ UNCHANGED <<project, locals, faults>>

\* A wait that failed is not an error: the helper is replaced.
NotAdopted(i) ==
    /\ Goto(i, "adopt", "list")
    /\ srvStatus[helper[i]] \in {"ERROR", "DELETED"}
    /\ UNCHANGED <<project, locals, faults>>

\* probeNormalizedApplianceScript: the agent is installed on the source disk.  It
\* does not pass while a script of an earlier run is still at work: the agent runs
\* one command at a time, and the normalize script has the partition mounted.
ProbePasses(i) ==
    /\ srvStatus[helper[i]] = "ACTIVE"
    /\ srvSrc[helper[i]] = src[i]
    /\ job[helper[i]] \notin {"import", "normalize", "agent"}
    /\ disk[src[i]] \in Marked

ProbeReady(i) ==
    /\ Goto(i, "probe", "createImage")
    /\ ProbePasses(i)
    /\ UNCHANGED <<project, locals, faults>>

\* normalizedVolumeReady: an API error while probing reads as "not ready".
ProbeNotReady(i) ==
    /\ Goto(i, "probe", "list")
    /\ Fault("probe") \/ (~ProbePasses(i) /\ UNCHANGED faults)
    /\ UNCHANGED <<project, locals>>

\* removeStaleNormalizationHelpers: list the helpers, delete them one by one.
ListHelpers(i) ==
    /\ Goto(i, "list", "purge")
    /\ todo' = [todo EXCEPT ![i] = Listed]
    /\ UNCHANGED <<project, img, src, scr, helper, key, faults>>

PurgeOne(i) ==
    /\ pc[i] = "purge"
    /\ \E s \in todo[i] :
          /\ Exists(s)
          /\ srvStatus' = [srvStatus EXCEPT ![s] = "DELETING"]
          /\ todo' = [todo EXCEPT ![i] = @ \ {s}]
    /\ UNCHANGED <<platform, volumes, srvSrc, srvScr, access, scripts, pc,
                   img, src, scr, helper, key, faults>>

\* A helper that was listed is gone: DeleteServer fails, and the run with it.
PurgeFails(i) ==
    /\ pc[i] = "purge"
    /\ \E s \in todo[i] : ~Exists(s)
    /\ Fail(i)
    /\ UNCHANGED <<project, faults>>

Purged(i) ==
    /\ Goto(i, "purge", "sweepAddr")
    /\ todo[i] = {}
    /\ UNCHANGED <<project, locals, faults>>

-----------------------------------------------------------------------------
(* cleanupStaleHelperAccess, called before a new helper is created and     *)
(* again as the last step of the final clean-up.                           *)

SweepPoints == {"sweepAddr", "sweepKeys", "sweepGroup"}
EndPoints   == {"endAddr", "endKeys", "endGroup"}

SweepAddr(i) ==
    /\ pc[i] \in {"sweepAddr", "endAddr"}
    /\ \E s \in ServerIds : AddrDetached(s) /\ addr' = [addr EXCEPT ![s] = "deleted"]
    /\ UNCHANGED <<platform, volumes, servers, keys, group, scripts, pc, locals, faults>>

\* Mutant of AddrSwept: addresses that are still attached are skipped.
AddrSweptDetachedOnly(i) ==
    /\ \A s \in ServerIds : ~AddrDetached(s)
    /\ Goto(i, "sweepAddr", "sweepKeys") \/ Goto(i, "endAddr", "endKeys")
    /\ UNCHANGED <<project, locals, faults>>

AddrSwept(i) ==
    /\ \A s \in ServerIds : addr[s] # "live"
    /\ Goto(i, "sweepAddr", "sweepKeys") \/ Goto(i, "endAddr", "endKeys")
    /\ UNCHANGED <<project, locals, faults>>

SweepKey(i) ==
    /\ pc[i] \in {"sweepKeys", "endKeys"}
    /\ \E k \in keys : keys' = keys \ {k}
    /\ UNCHANGED <<platform, volumes, servers, addr, group, scripts, pc, locals, faults>>

KeysSwept(i) ==
    /\ keys = {}
    /\ Goto(i, "sweepKeys", "sweepGroup") \/ Goto(i, "endKeys", "endGroup")
    /\ UNCHANGED <<project, locals, faults>>

\* A group that a server still uses cannot be deleted.
SweepGroup(i) ==
    /\ ~(group /\ GroupInUse)
    /\ group' = FALSE
    /\ \/ Goto(i, "sweepGroup", "detached") /\ UNCHANGED locals
       \/ pc[i] = "endGroup" /\ Return(i, "done", img[i])
    /\ UNCHANGED <<platform, volumes, servers, addr, keys, scripts, faults>>

\* What another run has deleted since the listing cannot be deleted either.
\* Before the import that is an error; at the end it is only a warning.
SweepFails(i) ==
    /\ \/ /\ pc[i] \in {"sweepGroup", "endGroup"} /\ group /\ GroupInUse
          /\ UNCHANGED faults
       \/ /\ pc[i] \in SweepPoints \cup EndPoints /\ Installers # {i}
          /\ UNCHANGED faults
       \/ pc[i] \in EndPoints /\ MarkingFault("warning", {"resource"})
    /\ IF pc[i] \in SweepPoints THEN Fail(i) ELSE Return(i, "done", img[i])
    /\ UNCHANGED project

\* waitVolumeAvailable for both volumes.
VolumesDetached(i) ==
    /\ Goto(i, "detached", "key")
    /\ Available(src[i]) /\ Available(scr[i])
    /\ UNCHANGED <<project, locals, faults>>

VolumesBroken(i) ==
    /\ pc[i] = "detached"
    /\ \E v \in {src[i], scr[i]} : volState[v] \in {"error", "deleted"}
    /\ Fail(i)
    /\ UNCHANGED <<project, faults>>

-----------------------------------------------------------------------------
(* A new helper, with its one-time access.                                 *)

CreateKey(i) ==
    /\ Goto(i, "key", "group")
    /\ \E k \in KeyIds \ (keys \cup {key[j] : j \in Installers}) :
          /\ keys' = keys \cup {k}
          /\ key' = [key EXCEPT ![i] = k]
    /\ UNCHANGED <<platform, volumes, servers, addr, group, scripts,
                   img, src, scr, helper, todo, faults>>

\* ensureSecurityGroupInProject: reuse the group of that name, or create it.
EnsureGroup(i) ==
    /\ Goto(i, "group", "server")
    /\ group' = TRUE
    /\ UNCHANGED <<platform, volumes, servers, addr, keys, scripts, locals, faults>>

EnsureGroupFails(i) ==
    /\ pc[i] = "group"
    /\ keys' = keys \ {key[i]}
    /\ Fail(i)
    /\ Fault("group")
    /\ UNCHANGED <<platform, volumes, servers, addr, group, scripts>>

CreateHelper(i) ==
    /\ Goto(i, "server", "boot")
    /\ Available(src[i]) /\ Available(scr[i]) /\ key[i] \in keys /\ group
    /\ \E s \in ServerIds :
          /\ srvStatus[s] = "unused"
          /\ srvStatus' = [srvStatus EXCEPT ![s] = "CREATING"]
          /\ srvSrc' = [srvSrc EXCEPT ![s] = src[i]]
          /\ srvScr' = [srvScr EXCEPT ![s] = scr[i]]
          /\ helper' = [helper EXCEPT ![i] = s]
    /\ UNCHANGED <<platform, volumes, access, scripts, img, src, scr, key, todo, faults>>

\* cleanupHelperSSHAccess without a public IP: the key pair, then the group
\* unless a server uses it.
DropAccess(i) ==
    /\ keys' = keys \ {key[i]}
    /\ group' = (group /\ GroupInUse)
    /\ UNCHANGED addr

\* CreateServer refused: its volumes, key or group went away, the quota of
\* servers is used up, or a fault.
CreateHelperFails(i) ==
    /\ pc[i] = "server"
    /\ \/ Fault("server")
       \/ /\ \/ ~(Available(src[i]) /\ Available(scr[i]) /\ key[i] \in keys /\ group)
             \/ \A s \in ServerIds : srvStatus[s] # "unused"
          /\ UNCHANGED faults
    /\ DropAccess(i)
    /\ Fail(i)
    /\ UNCHANGED <<platform, volumes, servers, scripts>>

\* waitServerInProject and waitServerAgent on the new helper.
Booted(i) ==
    /\ Goto(i, "boot", "address")
    /\ srvStatus[helper[i]] = "ACTIVE"
    /\ UNCHANGED <<project, locals, faults>>

BootFails(i) ==
    /\ pc[i] = "boot"
    /\ srvStatus[helper[i]] \in {"ERROR", "DELETED"}
    /\ DropAccess(i)
    /\ Fail(i)
    /\ UNCHANGED <<platform, volumes, servers, scripts, faults>>

AssignAddress(i) ==
    /\ Goto(i, "address", "upload")
    /\ srvStatus[helper[i]] = "ACTIVE"
    /\ addr' = [addr EXCEPT ![helper[i]] = "live"]
    /\ UNCHANGED <<platform, volumes, servers, keys, group, scripts, locals, faults>>

\* prepareHelperTransfer and uploadOVAToHelper (module HelperTransfer).
Upload(i) ==
    /\ Goto(i, "upload", "import")
    /\ srvStatus[helper[i]] = "ACTIVE"
    /\ UNCHANGED <<project, locals, faults>>

-----------------------------------------------------------------------------
(* The scripts.  CreateCommand starts one; the installer then polls it.    *)

\* importVMDKScript starts overwriting the source disk in place.
StartImport(i) ==
    /\ Goto(i, "import", "importWait")
    /\ srvStatus[helper[i]] = "ACTIVE"
    /\ job' = [job EXCEPT ![helper[i]] = "import"]
    /\ \E d \in IF disk[src[i]] \in Marked THEN {"torn", "tornMarked"} ELSE {"torn"} :
          disk' = [disk EXCEPT ![src[i]] = d]
    /\ UNCHANGED <<platform, volState, servers, access, exp, expSrv, locals, faults>>

ImportWaited(i) ==
    /\ Goto(i, "importWait", "normalize")
    /\ job[helper[i]] = "imported"
    /\ UNCHANGED <<project, locals, faults>>

StartNormalize(i) ==
    /\ Goto(i, "normalize", "normalizeWait")
    /\ srvStatus[helper[i]] = "ACTIVE"
    /\ job' = [job EXCEPT ![helper[i]] = "normalize"]
    /\ UNCHANGED <<platform, volumes, servers, access, exp, expSrv, locals, faults>>

\* Mutant of NormalizeWaited: the script is started and not waited for.
NormalizeNotWaited(i) ==
    /\ Goto(i, "normalizeWait", "createImage")
    /\ UNCHANGED <<project, locals, faults>>

NormalizeWaited(i) ==
    /\ Goto(i, "normalizeWait", "createImage")
    /\ job[helper[i]] = "normalized"
    /\ UNCHANGED <<project, locals, faults>>

\* The helper is gone or the script failed: the run ends, nothing is undone.
ScriptStepFails(i) ==
    /\ \/ pc[i] \in {"address", "upload", "import", "normalize"} \cup ScriptPoints
          /\ srvStatus[helper[i]] # "ACTIVE"
       \/ pc[i] \in ScriptPoints /\ job[helper[i]] = "failed"
    /\ Fail(i)
    /\ UNCHANGED <<project, faults>>

\* exportNormalizedVolume: the image first, then the script that fills it.
CreateImage(i) ==
    /\ Goto(i, "createImage", "export")
    /\ \E m \in ImageIds :
          /\ imgStatus[m] = "unused"
          /\ imgStatus' = [imgStatus EXCEPT ![m] = "CREATING"]
          /\ img' = [img EXCEPT ![i] = m]
    /\ UNCHANGED <<imgOld, imgDisk, published, volumes, servers, access, scripts,
                   src, scr, helper, key, todo, faults>>

\* exportApplianceScript reads the disk from now on: nothing later than what
\* it holds here is sure to be in the QCOW2.
StartExport(i) ==
    /\ Goto(i, "export", "exportWait")
    /\ srvStatus[helper[i]] = "ACTIVE"
    /\ exp' = [exp EXCEPT ![img[i]] = "running"]
    /\ expSrv' = [expSrv EXCEPT ![img[i]] = helper[i]]
    /\ imgDisk' = [imgDisk EXCEPT ![img[i]] = disk[srvSrc[helper[i]]]]
    /\ UNCHANGED <<imgStatus, imgOld, published, volumes, servers, access, job, locals, faults>>

\* Mutant of ExportWaited: the clean-up does not wait for AVAILABLE.
ExportWaitedOnly(i) ==
    /\ Goto(i, "exportWait", "dropHelper")
    /\ exp[img[i]] = "sent"
    /\ UNCHANGED <<project, locals, faults>>

ExportWaited(i) ==
    /\ Goto(i, "exportWait", "publishWait")
    /\ exp[img[i]] = "sent"
    /\ UNCHANGED <<project, locals, faults>>

\* An export that failed, or that CreateCommand could not start.
ExportFails(i) ==
    /\ \/ /\ Goto(i, "exportWait", "dropImage")
          /\ exp[img[i]] # "sent"
          /\ srvStatus[helper[i]] # "ACTIVE" \/ exp[img[i]] = "failed"
       \/ /\ Goto(i, "export", "dropImage")
          /\ srvStatus[helper[i]] # "ACTIVE"
    /\ UNCHANGED <<project, locals, faults>>

\* Best effort; the run fails either way.
DropImage(i) ==
    /\ pc[i] = "dropImage"
    /\ imgStatus' = [imgStatus EXCEPT ![img[i]] = "DELETED"]
    /\ Fail(i)
    /\ UNCHANGED <<imgOld, imgDisk, published, volumes, servers, access, scripts, faults>>

Published(i) ==
    /\ Goto(i, "publishWait", "dropHelper")
    /\ imgStatus[img[i]] = "AVAILABLE"
    /\ UNCHANGED <<project, locals, faults>>

-----------------------------------------------------------------------------
(* cleanupNormalizationResources: every failure is a warning, and the next *)
(* step is tried.  "access" is nil when the helper was adopted.            *)

DropHelper(i) ==
    /\ Goto(i, "dropHelper", "dropSource")
    /\ \/ /\ Exists(helper[i])
          /\ srvStatus' = [srvStatus EXCEPT ![helper[i]] = "DELETING"]
          /\ UNCHANGED faults
       \/ ~Exists(helper[i]) /\ UNCHANGED <<srvStatus, faults>>
       \/ MarkingFault("warning", {"resource"}) /\ UNCHANGED srvStatus
    /\ UNCHANGED <<platform, volumes, srvSrc, srvScr, access, scripts, locals>>

\* Mutant of DropVolume: a volume that is still attached is given up.
DropVolumeOnce(i, v, a, b) ==
    /\ Goto(i, a, b)
    /\ volState' = IF Available(v) THEN [volState EXCEPT ![v] = "deleted"] ELSE volState
    /\ UNCHANGED <<platform, disk, servers, access, scripts, locals, faults>>

\* waitVolumeDetachedAndDelete; a volume that is gone ends the wait as well.
DropVolume(i, v, a, b) ==
    /\ Goto(i, a, b)
    /\ \/ Available(v) /\ volState' = [volState EXCEPT ![v] = "deleted"] /\ UNCHANGED faults
       \/ volState[v] = "deleted" /\ UNCHANGED <<volState, faults>>
       \/ MarkingFault("warning", {"resource"}) /\ UNCHANGED volState
    /\ UNCHANGED <<platform, disk, servers, access, scripts, locals>>

DropSource(i)  == DropVolume(i, src[i], "dropSource", "dropScratch")
DropScratch(i) == DropVolume(i, scr[i], "dropScratch",
                             IF key[i] = NoId THEN "endAddr" ELSE "dropAddr")

DropAddr(i) ==
    /\ Goto(i, "dropAddr", "dropKey")
    /\ \/ addr' = [addr EXCEPT ![helper[i]] = "deleted"] /\ UNCHANGED faults
       \/ MarkingFault("warning", {"resource"}) /\ UNCHANGED addr
    /\ UNCHANGED <<platform, volumes, servers, keys, group, scripts, locals>>

DropKey(i) ==
    /\ Goto(i, "dropKey", "dropGroup")
    /\ \/ keys' = keys \ {key[i]} /\ UNCHANGED faults
       \/ MarkingFault("warning", {"resource"}) /\ UNCHANGED keys
    /\ UNCHANGED <<platform, volumes, servers, addr, group, scripts, locals>>

DropGroup(i) ==
    /\ Goto(i, "dropGroup", "endAddr")
    /\ group' = (group /\ GroupInUse)
    /\ UNCHANGED <<platform, volumes, servers, addr, keys, scripts, locals, faults>>

\* The other creating calls at the project's quota: the error ends the run.
OutOfQuota(i) ==
    /\ \/ pc[i] = "source"  /\ \A v \in SourceIds : ~Usable(v) /\ volState[v] # "unused"
       \/ pc[i] = "scratch" /\ \A v \in ScratchIds : ~Usable(v) /\ volState[v] # "unused"
       \/ pc[i] = "key" /\ KeyIds \subseteq keys \cup {key[j] : j \in Installers}
       \/ pc[i] = "createImage" /\ Images("unused") = {}
    /\ Fail(i)
    /\ UNCHANGED <<project, faults>>

-----------------------------------------------------------------------------
(* A run that is cut off.                                                  *)

\* What a run leaves that is cut off at p: once its image exists nobody else
\* removes its helper, and a script that it waits for may be cut off with it.
AbortMarks(p) ==
    IF p \in ScriptPoints THEN {"script"}
    ELSE IF p \in CleanupPoints \cup {"export", "exportWait", "dropImage", "publishWait",
                                      "monitor", "stale"}
         THEN {"resource"} ELSE {}

\* The process dies, an API call without an error path of its own fails, or
\* the phase's deadline expires: the locals are gone, the project stays.
Abort(i) ==
    /\ pc[i] \in AbortPoints \cap ActivePoints
    /\ Fail(i)
    /\ MarkingFault("abort", AbortMarks(pc[i]))
    /\ UNCHANGED project

Waiting(v) == \E s \in ServerIds : Holds(s, v) /\ srvStatus[s] # "DELETING"

\* What the run polls for cannot come about any more, except by ageing.
Hopeless(i) ==
    \/ /\ pc[i] = "monitor"
       /\ imgStatus[img[i]] = "CREATING"
       /\ exp[img[i]] # "sent"
       /\ exp[img[i]] = "running" => srvStatus[expSrv[img[i]]] # "ACTIVE"
    \/ pc[i] \in {"sweepAddr", "endAddr"}
       /\ \E s \in ServerIds : AddrAttached(s) /\ srvStatus[s] # "DELETING"
    \/ pc[i] = "detached" /\ (Waiting(src[i]) \/ Waiting(scr[i]))
    \/ pc[i] = "dropSource" /\ Waiting(src[i])
    \/ pc[i] = "dropScratch" /\ Waiting(scr[i])

\* The deadline of deploymentPhase ends such a wait.  Before the image is
\* AVAILABLE that fails the run; during the clean-up every further call only
\* warns, and the image is returned.
Deadline(i) ==
    /\ Hopeless(i)
    /\ IF pc[i] \in CleanupPoints THEN Return(i, "done", img[i]) ELSE Fail(i)
    /\ UNCHANGED <<project, faults>>

-----------------------------------------------------------------------------
(* STACKIT and the helper VM.                                              *)

VolumeReady(v) ==
    /\ volState[v] = "creating"
    /\ volState' = [volState EXCEPT ![v] = "ready"]
    /\ UNCHANGED <<platform, disk, servers, access, scripts, pc, locals, faults>>

VolumeFails(v) ==
    /\ volState[v] = "creating"
    /\ volState' = [volState EXCEPT ![v] = "error"]
    /\ MarkingFault("volume", {"resource"})
    /\ UNCHANGED <<platform, disk, servers, access, scripts, pc, locals>>

ServerStep(s, a, b) == srvStatus[s] = a /\ srvStatus' = [srvStatus EXCEPT ![s] = b]

ServerActive(s) ==
    /\ ServerStep(s, "CREATING", "ACTIVE")
    /\ UNCHANGED <<platform, volumes, srvSrc, srvScr, access, scripts, pc, locals, faults>>

ServerFails(s) ==
    /\ ServerStep(s, "CREATING", "ERROR")
    /\ Fault("boot")
    /\ UNCHANGED <<platform, volumes, srvSrc, srvScr, access, scripts, pc, locals>>

ServerDeleted(s) ==
    /\ ServerStep(s, "DELETING", "DELETED")
    /\ UNCHANGED <<platform, volumes, srvSrc, srvScr, access, scripts, pc, locals, faults>>

\* One step of the script that job[s] says is running on an ACTIVE helper.
ScriptStep(s, a, b, d) ==
    /\ srvStatus[s] = "ACTIVE"
    /\ job[s] = a
    /\ job' = [job EXCEPT ![s] = b]
    /\ disk' = [disk EXCEPT ![srvSrc[s]] = d]
    /\ UNCHANGED <<platform, volState, servers, access, exp, expSrv, pc, locals, faults>>

HelperImports(s) == ScriptStep(s, "import", "imported", "imported")

\* normalizeApplianceScript up to the unit's symlink, which the probe looks for,
HelperInstallsAgent(s) == ScriptStep(s, "normalize", "agent", "agent")
\* and from there: machine state removed, cloud-init data source set, synced.
HelperNormalizes(s) == ScriptStep(s, "agent", "normalized", "normalized")

ScriptFails(s) ==
    /\ srvStatus[s] = "ACTIVE"
    /\ job[s] \in {"import", "normalize", "agent"}
    /\ job' = [job EXCEPT ![s] = "failed"]
    /\ MarkingFault("script", {"script"})
    /\ UNCHANGED <<platform, volumes, servers, access, exp, expSrv, pc, locals>>

\* The export script uploads, or fails because its image has been deleted.
HelperExports(m) ==
    /\ exp[m] = "running"
    /\ srvStatus[expSrv[m]] = "ACTIVE"
    /\ exp' = [exp EXCEPT ![m] = IF imgStatus[m] = "CREATING" THEN "sent" ELSE "failed"]
    /\ UNCHANGED <<platform, volumes, servers, access, job, expSrv, pc, locals, faults>>

ExportScriptFails(m) ==
    /\ exp[m] = "running"
    /\ srvStatus[expSrv[m]] = "ACTIVE"
    /\ exp' = [exp EXCEPT ![m] = "failed"]
    /\ Fault("script")
    /\ UNCHANGED <<platform, volumes, servers, access, job, expSrv, pc, locals>>

ImageReady(m) ==
    /\ imgStatus[m] = "CREATING" /\ exp[m] = "sent"
    /\ imgStatus' = [imgStatus EXCEPT ![m] = "AVAILABLE"]
    /\ published' = published \cup {m}
    /\ UNCHANGED <<imgOld, imgDisk, volumes, servers, access, scripts, pc, locals, faults>>

ImageFails(m) ==
    /\ imgStatus[m] = "CREATING" /\ exp[m] = "sent"
    /\ imgStatus' = [imgStatus EXCEPT ![m] = "ERROR"]
    /\ Fault("image")
    /\ UNCHANGED <<imgOld, imgDisk, published, volumes, servers, access, scripts, pc, locals>>

\* Thirty minutes without a change of the image's updatedAt.
ImageAges(m) ==
    /\ imgStatus[m] = "CREATING" /\ ~imgOld[m]
    /\ imgOld' = [imgOld EXCEPT ![m] = TRUE]
    /\ UNCHANGED <<imgStatus, imgDisk, published, volumes, servers, access, scripts,
                   pc, locals, faults>>

-----------------------------------------------------------------------------
Lookups(i) ==
    \/ FindAvailable(i) \/ FindCreating(i) \/ FindNothing(i)
    \/ DropStale(i) \/ DropStaleFails(i) \/ Monitored(i) \/ WaitImageFails(i)

Preparation(i) ==
    \/ ReuseSource(i) \/ CreateSource(i) \/ ReuseScratch(i) \/ CreateScratch(i)
    \/ VolumeWaited(i) \/ VolumeWaitFails(i)
    \/ LookupHelper(i) \/ LookupNone(i) \/ Adopted(i) \/ NotAdopted(i)
    \/ ProbeReady(i) \/ ProbeNotReady(i) \/ ListHelpers(i)
    \/ PurgeOne(i) \/ PurgeFails(i) \/ Purged(i)
    \/ VolumesDetached(i) \/ VolumesBroken(i)

Sweeping(i) ==
    \/ SweepAddr(i) \/ AddrSwept(i) \/ SweepKey(i) \/ KeysSwept(i)
    \/ SweepGroup(i) \/ SweepFails(i)

Building(i) ==
    \/ CreateKey(i) \/ EnsureGroup(i) \/ CreateHelper(i) \/ CreateHelperFails(i)
    \/ Booted(i) \/ BootFails(i) \/ AssignAddress(i) \/ Upload(i)
    \/ StartImport(i) \/ ImportWaited(i) \/ StartNormalize(i) \/ NormalizeWaited(i)
    \/ ScriptStepFails(i) \/ OutOfQuota(i) \/ CreateImage(i) \/ StartExport(i) \/ ExportWaited(i)
    \/ ExportFails(i) \/ DropImage(i) \/ Published(i)

CleaningUp(i) ==
    \/ DropHelper(i) \/ DropSource(i) \/ DropScratch(i)
    \/ DropAddr(i) \/ DropKey(i) \/ DropGroup(i)

Run(i) == Lookups(i) \/ Preparation(i) \/ Sweeping(i) \/ Building(i) \/ CleaningUp(i)

CutOff(i) == Abort(i) \/ EnsureGroupFails(i)

Platform ==
    \/ \E v \in Volumes : VolumeReady(v)
    \/ \E s \in ServerIds : ServerActive(s) \/ ServerDeleted(s)
    \/ \E s \in ServerIds : HelperImports(s) \/ HelperInstallsAgent(s) \/ HelperNormalizes(s)
    \/ \E m \in ImageIds : HelperExports(m) \/ ImageReady(m) \/ ImageAges(m)

PlatformFaults ==
    \/ \E v \in Volumes : VolumeFails(v)
    \/ \E s \in ServerIds : ServerFails(s) \/ ScriptFails(s)
    \/ \E m \in ImageIds : ExportScriptFails(m) \/ ImageFails(m)

Next ==
    \/ \E i \in Installers : Start(i) \/ Run(i) \/ CutOff(i) \/ Deadline(i)
    \/ Platform
    \/ PlatformFaults

\* The operator reruns a failed installer, a run goes on, its deadline fires,
\* and STACKIT and the helper finish what they were told to do.
Fairness ==
    /\ \A i \in Installers : /\ WF_vars(pc[i] = "idle" /\ Start(i))
                             /\ WF_vars(Run(i))
                             /\ WF_vars(Deadline(i))
    /\ \A v \in Volumes : WF_vars(VolumeReady(v))
    /\ \A s \in ServerIds : /\ WF_vars(ServerActive(s))
                            /\ WF_vars(ServerDeleted(s))
                            /\ WF_vars(HelperImports(s) \/ HelperInstallsAgent(s)
                                         \/ HelperNormalizes(s))
    /\ \A m \in ImageIds : WF_vars(HelperExports(m)) /\ WF_vars(ImageReady(m)) /\ WF_vars(ImageAges(m))

Spec == Init /\ [][Next]_vars
LiveSpec == Spec /\ Fairness

-----------------------------------------------------------------------------
(* Properties.                                                             *)

\* Every variable has its type.
TypeOK ==
    /\ imgStatus \in [ImageIds -> {"unused", "CREATING", "AVAILABLE", "ERROR", "DELETED"}]
    /\ imgOld \in [ImageIds -> BOOLEAN]
    /\ imgDisk \in [ImageIds -> Disks]
    /\ published \subseteq ImageIds
    /\ volState \in [Volumes -> {"unused", "creating", "ready", "error", "deleted"}]
    /\ disk \in [SourceIds -> Disks]
    /\ srvStatus \in [ServerIds -> {"unused", "CREATING", "ACTIVE", "ERROR",
                                    "DELETING", "DELETED"}]
    /\ srvSrc \in [ServerIds -> SourceIds \cup {NoId}]
    /\ srvScr \in [ServerIds -> ScratchIds \cup {NoId}]
    /\ addr \in [ServerIds -> {"none", "live", "deleted"}]
    /\ keys \subseteq KeyIds
    /\ group \in BOOLEAN
    /\ job \in [ServerIds -> {"none", "import", "imported", "normalize", "agent",
                              "normalized", "failed"}]
    /\ exp \in [ImageIds -> {"none", "running", "sent", "failed"}]
    /\ expSrv \in [ImageIds -> ServerIds \cup {NoId}]
    /\ pc \in [Installers -> Points]
    /\ img \in [Installers -> ImageIds \cup {NoId}]
    /\ src \in [Installers -> SourceIds \cup {NoId}]
    /\ scr \in [Installers -> ScratchIds \cup {NoId}]
    /\ helper \in [Installers -> ServerIds \cup {NoId}]
    /\ key \in [Installers -> KeyIds \cup {NoId}]
    /\ todo \in [Installers -> SUBSET ServerIds]
    /\ faults \in FaultHistories

\* "Cleanup is intentionally performed only after the reusable image is
\* AVAILABLE" (normalization.go:530): whatever runs are cut off or interleave,
\* a work volume has been deleted only if some import was published before.
KeptUntilPublished ==
    (\E v \in Volumes : volState[v] = "deleted") => published # {}

\* The program points at which a local must have been set.
ImagePoints  == {"stale", "monitor", "export", "exportWait", "dropImage",
                 "publishWait", "done"} \cup CleanupPoints
HelperPoints == {"adopt", "probe", "boot", "address", "upload", "import", "importWait",
                 "normalize", "normalizeWait", "createImage", "export", "exportWait",
                 "dropImage", "publishWait"} \cup CleanupPoints
SourcePoints == {"sourceWait", "scratch", "scratchWait", "lookup", "list", "purge",
                 "sweepAddr", "sweepKeys", "sweepGroup", "detached", "key", "group",
                 "server"} \cup HelperPoints

LocalsSet ==
    \A i \in Installers : /\ pc[i] \in ImagePoints => img[i] # NoId
                          /\ pc[i] \in HelperPoints => helper[i] # NoId
                          /\ pc[i] \in SourcePoints => src[i] # NoId

\* No step uses a nil image, helper or volume, a helper VM boots with its
\* source volume, and a run that cleans up or is done holds an image that has
\* been AVAILABLE; with TypeOK this is inductive.
Inv ==
    /\ TypeOK
    /\ LocalsSet
    /\ \A s \in ServerIds : srvStatus[s] # "unused" => srvSrc[s] # NoId
    /\ \A m \in ImageIds : imgStatus[m] = "AVAILABLE" => m \in published
    /\ \A i \in Installers : pc[i] \in CleanupPoints \cup {"done"} => img[i] \in published
    /\ \A i \in Installers : pc[i] \in ImagePoints => imgStatus[img[i]] # "unused"
    /\ KeptUntilPublished

\* One installer, however often it is cut off and rerun, never has two imports
\* of the OVA: at most one image is CREATING or AVAILABLE.
OneLiveImage == Cardinality(Images("CREATING") \cup Images("AVAILABLE")) <= 1

\* Reruns of one installer find the volumes of the earlier ones, also while
\* they are being created: there is never a second usable one of each purpose.
OneWorkVolume ==
    /\ Cardinality({v \in SourceIds : Usable(v)}) <= 1
    /\ Cardinality({v \in ScratchIds : Usable(v)}) <= 1

\* Temporary access does not pile up over reruns of one installer: a key pair
\* or an address of an earlier run is gone before the next one is made.
AccessDoesNotPile ==
    /\ Cardinality(keys) <= 1
    /\ Cardinality({s \in ServerIds : addr[s] = "live"}) <= 1

Leftovers ==
    \/ Listed # {}
    \/ \E v \in Volumes : volState[v] \in {"creating", "ready", "error"}
    \/ \E s \in ServerIds : addr[s] = "live"
    \/ keys # {}
    \/ group

\* After a successful import nothing temporary is left in the project.
NoLeftovers == \A i \in Installers : pc[i] = "done" => ~Leftovers

\* The same, unless a run was cut off once its image existed, a clean-up call
\* failed or a volume broke: whatever else failing runs leave, helpers of every
\* state, volumes, addresses, keys and the group, the one that succeeds removes.
RerunLeavesNothing == "resource" \notin faults.marks => NoLeftovers

\* An image that can be deployed holds a completely normalized appliance: the
\* agent and the clean cloud-init state and data source.
OnlyCompleteImages ==
    \A m \in ImageIds : imgStatus[m] = "AVAILABLE" => imgDisk[m] = "normalized"

\* The same, unless an import or normalize script was cut off or failed.
RerunIsComplete == "script" \notin faults.marks => OnlyCompleteImages

\* However the runs are cut off, rerunning the installer ends with an image
\* that is AVAILABLE and stays so.
EventuallyImported == <>[](Images("AVAILABLE") # {})

\* What ensureImage promises its caller, seen from outside (module ImageImport).
promiseStatus == [m \in ImageIds |->
    CASE imgStatus[m] = "unused"    -> "none"
      [] imgStatus[m] = "CREATING"  -> "importing"
      [] imgStatus[m] = "AVAILABLE" -> "available"
      [] OTHER                      -> "removed"]
promiseErased == {v \in Volumes : volState[v] = "deleted"}
promiseAnswer == [i \in Installers |-> IF pc[i] = "done" THEN img[i] ELSE NoId]

Promise == INSTANCE ImageImport WITH
    status <- promiseStatus, ever <- published,
    erased <- promiseErased, answer <- promiseAnswer

\* Normalization implements that promise.
KeepsPromise == Promise!Spec
=============================================================================
