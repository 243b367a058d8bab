------------------------ MODULE NormalizationProofs ------------------------
(***************************************************************************)
(* Proofs about Normalization, for any number of installers, images,       *)
(* volumes, helpers and faults: the inductive invariant Inv, with one step *)
(* per action of Normalization, the safety properties it implies, and that *)
(* Normalization implements ImageImport.                                   *)
(***************************************************************************)
EXTENDS Normalization, FiniteSetTheorems, TLAPS

(***************************************************************************)
(* What a return from ensureImage leaves in the locals.                    *)
(***************************************************************************)
LEMMA ReturnType ==
    ASSUME TypeOK, NEW i \in Installers, NEW to \in Points,
           NEW answer \in ImageIds \cup {NoId}, Return(i, to, answer)
    PROVE  /\ pc' \in [Installers -> Points]
           /\ img' \in [Installers -> ImageIds \cup {NoId}]
           /\ src' \in [Installers -> SourceIds \cup {NoId}]
           /\ scr' \in [Installers -> ScratchIds \cup {NoId}]
           /\ helper' \in [Installers -> ServerIds \cup {NoId}]
           /\ key' \in [Installers -> KeyIds \cup {NoId}]
           /\ todo' \in [Installers -> SUBSET ServerIds]
  BY DEF TypeOK, Return

\* What a fault adds to the history.
LEMMA FaultType ==
    ASSUME TypeOK
    PROVE  /\ \A k : Fault(k) => faults' \in FaultHistories
           /\ \A k : MarkingFault(k, {"resource"}) => faults' \in FaultHistories
           /\ \A k : MarkingFault(k, {"script"}) => faults' \in FaultHistories
           /\ \A k, p : MarkingFault(k, AbortMarks(p)) => faults' \in FaultHistories
<1>1. ASSUME NEW k, NEW ms \in SUBSET Marks, MarkingFault(k, ms)
      PROVE  faults' \in FaultHistories
  <2>1. faults.count \in 0..MaxFaults /\ faults.marks \in SUBSET Marks
    BY DEF TypeOK, FaultHistories
  <2>2. faults.count + 1 \in 0..MaxFaults /\ faults.marks \cup ms \in SUBSET Marks
    BY <1>1, <2>1, FaultAssumption DEF MarkingFault
  <2> QED
    BY <1>1, <2>2 DEF MarkingFault, FaultHistories
<1>2. /\ {} \in SUBSET Marks /\ {"resource"} \in SUBSET Marks /\ {"script"} \in SUBSET Marks
      /\ \A p : AbortMarks(p) \in SUBSET Marks
  BY DEF Marks, AbortMarks
<1> QED
  BY <1>1, <1>2 DEF Fault

LEMMA DeadlineType == ASSUME Inv, NEW i \in Installers, Deadline(i) PROVE TypeOK'
<1>1. img[i] \in ImageIds \cup {NoId} /\ "done" \in Points /\ "idle" \in Points
  BY DEF Inv, TypeOK, Points
<1>2. CASE Return(i, "done", img[i])
  BY <1>1, <1>2, ReturnType
     DEF Deadline, Inv, TypeOK, project, platform, volumes, servers, access, scripts
<1>3. CASE Return(i, "idle", NoId)
  BY <1>1, <1>3, ReturnType
     DEF Deadline, Inv, TypeOK, project, platform, volumes, servers, access, scripts
<1> QED BY <1>2, <1>3 DEF Deadline, Fail

LEMMA SweepGroupType == ASSUME Inv, NEW i \in Installers, SweepGroup(i) PROVE TypeOK'
<1>1. img[i] \in ImageIds \cup {NoId} /\ "done" \in Points /\ "detached" \in Points
  BY DEF Inv, TypeOK, Points, ActivePoints
<1>2. CASE Return(i, "done", img[i])
  BY <1>1, <1>2, ReturnType
     DEF SweepGroup, Inv, TypeOK, platform, volumes, servers, scripts
<1>3. CASE Goto(i, "sweepGroup", "detached") /\ UNCHANGED locals
  BY <1>1, <1>3
     DEF SweepGroup, Goto, Inv, TypeOK, platform, volumes, servers, scripts, locals
<1> QED BY <1>2, <1>3 DEF SweepGroup

LEMMA SweepFailsType == ASSUME Inv, NEW i \in Installers, SweepFails(i) PROVE TypeOK'
<1>1. img[i] \in ImageIds \cup {NoId} /\ "done" \in Points /\ "idle" \in Points
  BY DEF Inv, TypeOK, Points
<1>2. faults' \in FaultHistories
  BY FaultType DEF SweepFails, Inv, TypeOK
<1>3. CASE Return(i, "done", img[i])
  BY <1>1, <1>2, <1>3, ReturnType
     DEF SweepFails, Inv, TypeOK, project, platform, volumes, servers, access, scripts
<1>4. CASE Return(i, "idle", NoId)
  BY <1>1, <1>2, <1>4, ReturnType
     DEF SweepFails, Inv, TypeOK, project, platform, volumes, servers, access, scripts
<1> QED BY <1>3, <1>4 DEF SweepFails, Fail

\* Finding an image, or removing a stale import.
LEMMA LookupsInv == ASSUME Inv, NEW i \in Installers, Lookups(i) PROVE Inv'
<1> USE IdAssumption, FaultAssumption
        DEF Inv, TypeOK, LocalsSet, KeptUntilPublished, Volumes, Disks, Marked,
            ImagePoints, HelperPoints, SourcePoints, Points, ActivePoints,
            CleanupPoints, ScriptPoints, Goto, Return, Fail, project, locals,
            platform, volumes, servers, access, scripts
<1>1. CASE FindAvailable(i)
  BY <1>1 DEF FindAvailable, Images
<1>2. CASE FindCreating(i)
  BY <1>2 DEF FindCreating, Images
<1>3. CASE FindNothing(i)
  BY <1>3 DEF FindNothing, Images
<1>4. CASE DropStale(i)
  BY <1>4 DEF DropStale
<1>5. CASE DropStaleFails(i)
  BY <1>5 DEF DropStaleFails
<1>6. CASE Monitored(i)
  BY <1>6 DEF Monitored
<1>7. CASE WaitImageFails(i)
  BY <1>7 DEF WaitImageFails
<1> QED
  BY <1>1, <1>2, <1>3, <1>4, <1>5, <1>6, <1>7 DEF Lookups

\* The volumes, and the helper an earlier run left.
LEMMA PreparationInv == ASSUME Inv, NEW i \in Installers, Preparation(i) PROVE Inv'
<1> USE IdAssumption, FaultAssumption
        DEF Inv, TypeOK, LocalsSet, KeptUntilPublished, Volumes, Disks, Marked,
            ImagePoints, HelperPoints, SourcePoints, Points, ActivePoints,
            CleanupPoints, ScriptPoints, Goto, Return, Fail, project, locals,
            platform, volumes, servers, access, scripts
<1>1. CASE ReuseSource(i)
  BY <1>1 DEF ReuseSource, Reuse
<1>2. CASE CreateSource(i)
  BY <1>2 DEF CreateSource, Create
<1>3. CASE ReuseScratch(i)
  BY <1>3 DEF ReuseScratch, Reuse
<1>4. CASE CreateScratch(i)
  BY <1>4 DEF CreateScratch, Create
<1>5. CASE VolumeWaited(i)
  BY <1>5 DEF VolumeWaited
<1>6. CASE VolumeWaitFails(i)
  BY <1>6 DEF VolumeWaitFails
<1>7. CASE LookupHelper(i)
  BY <1>7 DEF LookupHelper, Listed
<1>8. CASE LookupNone(i)
  BY <1>8 DEF LookupNone, Listed
<1>9. CASE Adopted(i)
  BY <1>9 DEF Adopted
<1>10. CASE NotAdopted(i)
  BY <1>10 DEF NotAdopted
<1>11. CASE ProbeReady(i)
  BY <1>11 DEF ProbeReady
<1>12. CASE ProbeNotReady(i)
  BY <1>12, FaultType DEF ProbeNotReady
<1>13. CASE ListHelpers(i)
  BY <1>13 DEF ListHelpers, Listed
<1>14. CASE PurgeOne(i)
  <2>1. TypeOK'
    BY <1>14 DEF PurgeOne, Exists
  <2>2. LocalsSet'
    BY <1>14 DEF PurgeOne, Exists
  <2>3. (\A s \in ServerIds : srvStatus[s] # "unused" => srvSrc[s] # NoId)'
    BY <1>14 DEF PurgeOne, Exists
  <2>4. (\A m \in ImageIds : imgStatus[m] = "AVAILABLE" => m \in published)'
    BY <1>14 DEF PurgeOne, Exists
  <2>5. (\A j \in Installers : pc[j] \in CleanupPoints \cup {"done"}
             => img[j] \in published)'
    BY <1>14 DEF PurgeOne, Exists
  <2>6. (\A j \in Installers : pc[j] \in ImagePoints => imgStatus[img[j]] # "unused")'
    BY <1>14 DEF PurgeOne, Exists
  <2>7. KeptUntilPublished'
    BY <1>14 DEF PurgeOne, Exists
  <2> QED BY <2>1, <2>2, <2>3, <2>4, <2>5, <2>6, <2>7 DEF Inv
<1>15. CASE Purged(i)
  BY <1>15 DEF Purged
<1>18. CASE PurgeFails(i)
  BY <1>18 DEF PurgeFails
<1>16. CASE VolumesDetached(i)
  BY <1>16 DEF VolumesDetached
<1>17. CASE VolumesBroken(i)
  BY <1>17 DEF VolumesBroken
<1> QED
  BY <1>1, <1>2, <1>3, <1>4, <1>5, <1>6, <1>7, <1>8, <1>9, <1>10, <1>11, <1>12,
     <1>13, <1>14, <1>15, <1>16, <1>17, <1>18 DEF Preparation

\* cleanupStaleHelperAccess.
LEMMA SweepingInv == ASSUME Inv, NEW i \in Installers, Sweeping(i) PROVE Inv'
<1> USE IdAssumption, FaultAssumption
        DEF Inv, TypeOK, LocalsSet, KeptUntilPublished, Volumes, Disks, Marked,
            ImagePoints, HelperPoints, SourcePoints, Points, ActivePoints,
            CleanupPoints, ScriptPoints, Goto, Return, Fail, project, locals,
            platform, volumes, servers, access, scripts
<1>1. CASE SweepAddr(i)
  BY <1>1 DEF SweepAddr
<1>2. CASE AddrSwept(i)
  BY <1>2 DEF AddrSwept
<1>3. CASE SweepKey(i)
  BY <1>3 DEF SweepKey
<1>4. CASE KeysSwept(i)
  BY <1>4 DEF KeysSwept
<1>5. CASE SweepGroup(i)
  <2>1. TypeOK'
    BY <1>5, SweepGroupType
  <2>2. LocalsSet'
    BY <1>5 DEF SweepGroup
  <2>3. (\A s \in ServerIds : srvStatus[s] # "unused" => srvSrc[s] # NoId)'
    BY <1>5 DEF SweepGroup
  <2>4. (\A m \in ImageIds : imgStatus[m] = "AVAILABLE" => m \in published)'
    BY <1>5 DEF SweepGroup
  <2>5. (\A j \in Installers : pc[j] \in CleanupPoints \cup {"done"}
             => img[j] \in published)'
    BY <1>5 DEF SweepGroup
  <2>6. (\A j \in Installers : pc[j] \in ImagePoints => imgStatus[img[j]] # "unused")'
    BY <1>5 DEF SweepGroup
  <2>7. KeptUntilPublished'
    BY <1>5 DEF SweepGroup
  <2> QED BY <2>1, <2>2, <2>3, <2>4, <2>5, <2>6, <2>7 DEF Inv
<1>6. CASE SweepFails(i)
  <2>1. TypeOK'
    BY <1>6, SweepFailsType
  <2>2. LocalsSet'
    BY <1>6 DEF SweepFails, SweepPoints, EndPoints
  <2>3. (\A s \in ServerIds : srvStatus[s] # "unused" => srvSrc[s] # NoId)'
    BY <1>6 DEF SweepFails, SweepPoints, EndPoints
  <2>4. (\A m \in ImageIds : imgStatus[m] = "AVAILABLE" => m \in published)'
    BY <1>6 DEF SweepFails, SweepPoints, EndPoints
  <2>5. (\A j \in Installers : pc[j] \in CleanupPoints \cup {"done"}
             => img[j] \in published)'
    BY <1>6 DEF SweepFails, SweepPoints, EndPoints
  <2>6. (\A j \in Installers : pc[j] \in ImagePoints => imgStatus[img[j]] # "unused")'
    BY <1>6 DEF SweepFails, SweepPoints, EndPoints
  <2>7. KeptUntilPublished'
    BY <1>6 DEF SweepFails, SweepPoints, EndPoints
  <2> QED BY <2>1, <2>2, <2>3, <2>4, <2>5, <2>6, <2>7 DEF Inv
<1> QED
  BY <1>1, <1>2, <1>3, <1>4, <1>5, <1>6 DEF Sweeping

\* A new helper, its scripts, and the image.
LEMMA BuildingInv == ASSUME Inv, NEW i \in Installers, Building(i) PROVE Inv'
<1> USE IdAssumption, FaultAssumption
        DEF Inv, TypeOK, LocalsSet, KeptUntilPublished, Volumes, Disks, Marked,
            ImagePoints, HelperPoints, SourcePoints, Points, ActivePoints,
            CleanupPoints, ScriptPoints, Goto, Return, Fail, project, locals,
            platform, volumes, servers, access, scripts
<1>1. CASE CreateKey(i)
  BY <1>1 DEF CreateKey
<1>2. CASE EnsureGroup(i)
  BY <1>2 DEF EnsureGroup
<1>3. CASE CreateHelper(i)
  BY <1>3 DEF CreateHelper
<1>4. CASE CreateHelperFails(i)
  BY <1>4, FaultType DEF CreateHelperFails, DropAccess
<1>5. CASE Booted(i)
  BY <1>5 DEF Booted
<1>6. CASE BootFails(i)
  BY <1>6 DEF BootFails, DropAccess
<1>7. CASE AssignAddress(i)
  BY <1>7 DEF AssignAddress
<1>8. CASE Upload(i)
  BY <1>8 DEF Upload
<1>9. CASE StartImport(i)
  BY <1>9 DEF StartImport
<1>10. CASE ImportWaited(i)
  BY <1>10 DEF ImportWaited
<1>11. CASE StartNormalize(i)
  BY <1>11 DEF StartNormalize
<1>12. CASE NormalizeWaited(i)
  BY <1>12 DEF NormalizeWaited
<1>13. CASE ScriptStepFails(i)
  BY <1>13 DEF ScriptStepFails
<1>14. CASE OutOfQuota(i)
  BY <1>14 DEF OutOfQuota, Images
<1>15. CASE CreateImage(i)
  BY <1>15 DEF CreateImage
<1>16. CASE StartExport(i)
  BY <1>16 DEF StartExport
<1>17. CASE ExportWaited(i)
  BY <1>17 DEF ExportWaited
<1>18. CASE ExportFails(i)
  BY <1>18 DEF ExportFails
<1>19. CASE DropImage(i)
  BY <1>19 DEF DropImage
<1>20. CASE Published(i)
  BY <1>20 DEF Published
<1> QED
  BY <1>1, <1>2, <1>3, <1>4, <1>5, <1>6, <1>7, <1>8, <1>9, <1>10, <1>11, <1>12,
     <1>13, <1>14, <1>15, <1>16, <1>17, <1>18, <1>19, <1>20 DEF Building

\* cleanupNormalizationResources.
LEMMA CleaningUpInv == ASSUME Inv, NEW i \in Installers, CleaningUp(i) PROVE Inv'
<1> USE IdAssumption, FaultAssumption
        DEF Inv, TypeOK, LocalsSet, KeptUntilPublished, Volumes, Disks, Marked,
            ImagePoints, HelperPoints, SourcePoints, Points, ActivePoints,
            CleanupPoints, ScriptPoints, Goto, Return, Fail, project, locals,
            platform, volumes, servers, access, scripts
<1>1. CASE DropHelper(i)
  <2>1. TypeOK'
    BY <1>1, FaultType DEF DropHelper, Exists
  <2>2. LocalsSet'
    BY <1>1, FaultType DEF DropHelper, Exists
  <2>3. (\A s \in ServerIds : srvStatus[s] # "unused" => srvSrc[s] # NoId)'
    BY <1>1, FaultType DEF DropHelper, Exists
  <2>4. (\A m \in ImageIds : imgStatus[m] = "AVAILABLE" => m \in published)'
    BY <1>1, FaultType DEF DropHelper, Exists
  <2>5. (\A j \in Installers : pc[j] \in CleanupPoints \cup {"done"}
             => img[j] \in published)'
    BY <1>1, FaultType DEF DropHelper, Exists
  <2>6. (\A j \in Installers : pc[j] \in ImagePoints => imgStatus[img[j]] # "unused")'
    BY <1>1, FaultType DEF DropHelper, Exists
  <2>7. KeptUntilPublished'
    BY <1>1, FaultType DEF DropHelper, Exists
  <2> QED BY <2>1, <2>2, <2>3, <2>4, <2>5, <2>6, <2>7 DEF Inv
<1>2. CASE DropSource(i)
  BY <1>2, FaultType DEF DropSource, DropVolume
<1>3. CASE DropScratch(i)
  BY <1>3, FaultType DEF DropScratch, DropVolume
<1>4. CASE DropAddr(i)
  BY <1>4, FaultType DEF DropAddr
<1>5. CASE DropKey(i)
  BY <1>5, FaultType DEF DropKey
<1>6. CASE DropGroup(i)
  BY <1>6 DEF DropGroup
<1> QED
  BY <1>1, <1>2, <1>3, <1>4, <1>5, <1>6 DEF CleaningUp

\* A run starts, or is cut off.
LEMMA EndingInv == ASSUME Inv, NEW i \in Installers, Start(i) \/ CutOff(i) \/ Deadline(i) PROVE Inv'
<1> USE IdAssumption, FaultAssumption
        DEF Inv, TypeOK, LocalsSet, KeptUntilPublished, Volumes, Disks, Marked,
            ImagePoints, HelperPoints, SourcePoints, Points, ActivePoints,
            CleanupPoints, ScriptPoints, Goto, Return, Fail, project, locals,
            platform, volumes, servers, access, scripts
<1>1. CASE Start(i)
  BY <1>1 DEF Start
<1>2. CASE Abort(i)
  BY <1>2, FaultType DEF Abort
<1>3. CASE EnsureGroupFails(i)
  BY <1>3, FaultType DEF EnsureGroupFails
<1>4. CASE Deadline(i)
  <2>1. TypeOK'
    BY <1>4, DeadlineType
  <2>2. LocalsSet'
    BY <1>4 DEF Deadline, Hopeless
  <2>3. (\A s \in ServerIds : srvStatus[s] # "unused" => srvSrc[s] # NoId)'
    BY <1>4 DEF Deadline, Hopeless
  <2>4. (\A m \in ImageIds : imgStatus[m] = "AVAILABLE" => m \in published)'
    BY <1>4 DEF Deadline, Hopeless
  <2>5. (\A j \in Installers : pc[j] \in CleanupPoints \cup {"done"}
             => img[j] \in published)'
    BY <1>4 DEF Deadline, Hopeless
  <2>6. (\A j \in Installers : pc[j] \in ImagePoints => imgStatus[img[j]] # "unused")'
    BY <1>4 DEF Deadline, Hopeless
  <2>7. KeptUntilPublished'
    BY <1>4 DEF Deadline, Hopeless
  <2> QED BY <2>1, <2>2, <2>3, <2>4, <2>5, <2>6, <2>7 DEF Inv
<1> QED
  BY <1>1, <1>2, <1>3, <1>4 DEF CutOff

\* STACKIT and the helper do what they were told.
LEMMA PlatformInv == ASSUME Inv, Platform PROVE Inv'
<1> USE IdAssumption, FaultAssumption
        DEF Inv, TypeOK, LocalsSet, KeptUntilPublished, Volumes, Disks, Marked,
            ImagePoints, HelperPoints, SourcePoints, Points, ActivePoints,
            CleanupPoints, ScriptPoints, Goto, Return, Fail, project, locals,
            platform, volumes, servers, access, scripts
<1>1. ASSUME NEW v \in Volumes, VolumeReady(v) PROVE Inv'
  BY <1>1 DEF VolumeReady
<1>2. ASSUME NEW s \in ServerIds, ServerActive(s) PROVE Inv'
  BY <1>2 DEF ServerActive, ServerStep
<1>3. ASSUME NEW s \in ServerIds, ServerDeleted(s) PROVE Inv'
  BY <1>3 DEF ServerDeleted, ServerStep
<1>4. ASSUME NEW s \in ServerIds, HelperImports(s) PROVE Inv'
  BY <1>4 DEF HelperImports, ScriptStep
<1>5. ASSUME NEW s \in ServerIds, HelperInstallsAgent(s) PROVE Inv'
  BY <1>5 DEF HelperInstallsAgent, ScriptStep
<1>6. ASSUME NEW s \in ServerIds, HelperNormalizes(s) PROVE Inv'
  BY <1>6 DEF HelperNormalizes, ScriptStep
<1>7. ASSUME NEW m \in ImageIds, HelperExports(m) PROVE Inv'
  BY <1>7 DEF HelperExports
<1>8. ASSUME NEW m \in ImageIds, ImageReady(m) PROVE Inv'
  BY <1>8 DEF ImageReady
<1>9. ASSUME NEW m \in ImageIds, ImageAges(m) PROVE Inv'
  BY <1>9 DEF ImageAges
<1> QED
  BY <1>1, <1>2, <1>3, <1>4, <1>5, <1>6, <1>7, <1>8, <1>9 DEF Platform

\* STACKIT or a script fails.
LEMMA PlatformFaultsInv == ASSUME Inv, PlatformFaults PROVE Inv'
<1> USE IdAssumption, FaultAssumption
        DEF Inv, TypeOK, LocalsSet, KeptUntilPublished, Volumes, Disks, Marked,
            ImagePoints, HelperPoints, SourcePoints, Points, ActivePoints,
            CleanupPoints, ScriptPoints, Goto, Return, Fail, project, locals,
            platform, volumes, servers, access, scripts
<1>1. ASSUME NEW v \in Volumes, VolumeFails(v) PROVE Inv'
  BY <1>1, FaultType DEF VolumeFails
<1>2. ASSUME NEW s \in ServerIds, ServerFails(s) PROVE Inv'
  BY <1>2, FaultType DEF ServerFails, ServerStep
<1>3. ASSUME NEW s \in ServerIds, ScriptFails(s) PROVE Inv'
  BY <1>3, FaultType DEF ScriptFails
<1>4. ASSUME NEW m \in ImageIds, ExportScriptFails(m) PROVE Inv'
  BY <1>4, FaultType DEF ExportScriptFails
<1>5. ASSUME NEW m \in ImageIds, ImageFails(m) PROVE Inv'
  BY <1>5, FaultType DEF ImageFails
<1> QED
  BY <1>1, <1>2, <1>3, <1>4, <1>5 DEF PlatformFaults


(***************************************************************************)
(* Inv is an invariant.                                                    *)
(***************************************************************************)
LEMMA InitInv == Init => Inv
<1> SUFFICES ASSUME Init PROVE Inv
  OBVIOUS
<1>1. TypeOK
  <2>1. /\ [count |-> 0, marks |-> {}] \in FaultHistories
        /\ "idle" \in Points /\ "blank" \in Disks
    BY FaultAssumption DEF Points, Disks, FaultHistories
  <2>2. /\ imgStatus \in [ImageIds -> {"unused", "CREATING", "AVAILABLE", "ERROR", "DELETED"}]
        /\ imgDisk \in [ImageIds -> Disks]
        /\ volState \in [Volumes -> {"unused", "creating", "ready", "error", "deleted"}]
        /\ disk \in [SourceIds -> Disks]
    BY <2>1 DEF Init
  <2>3. pc \in [Installers -> Points] /\ todo \in [Installers -> SUBSET ServerIds]
    BY <2>1 DEF Init
  <2> QED BY <2>1, <2>2, <2>3 DEF Init, TypeOK
<1>2. LocalsSet
  BY DEF Init, LocalsSet, CleanupPoints, ImagePoints, HelperPoints, SourcePoints
<1>3. /\ \A s \in ServerIds : srvStatus[s] # "unused" => srvSrc[s] # NoId
      /\ \A m \in ImageIds : imgStatus[m] = "AVAILABLE" => m \in published
      /\ \A i \in Installers : pc[i] \in CleanupPoints \cup {"done"}
                                => img[i] \in published
      /\ \A i \in Installers : pc[i] \in ImagePoints => imgStatus[img[i]] # "unused"
  BY DEF Init, CleanupPoints, ImagePoints
<1>4. KeptUntilPublished
  BY DEF Init, KeptUntilPublished
<1> QED BY <1>1, <1>2, <1>3, <1>4 DEF Inv

LEMMA NextInv == Inv /\ [Next]_vars => Inv'
<1> SUFFICES ASSUME Inv, [Next]_vars PROVE Inv'
  OBVIOUS
<1>1. CASE \E i \in Installers : Start(i) \/ CutOff(i) \/ Deadline(i)
  BY <1>1, EndingInv
<1>2. CASE \E i \in Installers : Run(i)
  BY <1>2, LookupsInv, PreparationInv, SweepingInv, BuildingInv, CleaningUpInv DEF Run
<1>3. CASE Platform
  BY <1>3, PlatformInv
<1>4. CASE PlatformFaults
  BY <1>4, PlatformFaultsInv
<1>5. CASE UNCHANGED vars
  BY <1>5 DEF vars, project, platform, volumes, servers, access, scripts, locals,
              Inv, TypeOK, LocalsSet, KeptUntilPublished
<1> QED BY <1>1, <1>2, <1>3, <1>4, <1>5 DEF Next

(***************************************************************************)
(* Every behaviour of the installers and of STACKIT satisfies Inv: types,  *)
(* no nil dereference, and clean-up only with a published image in hand.   *)
(***************************************************************************)
THEOREM Invariance == Spec => []Inv
  BY InitInv, NextInv, PTL DEF Spec

(***************************************************************************)
(* Type correctness of every variable of Normalization.                    *)
(***************************************************************************)
THEOREM TypeCorrect == Spec => []TypeOK
<1>1. Inv => TypeOK  BY DEF Inv
<1> QED BY <1>1, Invariance, PTL

(***************************************************************************)
(* normalization.go:530: the work volumes are deleted only after an image  *)
(* was AVAILABLE, for any number of installers that run, fail and rerun.   *)
(***************************************************************************)
THEOREM WorkIsKept == Spec => []KeptUntilPublished
<1>1. Inv => KeptUntilPublished  BY DEF Inv
<1> QED BY <1>1, Invariance, PTL
-----------------------------------------------------------------------------
(***************************************************************************)
(* Normalization implements ImageImport, for every value of the constants. *)
(* Most steps are Quiet: the acting installer has no answer (Rerun), or    *)
(* answers with an image that Inv says was published (Answer).  The others *)
(* change an image (Begin, Publish, Remove) or delete a volume (Erase).    *)
(***************************************************************************)
\* A step of installer i that leaves the images, the deleted volumes and the
\* other installers' answers alone: it answers, or has no answer.
Quiet(i) ==
    /\ UNCHANGED <<imgStatus, published, promiseErased>>
    /\ \A j \in Installers \ {i} : pc'[j] = pc[j] /\ img'[j] = img[j]

LEMMA QuietStep ==
    ASSUME Inv, Inv', NEW i \in Installers, Quiet(i)
    PROVE  Promise!Next
<1>1. promiseStatus' = promiseStatus /\ promiseErased' = promiseErased /\ published' = published
  BY DEF Quiet, promiseStatus
<1>2. promiseAnswer' = [promiseAnswer EXCEPT ![i] = promiseAnswer'[i]]
  BY DEF Quiet, promiseAnswer
<1>3. CASE pc'[i] = "done"
  <2>1. promiseAnswer'[i] = img'[i] /\ img'[i] \in published
    BY <1>1, <1>3 DEF promiseAnswer, Inv
  <2>2. img'[i] \in ImageIds
    BY <2>1 DEF Inv, TypeOK
  <2>3. Promise!Answer(i, img'[i])
    BY <1>1, <1>2, <2>1 DEF Promise!Answer
  <2> QED BY <2>2, <2>3 DEF Promise!Next
<1>4. CASE pc'[i] # "done"
  <2>1. promiseAnswer'[i] = NoId
    BY <1>4 DEF promiseAnswer
  <2>2. Promise!Rerun(i)
    BY <1>1, <1>2, <2>1 DEF Promise!Rerun
  <2> QED BY <2>2 DEF Promise!Next
<1> QED BY <1>3, <1>4

\* Which actions are quiet.
LEMMA LookupsQuiet ==
    ASSUME Inv, NEW i \in Installers, Lookups(i), ~DropStale(i)
    PROVE  Quiet(i)
  BY DEF Lookups, FindAvailable, Images, Return, project, platform, volumes,
         servers, access, scripts, FindCreating, Goto, FindNothing, locals,
         DropStaleFails, Fail, Monitored, WaitImageFails, Inv, TypeOK, Quiet,
         promiseErased

LEMMA PreparationQuiet ==
    ASSUME Inv, NEW i \in Installers, Preparation(i)
    PROVE  Quiet(i)
  BY DEF Preparation, ReuseSource, Reuse, Goto, project, platform, volumes,
         servers, access, scripts, CreateSource, Create, ReuseScratch,
         CreateScratch, VolumeWaited, locals, VolumeWaitFails, Fail, Return,
         LookupHelper, Listed, LookupNone, Adopted, NotAdopted, ProbeReady,
         Marked, ProbeNotReady, Fault, ListHelpers, PurgeOne, PurgeFails, Purged,
         VolumesDetached, VolumesBroken, Usable, Inv, TypeOK, Quiet,
         promiseErased

LEMMA SweepingQuiet == ASSUME Inv, NEW i \in Installers, Sweeping(i) PROVE Quiet(i)
  BY DEF Sweeping, SweepAddr, platform, volumes, servers, scripts, locals,
         AddrSwept, Goto, project, access, SweepKey, KeysSwept, SweepGroup,
         Return, SweepFails, Fault, Fail, Inv, TypeOK, Quiet, promiseErased

LEMMA BuildingQuiet ==
    ASSUME Inv, NEW i \in Installers, Building(i), ~CreateImage(i), ~DropImage(i)
    PROVE  Quiet(i)
  BY DEF Building, CreateKey, Goto, platform, volumes, servers, scripts,
         EnsureGroup, locals, CreateHelper, access, CreateHelperFails, Fault,
         DropAccess, Fail, Return, Booted, project, BootFails, AssignAddress,
         Upload, StartImport, Marked, ImportWaited, StartNormalize,
         NormalizeWaited, ScriptStepFails, OutOfQuota, Images, StartExport,
         ExportWaited, ExportFails, Published, Inv, TypeOK, Quiet,
         promiseErased

LEMMA CleaningUpQuiet ==
    ASSUME Inv, NEW i \in Installers, CleaningUp(i), ~DropSource(i), ~DropScratch(i)
    PROVE  Quiet(i)
  BY DEF CleaningUp, DropHelper, Goto, Fault, platform, volumes, access,
         scripts, locals, DropAddr, servers, DropKey, DropGroup, Inv, TypeOK,
         Quiet, promiseErased

LEMMA EndingQuiet ==
    ASSUME Inv, NEW i \in Installers, Start(i) \/ CutOff(i) \/ Deadline(i)
    PROVE  Quiet(i)
  BY DEF CutOff, Start, Return, project, platform, volumes, servers, access,
         scripts, Abort, Fail, Fault, EnsureGroupFails, Deadline, Inv, TypeOK,
         Quiet, promiseErased

\* How the other actions look from outside.
LEMMA ChangeImage ==
    ASSUME Inv, NEW m \in ImageIds, NEW st,
           imgStatus' = [imgStatus EXCEPT ![m] = st]
    PROVE  promiseStatus' = [promiseStatus EXCEPT ![m] =
                                CASE st = "unused"    -> "none"
                                  [] st = "CREATING"  -> "importing"
                                  [] st = "AVAILABLE" -> "available"
                                  [] OTHER            -> "removed"]
  BY DEF promiseStatus, Inv, TypeOK

LEMMA RemoveStep ==
    ASSUME Inv, NEW m \in ImageIds, imgStatus[m] # "unused", NEW st \in {"DELETED", "ERROR"},
           imgStatus' = [imgStatus EXCEPT ![m] = st],
           UNCHANGED <<published, promiseErased, promiseAnswer>>
    PROVE  [Promise!Next]_(Promise!vars)
<1>1. promiseStatus' = [promiseStatus EXCEPT ![m] = "removed"]
  BY ChangeImage
<1>2. CASE imgStatus[m] \in {"CREATING", "AVAILABLE"}
  <2>1. promiseStatus[m] \in {"importing", "available"}
    BY <1>2 DEF promiseStatus
  <2>2. Promise!Remove(m)
    BY <1>1, <2>1 DEF Promise!Remove, Promise!Change
  <2> QED BY <2>2 DEF Promise!Next
<1>3. CASE imgStatus[m] \notin {"CREATING", "AVAILABLE"}
  <2>1. promiseStatus[m] = "removed"
    BY <1>3 DEF promiseStatus
  <2>2. promiseStatus' = promiseStatus
    BY <1>1, <2>1 DEF promiseStatus
  <2> QED BY <2>2 DEF Promise!vars
<1> QED BY <1>2, <1>3

LEMMA DropStaleStep ==
    ASSUME Inv, NEW i \in Installers, DropStale(i)
    PROVE  [Promise!Next]_(Promise!vars)
<1>1. img[i] \in ImageIds
  BY DEF DropStale, Goto, Inv, TypeOK, LocalsSet, ImagePoints
<1>2. UNCHANGED <<published, promiseErased, promiseAnswer>>
  BY DEF DropStale, Goto, Inv, TypeOK, volumes, promiseErased, promiseAnswer
<1> QED BY <1>1, <1>2, RemoveStep DEF DropStale

LEMMA DropImageStep ==
    ASSUME Inv, NEW i \in Installers, DropImage(i)
    PROVE  [Promise!Next]_(Promise!vars)
<1>1. img[i] \in ImageIds /\ imgStatus[img[i]] # "unused"
  BY DEF DropImage, Inv, TypeOK, LocalsSet, ImagePoints
<1>2. UNCHANGED <<published, promiseErased, promiseAnswer>>
  BY DEF DropImage, Fail, Return, Inv, TypeOK, volumes, promiseErased, promiseAnswer
<1> QED BY <1>1, <1>2, RemoveStep DEF DropImage

LEMMA CreateImageStep ==
    ASSUME Inv, NEW i \in Installers, CreateImage(i)
    PROVE  [Promise!Next]_(Promise!vars)
<1>1. PICK m \in ImageIds : /\ imgStatus[m] = "unused"
                            /\ imgStatus' = [imgStatus EXCEPT ![m] = "CREATING"]
  BY DEF CreateImage
<1>2. UNCHANGED <<published, promiseErased, promiseAnswer>>
  BY DEF CreateImage, Goto, Inv, TypeOK, volumes, promiseErased, promiseAnswer
<1>3. promiseStatus' = [promiseStatus EXCEPT ![m] = "importing"]
  BY <1>1, ChangeImage
<1>4. promiseStatus[m] = "none"
  BY <1>1 DEF promiseStatus
<1>5. Promise!Begin(m)
  BY <1>2, <1>3, <1>4 DEF Promise!Begin, Promise!Change
<1> QED BY <1>5 DEF Promise!Next

LEMMA DropVolumeStep ==
    ASSUME Inv, NEW i \in Installers, DropSource(i) \/ DropScratch(i)
    PROVE  [Promise!Next]_(Promise!vars)
<1>1. published # {}
  BY DEF DropSource, DropScratch, DropVolume, Goto, Inv, CleanupPoints
<1>2. UNCHANGED <<promiseStatus, published, promiseAnswer>>
  BY DEF DropSource, DropScratch, DropVolume, Goto, Inv, TypeOK, platform, locals,
         promiseStatus, promiseAnswer
<1>3. CASE UNCHANGED volState
  BY <1>2, <1>3 DEF promiseErased, Promise!vars
<1>4. ASSUME NEW v, Available(v), volState' = [volState EXCEPT ![v] = "deleted"]
      PROVE  [Promise!Next]_(Promise!vars)
  <2>1. CASE v \in Volumes
    <3>1. v \notin promiseErased /\ promiseErased' = promiseErased \cup {v}
      BY <1>4, <2>1 DEF Available, promiseErased, Inv, TypeOK
    <3>2. Promise!Erase(v)
      BY <1>1, <1>2, <3>1 DEF Promise!Erase
    <3> QED BY <2>1, <3>2 DEF Promise!Next
  <2>2. CASE v \notin Volumes
    <3>1. UNCHANGED volState
      BY <1>4, <2>2 DEF Inv, TypeOK
    <3> QED BY <1>3, <3>1
  <2> QED BY <2>1, <2>2
<1>5. \/ UNCHANGED volState
      \/ \E v : Available(v) /\ volState' = [volState EXCEPT ![v] = "deleted"]
  BY DEF DropSource, DropScratch, DropVolume
<1> QED BY <1>3, <1>4, <1>5

LEMMA ImageReadyStep ==
    ASSUME Inv, NEW m \in ImageIds, ImageReady(m)
    PROVE  [Promise!Next]_(Promise!vars)
<1>1. promiseStatus' = [promiseStatus EXCEPT ![m] = "available"]
  BY ChangeImage DEF ImageReady
<1>2. promiseStatus[m] = "importing"
  BY DEF ImageReady, promiseStatus
<1>3. UNCHANGED <<promiseErased, promiseAnswer>>
  BY DEF ImageReady, volumes, locals, promiseErased, promiseAnswer
<1>4. Promise!Publish(m)
  BY <1>1, <1>2, <1>3 DEF ImageReady, Promise!Publish, Promise!Change
<1> QED BY <1>4 DEF Promise!Next

LEMMA PlatformStep ==
    ASSUME Inv, Platform
    PROVE  [Promise!Next]_(Promise!vars)
<1>1. CASE \E m \in ImageIds : ImageReady(m)
  BY <1>1, ImageReadyStep
<1>2. CASE ~ \E m \in ImageIds : ImageReady(m)
  <2>1. UNCHANGED <<imgStatus, published, pc, img>>
    BY <1>2 DEF Platform, VolumeReady, ServerActive, ServerDeleted, ServerStep, HelperImports,
                HelperInstallsAgent, HelperNormalizes, ScriptStep, HelperExports, ImageAges,
                platform, locals
  <2>2. promiseErased' = promiseErased
    BY <1>2 DEF Platform, VolumeReady, ServerActive, ServerDeleted, HelperImports,
                HelperInstallsAgent, HelperNormalizes, ScriptStep, HelperExports, ImageAges,
                volumes, promiseErased, Inv, TypeOK
  <2> QED BY <2>1, <2>2 DEF promiseStatus, promiseAnswer, Promise!vars
<1> QED BY <1>1, <1>2

LEMMA PlatformFaultsStep ==
    ASSUME Inv, PlatformFaults
    PROVE  [Promise!Next]_(Promise!vars)
<1>1. ASSUME NEW m \in ImageIds, ImageFails(m)
      PROVE  [Promise!Next]_(Promise!vars)
  <2>1. UNCHANGED <<published, promiseErased, promiseAnswer>>
    BY <1>1 DEF ImageFails, volumes, locals, promiseErased, promiseAnswer
  <2> QED BY <1>1, <2>1, RemoveStep DEF ImageFails
<1>2. CASE ~ \E m \in ImageIds : ImageFails(m)
  <2>1. UNCHANGED <<imgStatus, published, pc, img>>
    BY <1>2 DEF PlatformFaults, VolumeFails, ServerFails, ScriptFails, ExportScriptFails,
                platform, locals
  <2>2. promiseErased' = promiseErased
    BY <1>2 DEF PlatformFaults, VolumeFails, ServerFails, ScriptFails, ExportScriptFails,
                volumes, promiseErased, Inv, TypeOK
  <2> QED BY <2>1, <2>2 DEF promiseStatus, promiseAnswer, Promise!vars
<1> QED BY <1>1, <1>2

\* Every step of Normalization is a step of ImageImport or a stutter.
LEMMA PromiseNext == Inv /\ Inv' /\ [Next]_vars => [Promise!Next]_(Promise!vars)
<1> SUFFICES ASSUME Inv, Inv', [Next]_vars PROVE [Promise!Next]_(Promise!vars)
  OBVIOUS
<1>1. ASSUME NEW i \in Installers, Start(i) \/ CutOff(i) \/ Deadline(i)
      PROVE  [Promise!Next]_(Promise!vars)
  BY <1>1, EndingQuiet, QuietStep
<1>2. ASSUME NEW i \in Installers, Run(i)
      PROVE  [Promise!Next]_(Promise!vars)
  <2>1. CASE Lookups(i)
    BY <2>1, LookupsQuiet, QuietStep, DropStaleStep
  <2>2. CASE Preparation(i) \/ Sweeping(i)
    BY <2>2, PreparationQuiet, SweepingQuiet, QuietStep
  <2>3. CASE Building(i)
    BY <2>3, BuildingQuiet, QuietStep, CreateImageStep, DropImageStep
  <2>4. CASE CleaningUp(i)
    BY <2>4, CleaningUpQuiet, QuietStep, DropVolumeStep
  <2> QED BY <1>2, <2>1, <2>2, <2>3, <2>4 DEF Run
<1>3. CASE Platform
  BY <1>3, PlatformStep
<1>4. CASE PlatformFaults
  BY <1>4, PlatformFaultsStep
<1>5. CASE UNCHANGED vars
  BY <1>5 DEF vars, project, platform, volumes, locals, promiseStatus, promiseErased,
              promiseAnswer, Promise!vars
<1> QED BY <1>1, <1>2, <1>3, <1>4, <1>5 DEF Next

LEMMA PromiseInit == Init => Promise!Init
  BY DEF Init, Promise!Init, promiseStatus, promiseErased, promiseAnswer

(***************************************************************************)
(* Normalization implements ImageImport: whatever is cut off, fails or     *)
(* interleaves, an installer answers only with an image that was AVAILABLE *)
(* and the work is erased only after a publication.                        *)
(***************************************************************************)
THEOREM Refinement == Spec => KeepsPromise
  BY PromiseInit, PromiseNext, Invariance, PTL DEF Spec, KeepsPromise, Promise!Spec
-----------------------------------------------------------------------------
(***************************************************************************)
(* One installer, cut off and rerun any number of times.  What it leaves   *)
(* is found by listing, so each part below says what is there when it is   *)
(* at a point: images, volumes, access, helpers, scripts, leftovers.       *)
(***************************************************************************)
OneInstaller == \A i, j \in Installers : i = j

\* Images: none is live before the run makes its own, later only its own is.
Live(m) == imgStatus[m] \in {"CREATING", "AVAILABLE"}
ExportPoints == {"export", "exportWait", "dropImage", "publishWait"}
BeforeImage == (ActivePoints \ (ExportPoints \cup CleanupPoints)) \ {"find", "stale", "monitor"}

ImagesAlone ==
    /\ \A m, n \in ImageIds : Live(m) /\ Live(n) => m = n
    /\ \A i \in Installers, m \in ImageIds :
          Live(m) => pc[i] \notin BeforeImage /\ (pc[i] \in ImagePoints => m = img[i])

\* Only CreateImage adds a live image, and FindNothing or DropStale came before.
LEMMA ImagesAloneNext ==
    ASSUME OneInstaller, Inv, ImagesAlone, [Next]_vars PROVE ImagesAlone'
<1> USE DEF ImagesAlone, Live, BeforeImage, ExportPoints, ImagePoints, ActivePoints,
            CleanupPoints, ScriptPoints, Goto, Return, Fail, project, platform, locals
<1>0. TypeOK
  BY DEF Inv
<1>1. ASSUME NEW i \in Installers, Lookups(i) PROVE ImagesAlone'
  BY SMTT(30), <1>0, <1>1
     DEF OneInstaller, TypeOK, Lookups, FindAvailable, FindCreating, FindNothing, DropStale,
         DropStaleFails, Monitored, WaitImageFails, Images
<1>2. ASSUME NEW i \in Installers, Preparation(i) PROVE ImagesAlone'
  <2>1. CASE ReuseSource(i) \/ CreateSource(i) \/ ReuseScratch(i) \/ CreateScratch(i)
    BY <1>0, <2>1
       DEF OneInstaller, TypeOK, ReuseSource, Reuse, CreateSource, Create, ReuseScratch,
           CreateScratch
  <2>2. CASE ~(ReuseSource(i) \/ CreateSource(i) \/ ReuseScratch(i) \/ CreateScratch(i))
    BY <1>0, <1>2, <2>2
       DEF OneInstaller, TypeOK, Preparation, VolumeWaited, VolumeWaitFails, LookupHelper,
           LookupNone, Adopted, NotAdopted, ProbeReady, ProbeNotReady, ListHelpers, PurgeOne,
           PurgeFails, Purged, VolumesDetached, VolumesBroken
  <2> QED BY <2>1, <2>2
<1>3. ASSUME NEW i \in Installers, Sweeping(i) PROVE ImagesAlone'
  BY <1>0, <1>3
     DEF OneInstaller, TypeOK, Sweeping, SweepAddr, AddrSwept, SweepKey, KeysSwept,
         SweepGroup, SweepFails, SweepPoints, EndPoints
<1>4. ASSUME NEW i \in Installers, Building(i) PROVE ImagesAlone'
  BY <1>0, <1>4
     DEF OneInstaller, TypeOK, Building, CreateKey, EnsureGroup, CreateHelper,
         CreateHelperFails, Booted, BootFails, AssignAddress, Upload, StartImport,
         ImportWaited, StartNormalize, NormalizeWaited, ScriptStepFails, OutOfQuota,
         CreateImage, StartExport, ExportWaited, ExportFails, DropImage, Published
<1>5. ASSUME NEW i \in Installers, CleaningUp(i) PROVE ImagesAlone'
  BY <1>0, <1>5
     DEF OneInstaller, TypeOK, CleaningUp, DropHelper, DropSource, DropScratch, DropVolume,
         DropAddr, DropKey, DropGroup
<1>6. ASSUME NEW i \in Installers, Start(i) \/ CutOff(i) \/ Deadline(i) PROVE ImagesAlone'
  BY <1>0, <1>6 DEF OneInstaller, TypeOK, Start, CutOff, Abort, EnsureGroupFails, Deadline
<1>7. CASE Platform \/ PlatformFaults
  BY <1>0, <1>7
     DEF TypeOK, Platform, VolumeReady, ServerActive, ServerDeleted, ServerStep,
         HelperImports, HelperInstallsAgent, HelperNormalizes, ScriptStep, HelperExports,
         ImageReady, ImageAges, PlatformFaults, VolumeFails, ServerFails, ScriptFails,
         ExportScriptFails, ImageFails
<1>8. CASE UNCHANGED vars
  BY <1>8 DEF vars
<1> QED BY <1>1, <1>2, <1>3, <1>4, <1>5, <1>6, <1>7, <1>8 DEF Next, Run

\* Volumes: one of each purpose can be used, since a run looks before it creates.
VolumesAlone ==
    /\ \A v, w \in SourceIds : Usable(v) /\ Usable(w) => v = w
    /\ \A v, w \in ScratchIds : Usable(v) /\ Usable(w) => v = w

\* Only Create adds a usable volume, where none was usable.
LEMMA VolumesAloneNext ==
    ASSUME Inv, VolumesAlone, [Next]_vars PROVE VolumesAlone'
<1> USE VolumeAssumption DEF VolumesAlone, Usable, Volumes, volumes, project
<1>0. TypeOK
  BY DEF Inv
<1>1. CASE UNCHANGED volState
  BY <1>1
<1>2. ASSUME NEW i \in Installers, CreateSource(i) \/ CreateScratch(i) PROVE VolumesAlone'
  BY <1>0, <1>2 DEF TypeOK, CreateSource, CreateScratch, Create
<1>3. ASSUME NEW i \in Installers, DropSource(i) \/ DropScratch(i) PROVE VolumesAlone'
  BY <1>0, <1>3 DEF TypeOK, DropSource, DropScratch, DropVolume
<1>4. ASSUME NEW v \in Volumes, VolumeReady(v) \/ VolumeFails(v) PROVE VolumesAlone'
  BY <1>0, <1>4 DEF TypeOK, VolumeReady, VolumeFails
<1>5. ASSUME NEW i \in Installers, Run(i), ~CreateSource(i), ~CreateScratch(i),
             ~DropSource(i), ~DropScratch(i)
      PROVE  UNCHANGED volState
  BY <1>5
     DEF Run, Lookups, FindAvailable, FindCreating, FindNothing, DropStale, DropStaleFails,
         Monitored, WaitImageFails, Preparation, ReuseSource, ReuseScratch, VolumeWaited,
         VolumeWaitFails, LookupHelper, LookupNone, Adopted, NotAdopted, ProbeReady,
         ProbeNotReady, ListHelpers, PurgeOne, PurgeFails, Purged, VolumesDetached, VolumesBroken,
         Sweeping, SweepAddr, AddrSwept, SweepKey, KeysSwept, SweepGroup, SweepFails,
         Building, CreateKey, EnsureGroup, CreateHelper, CreateHelperFails, Booted, BootFails,
         AssignAddress, Upload, StartImport, ImportWaited, StartNormalize, NormalizeWaited,
         ScriptStepFails, OutOfQuota, CreateImage, StartExport, ExportWaited, ExportFails,
         DropImage, Published, CleaningUp, DropHelper, DropAddr, DropKey, DropGroup
<1>6. ASSUME NEW i \in Installers, Start(i) \/ CutOff(i) \/ Deadline(i) PROVE UNCHANGED volState
  BY <1>6 DEF Start, CutOff, Abort, EnsureGroupFails, Deadline
<1>7. ASSUME Platform \/ PlatformFaults, \A v \in Volumes : ~VolumeReady(v) /\ ~VolumeFails(v)
      PROVE  UNCHANGED volState
  BY <1>7
     DEF Platform, PlatformFaults, ServerActive, ServerDeleted, HelperImports,
         HelperInstallsAgent, HelperNormalizes, ScriptStep, HelperExports, ImageReady,
         ImageAges, ServerFails, ScriptFails, ExportScriptFails, ImageFails
<1>8. CASE UNCHANGED vars
  BY <1>8 DEF vars
<1> QED BY <1>1, <1>2, <1>3, <1>4, <1>5, <1>6, <1>7, <1>8 DEF Next

\* Access: what an earlier run left is swept before a key or an address is made.
AccessAlone ==
    /\ \A k, l \in keys : k = l
    /\ \A s, t \in ServerIds : addr[s] = "live" /\ addr[t] = "live" => s = t
    /\ \A i \in Installers : pc[i] \in {"sweepGroup", "detached", "key", "endGroup"} => keys = {}
    /\ \A i \in Installers, s \in ServerIds :
          pc[i] \in {"sweepKeys", "sweepGroup", "detached", "key", "group", "server",
                     "boot", "address", "endKeys", "endGroup"} => addr[s] # "live"

\* Only CreateKey and AssignAddress add access, after the sweep.
LEMMA AccessAloneNext ==
    ASSUME OneInstaller, Inv, AccessAlone, [Next]_vars PROVE AccessAlone'
<1> USE DEF AccessAlone, Goto, Return, Fail, project, access, locals
<1>0. TypeOK
  BY DEF Inv
<1>1. ASSUME NEW i \in Installers, Lookups(i) PROVE AccessAlone'
  BY <1>0, <1>1
     DEF OneInstaller, TypeOK, Lookups, FindAvailable, FindCreating, FindNothing, DropStale,
         DropStaleFails, Monitored, WaitImageFails, Images
<1>2. ASSUME NEW i \in Installers, Preparation(i) PROVE AccessAlone'
  BY <1>0, <1>2
     DEF OneInstaller, TypeOK, Preparation, ReuseSource, Reuse, CreateSource, Create,
         ReuseScratch, CreateScratch, VolumeWaited, VolumeWaitFails, LookupHelper, LookupNone,
         Adopted, NotAdopted, ProbeReady, ProbeNotReady, ListHelpers, PurgeOne, PurgeFails, Purged,
         VolumesDetached, VolumesBroken
<1>3. ASSUME NEW i \in Installers, Sweeping(i) PROVE AccessAlone'
  BY <1>0, <1>3
     DEF OneInstaller, TypeOK, Sweeping, SweepAddr, AddrSwept, SweepKey, KeysSwept,
         SweepGroup, SweepFails, SweepPoints, EndPoints
<1>4. ASSUME NEW i \in Installers, Building(i) PROVE AccessAlone'
  <2>1. CASE CreateKey(i) \/ AssignAddress(i)
    BY <1>0, <2>1 DEF OneInstaller, TypeOK, CreateKey, AssignAddress
  <2>2. CASE CreateHelper(i) \/ CreateHelperFails(i) \/ BootFails(i)
    BY <1>0, <2>2
       DEF OneInstaller, TypeOK, CreateHelper, CreateHelperFails, DropAccess, BootFails
  <2>3. CASE ~(CreateKey(i) \/ AssignAddress(i) \/ CreateHelper(i) \/ CreateHelperFails(i)
                \/ BootFails(i))
    BY <1>0, <1>4, <2>3
       DEF OneInstaller, TypeOK, Building, EnsureGroup, Booted, Upload, StartImport,
           ImportWaited, StartNormalize, NormalizeWaited, ScriptStepFails, OutOfQuota,
           CreateImage, StartExport, ExportWaited, ExportFails, DropImage, Published
  <2> QED BY <2>1, <2>2, <2>3
<1>5. ASSUME NEW i \in Installers, CleaningUp(i) PROVE AccessAlone'
  BY <1>0, <1>5
     DEF OneInstaller, TypeOK, CleaningUp, DropHelper, DropSource, DropScratch, DropVolume,
         DropAddr, DropKey, DropGroup
<1>6. ASSUME NEW i \in Installers, Start(i) \/ CutOff(i) \/ Deadline(i) PROVE AccessAlone'
  BY <1>0, <1>6 DEF OneInstaller, TypeOK, Start, CutOff, Abort, EnsureGroupFails, Deadline
<1>7. CASE Platform \/ PlatformFaults
  BY <1>0, <1>7
     DEF TypeOK, Platform, VolumeReady, ServerActive, ServerDeleted, ServerStep,
         HelperImports, HelperInstallsAgent, HelperNormalizes, ScriptStep, HelperExports,
         ImageReady, ImageAges, PlatformFaults, VolumeFails, ServerFails, ScriptFails,
         ExportScriptFails, ImageFails
<1>8. CASE UNCHANGED vars
  BY <1>8 DEF vars
<1> QED BY <1>1, <1>2, <1>3, <1>4, <1>5, <1>6, <1>7, <1>8 DEF Next, Run

\* Helpers: there is at most one, it holds the run's source volume and is up while
\* it is used; the group goes last, so after the sweep no helper is left.
UpPoints == {"probe", "address", "upload", "import", "importWait", "normalize", "normalizeWait",
             "createImage", "dropHelper"} \cup ExportPoints

HelpersAlone ==
    /\ GroupInUse => group
    /\ \A s, t \in ServerIds : Exists(s) /\ Exists(t) => s = t
    /\ \A i \in Installers :
        /\ pc[i] \in {"detached", "key", "group", "server"} => ~GroupInUse
        /\ pc[i] \in HelperPoints => \A s \in ServerIds : Exists(s) => s = helper[i]
        /\ pc[i] \in UpPoints => srvStatus[helper[i]] = "ACTIVE"
        /\ pc[i] \in HelperPoints \ {"adopt", "probe"} => srvSrc[helper[i]] = src[i]

\* Only CreateHelper adds a helper, after the group, which a helper needs, is swept.
LEMMA HelpersAloneNext ==
    ASSUME OneInstaller, Inv, HelpersAlone, [Next]_vars PROVE HelpersAlone'
<1> USE DEF HelpersAlone, GroupInUse, Exists, UpPoints, ExportPoints, HelperPoints, CleanupPoints,
            Goto, Return, Fail, project, servers, access, locals
<1>0. TypeOK /\ LocalsSet
  BY DEF Inv
<1>1. ASSUME NEW i \in Installers, Lookups(i) PROVE HelpersAlone'
  BY <1>0, <1>1
     DEF OneInstaller, TypeOK, Lookups, FindAvailable, FindCreating, FindNothing, DropStale,
         DropStaleFails, Monitored, WaitImageFails, Images
<1>2. ASSUME NEW i \in Installers, Preparation(i) PROVE HelpersAlone'
  <2>1. CASE ReuseSource(i) \/ CreateSource(i) \/ ReuseScratch(i) \/ CreateScratch(i)
    BY <1>0, <2>1
       DEF OneInstaller, TypeOK, ReuseSource, Reuse, CreateSource, Create, ReuseScratch,
           CreateScratch
  <2>2. CASE VolumeWaited(i) \/ VolumeWaitFails(i) \/ VolumesDetached(i) \/ VolumesBroken(i)
    BY <1>0, <2>2
       DEF OneInstaller, TypeOK, VolumeWaited, VolumeWaitFails, VolumesDetached, VolumesBroken
  <2>3. CASE LookupHelper(i) \/ LookupNone(i) \/ Adopted(i) \/ NotAdopted(i)
    BY <1>0, <2>3
       DEF OneInstaller, TypeOK, LookupHelper, LookupNone, Adopted, NotAdopted, Listed
  <2>4. CASE ProbeReady(i) \/ ProbeNotReady(i) \/ ListHelpers(i) \/ Purged(i)
    BY <1>0, <2>4
       DEF OneInstaller, TypeOK, ProbeReady, ProbePasses, ProbeNotReady, ListHelpers, Purged
  <2>5. CASE PurgeOne(i) \/ PurgeFails(i)
    BY <1>0, <2>5 DEF OneInstaller, TypeOK, PurgeOne, PurgeFails
  <2> QED BY <1>2, <2>1, <2>2, <2>3, <2>4, <2>5 DEF Preparation
<1>3. ASSUME NEW i \in Installers, Sweeping(i) PROVE HelpersAlone'
  BY <1>0, <1>3
     DEF OneInstaller, TypeOK, Sweeping, SweepAddr, AddrSwept, SweepKey, KeysSwept,
         SweepGroup, SweepFails, SweepPoints, EndPoints
<1>4. ASSUME NEW i \in Installers, Building(i) PROVE HelpersAlone'
  <2>1. CASE CreateHelper(i)
    BY <1>0, <2>1 DEF OneInstaller, TypeOK, CreateHelper
  <2>2. CASE CreateKey(i) \/ AssignAddress(i) \/ EnsureGroup(i) \/ CreateHelperFails(i)
                \/ BootFails(i)
    BY <1>0, <2>2
       DEF OneInstaller, TypeOK, CreateKey, AssignAddress, EnsureGroup, CreateHelperFails,
           DropAccess, BootFails
  <2>3. CASE ~(CreateKey(i) \/ AssignAddress(i) \/ CreateHelper(i) \/ CreateHelperFails(i)
                \/ BootFails(i) \/ EnsureGroup(i))
    BY <1>0, <1>4, <2>3
       DEF OneInstaller, TypeOK, Building, Booted, Upload, StartImport, ImportWaited,
           StartNormalize, NormalizeWaited, ScriptStepFails, OutOfQuota, CreateImage,
           StartExport, ExportWaited, ExportFails, DropImage, Published
  <2> QED BY <2>1, <2>2, <2>3
<1>5. ASSUME NEW i \in Installers, CleaningUp(i) PROVE HelpersAlone'
  <2>1. CASE DropHelper(i)
    BY <1>0, <2>1 DEF OneInstaller, TypeOK, DropHelper, LocalsSet
  <2>2. CASE ~DropHelper(i)
    BY <1>0, <1>5, <2>2
       DEF OneInstaller, TypeOK, CleaningUp, DropSource, DropScratch, DropVolume, DropAddr,
           DropKey, DropGroup
  <2> QED BY <2>1, <2>2
<1>6. ASSUME NEW i \in Installers, Start(i) \/ CutOff(i) \/ Deadline(i) PROVE HelpersAlone'
  BY <1>0, <1>6 DEF OneInstaller, TypeOK, Start, CutOff, Abort, EnsureGroupFails, Deadline
<1>7. ASSUME NEW s \in ServerIds, ServerActive(s) \/ ServerDeleted(s) \/ ServerFails(s)
      PROVE HelpersAlone'
  BY SMTT(30), <1>0, <1>7 DEF TypeOK, ServerActive, ServerDeleted, ServerFails, ServerStep
<1>8. CASE UNCHANGED <<srvStatus, srvSrc, group, pc, helper, src>>
  BY <1>8
<1>9. ASSUME Platform \/ PlatformFaults,
             \A s \in ServerIds : ~(ServerActive(s) \/ ServerDeleted(s) \/ ServerFails(s))
      PROVE  UNCHANGED <<srvStatus, srvSrc, group, pc, helper, src>>
  BY <1>9
     DEF Platform, VolumeReady, HelperImports, HelperInstallsAgent, HelperNormalizes,
         ScriptStep, HelperExports, ImageReady, ImageAges, PlatformFaults, VolumeFails,
         ScriptFails, ExportScriptFails, ImageFails
<1>10. CASE UNCHANGED vars
  BY <1>8, <1>10 DEF vars
<1> QED BY <1>1, <1>2, <1>3, <1>4, <1>5, <1>6, <1>7, <1>8, <1>9, <1>10 DEF Next, Run

\* Faults leave marks, and no step forgets one.
LEMMA MarksStay == ASSUME [Next]_vars PROVE faults.marks \subseteq faults'.marks
<1>1. ASSUME NEW k, NEW ms, MarkingFault(k, ms) PROVE faults.marks \subseteq faults'.marks
  BY <1>1 DEF MarkingFault
<1>2. CASE UNCHANGED faults
  BY <1>2
<1>3. ASSUME NEW i \in Installers, Start(i) \/ CutOff(i) \/ Deadline(i)
      PROVE  faults.marks \subseteq faults'.marks
  BY <1>1, <1>2, <1>3 DEF Start, CutOff, Abort, EnsureGroupFails, Deadline, Fault
<1>4. ASSUME NEW i \in Installers, Run(i)
      PROVE  faults.marks \subseteq faults'.marks
  <2>1. CASE Lookups(i)
    BY <1>2, <2>1
       DEF Lookups, FindAvailable, FindCreating, FindNothing, DropStale, DropStaleFails,
           Monitored, WaitImageFails
  <2>2. CASE Preparation(i)
    BY <1>1, <1>2, <2>2
       DEF Preparation, ReuseSource, CreateSource, ReuseScratch, CreateScratch, VolumeWaited,
           VolumeWaitFails, LookupHelper, LookupNone, Adopted, NotAdopted, ProbeReady,
           ProbeNotReady, ListHelpers, PurgeOne, PurgeFails, Purged, VolumesDetached,
           VolumesBroken, Fault
  <2>3. CASE Sweeping(i)
    BY <1>1, <1>2, <2>3
       DEF Sweeping, SweepAddr, AddrSwept, SweepKey, KeysSwept, SweepGroup, SweepFails
  <2>4. CASE Building(i)
    BY <1>1, <1>2, <2>4
       DEF Building, CreateKey, EnsureGroup, CreateHelper, CreateHelperFails, Booted,
           BootFails, AssignAddress, Upload, StartImport, ImportWaited, StartNormalize,
           NormalizeWaited, ScriptStepFails, OutOfQuota, CreateImage, StartExport,
           ExportWaited, ExportFails, DropImage, Published, Fault
  <2>5. CASE CleaningUp(i)
    BY <1>1, <1>2, <2>5
       DEF CleaningUp, DropHelper, DropSource, DropScratch, DropVolume, DropAddr, DropKey,
           DropGroup
  <2> QED BY <1>4, <2>1, <2>2, <2>3, <2>4, <2>5 DEF Run
<1>5. CASE Platform
  BY <1>2, <1>5
     DEF Platform, VolumeReady, ServerActive, ServerDeleted, HelperImports,
         HelperInstallsAgent, HelperNormalizes, ScriptStep, HelperExports, ImageReady,
         ImageAges
<1>6. CASE PlatformFaults
  BY <1>1, <1>6
     DEF PlatformFaults, VolumeFails, ServerFails, ScriptFails, ExportScriptFails, ImageFails,
         Fault
<1>7. CASE UNCHANGED vars
  BY <1>2, <1>7 DEF vars
<1> QED BY <1>3, <1>4, <1>5, <1>6, <1>7 DEF Next

\* Scripts, while none was cut off: a running one is waited for, the disk is as
\* far as the script says, and otherwise at rest; what is exported is normalized.
Settled == {"blank", "imported", "normalized"}
Running == {"import", "normalize", "agent"}
ScriptsInOrder ==
    /\ \A m \in ImageIds : /\ exp[m] # "none" => imgDisk[m] = "normalized"
                           /\ imgStatus[m] = "AVAILABLE" => exp[m] # "none"
    /\ \A s \in ServerIds : job[s] \in Running =>
          \E i \in Installers : pc[i] \in ScriptPoints /\ helper[i] = s
    /\ \A i \in Installers, v \in SourceIds :
          pc[i] \notin ScriptPoints \/ v # src[i] => disk[v] \in Settled
    /\ \A i \in Installers :
        /\ pc[i] = "importWait" =>
             \/ job[helper[i]] = "import" /\ disk[src[i]] \in {"torn", "tornMarked"}
             \/ job[helper[i]] = "imported" /\ disk[src[i]] = "imported"
        /\ pc[i] = "normalize" => disk[src[i]] = "imported"
        /\ pc[i] = "normalizeWait" =>
             \/ job[helper[i]] = "normalize" /\ disk[src[i]] = "imported"
             \/ job[helper[i]] \in {"agent", "normalized"} /\ disk[src[i]] = job[helper[i]]
        /\ pc[i] \in {"createImage", "export"} => disk[src[i]] = "normalized"

ScriptsWhole == "script" \notin faults.marks => ScriptsInOrder

\* A script changes the disk of the helper that its run waits for.
LEMMA ScriptsWholeNext ==
    ASSUME OneInstaller, Inv, HelpersAlone, ScriptsWhole, [Next]_vars PROVE ScriptsWhole'
<1> SUFFICES ASSUME "script" \notin faults'.marks PROVE ScriptsInOrder'
  BY DEF ScriptsWhole
<1>0. "script" \notin faults.marks /\ ScriptsInOrder
  BY MarksStay DEF ScriptsWhole
<1> USE DEF ScriptsInOrder, Settled, Running, ScriptPoints, Goto, Return, Fail,
            project, platform, volumes, scripts, locals
<1>types. TypeOK /\ LocalsSet
  BY DEF Inv
<1>1. ASSUME NEW i \in Installers, Lookups(i) PROVE ScriptsInOrder'
  BY <1>0, <1>types, <1>1
     DEF OneInstaller, TypeOK, Lookups, FindAvailable, FindCreating, FindNothing, DropStale,
         DropStaleFails, Monitored, WaitImageFails, Images
<1>2. ASSUME NEW i \in Installers, Preparation(i) PROVE ScriptsInOrder'
  <2>1. CASE ReuseSource(i) \/ CreateSource(i) \/ ReuseScratch(i) \/ CreateScratch(i)
    BY <1>0, <1>types, <2>1
       DEF OneInstaller, TypeOK, ReuseSource, Reuse, CreateSource, Create, ReuseScratch,
           CreateScratch
  <2>2. CASE VolumeWaited(i) \/ VolumeWaitFails(i) \/ VolumesDetached(i) \/ VolumesBroken(i)
    BY <1>0, <1>types, <2>2
       DEF OneInstaller, TypeOK, VolumeWaited, VolumeWaitFails, VolumesDetached, VolumesBroken
  <2>3. CASE LookupHelper(i) \/ LookupNone(i) \/ Adopted(i) \/ NotAdopted(i)
    BY <1>0, <1>types, <2>3
       DEF OneInstaller, TypeOK, LookupHelper, LookupNone, Adopted, NotAdopted, Listed
  <2>4. CASE ProbeReady(i) \/ ProbeNotReady(i) \/ ListHelpers(i) \/ Purged(i)
    BY <1>0, <1>types, <2>4
       DEF OneInstaller, TypeOK, LocalsSet, SourcePoints, HelperPoints, ProbeReady,
           ProbePasses, Marked, ProbeNotReady, ListHelpers, Purged
  <2>5. CASE PurgeOne(i) \/ PurgeFails(i)
    BY <1>0, <1>types, <2>5 DEF OneInstaller, TypeOK, PurgeOne, PurgeFails
  <2> QED BY <1>2, <2>1, <2>2, <2>3, <2>4, <2>5 DEF Preparation
<1>3. ASSUME NEW i \in Installers, Sweeping(i) PROVE ScriptsInOrder'
  BY <1>0, <1>types, <1>3
     DEF OneInstaller, TypeOK, Sweeping, SweepAddr, AddrSwept, SweepKey, KeysSwept,
         SweepGroup, SweepFails, SweepPoints, EndPoints
<1>4. ASSUME NEW i \in Installers, Building(i) PROVE ScriptsInOrder'
  <2>0. /\ pc[i] \in HelperPoints => helper[i] \in ServerIds
        /\ pc[i] \in SourcePoints => src[i] \in SourceIds
        /\ pc[i] \in ImagePoints => img[i] \in ImageIds
        /\ pc[i] \in HelperPoints \ {"adopt", "probe"} => srvSrc[helper[i]] = src[i]
        /\ pc[i] \in UpPoints => srvStatus[helper[i]] = "ACTIVE"
    BY <1>types DEF TypeOK, LocalsSet, HelpersAlone
  <2> USE DEF HelperPoints, SourcePoints, ImagePoints, UpPoints, ExportPoints
  <2>1. CASE CreateHelper(i) \/ CreateKey(i) \/ AssignAddress(i) \/ EnsureGroup(i)
               \/ CreateHelperFails(i) \/ BootFails(i) \/ Booted(i) \/ Upload(i)
    BY <1>0, <1>types, <2>1
       DEF OneInstaller, TypeOK, CreateHelper, CreateKey, AssignAddress, EnsureGroup,
           CreateHelperFails, DropAccess, BootFails, Booted, Upload
  <2>2. CASE StartImport(i)
    BY <1>0, <1>types, <2>0, <2>2 DEF OneInstaller, TypeOK, StartImport, Marked
  <2>3. CASE ImportWaited(i) \/ NormalizeWaited(i)
    BY <1>0, <1>types, <2>0, <2>3 DEF OneInstaller, TypeOK, ImportWaited, NormalizeWaited
  <2>4. CASE StartNormalize(i)
    BY <1>0, <1>types, <2>0, <2>4 DEF OneInstaller, TypeOK, StartNormalize
  <2>5. CASE ScriptStepFails(i) \/ OutOfQuota(i) \/ CreateImage(i)
    BY <1>0, <1>types, <2>0, <2>5
       DEF OneInstaller, TypeOK, ScriptStepFails, OutOfQuota, CreateImage
  <2>6. CASE StartExport(i)
    BY <1>0, <1>types, <2>0, <2>6 DEF OneInstaller, TypeOK, StartExport
  <2>7. CASE ExportWaited(i) \/ ExportFails(i) \/ DropImage(i) \/ Published(i)
    BY <1>0, <1>types, <2>0, <2>7
       DEF OneInstaller, TypeOK, ExportWaited, ExportFails, DropImage, Published
  <2> QED BY <1>4, <2>1, <2>2, <2>3, <2>4, <2>5, <2>6, <2>7 DEF Building
<1>5. ASSUME NEW i \in Installers, CleaningUp(i) PROVE ScriptsInOrder'
  BY <1>0, <1>types, <1>5
     DEF OneInstaller, TypeOK, CleaningUp, DropHelper, DropSource, DropScratch, DropVolume,
         DropAddr, DropKey, DropGroup
<1>6. ASSUME NEW i \in Installers, Start(i) \/ CutOff(i) \/ Deadline(i) PROVE ScriptsInOrder'
  BY <1>0, <1>types, <1>6
     DEF OneInstaller, TypeOK, Start, CutOff, Abort, MarkingFault, AbortMarks,
         EnsureGroupFails, Deadline, Hopeless
<1>7. ASSUME NEW s \in ServerIds,
             HelperImports(s) \/ HelperInstallsAgent(s) \/ HelperNormalizes(s)
      PROVE ScriptsInOrder'
  <2>1. PICK i \in Installers : pc[i] \in ScriptPoints /\ helper[i] = s
    BY <1>0, <1>7 DEF HelperImports, HelperInstallsAgent, HelperNormalizes, ScriptStep
  <2>2. srvSrc[s] = src[i] /\ src[i] \in SourceIds
    BY <1>types, <2>1 DEF TypeOK, LocalsSet, HelpersAlone, SourcePoints, HelperPoints
  <2> QED BY <1>0, <1>types, <1>7, <2>1, <2>2
     DEF OneInstaller, TypeOK, HelperImports, HelperInstallsAgent, HelperNormalizes,
         ScriptStep
<1>8. ASSUME NEW s \in ServerIds, ScriptFails(s) PROVE ScriptsInOrder'
  BY <1>8 DEF ScriptFails, MarkingFault
<1>9. ASSUME NEW m \in ImageIds, HelperExports(m) \/ ExportScriptFails(m) PROVE ScriptsInOrder'
  BY <1>0, <1>types, <1>9 DEF TypeOK, HelperExports, ExportScriptFails
<1>10. CASE UNCHANGED <<imgStatus, imgDisk, disk, job, exp, pc, helper, src>>
  BY <1>0, <1>10
<1>11. ASSUME Platform \/ PlatformFaults,
              \A s \in ServerIds : ~(HelperImports(s) \/ HelperInstallsAgent(s)
                                       \/ HelperNormalizes(s) \/ ScriptFails(s)),
              \A m \in ImageIds : ~(HelperExports(m) \/ ExportScriptFails(m)
                                      \/ ImageReady(m) \/ ImageFails(m))
      PROVE  UNCHANGED <<imgStatus, imgDisk, disk, job, exp, pc, helper, src>>
  BY <1>11
     DEF Platform, VolumeReady, ServerActive, ServerDeleted, ImageReady, ImageAges,
         PlatformFaults, VolumeFails, ServerFails, ImageFails
<1>13. ASSUME NEW m \in ImageIds, ImageReady(m) \/ ImageFails(m) PROVE ScriptsInOrder'
  BY <1>0, <1>types, <1>13 DEF TypeOK, ImageReady, ImageFails
<1>12. CASE UNCHANGED vars
  BY <1>10, <1>12 DEF vars
<1> QED BY <1>1, <1>2, <1>3, <1>4, <1>5, <1>6, <1>7, <1>8, <1>9, <1>10, <1>11, <1>12, <1>13
   DEF Next, Run

\* Leftovers, while nothing marked was left: the volumes are held until the
\* clean-up comes to them, each of its steps is done, and an image that is there
\* before a run decides was followed by a whole clean-up.
SourceHeld == (SourcePoints \ CleanupPoints) \cup {"dropHelper", "dropSource"}
ScratchHeld == (SourceHeld \ {"sourceWait", "scratch"}) \cup {"dropScratch"}

CleanUpInOrder ==
    /\ \A v \in Volumes : volState[v] # "error"
    /\ \A i \in Installers :
        /\ pc[i] \in SourceHeld => Usable(src[i])
        /\ pc[i] \in ScratchHeld => scr[i] # NoId /\ Usable(scr[i])
        /\ pc[i] \in CleanupPoints \ SourceHeld =>
              ~GroupInUse /\ \A v \in SourceIds : ~Usable(v)
        /\ pc[i] \in CleanupPoints \ ScratchHeld => \A v \in ScratchIds : ~Usable(v)
        /\ pc[i] = "dropSource" => \A s \in ServerIds : Exists(s) => srvStatus[s] = "DELETING"
        /\ pc[i] \in CleanupPoints \cup {"idle", "find", "done"} => Images("CREATING") = {}
        /\ pc[i] \notin {"monitor", "stale"}
        /\ pc[i] = "done" => ~Leftovers
        /\ pc[i] \in {"idle", "find"} /\ Images("AVAILABLE") # {} => ~Leftovers

NothingLeft == "resource" \notin faults.marks => CleanUpInOrder

\* A run that ends without an image may leave anything but a broken volume.
LEMMA EndsInOrder ==
    ASSUME OneInstaller, CleanUpInOrder, NEW i \in Installers, pc'[i] = "idle",
           UNCHANGED volState,
           \A m \in ImageIds : imgStatus'[m] \notin {"CREATING", "AVAILABLE"}
    PROVE  CleanUpInOrder'
  BY DEF OneInstaller, CleanUpInOrder, Images, CleanupPoints, SourceHeld, ScratchHeld,
         SourcePoints, HelperPoints

\* Each step of the clean-up ends with what it removes gone, or leaves a mark.
LEMMA NothingLeftNext ==
    ASSUME OneInstaller, Inv, ImagesAlone, VolumesAlone, AccessAlone, HelpersAlone,
           NothingLeft, [Next]_vars
    PROVE  NothingLeft'
<1> SUFFICES ASSUME "resource" \notin faults'.marks PROVE CleanUpInOrder'
  BY DEF NothingLeft
<1>0. "resource" \notin faults.marks /\ CleanUpInOrder
  BY MarksStay DEF NothingLeft
<1> USE VolumeAssumption
        DEF CleanUpInOrder, SourceHeld, ScratchHeld, SourcePoints, HelperPoints, ExportPoints,
            CleanupPoints, ScriptPoints, Usable, GroupInUse, Exists, Images, Leftovers,
            Listed, Volumes,
            Goto, Return, Fail, project, platform, volumes, servers, access, locals
<1>types. TypeOK /\ LocalsSet
  BY DEF Inv
<1>1. ASSUME NEW i \in Installers, Lookups(i) PROVE CleanUpInOrder'
  BY <1>0, <1>types, <1>1
     DEF OneInstaller, TypeOK, Lookups, FindAvailable, FindCreating, FindNothing, DropStale,
         DropStaleFails, Monitored, WaitImageFails, ImagesAlone, Live, ImagePoints
<1>2. ASSUME NEW i \in Installers, Preparation(i) PROVE CleanUpInOrder'
  <2>1. CASE ReuseSource(i) \/ CreateSource(i)
    BY <1>0, <1>types, <2>1 DEF OneInstaller, TypeOK, ReuseSource, Reuse, CreateSource, Create
  <2>6. CASE ReuseScratch(i) \/ CreateScratch(i)
    BY <1>0, <1>types, <2>6, IdAssumption
       DEF OneInstaller, TypeOK, LocalsSet, Reuse, Create, ReuseScratch, CreateScratch
  <2>2. CASE VolumeWaited(i) \/ VolumeWaitFails(i) \/ VolumesDetached(i) \/ VolumesBroken(i)
    BY <1>0, <1>types, <2>2
       DEF OneInstaller, TypeOK, VolumeWaited, VolumeWaitFails, VolumesDetached,
           VolumesBroken, ImagesAlone, Live, BeforeImage, ActivePoints
  <2>3. CASE LookupHelper(i) \/ LookupNone(i) \/ Adopted(i) \/ NotAdopted(i)
    BY <1>0, <1>types, <2>3
       DEF OneInstaller, TypeOK, LookupHelper, LookupNone, Adopted, NotAdopted
  <2>4. CASE ProbeReady(i) \/ ProbeNotReady(i) \/ ListHelpers(i) \/ Purged(i)
    BY <1>0, <1>types, <2>4
       DEF OneInstaller, TypeOK, ProbeReady, ProbeNotReady, ListHelpers, Purged
  <2>5. CASE PurgeOne(i)
    BY <1>0, <1>types, <2>5 DEF OneInstaller, TypeOK, PurgeOne
  <2>7. CASE PurgeFails(i)
    BY <1>0, <1>types, <2>7
       DEF OneInstaller, TypeOK, PurgeFails, ImagesAlone, Live, BeforeImage, ActivePoints
  <2> QED BY <1>2, <2>1, <2>6, <2>2, <2>3, <2>4, <2>5, <2>7 DEF Preparation
<1>3. ASSUME NEW i \in Installers, Sweeping(i) PROVE CleanUpInOrder'
  <2>1. CASE SweepAddr(i) \/ AddrSwept(i) \/ SweepKey(i) \/ KeysSwept(i)
    BY <1>0, <1>types, <2>1 DEF OneInstaller, TypeOK, SweepAddr, AddrSwept, SweepKey, KeysSwept
  <2>2. CASE SweepGroup(i)
    BY SMTT(30), <1>0, <1>types, <2>2
       DEF OneInstaller, TypeOK, SweepGroup, AccessAlone, HelpersAlone
  <2>3. CASE SweepFails(i)
    <3>1. pc[i] = "sweepGroup"
      BY <1>0, <1>types, <2>3
         DEF OneInstaller, SweepFails, SweepPoints, EndPoints, MarkingFault
    <3>2. \A m \in ImageIds : imgStatus'[m] \notin {"CREATING", "AVAILABLE"}
      BY <2>3, <3>1 DEF SweepFails, ImagesAlone, Live, BeforeImage, ActivePoints
    <3>3. pc'[i] = "idle" /\ UNCHANGED volState
      BY <1>types, <2>3, <3>1 DEF TypeOK, SweepFails, SweepPoints
    <3> QED BY <1>0, <3>2, <3>3, EndsInOrder
  <2> QED BY <1>3, <2>1, <2>2, <2>3 DEF Sweeping
<1>4. ASSUME NEW i \in Installers, Building(i) PROVE CleanUpInOrder'
  <2>1. CASE CreateHelper(i) \/ CreateKey(i) \/ AssignAddress(i) \/ EnsureGroup(i)
    BY <1>0, <1>types, <2>1
       DEF OneInstaller, TypeOK, CreateHelper, CreateKey, AssignAddress, EnsureGroup
  <2>2. CASE CreateHelperFails(i) \/ BootFails(i) \/ ScriptStepFails(i) \/ OutOfQuota(i)
    <3>1. pc[i] \in BeforeImage /\ UNCHANGED <<imgStatus, volState>> /\ pc'[i] = "idle"
      BY <1>types, <2>2
         DEF TypeOK, CreateHelperFails, BootFails, ScriptStepFails, OutOfQuota, BeforeImage,
             ActivePoints
    <3>2. \A m \in ImageIds : imgStatus'[m] \notin {"CREATING", "AVAILABLE"}
      BY <3>1 DEF ImagesAlone, Live
    <3> QED BY <1>0, <3>1, <3>2, EndsInOrder
  <2>3. CASE Booted(i) \/ Upload(i) \/ StartImport(i) \/ ImportWaited(i) \/ StartNormalize(i)
              \/ NormalizeWaited(i) \/ StartExport(i) \/ ExportWaited(i) \/ ExportFails(i)
    BY <1>0, <1>types, <2>3
       DEF OneInstaller, TypeOK, Booted, Upload, StartImport, ImportWaited, StartNormalize,
           NormalizeWaited, StartExport, ExportWaited, ExportFails
  <2>4. CASE CreateImage(i)
    BY <1>0, <1>types, <2>4 DEF OneInstaller, TypeOK, CreateImage
  <2>5. CASE DropImage(i)
    <3>1. pc'[i] = "idle" /\ UNCHANGED volState
      BY <1>types, <2>5 DEF TypeOK, DropImage
    <3>2. \A m \in ImageIds : imgStatus'[m] \notin {"CREATING", "AVAILABLE"}
      BY <1>types, <2>5 DEF TypeOK, DropImage, ImagesAlone, Live, ImagePoints
    <3> QED BY <1>0, <3>1, <3>2, EndsInOrder
  <2>6. CASE Published(i)
    <3>1. Images("CREATING") = {}
      BY <1>types, <2>6 DEF TypeOK, Published, ImagesAlone, Live, ImagePoints
    <3> QED BY <1>0, <1>types, <2>6, <3>1 DEF OneInstaller, TypeOK, LocalsSet, Published
  <2> QED BY <1>4, <2>1, <2>2, <2>3, <2>4, <2>5, <2>6 DEF Building
<1>5. ASSUME NEW i \in Installers, CleaningUp(i) PROVE CleanUpInOrder'
  <2>0. ~MarkingFault("warning", {"resource"})
    BY DEF MarkingFault
  <2>1. CASE DropHelper(i)
    <3>1. /\ pc[i] = "dropHelper" /\ pc' = [pc EXCEPT ![i] = "dropSource"]
          /\ helper[i] \in ServerIds
          /\ \A s \in ServerIds : Exists(s) => s = helper[i]
      BY <1>types, <2>1 DEF TypeOK, LocalsSet, DropHelper, HelpersAlone
    <3>2. \/ ~Exists(helper[i]) /\ UNCHANGED srvStatus
          \/ srvStatus' = [srvStatus EXCEPT ![helper[i]] = "DELETING"]
      BY <2>0, <2>1 DEF DropHelper
    <3>3. \A s \in ServerIds : srvStatus'[s] \in {"unused", "DELETED", "DELETING"}
      BY <1>types, <3>1, <3>2 DEF TypeOK
    <3>4. UNCHANGED <<imgStatus, volState, src, scr>>
      BY <2>1 DEF DropHelper
    <3> QED BY <1>0, <1>types, <3>1, <3>3, <3>4 DEF OneInstaller, TypeOK
  <2>2. CASE DropSource(i)
    <3>0. /\ pc[i] = "dropSource" /\ pc' = [pc EXCEPT ![i] = "dropScratch"]
          /\ src[i] \in SourceIds /\ Usable(src[i])
          /\ srvSrc[helper[i]] = src[i]
      BY SMTT(30), <1>0, <1>types, <2>2 DEF TypeOK, LocalsSet, DropSource, DropVolume, HelpersAlone
    <3>1. Available(src[i]) /\ volState' = [volState EXCEPT ![src[i]] = "deleted"]
      BY <2>0, <2>2, <3>0 DEF DropSource, DropVolume
    <3>2. ~GroupInUse
      BY <3>0, <3>1 DEF HelpersAlone, Available, Attached, Holds
    <3>3. \A v \in SourceIds : volState'[v] \notin {"creating", "ready"}
      BY <1>types, <3>0, <3>1 DEF TypeOK, VolumesAlone
    <3>4. /\ \A v \in ScratchIds : volState'[v] = volState[v]
          /\ \A v \in Volumes : volState'[v] # "error"
          /\ UNCHANGED <<imgStatus, srvStatus, scr>>
      BY <1>0, <1>types, <2>2, <3>0, <3>1 DEF TypeOK, DropSource, DropVolume
    <3> QED BY <1>0, <1>types, <3>0, <3>2, <3>3, <3>4 DEF OneInstaller, TypeOK
  <2>3. CASE DropScratch(i)
    BY <1>0, <1>types, <2>3
       DEF OneInstaller, TypeOK, DropScratch, DropVolume, MarkingFault, VolumesAlone,
           Available
  <2>4. CASE DropAddr(i) \/ DropKey(i) \/ DropGroup(i)
    BY <1>0, <1>types, <2>4 DEF OneInstaller, TypeOK, DropAddr, DropKey, DropGroup
  <2> QED BY <1>5, <2>1, <2>2, <2>3, <2>4 DEF CleaningUp
<1>6. ASSUME NEW i \in Installers, Start(i) PROVE CleanUpInOrder'
  BY <1>0, <1>types, <1>6 DEF OneInstaller, TypeOK, Start
<1>13. ASSUME NEW i \in Installers, CutOff(i) PROVE CleanUpInOrder'
  BY <1>0, <1>types, <1>13
     DEF OneInstaller, TypeOK, CutOff, Abort, MarkingFault, AbortMarks, EnsureGroupFails,
         ImagesAlone, Live, BeforeImage, ActivePoints
<1>14. ASSUME NEW i \in Installers, Deadline(i) PROVE CleanUpInOrder'
  BY <1>0, <1>types, <1>14
     DEF OneInstaller, TypeOK, Deadline, Hopeless, AddrAttached, Waiting, Holds, ImagesAlone,
         Live, BeforeImage, ActivePoints
<1>7. ASSUME NEW s \in ServerIds, ServerActive(s) \/ ServerDeleted(s) \/ ServerFails(s)
      PROVE CleanUpInOrder'
  BY <1>0, <1>types, <1>7 DEF TypeOK, ServerActive, ServerDeleted, ServerFails, ServerStep
<1>8. ASSUME NEW v \in Volumes, VolumeReady(v) \/ VolumeFails(v)
      PROVE CleanUpInOrder'
  <2>1. volState[v] = "creating" /\ volState' = [volState EXCEPT ![v] = "ready"]
    BY <1>8 DEF VolumeReady, VolumeFails, MarkingFault
  <2>2. UNCHANGED <<imgStatus, srvStatus, addr, keys, group, pc, src, scr>>
    BY <1>8 DEF VolumeReady, VolumeFails
  <2>3. \A w \in Volumes : /\ volState'[w] # "error"
                           /\ volState'[w] \in {"creating", "ready"}
                                <=> volState[w] \in {"creating", "ready"}
    BY <1>0, <1>types, <2>1 DEF TypeOK
  <2>4. \A i \in Installers : pc[i] \in SourceHeld => src[i] \in SourceIds
    BY <1>types DEF TypeOK, LocalsSet
  <2>5. \A i \in Installers : pc[i] \in ScratchHeld => scr[i] \in ScratchIds
    BY <1>0, <1>types DEF TypeOK
  <2> QED BY <1>0, <2>2, <2>3, <2>4, <2>5
<1>9. ASSUME NEW m \in ImageIds, ImageReady(m) \/ ImageFails(m)
      PROVE CleanUpInOrder'
  BY <1>0, <1>types, <1>9
     DEF TypeOK, ImageReady, ImageFails, ImagesAlone, Live, BeforeImage, ActivePoints
<1>10. CASE UNCHANGED <<imgStatus, volState, srvStatus, addr, keys, group, pc, src, scr>>
  BY <1>0, <1>10
<1>11. ASSUME Platform \/ PlatformFaults,
              \A s \in ServerIds : ~(ServerActive(s) \/ ServerDeleted(s) \/ ServerFails(s)),
              \A v \in Volumes : ~(VolumeReady(v) \/ VolumeFails(v)),
              \A m \in ImageIds : ~(ImageReady(m) \/ ImageFails(m))
      PROVE  UNCHANGED <<imgStatus, volState, srvStatus, addr, keys, group, pc, src, scr>>
  BY <1>11
     DEF Platform, PlatformFaults, HelperImports, HelperInstallsAgent, HelperNormalizes,
         ScriptStep, ScriptFails, HelperExports, ExportScriptFails, ImageAges
<1>12. CASE UNCHANGED vars
  BY <1>10, <1>12 DEF vars
<1> QED BY <1>1, <1>2, <1>3, <1>4, <1>5, <1>6, <1>13, <1>14, <1>7, <1>8, <1>9, <1>10, <1>11, <1>12
   DEF Next, Run

\* All of it.
Alone == /\ ImagesAlone /\ VolumesAlone /\ AccessAlone /\ HelpersAlone
         /\ ScriptsWhole /\ NothingLeft

\* An empty project.
LEMMA InitAlone == Init => Alone
<1> SUFFICES ASSUME Init PROVE Alone
  OBVIOUS
<1> USE DEF Init
<1>1. ImagesAlone
  BY DEF ImagesAlone, Live
<1>2. VolumesAlone
  BY DEF VolumesAlone, Usable, Volumes
<1>3. AccessAlone
  BY DEF AccessAlone
<1>4. HelpersAlone
  BY DEF HelpersAlone, GroupInUse, Exists, HelperPoints, UpPoints, ExportPoints, CleanupPoints
<1>5. ScriptsWhole
  BY DEF ScriptsWhole, ScriptsInOrder, Settled, Running, ScriptPoints
<1>6. NothingLeft
  BY DEF NothingLeft, CleanUpInOrder, SourceHeld, ScratchHeld, SourcePoints, HelperPoints,
         CleanupPoints, Images, Volumes
<1> QED BY <1>1, <1>2, <1>3, <1>4, <1>5, <1>6 DEF Alone

(***************************************************************************)
(* With one installer, whatever is cut off, fails and is rerun, what is in *)
(* the project is what the point the run has come to allows.               *)
(***************************************************************************)
THEOREM SoloInvariant == ASSUME OneInstaller PROVE Spec => []Alone
<1>1. Inv /\ Alone /\ [Next]_vars => Alone'
  BY ImagesAloneNext, VolumesAloneNext, AccessAloneNext, HelpersAloneNext,
     ScriptsWholeNext, NothingLeftNext
     DEF Alone
<1> QED BY <1>1, InitAlone, Invariance, PTL DEF Spec

\* A set whose members are all equal has at most one.
LEMMA AtMostOne ==
    ASSUME NEW S, \A a, b \in S : a = b
    PROVE  Cardinality(S) <= 1
<1>1. CASE S = {}
  BY <1>1, FS_EmptySet
<1>2. CASE S # {}
  <2>1. PICK a \in S : TRUE
    BY <1>2
  <2>2. S = {a}
    BY <2>1
  <2> QED BY <2>2, FS_Singleton
<1> QED BY <1>1, <1>2

(***************************************************************************)
(* A stale or finished import is found by findImage before another is made *)
(* (stackit.go): reruns of one installer never have two imports of the OVA.*)
(***************************************************************************)
THEOREM OneImport == ASSUME OneInstaller PROVE Spec => []OneLiveImage
<1>1. Alone => OneLiveImage
  BY AtMostOne DEF Alone, ImagesAlone, Live, Images, OneLiveImage
<1> QED BY <1>1, SoloInvariant, PTL

(***************************************************************************)
(* findNormalizationVolume finds what an earlier run created, also while it*)
(* is created: there is never a second source or scratch volume to pay for.*)
(***************************************************************************)
THEOREM OneVolumeEach == ASSUME OneInstaller PROVE Spec => []OneWorkVolume
<1>1. Alone => OneWorkVolume
  BY AtMostOne DEF Alone, VolumesAlone, OneWorkVolume
<1> QED BY <1>1, SoloInvariant, PTL

(***************************************************************************)
(* cleanupStaleHelperAccess comes before each new key and address, so one  *)
(* installer has one of each, however often it is cut off.                 *)
(***************************************************************************)
THEOREM AccessIsSingle == ASSUME OneInstaller PROVE Spec => []AccessDoesNotPile
<1>1. Alone => AccessDoesNotPile
  BY AtMostOne DEF Alone, AccessAlone, AccessDoesNotPile
<1> QED BY <1>1, SoloInvariant, PTL

(***************************************************************************)
(* The probe sees the agent's unit only, and yet what reruns publish is wholly*)
(* normalized, unless an import or normalize script was cut off or failed. *)
(***************************************************************************)
THEOREM RerunsAreComplete == ASSUME OneInstaller PROVE Spec => []RerunIsComplete
<1>1. Alone => RerunIsComplete
  BY DEF Alone, ScriptsWhole, ScriptsInOrder, RerunIsComplete, OnlyCompleteImages
<1> QED BY <1>1, SoloInvariant, PTL

(***************************************************************************)
(* What failing runs leave behind, the one that succeeds removes, unless a run*)
(* was cut off past its image, a clean-up call failed or a volume broke.   *)
(***************************************************************************)
THEOREM RerunsLeaveNothing == ASSUME OneInstaller PROVE Spec => []RerunLeavesNothing
<1>1. Alone => RerunLeavesNothing
  BY DEF Alone, NothingLeft, CleanUpInOrder, RerunLeavesNothing, NoLeftovers
<1> QED BY <1>1, SoloInvariant, PTL
=============================================================================
