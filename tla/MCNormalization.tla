-------------------------- MODULE MCNormalization --------------------------
(* Fault models for the TLC runs of Normalization.                         *)
EXTENDS Normalization, TLC

AllFaults   == {"abort", "probe", "group", "server", "warning",
                "volume", "boot", "script", "image"}
AnyPoint    == ActivePoints
DuringExport == {"export", "exportWait", "publishWait"}

\* Ids are interchangeable.  Runs that check safety only use the symmetry ...
Symmetry == Permutations(ImageIds) \cup Permutations(SourceIds)
              \cup Permutations(ScratchIds) \cup Permutations(ServerIds)
              \cup Permutations(KeyIds) \cup Permutations(Installers)

\* ... and the run that checks liveness too takes numbers for ids, which the
\* API hands out in order: the same behaviours, up to the names of ids.
FirstTaken(ids, state, next) ==
    \A m, n \in ids : n < m /\ state[n] = "unused" => next[m] = "unused"

InOrder ==
    /\ FirstTaken(ImageIds, imgStatus, imgStatus')
    /\ FirstTaken(SourceIds, volState, volState')
    /\ FirstTaken(ScratchIds, volState, volState')
    /\ FirstTaken(ServerIds, srvStatus, srvStatus')
=============================================================================
