-------------------------- MODULE MCStorageEngine --------------------------
(***************************************************************************)
(* Instances of StorageEngine for TLC.                                     *)
(***************************************************************************)
EXTENDS StorageEngine

\* Failures that leave the published MANIFEST in charge.
UnpublishedFaults == {"not_published", "build", "rename", "syncdir"}

\* The unpublished faults, and a directory sync that fails after orphan cleanup.
CleanupFaults == UnpublishedFaults \cup {"cleanup_sync"}

\* The unpublished faults, and a final WAL sync that fails.
CloseFaults == UnpublishedFaults \cup {"close_sync"}

BuildFaults == {"build"}
RemoveFaults == {"remove"}
VisibleFaults == {"visible"}
=============================================================================
