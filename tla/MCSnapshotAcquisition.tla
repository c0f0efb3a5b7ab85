----------------------- MODULE MCSnapshotAcquisition -----------------------
(* Instances of SnapshotAcquisition for TLC. *)
EXTENDS SnapshotAcquisition
=============================================================================
