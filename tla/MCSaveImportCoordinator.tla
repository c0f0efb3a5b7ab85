---------------------- MODULE MCSaveImportCoordinator ----------------------
(* Instances of SaveImportCoordinator for TLC. *)
EXTENDS SaveImportCoordinator, TLC

DriverSymmetry == Permutations(Driver)
=============================================================================
