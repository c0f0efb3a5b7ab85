------------------------ MODULE MCSourceWatchRuntime ------------------------
(* Instances of SourceWatchRuntime for TLC. *)
EXTENDS SourceWatchRuntime
=============================================================================
