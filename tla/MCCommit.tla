------------------------------ MODULE MCCommit ------------------------------
(***************************************************************************)
(* Module Commit on a few generations; the kind of source and the faults   *)
(* are given by the configurations.                                        *)
(***************************************************************************)
EXTENDS CommitProperties
=============================================================================
