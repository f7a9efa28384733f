---------------------------- MODULE MCLinuxTasks ----------------------------
(***************************************************************************)
(* Instances of LinuxTasks for TLC.                                        *)
(***************************************************************************)
EXTENDS LinuxTasks

=============================================================================
