----------------------------- MODULE MCPageRead -----------------------------
(***************************************************************************)
(* An instance of PageRead for TLC.                                        *)
(***************************************************************************)
EXTENDS PageRead

=============================================================================
