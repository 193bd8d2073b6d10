---------------------------- MODULE MCOwnedFiles ----------------------------
(* Small instances of OwnedFiles for TLC. *)
EXTENDS OwnedFiles

CONSTANTS i1, p1, v1, a1, a2

=============================================================================
