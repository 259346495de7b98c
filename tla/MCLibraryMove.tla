--------------------------- MODULE MCLibraryMove ---------------------------
(***************************************************************************)
(* Instances of LibraryMove for TLC.                                       *)
(***************************************************************************)
EXTENDS LibraryMove
=============================================================================
