---------------------------- MODULE MCWatchParty ----------------------------
(***************************************************************************)
(* Model values and symmetry for the runs of WatchParty.                   *)
(***************************************************************************)
EXTENDS WatchParty, TLC

\* Requests are interchangeable: no goroutine is named by the code.
HandlerSymmetry == Permutations(Handlers)
=============================================================================
