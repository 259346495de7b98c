----------------------------- MODULE MoveContract ----------------------------
(***************************************************************************)
(* What a library move promises, whatever it copies, renames or removes    *)
(* underneath and wherever the process stops: one file or folder at a time *)
(* changes place and is never without a whole copy, the catalogue follows  *)
(* a title that has arrived, and a title is closed with what has become of *)
(* it and is left alone from then on.                                      *)
(***************************************************************************)
CONSTANTS
    Names,   \* the titles
    Pieces   \* a title and the number of one of its files or folders

VARIABLES
    kept,    \* where each piece is whole
    listed,  \* the library the catalogue lists each title in
    told,    \* what the administrator is told of each title
    doubt    \* titles a crash has left with a journal that is not to be trusted

contract == <<kept, listed, told, doubt>>

Ends == {"src", "dst"}
AllAt(t, p) == \A x \in Pieces : x[1] = t => p \in kept[x]

\* A title has moved, is where it was, or is known to be in two places.
Earned(t, word) ==
    CASE word = "moved" -> listed[t] = "dst" /\ AllAt(t, "dst")
      [] word = "stayed" -> listed[t] = "src" /\ AllAt(t, "src")
      [] word = "split" -> listed[t] = "src" \/ AllAt(t, "dst")
      [] OTHER -> FALSE

Begin ==
    /\ kept = [x \in Pieces |-> {"src"}]
    /\ listed = [t \in Names |-> "src"]
    /\ told = [t \in Names |-> "open"]
    /\ doubt = {}

\* A piece is copied, carried over, or one of its copies is removed.
Shift(x) ==
    /\ told[x[1]] = "open"
    /\ kept' \in {[kept EXCEPT ![x] = S] : S \in (SUBSET Ends) \ {{}}}
    /\ UNCHANGED <<listed, told, doubt>>

\* The catalogue follows.
Relist(t) ==
    /\ told[t] = "open" /\ (AllAt(t, "dst") \/ t \in doubt)
    /\ listed' = [listed EXCEPT ![t] = "dst"]
    /\ UNCHANGED <<kept, told, doubt>>

\* Titles are closed, each with what is true of it.
Close(S) ==
    /\ \A t \in S : told[t] = "open"
    /\ \E word \in [S -> {"moved", "stayed", "split"}] :
        /\ \A t \in S : t \in doubt \/ Earned(t, word[t])
        /\ told' = [t \in Names |-> IF t \in S THEN word[t] ELSE told[t]]
    /\ UNCHANGED <<kept, listed, doubt>>

\* A crash while a title that had arrived was put back.
Distrust(S) ==
    /\ doubt' = doubt \cup S
    /\ UNCHANGED <<kept, listed, told>>

Onwards ==
    \/ \E x \in Pieces : Shift(x)
    \/ \E t \in Names : Relist(t)
    \/ \E S \in SUBSET Names : Close(S) \/ Distrust(S)

Promise == Begin /\ [][Onwards]_contract

=============================================================================
