------------------------------ MODULE MCHlsPlan ------------------------------
(***************************************************************************)
(* The titles of the runs of HlsPlan.                                      *)
(***************************************************************************)
EXTENDS HlsPlan

\* Nine seconds with up to five keyframes anywhere, or a picture that is encoded.
Encoded == [dur: {9}, keys: {{0}}, mode: {"video"}]
MCFilms ==
    [dur: {9}, keys: {k \in SUBSET (0..8) : 0 \in k /\ Cardinality(k) \in 1..5}, mode: {"remux", "audio"}]
    \cup Encoded

=============================================================================
