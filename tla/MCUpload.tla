------------------------------ MODULE MCUpload ------------------------------
(***************************************************************************)
(* Model values and symmetry for the runs of Upload.                       *)
(***************************************************************************)
EXTENDS Upload, TLC

\* Uploads differ in nothing but their id.
UploadSymmetry == Permutations(Uploads)
=============================================================================
