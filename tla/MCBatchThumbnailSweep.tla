------------------------ MODULE MCBatchThumbnailSweep ------------------------
(* Model-checking instances of BatchThumbnailSweep. *)
EXTENDS BatchThumbnailSweep, TLC

Symmetry == Permutations(Entries) \cup Permutations(Requests)
=============================================================================
