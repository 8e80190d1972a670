------------------------ MODULE MCThumbnailSweepQueue ------------------------
(* Model-checking instances of ThumbnailSweepQueue. *)
EXTENDS ThumbnailSweepQueue
=============================================================================
