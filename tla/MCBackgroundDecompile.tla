----------------------- MODULE MCBackgroundDecompile ------------------------
(* One pass and its pool; the cfg sizes the pool, the work and the batches. *)
EXTENDS BackgroundDecompile
=============================================================================
