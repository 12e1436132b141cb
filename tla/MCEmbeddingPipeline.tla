------------------------ MODULE MCEmbeddingPipeline ------------------------
(* Small instances of EmbeddingPipeline. *)
EXTENDS EmbeddingPipeline, TLC

CONSTANTS i1, i2, w1, w2, c1, c2

Symmetry == Permutations(Ingesters) \cup Permutations(Workers) \cup Permutations(Contents)
=============================================================================
