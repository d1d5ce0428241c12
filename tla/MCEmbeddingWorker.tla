-------------------------- MODULE MCEmbeddingWorker --------------------------
(* Instances of EmbeddingWorker for TLC: rows are model values.            *)
EXTENDS EmbeddingWorker
==============================================================================
