------------------------- MODULE MCTransferBuffers -------------------------
(* Transfer buffers for a few transfers and the chunks of one file.        *)
EXTENDS TransferBuffers, TLC

\* Transfers of one kind, and chunks, are interchangeable.
Symmetry == Permutations(Reads) \cup Permutations(Writes) \cup Permutations(Chunks)
=============================================================================
