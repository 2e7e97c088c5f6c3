---------------------------- MODULE MCBlobStore -----------------------------
(* Two blobs and two requests at a time: two deletes of a blob race, or a  *)
(* delete and a read, while other blobs are created and removed.           *)
EXTENDS BlobStore, TLC

Symmetry == Permutations(Blobs) \cup Permutations(Workers)
=============================================================================
