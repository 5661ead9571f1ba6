----------------------------- MODULE MCBlobStore -----------------------------
(* Two requests at once over three contents, more than the quota holds. *)
EXTENDS BlobStore, TLC

Symmetric == Permutations(Processes) \union Permutations(Contents) \union Permutations(Entities)
=============================================================================
