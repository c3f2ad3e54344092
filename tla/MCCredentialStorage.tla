------------------------ MODULE MCCredentialStorage -------------------------
(* The credential store for model checking.                                *)
EXTENDS CredentialStorage, TLC

\* Credential IDs are only ever compared for equality.
IdSymmetry == Permutations(Ids)

\* So are processes and inodes, of which the file system picks any free one.
StorageSymmetry ==
  Permutations(Ids) \cup Permutations(Hosts) \cup Permutations(Inodes)
=============================================================================
