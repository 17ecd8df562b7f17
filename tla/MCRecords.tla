----------------------------- MODULE MCRecords ------------------------------
(* A small instance of Records for TLC. *)
EXTENDS RecordsProps, TLC

Interchangeable ==
    Permutations(Hands) \cup Permutations(Ids) \cup Permutations(Keys)
=============================================================================
