------------------------------ MODULE MCDatabaseUse ------------------------------
(* DatabaseUse for TLC.                                                         *)
EXTENDS DatabaseUse, TLC

\* Users, keys and entries are interchangeable.
DbSymmetry == Permutations(Users) \cup Permutations(Keys) \cup Permutations(Entries)
=============================================================================
