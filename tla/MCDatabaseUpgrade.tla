-------------------------- MODULE MCDatabaseUpgrade --------------------------
(* TLC instances of DatabaseUpgrade: names of copies and credentials are    *)
(* random, so they are interchangeable.                                    *)
EXTENDS DatabaseUpgrade, TLC

Interchangeable == Permutations(Copy) \cup Permutations(Secret)
=============================================================================
