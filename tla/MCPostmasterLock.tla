--------------------------- MODULE MCPostmasterLock ---------------------------
(* TLC instances of PostmasterLock: process ids are interchangeable.        *)
EXTENDS PostmasterLock, TLC

Interchangeable == Permutations(Pid)
=============================================================================
