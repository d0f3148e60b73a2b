--------------------------- MODULE MCDataDirectory ---------------------------
(* TLC instances of DataDirectory: incarnations and CLI runs are           *)
(* interchangeable; a run without liveness may use both symmetries.        *)
EXTENDS DataDirectory, TLC

Interchangeable == Permutations(Server) \cup Permutations(Client)
=============================================================================
