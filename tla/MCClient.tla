------------------------------ MODULE MCClient ------------------------------
(* Client with two callers that share one inbox and one connection.        *)
EXTENDS Client, TLC

\* Discovers meet the other calls only where their sniffs pass messages on.
MCMixes == {{"request", "publish"}, {"request", "messages"}, {"discover"}}

Interchangeable == Permutations(Callers)
=============================================================================
