--------------------------- MODULE MCProxyStreams ---------------------------
(* Instances of ProxyStreams for TLC.                                      *)
EXTENDS ProxyStreams, TLC

(* Clusters, sessions and requests are interchangeable.                    *)
Symmetry == Permutations(Keys) \cup Permutations(Sessions) \cup Permutations(Requests)
=============================================================================
