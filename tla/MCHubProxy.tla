----------------------------- MODULE MCHubProxy -----------------------------
(* Instances of HubProxy for TLC.                                          *)
EXTENDS HubProxy, TLC

(* Hubs and sessions are interchangeable.                                  *)
Symmetry == Permutations(Hubs) \cup Permutations(Sessions)
=============================================================================
