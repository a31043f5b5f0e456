---------------------------- MODULE MCReadiness ----------------------------
(* Readiness over two client addresses, one of them blocked; a refresh      *)
(* publishes a trie that covers it or one that matched no country.          *)
EXTENDS Readiness, TLC

CONSTANTS blockedAddr, otherAddr

MCAddrs == {blockedAddr, otherAddr}
MCTries == {{}, {blockedAddr}}
ReqSymmetry == Permutations(Reqs)
============================================================================
