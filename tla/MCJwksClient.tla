---------------------------- MODULE MCJwksClient ----------------------------
(* Small instances of JwksClient for TLC.                                  *)
EXTENDS JwksClient, TLC

RequestSymmetry == Permutations(Requests) \cup Permutations(Kids)
=============================================================================
