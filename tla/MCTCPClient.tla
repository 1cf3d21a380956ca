---- MODULE MCTCPClient ----
(* TCPClient on small instances: see the MCTCPClient*.cfg files. *)
EXTENDS TCPClient, TLC

CONSTANTS w1, w2

MCSymmetry == Permutations({w1, w2})

====
