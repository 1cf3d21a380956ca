---- MODULE MCHTTP ----
(* HTTP with a request of one byte, and another that claims less than its body. *)
EXTENDS HTTP, TLC

CONSTANTS r1, r2, w1, w2

MCClaim == [r \in Conns |-> IF r = r1 THEN 1 ELSE 0]
MCSize  == [r \in Conns |-> 1]

====
