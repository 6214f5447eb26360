------------------------------- MODULE MCRelay -------------------------------
(* Small instances of Relay: every connection belongs to the one user and   *)
(* every message is for that user; the last message comes by HTTP.          *)
EXTENDS Relay, TLC

CONSTANTS u1, m2

MCUserOf == [c \in Conns |-> u1]
MCTo == [m \in Msgs |-> u1]
MCHttpMsgs == Msgs \cap {m2}
ConnSymmetry == Permutations(Conns)

=============================================================================
