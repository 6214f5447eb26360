----------------------------- MODULE MCAdmission -----------------------------
(* Admission with two connections of one user and one message for it.       *)
EXTENDS Admission

CONSTANTS u1, m2

MCUserOf == [c \in Conns |-> u1]
MCTo == [m \in Msgs |-> u1]
MCHttpMsgs == Msgs \cap {m2}

=============================================================================
