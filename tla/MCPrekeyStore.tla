---------------------------- MODULE MCPrekeyStore ----------------------------
(* Two good bundles that share a prekey, as a client that re-registers with *)
(* another identity key sends, one with a duplicate, one too long and one   *)
(* malformed.  Users a and b; ad is a with the relay's own domain, and b's  *)
(* id has a slash in it.                                                    *)
EXTENDS PrekeyStore, TLC

CONSTANTS k1, k2, i1, i2, a, b, ad

MCCandidates ==
  {[valid |-> TRUE,  ik |-> i1, otpks |-> <<k1, k2>>],
   [valid |-> TRUE,  ik |-> i2, otpks |-> <<k2>>],
   [valid |-> TRUE,  ik |-> i1, otpks |-> <<k1, k1>>],
   [valid |-> TRUE,  ik |-> i1, otpks |-> <<k1, k2, k1>>],
   [valid |-> FALSE, ik |-> i1, otpks |-> <<k1>>]}

MCSessionId == [id \in Ids |-> IF id = ad THEN a ELSE id]

PrekeySymmetry == Permutations(Fetches)

=============================================================================
