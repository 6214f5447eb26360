------------------------------- MODULE Mailbox -------------------------------
(***************************************************************************)
(* What the relay promises about one message, without connections, queue   *)
(* or file: once accepted it is held until it is handed over or dropped,   *)
(* and it is handed over for good at most once.  An unsure hand-over       *)
(* (the write failed, the bytes may have left) keeps the message.  Only    *)
(* the end of a process that could not write its file may bring a message  *)
(* back; such messages are tainted and may exist in several copies.        *)
(***************************************************************************)
EXTENDS Naturals

CONSTANT Msgs

VARIABLES status, sent, up, tainted

vars == <<status, sent, up, tainted>>

With(s) == {m \in Msgs : status[m] = s}

Accept(m) ==
  /\ up
  /\ status[m] = "new"
  /\ status' = [status EXCEPT ![m] = "held"]
  /\ UNCHANGED <<sent, up, tainted>>

HandOver(m) ==
  /\ up
  /\ status[m] = "held"
  /\ sent' = [sent EXCEPT ![m] = @ + 1]
  /\ \/ status' = [status EXCEPT ![m] = "gone"]
     \/ m \in tainted /\ UNCHANGED status
  /\ UNCHANGED <<up, tainted>>

HandOverUnsure(m) ==
  /\ up
  /\ status[m] = "held"
  /\ sent' = [sent EXCEPT ![m] = @ + 1]
  /\ UNCHANGED <<status, up, tainted>>

Dropping(S) == [m \in Msgs |-> IF m \in S THEN "gone" ELSE status[m]]

(* Expiry, the cap, a closed database; expiry goes on while down. *)
Drop ==
  /\ \E S \in SUBSET With("held") : status' = Dropping(S)
  /\ UNCHANGED <<sent, up, tainted>>

End ==
  /\ up
  /\ up' = FALSE
  /\ tainted \subseteq tainted'
  /\ tainted' \subseteq Msgs
  /\ \E S \in SUBSET With("held"), T \in SUBSET (With("gone") \cap tainted') :
       status' = [m \in Msgs |-> IF m \in T THEN "held" ELSE Dropping(S)[m]]
  /\ UNCHANGED sent

Begin ==
  /\ ~up
  /\ up' = TRUE
  /\ UNCHANGED <<status, sent, tainted>>

Init ==
  /\ status = [m \in Msgs |-> "new"]
  /\ sent = [m \in Msgs |-> 0]
  /\ up = TRUE
  /\ tainted = {}

Next ==
  \/ \E m \in Msgs : Accept(m) \/ HandOver(m) \/ HandOverUnsure(m)
  \/ Drop
  \/ End
  \/ Begin

Spec == Init /\ [][Next]_vars

=============================================================================
