------------------------------ MODULE RelayOrder ------------------------------
(* Relay with a history variable: the id under which a message first        *)
(* entered the queue, 0 before that.                                        *)
EXTENDS MCRelay

VARIABLE firstId

OrderInit == Init /\ firstId = [m \in Msgs |-> 0]

OrderNext ==
  /\ Next
  /\ firstId' = [m \in Msgs |->
       IF firstId[m] = 0 /\ m \in MsgsOf(rows')
       THEN (CHOOSE r \in rows' : r.msg = m).id
       ELSE firstId[m]]

OrderSpec == OrderInit /\ [][OrderNext]_<<vars, firstId>>

(* "Re-enqueue this message and everything after it; preserves ordering by  *)
(* re-inserting in order" (router.go:197): of two queued messages, the one  *)
(* that was queued first is delivered first.                                *)
RequeueKeepsOrder ==
  \A q, r \in rows :
    q.to = r.to /\ firstId[q.msg] < firstId[r.msg] => q.id < r.id

=============================================================================
