------------------------- MODULE RelayMailboxProofs -------------------------
(***************************************************************************)
(* The custody of messages action by action, and the relay as an           *)
(* implementation of Mailbox: for any number of users, connections and     *)
(* messages, with all faults.                                              *)
(***************************************************************************)
EXTENDS RelayCustodyProofs, RelayProofs

USE RelayAssumption

-----------------------------------------------------------------------------
(* MailInv is kept, action by action. *)

(* The steps of serveConn, and what happens to its socket. *)
LEMMA ConnMail ==
  ASSUME RelayInv, TypeOK', NEW c \in Conns, Connect(c) \/ SockDies(c) \/ ConnStep(c)
  PROVE  MailInv'
<1>0. /\ \A d \in Conns : flush[d] # {} => pc[d] \in {"flush", "requeue"}
      /\ pc \in [Conns -> {"idle", "register", "done"} \cup Serving]
      /\ flush \in [Conns -> SUBSET Row]
  BY Zenon DEF RelayInv, MailInv, HandsEmpty, TypeOK
<1>1. CASE Connect(c) \/ SockDies(c) \/ Register(c) \/ ClosePrev(c) \/ ReadEnds(c) \/ Unregister(c)
  <2>1. \A d \in Conns : flush[d] # {} => pc'[d] \in {"flush", "requeue"}
    BY <1>0, <1>1, Zenon DEF Connect, Upgraded, SockDies, Register, ClosePrev, ReadEnds, Unregister
  <2>2. /\ UNCHANGED <<rows, disk, dirty, mode, discarded, rejected, diverged>>
        /\ UNCHANGED <<flush, dpc, delivered, ambiguous, lost>>
    BY <1>1, Zenon DEF Connect, Upgraded, SockDies, Register, ClosePrev, ReadEnds, Unregister,
                storeVars, deliverVars, histVars
  <2>. QED  BY <2>1, <2>2, QuietStep, Zenon
<1>2. CASE Drain(c)
  <2>1. flush[c] = {}
    BY <1>0, <1>2, Zenon DEF Drain
  <2>2. /\ UNCHANGED <<dpc, delivered, ambiguous, lost>>
        /\ pc' = [pc EXCEPT ![c] = IF flush'[c] = {} THEN "loop" ELSE "flush"]
    BY <1>2, Zenon DEF Drain, deliverVars, histVars
  <2>3. ASSUME NEW got \in SUBSET rows, DrainQueue(UserOf[c], got),
               flush' = [flush EXCEPT ![c] = got]
        PROVE  MailInv'
    <3>1. UserOf[c] \in Users
      OBVIOUS
    <3>2. /\ mode = "up" /\ UNCHANGED <<mode, diverged>>
          /\ discarded \subseteq discarded' /\ rejected \subseteq rejected'
          /\ rows' \subseteq rows /\ disk'.rows \subseteq disk.rows \cup rows
          /\ \A r \in rows \ rows' : r \in got \/ r.msg \in discarded' \cup rejected'
          /\ \A r \in got : r \notin rows'
          /\ Surviving' = rows' /\ rows \subseteq Surviving
      BY <2>3, <3>1, DrainEffect, Zenon DEF RelayInv
    <3>3. /\ \A d \in Conns \ {c} : flush'[d] = flush[d] /\ pc'[d] = pc[d]
          /\ flush'[c] = got /\ (got # {} => pc'[c] = "flush")
      BY <1>0, <2>2, <2>3, Zenon
    <3>. QED  BY <2>1, <2>2, <3>2, <3>3, TakeStep, Zenon
  <2>4. CASE UNCHANGED <<storeVars, flush>>
    <3>1. \A d \in Conns : flush[d] # {} => pc'[d] \in {"flush", "requeue"}
      BY <1>0, <2>1, <2>2, <2>4, Zenon
    <3>. QED  BY <2>2, <2>4, <3>1, QuietStep, Zenon DEF storeVars
  <2>. QED  BY <1>2, <2>3, <2>4, Zenon DEF Drain
<1>3. CASE FlushWrite(c)
  <2>1. PICK r \in First(flush[c]) :
          \/ /\ WriteOk(c, r.msg)
             /\ flush' = [flush EXCEPT ![c] = @ \ {r}]
             /\ pc' = [pc EXCEPT ![c] = IF flush'[c] = {} THEN "loop" ELSE "flush"]
          \/ /\ WriteFails(c, r.msg)
             /\ flush' = [flush EXCEPT ![c] = Leftover(@)]
             /\ pc' = [pc EXCEPT ![c] = IF flush'[c] = {} THEN "loop" ELSE "requeue"]
    BY <1>3, Zenon DEF FlushWrite
  <2>. DEFINE m == r.msg
  <2>2. r \in flush[c] /\ m \in Msgs
    BY RowMsgs, Zenon DEF First
  <2>3. /\ mode # "down" /\ dpc[m] # "unsent" /\ Held(m)
        /\ m \notin diverged =>
              /\ dpc[m] \notin Delivering
              /\ StoredRows(m) = {}
              /\ \A d \in Conns : \A q \in FlushRows(d, m) : d = c /\ q = r
    BY <2>2, FlushOwner, Zenon
  <2>4. UNCHANGED <<storeVars, dpc, lost>>
    BY <1>3, Zenon DEF FlushWrite, deliverVars
  <2>5. \A d \in Conns : flush'[d] # {} => pc'[d] \in {"flush", "requeue"}
    BY <1>0, <2>1, Zenon DEF Leftover
  <2>6. \A n \in Msgs \ {m} : \A d \in Conns : FlushRows(d, n)' = FlushRows(d, n)
    BY <1>0, <2>1 DEF Leftover, FlushRows
  <2>7. TypeOK
    BY Zenon DEF RelayInv
  <2>8. CASE WriteOk(c, m) /\ flush' = [flush EXCEPT ![c] = @ \ {r}]
    <3>1. ASSUME m \notin diverged
          PROVE  ~Held(m)'
      <4>1. \A d \in Conns : FlushRows(d, m)' = {}
        BY <1>0, <2>3, <2>8, <3>1, Zenon DEF FlushRows
      <4>2. StoredRows(m)' = StoredRows(m)
        BY <2>4, Zenon DEF StoredRows, Surviving, storeVars
      <4>. QED  BY <2>3, <2>4, <3>1, <4>1, <4>2, Zenon DEF Held
    <3>. HIDE DEF m
    <3>2. /\ delivered'[m] = delivered[m] + 1 /\ ambiguous'[m] = ambiguous[m]
          /\ \A n \in Msgs \ {m} : delivered'[n] = delivered[n] /\ ambiguous'[n] = ambiguous[n]
      BY <2>2, <2>7, <2>8, WriteCounts, Zenon
    <3>. QED  BY <2>2, <2>3, <2>4, <2>5, <2>6, <3>1, <3>2, WriteStep, Zenon
  <2>9. CASE WriteFails(c, m) /\ flush' = [flush EXCEPT ![c] = Leftover(@)]
    <3>1. flush' = flush
      BY <1>0, <2>9, Zenon DEF Leftover
    <3>2. \A d \in Conns : FlushRows(d, m)' = FlushRows(d, m)
      BY <3>1, Zenon DEF FlushRows
    <3>. HIDE DEF m
    <3>3. /\ \/ delivered'[m] = delivered[m] /\ ambiguous'[m] = ambiguous[m]
             \/ delivered'[m] = delivered[m] + 1 /\ ambiguous'[m] = ambiguous[m] + 1
          /\ \A n \in Msgs \ {m} : delivered'[n] = delivered[n] /\ ambiguous'[n] = ambiguous[n]
      BY <2>2, <2>7, <2>9, WriteCounts, Zenon
    <3>. QED  BY <2>2, <2>3, <2>4, <2>5, <2>6, <3>2, <3>3, WriteStep, Zenon
  <2>. QED  BY <2>1, <2>8, <2>9, Zenon
<1>4. CASE Requeue(c)
  <2>1. PICK r \in First(flush[c]) :
          Enqueue(UserOf[c], r.msg) /\ flush' = [flush EXCEPT ![c] = @ \ {r}]
    BY <1>4, Zenon DEF Requeue
  <2>. DEFINE m == r.msg
  <2>2. r \in flush[c] /\ m \in Msgs /\ UserOf[c] \in Users
    BY RowMsgs, Zenon DEF First
  <2>3. /\ dpc[m] # "unsent"
        /\ m \notin diverged =>
              /\ dpc[m] \notin Delivering
              /\ StoredRows(m) = {}
              /\ \A d \in Conns : \A q \in FlushRows(d, m) : d = c /\ q = r
              /\ delivered[m] <= ambiguous[m]
    BY <2>2, FlushOwner, Zenon
  <2>4. /\ UNCHANGED <<dpc, delivered, ambiguous, lost>>
        /\ pc' = [pc EXCEPT ![c] = IF flush'[c] = {} THEN "loop" ELSE "requeue"]
    BY <1>4, Zenon DEF Requeue, deliverVars, histVars
  <2>5. \A d \in Conns : flush'[d] # {} => pc'[d] \in {"flush", "requeue"}
    BY <1>0, <2>1, <2>4, Zenon
  <2>6. \A n \in Msgs \ {m} : \A d \in Conns : FlushRows(d, n)' = FlushRows(d, n)
    BY <1>0, <2>1, Zenon DEF FlushRows
  <2>7. m \notin diverged => \A d \in Conns : FlushRows(d, m)' = {}
    BY <1>0, <2>1, <2>3, Zenon DEF FlushRows
  <2>8. Enqueue(UserOf[c], m)
    BY <2>1, Zenon
  <2>. HIDE DEF m
  <2>. QED  BY <2>2, <2>3, <2>4, <2>5, <2>6, <2>7, <2>8, EnqueueStep, Zenon
<1>. QED  BY <1>1, <1>2, <1>3, <1>4, Zenon DEF ConnStep

(* handleMessage and deliver. *)
LEMMA DeliverMail ==
  ASSUME RelayInv, TypeOK', NEW m \in Msgs, Accept(m) \/ DeliverStep(m)
  PROVE  MailInv'
<1>0. /\ \A d \in Conns : flush[d] # {} => pc[d] \in {"flush", "requeue"}
      /\ dpc \in [Msgs -> {"unsent", "done"} \cup Delivering]
      /\ TypeOK
  BY Zenon DEF RelayInv, MailInv, HandsEmpty, TypeOK
<1>1. CASE LookupClient(m)
  <2>1. \A n \in Msgs : /\ dpc'[n] \in Delivering <=> dpc[n] \in Delivering
                        /\ dpc'[n] = "unsent" <=> dpc[n] = "unsent"
    BY <1>0, <1>1, Zenon DEF LookupClient, Delivering
  <2>2. /\ UNCHANGED <<rows, disk, dirty, mode, discarded, rejected, diverged>>
        /\ UNCHANGED <<pc, flush, delivered, ambiguous, lost>>
    BY <1>1, Zenon DEF LookupClient, storeVars, connVars, histVars
  <2>. QED  BY <1>0, <2>1, <2>2, QuietStep, Zenon
<1>2. CASE DeliverWrite(m)
  <2>1. dpc[m] \in Delivering
    BY <1>2, Zenon DEF DeliverWrite, Delivering
  <2>2. /\ mode # "down" /\ dpc[m] # "unsent" /\ Held(m)
        /\ m \notin diverged =>
             StoredRows(m) = {} /\ \A c \in Conns : FlushRows(c, m) = {}
    BY <2>1, DeliverOwner, Zenon
  <2>3. UNCHANGED <<storeVars, pc, flush, lost>>
    BY <1>2, Zenon DEF DeliverWrite
  <2>4. /\ \A d \in Conns : flush'[d] # {} => pc'[d] \in {"flush", "requeue"}
        /\ \A n \in Msgs : \A d \in Conns : FlushRows(d, n)' = FlushRows(d, n)
        /\ StoredRows(m)' = StoredRows(m)
    BY <1>0, <2>3, Zenon DEF FlushRows, StoredRows, Surviving, storeVars
  <2>5. CASE WriteOk(target[m], m) /\ dpc' = [dpc EXCEPT ![m] = "done"]
    <3>1. /\ dpc'[m] = "done"
          /\ \A n \in Msgs \ {m} : dpc'[n] = dpc[n]
      BY <1>0, <2>5, Zenon
    <3>2. m \notin diverged => ~Held(m)'
      BY <2>2, <2>4, <3>1, Zenon DEF Held, Delivering
    <3>3. /\ delivered'[m] = delivered[m] + 1 /\ ambiguous'[m] = ambiguous[m]
          /\ \A n \in Msgs \ {m} : delivered'[n] = delivered[n] /\ ambiguous'[n] = ambiguous[n]
      BY <1>0, <2>5, WriteCounts, Zenon
    <3>. QED  BY <2>2, <2>3, <2>4, <3>1, <3>2, <3>3, WriteStep, Zenon
  <2>6. CASE WriteFails(target[m], m) /\ dpc' = [dpc EXCEPT ![m] = "enqueue"]
    <3>1. /\ dpc'[m] = "enqueue" /\ dpc'[m] \in Delivering
          /\ \A n \in Msgs \ {m} : dpc'[n] = dpc[n]
      BY <1>0, <2>6, Zenon DEF Delivering
    <3>2. /\ \/ delivered'[m] = delivered[m] /\ ambiguous'[m] = ambiguous[m]
             \/ delivered'[m] = delivered[m] + 1 /\ ambiguous'[m] = ambiguous[m] + 1
          /\ \A n \in Msgs \ {m} : delivered'[n] = delivered[n] /\ ambiguous'[n] = ambiguous[n]
      BY <1>0, <2>6, WriteCounts, Zenon
    <3>. QED  BY <2>1, <2>2, <2>3, <2>4, <3>1, <3>2, WriteStep, Zenon
  <2>. QED  BY <1>2, <2>5, <2>6, Zenon DEF DeliverWrite
<1>3. CASE DeliverEnqueue(m)
  <2>1. dpc[m] \in Delivering /\ Enqueue(To[m], m) /\ To[m] \in Users
    BY <1>3, Zenon DEF DeliverEnqueue, Delivering
  <2>2. UNCHANGED <<pc, flush, delivered, ambiguous, lost>>
    BY <1>3, Zenon DEF DeliverEnqueue, connVars, histVars
  <2>3. /\ dpc[m] # "unsent"
        /\ m \notin diverged =>
             /\ StoredRows(m) = {}
             /\ \A c \in Conns : FlushRows(c, m) = {}
             /\ delivered[m] <= ambiguous[m]
    BY <2>1, DeliverOwner, Zenon
  <2>4. /\ dpc'[m] = "done" /\ dpc'[m] \notin Delivering
        /\ \A n \in Msgs \ {m} : dpc'[n] = dpc[n]
    BY <1>0, <1>3, Zenon DEF DeliverEnqueue, Delivering
  <2>5. \A n \in Msgs : \A d \in Conns : FlushRows(d, n)' = FlushRows(d, n)
    BY <2>2, Zenon DEF FlushRows
  <2>. QED  BY <1>0, <2>1, <2>2, <2>3, <2>4, <2>5, EnqueueStep, Zenon
<1>. QED  BY <1>1, <1>2, <1>3, AcceptStep, Zenon DEF DeliverStep

(* Purge, clock, shutdown, the end of the process and its restart. *)
LEMMA ProcessMail ==
  ASSUME RelayInv, TypeOK',
         Background \/ BeginShutdown \/ FinishShutdown \/ ListenerFails
           \/ ProcessEnds \/ ProcessRestarts
  PROVE  MailInv'
<1>0. \A d \in Conns : flush[d] # {} => pc[d] \in {"flush", "requeue"}
  BY Zenon DEF RelayInv, MailInv, HandsEmpty
<1>1. CASE PurgeExpired /\ UNCHANGED <<connVars, deliverVars, histVars>>
  <2>1. /\ mode = "up" /\ UNCHANGED <<mode, diverged>>
        /\ discarded \subseteq discarded' /\ rejected \subseteq rejected'
        /\ rows' \subseteq rows /\ disk'.rows \subseteq disk.rows \cup rows
        /\ \A r \in rows \ rows' : r.msg \in discarded' \cup rejected'
        /\ Surviving' = rows' /\ rows \subseteq Surviving
    BY <1>1, PurgeEffect, Zenon DEF RelayInv
  <2>2. UNCHANGED <<pc, flush, dpc, delivered, ambiguous, lost>>
    BY <1>1, Zenon DEF connVars, deliverVars, histVars
  <2>3. {} \in SUBSET rows
    OBVIOUS
  <2>. QED  BY <2>1, <2>2, <2>3, TakeStep, Zenon
<1>2. CASE (Tick \/ Stop \/ UNCHANGED storeVars) /\ UNCHANGED <<connVars, deliverVars, histVars>>
  <2>1. /\ UNCHANGED <<rows, disk, dirty, discarded, rejected, diverged>>
        /\ mode' = "down" <=> mode = "down"
    BY <1>2, Zenon DEF Tick, Stop, storeVars
  <2>2. UNCHANGED <<pc, flush, dpc, delivered, ambiguous, lost>>
    BY <1>2, Zenon DEF connVars, deliverVars, histVars
  <2>. QED  BY <1>0, <2>1, <2>2, QuietStep, Zenon
<1>. QED
  BY <1>1, <1>2, EndStep, RestartStep, Zenon
     DEF Background, BeginShutdown, FinishShutdown, ListenerFails

(* The empty relay satisfies the invariant. *)
LEMMA InitRelayInv == Init => RelayInv
<1>. SUFFICES ASSUME Init PROVE RelayInv
  OBVIOUS
<1>1. TypeOK /\ FileCovers
  BY InitType, Zenon
<1>2. /\ rows = {} /\ disk.rows = {} /\ mode = "up" /\ diverged = {}
      /\ \A c \in Conns : flush[c] = {}
      /\ \A m \in Msgs : dpc[m] = "unsent" /\ delivered[m] = 0 /\ ambiguous[m] = 0
  BY Zenon DEF Init, StoreInit
<1>3. HandsEmpty
  BY <1>2, Zenon DEF HandsEmpty
<1>4. UnsentUnknown
  BY <1>2, Zenon DEF UnsentUnknown, MsgsOf
<1>5. Surviving = {}
  BY <1>2, Zenon DEF Surviving
<1>6. CustodyInv
  BY <1>2, <1>5 DEF CustodyInv, Custody, Held, FlushRows, StoredRows, Delivering
<1>7. NoSilentLoss
  BY <1>2, Zenon DEF NoSilentLoss
<1>. QED  BY <1>1, <1>3, <1>4, <1>6, <1>7, Zenon DEF RelayInv, MailInv

(* The invariant is inductive. *)
LEMMA NextRelayInv == RelayInv /\ [Next]_vars => RelayInv'
<1>. SUFFICES ASSUME RelayInv, [Next]_vars PROVE RelayInv'
  OBVIOUS
<1>1. TypeOK' /\ FileCovers'
  BY NextType, Zenon DEF RelayInv
<1>2. CASE Next
  <2>1. MailInv'
    BY <1>1, <1>2, ConnMail, DeliverMail, ProcessMail, Zenon DEF Next
  <2>. QED  BY <1>1, <2>1, Zenon DEF RelayInv
<1>3. CASE UNCHANGED vars
  <2>1. /\ UNCHANGED <<rows, disk, dirty, mode, discarded, rejected, diverged>>
        /\ UNCHANGED <<pc, flush, dpc, delivered, ambiguous, lost>>
    BY <1>3, Zenon DEF vars, storeVars, connVars, deliverVars, histVars
  <2>2. \A d \in Conns : flush[d] # {} => pc[d] \in {"flush", "requeue"}
    BY Zenon DEF RelayInv, MailInv, HandsEmpty
  <2>3. MailInv'
    BY <1>1, <2>1, <2>2, QuietStep, Zenon
  <2>. QED  BY <1>1, <2>3, Zenon DEF RelayInv
<1>. QED  BY <1>2, <1>3, Zenon

-----------------------------------------------------------------------------
(* The inductive invariant holds of every run of the relay. *)
THEOREM RelayInvariant == Spec => []RelayInv
BY InitRelayInv, NextRelayInv, PTL DEF Spec

(* No accepted message vanishes: however deliver, flushes, reconnections,   *)
(* failed writes, full or broken queues, shutdowns and crashes interleave,  *)
(* it is in the relay, was written to a client, or fell to a cause the code *)
(* accepts (deliver and FlushQueue, router.go:178, 197).                    *)
THEOREM RelayNoSilentLoss == Spec => []NoSilentLoss
<1>1. RelayInv => NoSilentLoss
  BY Zenon DEF RelayInv, MailInv
<1>. QED  BY <1>1, RelayInvariant, PTL

(* A message has one owner at a time, and goes out at most once more than   *)
(* conn.Write misreported it, unless a crash followed a failed persist      *)
(* (deliver, FlushQueue and DrainQueue).                                    *)
THEOREM RelaySingleCustody == Spec => []SingleCustody
BY CustodyImplies, RelayInvariant, PTL

-----------------------------------------------------------------------------
(* The relay implements Mailbox. *)

(* In a flush, or in a stored row that has not expired. *)
LiveHeld(m) ==
  \/ \E c \in Conns : FlushRows(c, m) # {}
  \/ \E r \in Stored : r.msg = m /\ ~Expired(r, now)

StatusIs(m) ==
  IF dpc[m] = "unsent" THEN "new"
  ELSE IF dpc[m] \in Delivering \/ LiveHeld(m) THEN "held" ELSE "gone"

StatusesAre == \A m \in Msgs : Status(m) = StatusIs(m)

(* The status that the refinement gives to a message, by its owner. *)
LEMMA StatusCases == RelayInv => StatusesAre
<1>. SUFFICES ASSUME RelayInv, NEW m \in Msgs
              PROVE  Status(m) = StatusIs(m)
  BY Zenon DEF StatusesAre
<1>. DEFINE Hands == UNION {MsgsOf(flush[c]) : c \in Conns}
            Queue == MsgsOf(Live(Stored, now))
<1>1. m \in Hands <=> \E c \in Conns : FlushRows(c, m) # {}
  <2>1. m \in Hands <=> \E c \in Conns : m \in MsgsOf(flush[c])
    OBVIOUS
  <2>2. \A c \in Conns : m \in MsgsOf(flush[c]) <=> FlushRows(c, m) # {}
    BY Zenon DEF MsgsOf, FlushRows
  <2>. QED  BY <2>1, <2>2, Zenon
<1>2. m \in Queue <=> \E r \in Stored : r.msg = m /\ ~Expired(r, now)
  BY Zenon DEF MsgsOf, Live
<1>3. dpc[m] = "unsent" => m \notin Hands \cup Queue
  <2>1. dpc[m] = "unsent" => ~\E c \in Conns : FlushRows(c, m) # {}
    BY DEF RelayInv, MailInv, UnsentUnknown, FlushRows, MsgsOf
  <2>2. dpc[m] = "unsent" => ~\E r \in Stored : r.msg = m
    BY Zenon DEF RelayInv, MailInv, UnsentUnknown, Stored, MsgsOf
  <2>. QED  BY <1>1, <1>2, <2>1, <2>2, Zenon
<1>4. Status(m) = CASE dpc[m] = "unsent" -> "new"
                    [] dpc[m] \in Delivering -> "held"
                    [] m \in Hands \cup Queue -> "held"
                    [] OTHER -> "gone"
  BY Zenon DEF Status
<1>. HIDE DEF Hands, Queue
<1>5. LiveHeld(m) <=> m \in Hands \cup Queue
  BY <1>1, <1>2, Zenon DEF LiveHeld
<1>6. dpc[m] = "unsent" => dpc[m] \notin Delivering
  BY Zenon DEF Delivering
<1>. QED  BY <1>3, <1>4, <1>5, <1>6, Zenon DEF StatusIs

(* The same in the next state. *)
LEMMA StatusCasesNext == RelayInv' => StatusesAre'
BY StatusCases, PTL

(* A message that gains no owner keeps its status or is dropped. *)
LEMMA StatusShrinks ==
  ASSUME RelayInv, RelayInv', NEW n \in Msgs,
         dpc'[n] = "unsent" <=> dpc[n] = "unsent",
         dpc'[n] \in Delivering \/ LiveHeld(n)' => dpc[n] \in Delivering \/ LiveHeld(n)
  PROVE  \/ Status(n)' = Status(n)
         \/ Status(n) = "held" /\ Status(n)' = "gone"
<1>1. Status(n) = StatusIs(n) /\ Status(n)' = StatusIs(n)'
  BY StatusCases, StatusCasesNext, Zenon DEF StatusesAre
<1>. QED  BY <1>1, Zenon DEF StatusIs

(* A message whose owners stay has the status it had. *)
LEMMA StatusSame ==
  ASSUME RelayInv, RelayInv', NEW n \in Msgs,
         dpc'[n] = "unsent" <=> dpc[n] = "unsent",
         dpc'[n] \in Delivering \/ LiveHeld(n)' <=> dpc[n] \in Delivering \/ LiveHeld(n)
  PROVE  Status(n)' = Status(n)
<1>1. Status(n) = StatusIs(n) /\ Status(n)' = StatusIs(n)'
  BY StatusCases, StatusCasesNext, Zenon DEF StatusesAre
<1>. QED  BY <1>1 DEF StatusIs

(* A message with an owner is held. *)
LEMMA StatusHeld ==
  ASSUME RelayInv, NEW n \in Msgs, dpc[n] # "unsent"
  PROVE  /\ dpc[n] \in Delivering \/ LiveHeld(n) => Status(n) = "held"
         /\ ~(dpc[n] \in Delivering \/ LiveHeld(n)) => Status(n) = "gone"
BY StatusCases, Zenon DEF StatusesAre, StatusIs

(* The steps of Mailbox under the mapping. *)
LEMMA MapDrop ==
  ASSUME \A n \in Msgs : \/ Status(n)' = Status(n)
                         \/ Status(n) = "held" /\ Status(n)' = "gone",
         UNCHANGED <<delivered, diverged>>,
         mode' = "down" <=> mode = "down"
  PROVE  MB!Drop
<1>. DEFINE S == {n \in Msgs : Status(n)' # Status(n)}
<1>1. S \in SUBSET MB!With("held")
  BY Zenon DEF MB!With
<1>2. [n \in Msgs |-> Status(n)]' = MB!Dropping(S)
  BY Zenon DEF MB!Dropping
<1>. QED  BY <1>1, <1>2, Zenon DEF MB!Drop

(* A new message becomes held: Accept. *)
LEMMA MapAccept ==
  ASSUME NEW m \in Msgs, Status(m) = "new", Status(m)' = "held",
         \A n \in Msgs \ {m} : Status(n)' = Status(n),
         UNCHANGED <<delivered, diverged, mode>>, mode # "down"
  PROVE  MB!Accept(m)
<1>1. [n \in Msgs |-> Status(n)]' = [[n \in Msgs |-> Status(n)] EXCEPT ![m] = "held"]
  BY Zenon
<1>. QED  BY <1>1, Zenon DEF MB!Accept

(* A held message goes out and is gone: HandOver. *)
LEMMA MapHandOver ==
  ASSUME NEW m \in Msgs, Status(m) = "held",
         \A n \in Msgs \ {m} : Status(n)' = Status(n),
         delivered' = [delivered EXCEPT ![m] = @ + 1],
         UNCHANGED <<diverged, mode>>, mode # "down",
         Status(m)' = "gone" \/ (m \in diverged /\ Status(m)' = "held")
  PROVE  MB!HandOver(m)
<1>1. CASE Status(m)' = "gone"
  <2>1. [n \in Msgs |-> Status(n)]' = [[n \in Msgs |-> Status(n)] EXCEPT ![m] = "gone"]
    BY <1>1, Zenon
  <2>. QED  BY <2>1, Zenon DEF MB!HandOver
<1>2. CASE m \in diverged /\ Status(m)' = "held"
  <2>1. [n \in Msgs |-> Status(n)]' = [n \in Msgs |-> Status(n)]
    BY <1>2, Zenon
  <2>. QED  BY <1>2, <2>1, Zenon DEF MB!HandOver
<1>. QED  BY <1>1, <1>2, Zenon

(* A held message goes out and stays: HandOverUnsure. *)
LEMMA MapUnsure ==
  ASSUME NEW m \in Msgs, Status(m) = "held", \A n \in Msgs : Status(n)' = Status(n),
         delivered' = [delivered EXCEPT ![m] = @ + 1],
         UNCHANGED <<diverged, mode>>, mode # "down"
  PROVE  MB!HandOverUnsure(m)
<1>1. [n \in Msgs |-> Status(n)]' = [n \in Msgs |-> Status(n)]
  OBVIOUS
<1>. QED  BY <1>1, Zenon DEF MB!HandOverUnsure

(* A process ends: End. *)
LEMMA MapEnd ==
  ASSUME mode # "down", mode' = "down", diverged \subseteq diverged', diverged' \subseteq Msgs,
         UNCHANGED delivered,
         \A n \in Msgs : \/ Status(n)' = Status(n)
                         \/ Status(n) = "held" /\ Status(n)' = "gone"
                         \/ Status(n) = "gone" /\ Status(n)' = "held" /\ n \in diverged'
  PROVE  MB!End
<1>. DEFINE S == {n \in Msgs : Status(n) = "held" /\ Status(n)' = "gone"}
            T == {n \in Msgs : Status(n) = "gone" /\ Status(n)' = "held"}
<1>1. S \in SUBSET MB!With("held")
  BY Zenon DEF MB!With
<1>2. T \in SUBSET (MB!With("gone") \cap diverged')
  BY Zenon DEF MB!With
<1>3. [n \in Msgs |-> Status(n)]' = [n \in Msgs |-> IF n \in T THEN "held" ELSE MB!Dropping(S)[n]]
  BY Zenon DEF MB!Dropping
<1>. HIDE DEF S, T
<1>. QED  BY <1>1, <1>2, <1>3, Zenon DEF MB!End

(* A process starts: Begin. *)
LEMMA MapBegin ==
  ASSUME mode = "down", mode' = "up", UNCHANGED <<delivered, diverged>>,
         \A n \in Msgs : Status(n)' = Status(n)
  PROVE  MB!Begin
<1>1. [n \in Msgs |-> Status(n)]' = [n \in Msgs |-> Status(n)]
  OBVIOUS
<1>. QED  BY <1>1, Zenon DEF MB!Begin

-----------------------------------------------------------------------------
(* Which step of Mailbox each step of the relay is. *)

(* A step that touches no message drops nothing. *)
LEMMA QuietMap ==
  ASSUME RelayInv, RelayInv',
         UNCHANGED <<rows, disk, now, diverged, flush, delivered>>,
         mode' = "down" <=> mode = "down",
         \A m \in Msgs : /\ dpc'[m] \in Delivering <=> dpc[m] \in Delivering
                         /\ dpc'[m] = "unsent" <=> dpc[m] = "unsent"
  PROVE  MB!Drop
<1>1. Stored' = Stored
  BY Zenon DEF Stored
<1>2. \A n \in Msgs : LiveHeld(n)' <=> LiveHeld(n)
  BY <1>1, Zenon DEF LiveHeld, FlushRows, Expired
<1>3. \A n \in Msgs : Status(n)' = Status(n)
  BY <1>2, StatusSame, Zenon
<1>. QED  BY <1>3, MapDrop, Zenon

(* A message goes into the queue, from a delivery or a flush. *)
LEMMA EnqueueMap ==
  ASSUME RelayInv, RelayInv', NEW u \in Users, NEW m \in Msgs, Enqueue(u, m),
         delivered' = delivered, dpc[m] # "unsent", dpc'[m] # "unsent",
         dpc[m] \in Delivering \/ LiveHeld(m),
         \A n \in Msgs \ {m} :
           /\ dpc'[n] = dpc[n]
           /\ \A c \in Conns : FlushRows(c, n)' = FlushRows(c, n)
  PROVE  MB!Drop
<1>1. /\ mode # "down" /\ mode' = mode /\ diverged' = diverged /\ now' = now
      /\ \A r \in rows \ rows' : Expired(r, now)
      /\ rows' \subseteq rows \cup {NewRow(u, m)}
      /\ NewRow(u, m).msg = m
  BY EnqueueEffect, Zenon DEF RelayInv
<1>2. Stored = rows /\ Stored' = rows'
  BY <1>1, Zenon DEF Stored
<1>3. ASSUME NEW n \in Msgs, n # m
      PROVE  Status(n)' = Status(n)
  <2>1. LiveHeld(n)' <=> LiveHeld(n)
    BY <1>1, <1>2, <1>3, Zenon DEF LiveHeld
  <2>. QED  BY <1>3, <2>1, StatusSame, Zenon
<1>4. \/ Status(m)' = Status(m)
      \/ Status(m) = "held" /\ Status(m)' = "gone"
  BY StatusShrinks, Zenon
<1>. QED  BY <1>1, <1>3, <1>4, MapDrop, Zenon

(* Rows leave the table, some of them into a flush. *)
LEMMA TakeMap ==
  ASSUME RelayInv, RelayInv', NEW c, NEW got \in SUBSET rows,
         mode = "up", UNCHANGED <<now, mode, diverged, dpc, delivered>>,
         rows' \subseteq rows, \A r \in got : ~Expired(r, now),
         \A d \in Conns \ {c} : flush'[d] = flush[d],
         flush'[c] = flush[c] \/ flush'[c] = got
  PROVE  MB!Drop
<1>1. Stored = rows /\ Stored' = rows'
  BY Zenon DEF Stored
<1>2. ASSUME NEW n \in Msgs
      PROVE  LiveHeld(n)' => LiveHeld(n)
  <2>1. ASSUME NEW r \in rows', r.msg = n, ~Expired(r, now)
        PROVE  LiveHeld(n)
    BY <1>1, <2>1, Zenon DEF LiveHeld
  <2>2. ASSUME NEW d \in Conns, NEW r \in flush'[d], r.msg = n
        PROVE  LiveHeld(n)
    BY <1>1, <2>2, Zenon DEF LiveHeld, FlushRows
  <2>. QED  BY <1>1, <2>1, <2>2, Zenon DEF LiveHeld, FlushRows
<1>3. \A n \in Msgs : \/ Status(n)' = Status(n)
                      \/ Status(n) = "held" /\ Status(n)' = "gone"
  BY <1>2, StatusShrinks, Zenon
<1>. QED  BY <1>3, MapDrop, Zenon

(* A message is written to a socket, by a delivery or a flush. *)
LEMMA WriteMap ==
  ASSUME RelayInv, RelayInv', NEW c, NEW m \in Msgs, UNCHANGED storeVars,
         dpc[m] # "unsent", dpc'[m] # "unsent",
         mode # "down", dpc[m] \in Delivering \/ LiveHeld(m),
         \A n \in Msgs \ {m} :
           dpc'[n] = dpc[n] /\ \A d \in Conns : FlushRows(d, n)' = FlushRows(d, n),
         \/ WriteOk(c, m) /\ (m \notin diverged => ~Held(m)')
         \/ /\ WriteFails(c, m)
            /\ dpc'[m] \in Delivering <=> dpc[m] \in Delivering
            /\ \A d \in Conns : FlushRows(d, m)' = FlushRows(d, m)
  PROVE  MB!Next
<1>1. /\ UNCHANGED <<rows, disk, now, mode, dirty, diverged>>
      /\ Stored' = Stored /\ Surviving' = Surviving
  BY Zenon DEF storeVars, Stored, Surviving
<1>2. ASSUME NEW n \in Msgs, n # m
      PROVE  Status(n)' = Status(n)
  <2>1. LiveHeld(n)' <=> LiveHeld(n)
    BY <1>1, <1>2, Zenon DEF LiveHeld
  <2>. QED  BY <1>2, <2>1, StatusSame, Zenon
<1>3. Status(m) = "held"
  BY StatusHeld, Zenon
<1>4. CASE WriteOk(c, m) /\ (m \notin diverged => ~Held(m)')
  <2>1. delivered' = [delivered EXCEPT ![m] = @ + 1]
    BY <1>4, Zenon DEF WriteOk
  <2>2. Status(m)' = Status(m) \/ Status(m)' = "gone"
    BY StatusShrinks, Zenon
  <2>3. ASSUME m \notin diverged
        PROVE  Status(m)' = "gone"
    <3>1. Stored' \subseteq Surviving'
      BY <1>1, RowsSurvive, Zenon DEF RelayInv, Stored, Surviving
    <3>2. ~(dpc'[m] \in Delivering \/ LiveHeld(m)')
      BY <1>4, <2>3, <3>1, Zenon DEF LiveHeld, Held, StoredRows
    <3>3. Status(m)' = StatusIs(m)'
      BY StatusCasesNext, Zenon DEF StatusesAre
    <3>. QED  BY <3>2, <3>3, Zenon DEF StatusIs
  <2>4. Status(m)' = "gone" \/ (m \in diverged /\ Status(m)' = "held")
    BY <1>3, <2>2, <2>3, Zenon
  <2>5. MB!HandOver(m)
    BY <1>1, <1>2, <1>3, <2>1, <2>4, MapHandOver, Zenon
  <2>. QED  BY <2>5, Zenon DEF MB!Next
<1>5. CASE /\ WriteFails(c, m)
           /\ dpc'[m] \in Delivering <=> dpc[m] \in Delivering
           /\ \A d \in Conns : FlushRows(d, m)' = FlushRows(d, m)
  <2>1. LiveHeld(m)' <=> LiveHeld(m)
    BY <1>1, <1>5, Zenon DEF LiveHeld
  <2>2. Status(m)' = Status(m)
    BY <1>5, <2>1, StatusSame, Zenon
  <2>3. \A n \in Msgs : Status(n)' = Status(n)
    BY <1>2, <2>2, Zenon
  <2>4. CASE delivered' = delivered
    BY <1>1, <2>3, <2>4, MapDrop, Zenon DEF MB!Next
  <2>5. CASE delivered' = [delivered EXCEPT ![m] = @ + 1]
    BY <1>1, <1>3, <2>3, <2>5, MapUnsure, Zenon DEF MB!Next
  <2>. QED  BY <1>5, <2>4, <2>5, Zenon DEF WriteFails
<1>. QED  BY <1>4, <1>5, Zenon

(* The steps of serveConn map to steps of Mailbox. *)
LEMMA ConnMap ==
  ASSUME RelayInv, RelayInv', NEW c \in Conns, Connect(c) \/ SockDies(c) \/ ConnStep(c)
  PROVE  MB!Next
<1>0. flush \in [Conns -> SUBSET Row]
  BY Zenon DEF RelayInv, TypeOK
<1>1. CASE Connect(c) \/ SockDies(c) \/ Register(c) \/ ClosePrev(c) \/ ReadEnds(c) \/ Unregister(c)
  <2>1. UNCHANGED <<rows, disk, now, mode, diverged, flush, dpc, delivered>>
    BY <1>1, Zenon DEF Connect, Upgraded, SockDies, Register, ClosePrev, ReadEnds, Unregister,
                storeVars, deliverVars, histVars
  <2>. QED  BY <2>1, QuietMap, Zenon DEF MB!Next
<1>2. CASE Drain(c)
  <2>1. UNCHANGED <<dpc, delivered>>
    BY <1>2, Zenon DEF Drain, deliverVars, histVars
  <2>2. ASSUME NEW got \in SUBSET rows, DrainQueue(UserOf[c], got),
               flush' = [flush EXCEPT ![c] = got]
        PROVE  MB!Next
    <3>1. UserOf[c] \in Users
      OBVIOUS
    <3>2. /\ mode = "up" /\ UNCHANGED <<now, mode, diverged>> /\ rows' \subseteq rows
          /\ \A r \in got : ~Expired(r, now)
      BY <2>2, <3>1, DrainEffect, Zenon DEF RelayInv
    <3>3. /\ \A d \in Conns \ {c} : flush'[d] = flush[d]
          /\ flush'[c] = got
      BY <1>0, <2>2, Zenon
    <3>. QED  BY <2>1, <3>2, <3>3, TakeMap, Zenon DEF MB!Next
  <2>3. CASE UNCHANGED <<storeVars, flush>>
    <3>1. UNCHANGED <<rows, disk, now, mode, diverged, flush>>
      BY <2>3, Zenon DEF storeVars
    <3>. QED  BY <2>1, <3>1, QuietMap, Zenon DEF MB!Next
  <2>. QED  BY <1>2, <2>2, <2>3, Zenon DEF Drain
<1>3. CASE FlushWrite(c)
  <2>1. PICK r \in First(flush[c]) :
          \/ WriteOk(c, r.msg) /\ flush' = [flush EXCEPT ![c] = @ \ {r}]
          \/ WriteFails(c, r.msg) /\ flush' = [flush EXCEPT ![c] = Leftover(@)]
    BY <1>3, Zenon DEF FlushWrite
  <2>. DEFINE m == r.msg
  <2>2. r \in flush[c] /\ m \in Msgs
    BY RowMsgs, Zenon DEF First
  <2>3. /\ mode # "down" /\ dpc[m] # "unsent" /\ LiveHeld(m)
        /\ m \notin diverged =>
              /\ dpc[m] \notin Delivering
              /\ StoredRows(m) = {}
              /\ \A d \in Conns : \A q \in FlushRows(d, m) : d = c /\ q = r
    BY <2>2, FlushOwner, Zenon DEF LiveHeld
  <2>4. UNCHANGED <<storeVars, dpc>>
    BY <1>3, Zenon DEF FlushWrite, deliverVars
  <2>6. \A n \in Msgs \ {m} : \A d \in Conns : FlushRows(d, n)' = FlushRows(d, n)
    BY <1>0, <2>1 DEF Leftover, FlushRows
  <2>7. CASE WriteOk(c, m) /\ flush' = [flush EXCEPT ![c] = @ \ {r}]
    <3>1. ASSUME m \notin diverged
          PROVE  ~Held(m)'
      <4>1. \A d \in Conns : FlushRows(d, m)' = {}
        BY <1>0, <2>3, <2>7, <3>1, Zenon DEF FlushRows
      <4>2. StoredRows(m)' = StoredRows(m)
        BY <2>4, Zenon DEF StoredRows, Surviving, storeVars
      <4>. QED  BY <2>3, <2>4, <3>1, <4>1, <4>2, Zenon DEF Held
    <3>. HIDE DEF m
    <3>. QED  BY <2>2, <2>3, <2>4, <2>6, <2>7, <3>1, WriteMap, Zenon
  <2>8. CASE WriteFails(c, m) /\ flush' = [flush EXCEPT ![c] = Leftover(@)]
    <3>1. flush' = flush
      BY <1>0, <2>8, Zenon DEF Leftover
    <3>2. \A d \in Conns : FlushRows(d, m)' = FlushRows(d, m)
      BY <3>1, Zenon DEF FlushRows
    <3>. HIDE DEF m
    <3>. QED  BY <2>2, <2>3, <2>4, <2>6, <2>8, <3>2, WriteMap, Zenon
  <2>. QED  BY <2>1, <2>7, <2>8, Zenon
<1>4. CASE Requeue(c)
  <2>1. PICK r \in First(flush[c]) :
          Enqueue(UserOf[c], r.msg) /\ flush' = [flush EXCEPT ![c] = @ \ {r}]
    BY <1>4, Zenon DEF Requeue
  <2>. DEFINE m == r.msg
  <2>2. r \in flush[c] /\ m \in Msgs /\ UserOf[c] \in Users
    BY RowMsgs, Zenon DEF First
  <2>3. dpc[m] # "unsent" /\ LiveHeld(m)
    BY <2>2, FlushOwner, Zenon DEF LiveHeld
  <2>4. UNCHANGED <<dpc, delivered>>
    BY <1>4, Zenon DEF Requeue, deliverVars, histVars
  <2>5. \A n \in Msgs \ {m} : \A d \in Conns : FlushRows(d, n)' = FlushRows(d, n)
    BY <1>0, <2>1, Zenon DEF FlushRows
  <2>6. Enqueue(UserOf[c], m)
    BY <2>1, Zenon
  <2>. HIDE DEF m
  <2>. QED  BY <2>2, <2>3, <2>4, <2>5, <2>6, EnqueueMap, Zenon DEF MB!Next
<1>. QED  BY <1>1, <1>2, <1>3, <1>4, Zenon DEF ConnStep

(* The steps of handleMessage and deliver map to steps of Mailbox. *)
LEMMA DeliverMap ==
  ASSUME RelayInv, RelayInv', NEW m \in Msgs, Accept(m) \/ DeliverStep(m)
  PROVE  MB!Next
<1>0. dpc \in [Msgs -> {"unsent", "done"} \cup Delivering]
  BY Zenon DEF RelayInv, TypeOK
<1>1. CASE Accept(m)
  <2>1. /\ mode # "down" /\ dpc[m] = "unsent" /\ dpc'[m] = "lookup"
        /\ \A n \in Msgs \ {m} : dpc'[n] = dpc[n]
        /\ UNCHANGED <<rows, disk, now, mode, diverged, flush, delivered>>
    BY <1>0, <1>1, Zenon DEF Accept, storeVars, connVars, histVars
  <2>2. Stored' = Stored
    BY <2>1, Zenon DEF Stored
  <2>3. \A n \in Msgs : LiveHeld(n)' <=> LiveHeld(n)
    BY <2>1, <2>2, Zenon DEF LiveHeld, FlushRows, Expired
  <2>4. \A n \in Msgs \ {m} : Status(n)' = Status(n)
    BY <2>1, <2>3, StatusSame, Zenon
  <2>5. Status(m) = StatusIs(m) /\ Status(m)' = StatusIs(m)'
    BY StatusCases, StatusCasesNext, Zenon DEF StatusesAre
  <2>6. Status(m) = "new" /\ Status(m)' = "held"
    BY <2>1, <2>5, Zenon DEF StatusIs, Delivering
  <2>. QED  BY <2>1, <2>4, <2>6, MapAccept, Zenon DEF MB!Next
<1>2. CASE LookupClient(m)
  <2>1. \A n \in Msgs : /\ dpc'[n] \in Delivering <=> dpc[n] \in Delivering
                        /\ dpc'[n] = "unsent" <=> dpc[n] = "unsent"
    BY <1>0, <1>2, Zenon DEF LookupClient, Delivering
  <2>2. UNCHANGED <<rows, disk, now, mode, diverged, flush, delivered>>
    BY <1>2, Zenon DEF LookupClient, storeVars, connVars, histVars
  <2>. QED  BY <2>1, <2>2, QuietMap, Zenon DEF MB!Next
<1>3. CASE DeliverWrite(m)
  <2>1. dpc[m] \in Delivering
    BY <1>3, Zenon DEF DeliverWrite, Delivering
  <2>2. /\ mode # "down" /\ dpc[m] # "unsent"
        /\ m \notin diverged =>
             StoredRows(m) = {} /\ \A c \in Conns : FlushRows(c, m) = {}
    BY <2>1, DeliverOwner, Zenon
  <2>3. UNCHANGED <<storeVars, flush>>
    BY <1>3, Zenon DEF DeliverWrite
  <2>4. /\ \A n \in Msgs : \A d \in Conns : FlushRows(d, n)' = FlushRows(d, n)
        /\ StoredRows(m)' = StoredRows(m)
    BY <2>3, Zenon DEF FlushRows, StoredRows, Surviving, storeVars
  <2>5. CASE WriteOk(target[m], m) /\ dpc' = [dpc EXCEPT ![m] = "done"]
    <3>1. /\ dpc'[m] = "done"
          /\ \A n \in Msgs \ {m} : dpc'[n] = dpc[n]
      BY <1>0, <2>5, Zenon
    <3>2. m \notin diverged => ~Held(m)'
      BY <2>2, <2>4, <3>1, Zenon DEF Held, Delivering
    <3>. QED  BY <2>1, <2>2, <2>3, <2>4, <2>5, <3>1, <3>2, WriteMap, Zenon
  <2>6. CASE WriteFails(target[m], m) /\ dpc' = [dpc EXCEPT ![m] = "enqueue"]
    <3>1. /\ dpc'[m] = "enqueue" /\ dpc'[m] \in Delivering
          /\ \A n \in Msgs \ {m} : dpc'[n] = dpc[n]
      BY <1>0, <2>6, Zenon DEF Delivering
    <3>. QED  BY <2>1, <2>2, <2>3, <2>4, <2>6, <3>1, WriteMap, Zenon
  <2>. QED  BY <1>3, <2>5, <2>6, Zenon DEF DeliverWrite
<1>4. CASE DeliverEnqueue(m)
  <2>1. /\ dpc[m] \in Delivering /\ dpc[m] # "unsent"
        /\ Enqueue(To[m], m) /\ To[m] \in Users
    BY <1>4, Zenon DEF DeliverEnqueue, Delivering
  <2>2. UNCHANGED <<flush, delivered>>
    BY <1>4, Zenon DEF DeliverEnqueue, connVars, histVars
  <2>3. /\ dpc'[m] = "done"
        /\ \A n \in Msgs \ {m} : dpc'[n] = dpc[n]
    BY <1>0, <1>4, Zenon DEF DeliverEnqueue
  <2>4. \A n \in Msgs : \A d \in Conns : FlushRows(d, n)' = FlushRows(d, n)
    BY <2>2, Zenon DEF FlushRows
  <2>. QED  BY <2>1, <2>2, <2>3, <2>4, EnqueueMap, Zenon DEF MB!Next
<1>. QED  BY <1>1, <1>2, <1>3, <1>4, Zenon DEF DeliverStep

(* The steps of the process map to steps of Mailbox. *)
LEMMA ProcessMap ==
  ASSUME RelayInv, RelayInv',
         Background \/ BeginShutdown \/ FinishShutdown \/ ListenerFails
           \/ ProcessEnds \/ ProcessRestarts
  PROVE  MB!Next
<1>1. CASE PurgeExpired /\ UNCHANGED <<connVars, deliverVars, histVars>>
  <2>1. /\ mode = "up" /\ UNCHANGED <<now, mode, diverged>> /\ rows' \subseteq rows
    BY <1>1, PurgeEffect, Zenon DEF RelayInv
  <2>2. UNCHANGED <<flush, dpc, delivered>> /\ {} \in SUBSET rows
    BY <1>1, Zenon DEF connVars, deliverVars, histVars
  <2>. QED  BY <2>1, <2>2, TakeMap, Zenon DEF MB!Next
<1>2. CASE Tick /\ UNCHANGED <<connVars, deliverVars, histVars>>
  <2>1. /\ UNCHANGED <<rows, disk, mode, diverged, flush, dpc, delivered>>
        /\ now' = now + 1
    BY <1>2, Zenon DEF Tick, connVars, deliverVars, histVars
  <2>2. Stored' = Stored /\ Stored \in SUBSET Row /\ now \in Nat
    BY <2>1, Zenon DEF Stored, RelayInv, TypeOK, StoreTypeOK
  <2>3. \A r \in Stored : Expired(r, now) => Expired(r, now')
    BY <2>1, <2>2 DEF Expired, Row
  <2>4. \A n \in Msgs : LiveHeld(n)' => LiveHeld(n)
    BY <2>1, <2>2, <2>3, Zenon DEF LiveHeld, FlushRows, Expired
  <2>5. \A n \in Msgs : \/ Status(n)' = Status(n)
                        \/ Status(n) = "held" /\ Status(n)' = "gone"
    BY <2>1, <2>4, StatusShrinks, Zenon
  <2>. QED  BY <2>1, <2>5, MapDrop, Zenon DEF MB!Next
<1>3. CASE (Stop \/ UNCHANGED storeVars) /\ UNCHANGED <<connVars, deliverVars, histVars>>
  <2>1. /\ UNCHANGED <<rows, disk, now, diverged, flush, dpc, delivered>>
        /\ mode' = "down" <=> mode = "down"
    BY <1>3, Zenon DEF Stop, storeVars, connVars, deliverVars, histVars
  <2>. QED  BY <2>1, QuietMap, Zenon DEF MB!Next
<1>4. CASE ProcessEnds
  <2>1. /\ mode # "down" /\ mode' = "down" /\ UNCHANGED <<disk, now, delivered>>
        /\ diverged' = IF dirty
                       THEN diverged \cup MsgsOf(rows \ disk.rows) \cup MsgsOf(disk.rows \ rows)
                       ELSE diverged
        /\ \A c \in Conns : flush'[c] = {}
        /\ \A m \in Msgs : dpc'[m] = IF dpc[m] = "unsent" THEN "unsent" ELSE "done"
    BY <1>4, Zenon DEF ProcessEnds, Crash
  <2>2. diverged \subseteq diverged' /\ diverged' \subseteq Msgs
    BY <2>1, Zenon DEF RelayInv, TypeOK, StoreTypeOK
  <2>3. Stored = rows /\ Stored' = disk.rows
    BY <2>1, Zenon DEF Stored
  <2>4. ASSUME NEW n \in Msgs, n \notin diverged'
        PROVE  LiveHeld(n)' => LiveHeld(n)
    <3>1. \A r \in disk.rows : r.msg = n /\ ~Expired(r, now) => r \in rows
      BY <2>1, <2>4, Zenon DEF RelayInv, FileCovers, MsgsOf
    <3>. QED  BY <2>1, <2>3, <3>1, Zenon DEF LiveHeld, FlushRows, Expired
  <2>5. ASSUME NEW n \in Msgs
        PROVE  \/ Status(n)' = Status(n)
               \/ Status(n) = "held" /\ Status(n)' = "gone"
               \/ Status(n) = "gone" /\ Status(n)' = "held" /\ n \in diverged'
    <3>1. /\ dpc'[n] = "unsent" <=> dpc[n] = "unsent"
          /\ dpc'[n] \notin Delivering
      BY <2>1, Zenon DEF Delivering
    <3>2. CASE n \notin diverged'
      BY <2>4, <3>1, <3>2, StatusShrinks, Zenon
    <3>3. CASE n \in diverged'
      <4>1. Status(n) = StatusIs(n) /\ Status(n)' = StatusIs(n)'
        BY StatusCases, StatusCasesNext, Zenon DEF StatusesAre
      <4>. QED  BY <3>1, <3>3, <4>1, Zenon DEF StatusIs
    <3>. QED  BY <3>2, <3>3, Zenon
  <2>. QED  BY <2>1, <2>2, <2>5, MapEnd, Zenon DEF MB!Next
<1>5. CASE ProcessRestarts
  <2>1. /\ mode = "down" /\ mode' = "up" /\ rows' = disk.rows
        /\ UNCHANGED <<disk, now, diverged, flush, dpc, delivered>>
    BY <1>5, Zenon DEF ProcessRestarts, Restart, Loaded, connVars, deliverVars, histVars
  <2>2. Stored' = Stored
    BY <2>1, Zenon DEF Stored
  <2>3. \A n \in Msgs : LiveHeld(n)' <=> LiveHeld(n)
    BY <2>1, <2>2, Zenon DEF LiveHeld, FlushRows, Expired
  <2>4. \A n \in Msgs : Status(n)' = Status(n)
    BY <2>1, <2>3, StatusSame, Zenon
  <2>. QED  BY <2>1, <2>4, MapBegin, Zenon DEF MB!Next
<1>. QED
  BY <1>1, <1>2, <1>3, <1>4, <1>5, Zenon
     DEF Background, BeginShutdown, FinishShutdown, ListenerFails

(* The empty relay is an empty mailbox. *)
LEMMA MailboxInit == Init => MB!Init
<1>. SUFFICES ASSUME Init PROVE MB!Init
  OBVIOUS
<1>1. /\ delivered = [m \in Msgs |-> 0] /\ mode = "up" /\ diverged = {}
      /\ \A m \in Msgs : dpc[m] = "unsent"
  BY Zenon DEF Init, StoreInit
<1>2. \A m \in Msgs : Status(m) = "new"
  BY <1>1, InitRelayInv, StatusCases, Zenon DEF StatusesAre, StatusIs
<1>3. [m \in Msgs |-> Status(m)] = [m \in Msgs |-> "new"]
  BY <1>2, Zenon
<1>. QED  BY <1>1, <1>3, Zenon DEF MB!Init

(* Every step of the relay is a step of Mailbox or a stutter. *)
LEMMA MailboxStep == RelayInv /\ RelayInv' /\ [Next]_vars => [MB!Next]_MB!vars
<1>. SUFFICES ASSUME RelayInv, RelayInv', [Next]_vars PROVE [MB!Next]_MB!vars
  OBVIOUS
<1>1. CASE Next
  <2>1. MB!Next
    BY <1>1, ConnMap, DeliverMap, ProcessMap, Zenon DEF Next
  <2>. QED  BY <2>1, Zenon
<1>2. CASE UNCHANGED vars
  <2>1. UNCHANGED <<rows, disk, now, mode, diverged, flush, dpc, delivered>>
    BY <1>2, Zenon DEF vars, storeVars, connVars, deliverVars, histVars
  <2>2. MB!Drop
    BY <2>1, QuietMap, Zenon
  <2>. QED  BY <2>2, Zenon DEF MB!Next
<1>. QED  BY <1>1, <1>2, Zenon

(* Connections, registry, queue and file implement Mailbox: once accepted a *)
(* message is held until it is handed over or dropped, it is handed over    *)
(* for good at most once, an unsure hand-over keeps it, and only the end of *)
(* a process that could not write its file brings one back (deliver,        *)
(* FlushQueue and the store's methods together).                            *)
THEOREM RelayImplementsMailbox == Spec => ImplementsMailbox
BY MailboxInit, MailboxStep, RelayInvariant, PTL DEF Spec, ImplementsMailbox, MB!Spec

=============================================================================
