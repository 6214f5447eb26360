----------------------------- MODULE RelayProofs -----------------------------
(***************************************************************************)
(* The delivery core is a client of the store (every step is a step of     *)
(* OfflineStore or leaves it alone), keeps its types, and its registry     *)
(* never strands a session: proved for any number of users, connections    *)
(* and messages.                                                           *)
(***************************************************************************)
EXTENDS Relay, TLAPS

USE RelayAssumption

-----------------------------------------------------------------------------
(* The goroutines' part of the type invariant. *)
SessionTypeOK ==
  /\ phase \in {"serving", "draining", "failed"}
  /\ clients \in [Users -> Conns \cup {NoConn}]
  /\ sock \in [Conns -> {"new", "open", "closed"}]
  /\ pc \in [Conns -> {"idle", "register", "done"} \cup Serving]
  /\ prev \in [Conns -> Conns \cup {NoConn}]
  /\ flush \in [Conns -> SUBSET Row]

DeliveryTypeOK ==
  /\ dpc \in [Msgs -> {"unsent", "done"} \cup Delivering]
  /\ target \in [Msgs -> Conns \cup {NoConn}]
  /\ \A m \in Msgs : dpc[m] = "write" => target[m] # NoConn
  /\ delivered \in [Msgs -> Nat]
  /\ ambiguous \in [Msgs -> Nat]
  /\ lost \subseteq Msgs

(* TypeOK in three parts. *)
LEMMA TypeSplit == TypeOK <=> StoreTypeOK /\ SessionTypeOK /\ DeliveryTypeOK
<1>. QED  BY Zenon DEF TypeOK, SessionTypeOK, DeliveryTypeOK

(* The empty relay is type correct, and its file covers its table. *)
LEMMA InitType == Init => TypeOK /\ FileCovers
<1>. SUFFICES ASSUME Init PROVE TypeOK /\ FileCovers
  OBVIOUS
<1>1. StoreTypeOK
  <2>1. disk \in [rows : SUBSET Row, nextId : Nat \ {0}]
    BY DEF Init, StoreInit
  <2>. QED  BY <2>1, Zenon DEF Init, StoreInit, StoreTypeOK
<1>2. SessionTypeOK
  BY Zenon DEF Init, SessionTypeOK
<1>3. DeliveryTypeOK
  BY Zenon DEF Init, DeliveryTypeOK
<1>4. FileCovers
  BY Zenon DEF Init, StoreInit, FileCovers
<1>. QED  BY <1>1, <1>2, <1>3, <1>4, TypeSplit, Zenon

-----------------------------------------------------------------------------
(* Every step of the relay is a step of the store or leaves it unchanged. *)
LEMMA StoreStep ==
  ASSUME TypeOK, [Next]_vars
  PROVE  [StoreNext]_storeVars
<1>1. ASSUME NEW c \in Conns, Connect(c) \/ SockDies(c) \/ ConnStep(c)
      PROVE  [StoreNext]_storeVars
  <2>0. UserOf[c] \in Users
    OBVIOUS
  <2>1. CASE Drain(c)
    BY <2>0, <2>1, Zenon DEF Drain, StoreNext
  <2>2. CASE Requeue(c)
    <3>1. PICK r \in First(flush[c]) : Enqueue(UserOf[c], r.msg)
      BY <2>2, Zenon DEF Requeue
    <3>2. r.msg \in Msgs
      BY DEF TypeOK, First, Row
    <3>. QED  BY <2>0, <3>1, <3>2, Zenon DEF StoreNext
  <2>3. CASE Connect(c) \/ SockDies(c) \/ Register(c) \/ ClosePrev(c) \/ FlushWrite(c)
               \/ ReadEnds(c) \/ Unregister(c)
    BY <2>3, Zenon DEF Connect, Upgraded, SockDies, Register, ClosePrev, FlushWrite, ReadEnds, Unregister
  <2>. QED  BY <1>1, <2>1, <2>2, <2>3, Zenon DEF ConnStep
<1>2. ASSUME NEW m \in Msgs, Accept(m) \/ DeliverStep(m)
      PROVE  [StoreNext]_storeVars
  <2>1. CASE DeliverEnqueue(m)
    BY <2>1, Zenon DEF DeliverEnqueue, StoreNext
  <2>2. CASE Accept(m) \/ LookupClient(m) \/ DeliverWrite(m)
    BY <2>2, Zenon DEF Accept, LookupClient, DeliverWrite
  <2>. QED  BY <1>2, <2>1, <2>2, Zenon DEF DeliverStep
<1>3. CASE Background
  BY <1>3, Zenon DEF Background, StoreNext
<1>4. CASE BeginShutdown \/ FinishShutdown \/ ListenerFails
  BY <1>4, Zenon DEF BeginShutdown, FinishShutdown, ListenerFails, StoreNext
<1>5. CASE ProcessEnds \/ ProcessRestarts
  BY <1>5, Zenon DEF ProcessEnds, ProcessRestarts, StoreNext
<1>6. CASE UNCHANGED vars
  BY <1>6, Zenon DEF vars
<1>. QED  BY <1>1, <1>2, <1>3, <1>4, <1>5, <1>6, Zenon DEF Next

-----------------------------------------------------------------------------
(* The part of the store's invariant that custody rests on.  The rest (caps *)
(* and the order of ids) is not needed here; OfflineStoreProofs has it.     *)

(* A persist that succeeds covers the table; one that fails is marked. *)
LEMMA PersistCovers ==
  ASSUME rows' \in SUBSET Row, nextId' \in Nat \ {0}, Persist(rows', nextId'),
         disk \in [rows : SUBSET Row, nextId : Nat \ {0}]
  PROVE  /\ disk' \in [rows : SUBSET Row, nextId : Nat \ {0}]
         /\ dirty' \in BOOLEAN
         /\ FileCovers'
<1>1. CASE disk' = [rows |-> rows', nextId |-> nextId'] /\ dirty' = FALSE
  BY <1>1, Zenon DEF FileCovers
<1>2. CASE dirty' = TRUE /\ UNCHANGED disk
  <2>1. dirty' \in BOOLEAN
    BY <1>2, Zenon
  <2>. QED  BY <1>2, <2>1, Zenon DEF FileCovers
<1>. QED  BY <1>1, <1>2, Zenon DEF Persist

(* The methods of the store keep its types, and the file covers the table. *)
LEMMA StoreKept ==
  ASSUME StoreTypeOK, FileCovers, [StoreNext]_storeVars
  PROVE  StoreTypeOK' /\ FileCovers'
<1>. USE StoreAssumption
<1>0. \A R \in SUBSET Row : MsgsOf(R) \subseteq Msgs
  BY Zenon DEF MsgsOf, Row
<1>1. ASSUME NEW u \in Users, NEW m \in Msgs, Enqueue(u, m)
      PROVE  StoreTypeOK' /\ FileCovers'
  <2>0. /\ UNCHANGED <<now, mode, diverged>>
        /\ Swept(u) \in SUBSET rows /\ \A r \in rows \ Swept(u) : Expired(r, now)
        /\ NewRow(u, m) \in Row
    BY <1>1 DEF Enqueue, Swept, NewRow, Row, StoreTypeOK
  <2>1. MsgsOf(rows \ Swept(u)) \subseteq Msgs /\ MsgsOf(rows \ rows') \subseteq Msgs
    BY <1>0, Zenon DEF StoreTypeOK
  <2>2. CASE /\ rows' = rows \/ rows' = Swept(u)
             /\ UNCHANGED <<nextId, disk, dirty>>
             /\ rejected' \subseteq rejected \cup {m}
             /\ discarded' \subseteq discarded \cup Msgs
    <3>1. FileCovers'
      BY <2>0, <2>2, Zenon DEF FileCovers, Expired
    <3>. QED  BY <2>0, <2>2, <3>1, Zenon DEF StoreTypeOK
  <2>3. CASE /\ rows' = Swept(u) \cup {NewRow(u, m)} /\ nextId' = nextId + 1
             /\ Persist(rows', nextId') /\ UNCHANGED rejected
             /\ discarded' \subseteq discarded \cup Msgs
    <3>1. rows' \in SUBSET Row /\ nextId' \in Nat \ {0}
      BY <2>0, <2>3 DEF StoreTypeOK
    <3>2. /\ disk' \in [rows : SUBSET Row, nextId : Nat \ {0}]
          /\ dirty' \in BOOLEAN /\ FileCovers'
      BY <2>3, <3>1, PersistCovers, Zenon DEF StoreTypeOK
    <3>. QED  BY <2>0, <2>3, <3>1, <3>2, Zenon DEF StoreTypeOK
  <2>. QED  BY <1>1, <2>1, <2>2, <2>3, Zenon DEF Enqueue
<1>2. ASSUME rows' \in SUBSET rows, Persist(rows', nextId),
             discarded' \subseteq Msgs, rejected' \subseteq Msgs,
             UNCHANGED <<nextId, now, mode, diverged>>
      PROVE  StoreTypeOK' /\ FileCovers'
  <2>1. /\ disk' \in [rows : SUBSET Row, nextId : Nat \ {0}]
        /\ dirty' \in BOOLEAN /\ FileCovers'
    BY <1>2, PersistCovers, Zenon DEF StoreTypeOK
  <2>. QED  BY <1>2, <2>1, Zenon DEF StoreTypeOK
<1>3. ASSUME NEW u \in Users, NEW got \in SUBSET rows, DrainQueue(u, got)
      PROVE  StoreTypeOK' /\ FileCovers'
  <2>1. /\ rows' \in SUBSET rows
        /\ RowsOf(rows, u) \ Drained(u) \in SUBSET Row /\ Drained(u) \ got \in SUBSET Row
    BY <1>3, Zenon DEF DrainQueue, StoreTypeOK, RowsOf, Drained, Live
  <2>2. discarded' \subseteq Msgs /\ rejected' \subseteq Msgs
    BY <1>0, <1>3, <2>1, Zenon DEF DrainQueue, StoreTypeOK
  <2>. QED  BY <1>2, <1>3, <2>1, <2>2, Zenon DEF DrainQueue
<1>4. CASE PurgeExpired
  <2>1. rows' \in SUBSET rows /\ rows \ rows' \in SUBSET Row
    BY <1>4, Zenon DEF PurgeExpired, Live, StoreTypeOK
  <2>2. discarded' \subseteq Msgs /\ rejected' \subseteq Msgs
    BY <1>0, <1>4, <2>1, Zenon DEF PurgeExpired, StoreTypeOK
  <2>. QED  BY <1>2, <1>4, <2>1, <2>2, Zenon DEF PurgeExpired
<1>5. CASE Stop \/ Tick \/ UNCHANGED storeVars
  <2>1. StoreTypeOK'
    BY <1>5 DEF Stop, Tick, storeVars, StoreTypeOK
  <2>2. now' \in {now, now + 1} /\ \A r \in disk.rows : Expired(r, now) => Expired(r, now')
    BY <1>5 DEF Stop, Tick, storeVars, StoreTypeOK, Expired, Row
  <2>. QED  BY <1>5, <2>1, <2>2, Zenon DEF Stop, Tick, storeVars, FileCovers
<1>6. CASE Crash
  <2>1. diverged' \subseteq Msgs
    <3>1. MsgsOf(rows \ disk.rows) \subseteq Msgs /\ MsgsOf(disk.rows \ rows) \subseteq Msgs
      BY <1>0, Zenon DEF StoreTypeOK
    <3>. QED  BY <1>6, <3>1, Zenon DEF Crash, StoreTypeOK
  <2>2. dirty' \in BOOLEAN
    BY <1>6, Zenon DEF Crash
  <2>3. /\ mode' = "down" /\ rows' = {} /\ nextId' = 1
        /\ UNCHANGED <<disk, now, discarded, rejected>>
    BY <1>6, Zenon DEF Crash
  <2>4. StoreTypeOK'
    BY <2>1, <2>2, <2>3 DEF StoreTypeOK
  <2>. QED  BY <2>3, <2>4, Zenon DEF FileCovers
<1>7. CASE Restart
  BY <1>7, Zenon DEF Restart, Loaded, StoreTypeOK, FileCovers
<1>. QED  BY <1>1, <1>3, <1>4, <1>5, <1>6, <1>7, Zenon DEF StoreNext

-----------------------------------------------------------------------------
(* Type correctness.  Writes to a socket share one lemma. *)
LEMMA WriteType ==
  ASSUME TypeOK, NEW c, NEW m, WriteOk(c, m) \/ WriteFails(c, m)
  PROVE  /\ sock' \in [Conns -> {"new", "open", "closed"}]
         /\ delivered' \in [Msgs -> Nat]
         /\ ambiguous' \in [Msgs -> Nat]
<1>. QED  BY DEF TypeOK, WriteOk, WriteFails

(* The steps of serveConn. *)
LEMMA ConnType ==
  ASSUME TypeOK, NEW c \in Conns, Connect(c) \/ SockDies(c) \/ ConnStep(c)
  PROVE  SessionTypeOK' /\ DeliveryTypeOK'
<1>. USE DEF SessionTypeOK, DeliveryTypeOK, deliverVars, histVars
<1>0. SessionTypeOK /\ DeliveryTypeOK
  BY TypeSplit, Zenon
<1>1. CASE Connect(c)
  BY <1>0, <1>1, Zenon DEF Connect, Upgraded
<1>2. CASE SockDies(c)
  BY <1>0, <1>2, Zenon DEF SockDies
<1>3. CASE Register(c)
  BY <1>0, <1>3, Zenon DEF Register, Serving
<1>4. CASE ClosePrev(c)
  BY <1>0, <1>4, Zenon DEF ClosePrev, Serving
<1>5. CASE Drain(c)
  <2>1. \A got \in SUBSET rows : got \in SUBSET Row
    BY Zenon DEF TypeOK, StoreTypeOK
  <2>2. flush' \in [Conns -> SUBSET Row]
    BY <1>0, <1>5, <2>1 DEF Drain
  <2>. QED  BY <1>0, <1>5, <2>2, Zenon DEF Drain, Serving
<1>6. CASE FlushWrite(c)
  <2>1. PICK r \in First(flush[c]) :
          /\ WriteOk(c, r.msg) \/ WriteFails(c, r.msg)
          /\ flush' = [flush EXCEPT ![c] = @ \ {r}] \/ flush' = [flush EXCEPT ![c] = Leftover(@)]
          /\ \E l \in {"loop", "flush", "requeue"} : pc' = [pc EXCEPT ![c] = l]
    BY <1>6, Zenon DEF FlushWrite
  <2>2. flush' \in [Conns -> SUBSET Row]
    BY <1>0, <2>1 DEF Leftover
  <2>3. pc' \in [Conns -> {"idle", "register", "done"} \cup Serving]
    BY <1>0, <2>1, Zenon DEF Serving
  <2>. QED  BY <1>0, <1>6, <2>1, <2>2, <2>3, WriteType, Zenon DEF FlushWrite
<1>7. CASE Requeue(c)
  BY <1>0, <1>7 DEF Requeue, Serving
<1>8. CASE ReadEnds(c)
  BY <1>0, <1>8, Zenon DEF ReadEnds, Serving
<1>9. CASE Unregister(c)
  BY <1>0, <1>9, Zenon DEF Unregister
<1>. QED
  BY <1>1, <1>2, <1>3, <1>4, <1>5, <1>6, <1>7, <1>8, <1>9, Zenon DEF ConnStep

(* The steps of handleMessage and deliver. *)
LEMMA DeliverType ==
  ASSUME TypeOK, NEW m \in Msgs, Accept(m) \/ DeliverStep(m)
  PROVE  SessionTypeOK' /\ DeliveryTypeOK'
<1>. USE DEF SessionTypeOK, DeliveryTypeOK, connVars, histVars, Delivering
<1>0. SessionTypeOK /\ DeliveryTypeOK
  BY TypeSplit, Zenon
<1>1. CASE Accept(m)
  BY <1>0, <1>1, Zenon DEF Accept
<1>2. CASE LookupClient(m)
  BY <1>0, <1>2, Zenon DEF LookupClient
<1>3. CASE DeliverWrite(m)
  <2>1. WriteOk(target[m], m) \/ WriteFails(target[m], m)
    BY <1>3, Zenon DEF DeliverWrite
  <2>. QED  BY <1>0, <1>3, <2>1, WriteType DEF DeliverWrite
<1>4. CASE DeliverEnqueue(m)
  BY <1>0, <1>4, Zenon DEF DeliverEnqueue
<1>. QED  BY <1>1, <1>2, <1>3, <1>4, Zenon DEF DeliverStep

(* The steps of the process. *)
LEMMA ProcessType ==
  ASSUME TypeOK,
         Background \/ BeginShutdown \/ FinishShutdown \/ ListenerFails
           \/ ProcessEnds \/ ProcessRestarts
  PROVE  SessionTypeOK' /\ DeliveryTypeOK'
<1>. USE DEF SessionTypeOK, DeliveryTypeOK, connVars, deliverVars, histVars
<1>0. SessionTypeOK /\ DeliveryTypeOK
  BY TypeSplit, Zenon
<1>1. CASE Background \/ BeginShutdown \/ FinishShutdown \/ ListenerFails \/ ProcessRestarts
  BY <1>0, <1>1, Zenon DEF Background, BeginShutdown, FinishShutdown, ListenerFails, ProcessRestarts
<1>2. CASE ProcessEnds
  <2>1. InFlight \subseteq Msgs
    BY <1>0 DEF InFlight, MsgsOf, Row
  <2>2. lost' \subseteq Msgs
    BY <1>0, <1>2, <2>1, Zenon DEF ProcessEnds
  <2>. QED  BY <1>0, <1>2, <2>2, Zenon DEF ProcessEnds
<1>. QED  BY <1>1, <1>2, Zenon

(* TypeOK and FileCovers are inductive. *)
LEMMA NextType == TypeOK /\ FileCovers /\ [Next]_vars => TypeOK' /\ FileCovers'
<1>. SUFFICES ASSUME TypeOK, FileCovers, [Next]_vars PROVE TypeOK' /\ FileCovers'
  OBVIOUS
<1>1. StoreTypeOK' /\ FileCovers'
  BY StoreStep, StoreKept, Zenon DEF TypeOK
<1>2. SessionTypeOK' /\ DeliveryTypeOK'
  <2>1. CASE Next
    BY <2>1, ConnType, DeliverType, ProcessType, Zenon DEF Next
  <2>2. CASE UNCHANGED vars
    BY <2>2, TypeSplit, Zenon
       DEF vars, connVars, deliverVars, histVars, SessionTypeOK, DeliveryTypeOK
  <2>. QED  BY <2>1, <2>2, Zenon
<1>3. TypeOK'
  BY <1>1, <1>2, Zenon DEF TypeOK, SessionTypeOK, DeliveryTypeOK
<1>. QED  BY <1>1, <1>3, Zenon

-----------------------------------------------------------------------------
(* The registry.  NoOrphanSession is inductive relative to TypeOK. *)

(* Steps that touch neither the registry nor any program counter, and close *)
(* sockets at most.                                                         *)
LEMMA RegistryUntouched ==
  ASSUME TypeOK, NoOrphanSession, UNCHANGED <<clients, pc, prev>>,
         \A c \in Conns : sock[c] = "closed" => sock'[c] = "closed"
  PROVE  NoOrphanSession'
<1>. QED  BY Zenon DEF TypeOK, NoOrphanSession

(* Steps within serveConn, before Register or between Register and          *)
(* Unregister, that close nothing on behalf of another connection.          *)
LEMMA RegistryInside ==
  ASSUME TypeOK, NoOrphanSession, NEW c \in Conns, NEW l,
         UNCHANGED <<clients, prev>>,
         pc' = [pc EXCEPT ![c] = l], pc[c] # "closePrev",
         \A d \in Conns : pc[d] \in Serving /\ sock[d] = "closed" => sock'[d] = "closed",
         pc[c] \in Serving <=> l \in Serving
  PROVE  NoOrphanSession'
<1>1. \A d \in Conns : pc'[d] \in Serving <=> pc[d] \in Serving
  BY Zenon DEF TypeOK
<1>2. \A d \in Conns : pc[d] = "closePrev" => pc'[d] = "closePrev"
  BY Zenon DEF TypeOK
<1>. QED  BY <1>1, <1>2 DEF TypeOK, NoOrphanSession

(* The steps of serveConn: Register, ClosePrev and Unregister matter. *)
LEMMA ConnRegistry ==
  ASSUME TypeOK, NoOrphanSession, NEW c \in Conns,
         Connect(c) \/ SockDies(c) \/ ConnStep(c)
  PROVE  NoOrphanSession'
<1>1. CASE Connect(c)
  BY <1>1, RegistryInside, Zenon DEF Connect, Upgraded, TypeOK, Serving
<1>2. CASE SockDies(c)
  BY <1>2, RegistryUntouched, Zenon DEF SockDies, TypeOK
<1>3. CASE Register(c)
  <2>1. UserOf[c] \in Users /\ pc[c] \notin Serving
    BY <1>3, Zenon DEF Register, Serving
  <2>2. \A u \in Users : clients[u] # c
    BY <2>1 DEF NoOrphanSession, TypeOK
  <2>3. /\ clients' = [clients EXCEPT ![UserOf[c]] = c]
        /\ sock' = sock
        /\ pc'[c] \in Serving
        /\ \A d \in Conns \ {c} : pc'[d] = pc[d] /\ prev'[d] = prev[d]
        /\ clients[UserOf[c]] # NoConn =>
             pc'[c] = "closePrev" /\ prev'[c] = clients[UserOf[c]]
    BY <1>3, Zenon DEF Register, TypeOK, Serving
  <2>4. ASSUME NEW u \in Users, clients'[u] # NoConn
        PROVE  UserOf[clients'[u]] = u /\ pc'[clients'[u]] \in Serving
    <3>1. CASE u = UserOf[c]
      BY <2>3, <3>1, Zenon DEF TypeOK
    <3>2. CASE u # UserOf[c]
      BY <2>2, <2>3, <2>4, <3>2 DEF TypeOK, NoOrphanSession
    <3>. QED  BY <3>1, <3>2, Zenon
  <2>5. ASSUME NEW d \in Conns, pc'[d] \in Serving, clients'[UserOf[d]] # d
        PROVE  \/ sock'[d] = "closed"
               \/ \E e \in Conns : pc'[e] = "closePrev" /\ prev'[e] = d
    <3>1. d # c /\ pc[d] \in Serving /\ UserOf[d] \in Users
      BY <2>1, <2>3, <2>5, Zenon DEF TypeOK
    <3>2. CASE clients[UserOf[d]] = d
      <4>1. UserOf[d] = UserOf[c]
        BY <2>3, <2>5, <3>1, <3>2, Zenon DEF TypeOK
      <4>. QED  BY <2>3, <3>1, <3>2, <4>1, Zenon
    <3>3. CASE clients[UserOf[d]] # d
      BY <2>3, <3>1, <3>3, <1>3 DEF NoOrphanSession, Register
    <3>. QED  BY <3>2, <3>3, Zenon
  <2>. QED  BY <2>4, <2>5, Zenon DEF NoOrphanSession
<1>4. CASE ClosePrev(c)
  <2>1. /\ clients' = clients
        /\ pc'[c] \in Serving /\ pc[c] \in Serving
        /\ \A d \in Conns \ {c} : pc'[d] = pc[d] /\ prev'[d] = prev[d]
        /\ \A d \in Conns : sock[d] = "closed" => sock'[d] = "closed"
        /\ prev[c] \in Conns => sock'[prev[c]] = "closed"
    BY <1>4, Zenon DEF ClosePrev, TypeOK, Serving
  <2>2. \A d \in Conns : pc'[d] \in Serving <=> pc[d] \in Serving
    BY <2>1, Zenon
  <2>3. \A u \in Users :
          clients'[u] # NoConn => UserOf[clients'[u]] = u /\ pc'[clients'[u]] \in Serving
    BY <2>1, <2>2 DEF NoOrphanSession, TypeOK
  <2>4. ASSUME NEW d \in Conns, pc'[d] \in Serving, clients'[UserOf[d]] # d
        PROVE  \/ sock'[d] = "closed"
               \/ \E e \in Conns : pc'[e] = "closePrev" /\ prev'[e] = d
    <3>1. CASE sock[d] = "closed"
      BY <2>1, <3>1, Zenon
    <3>2. CASE \E e \in Conns : pc[e] = "closePrev" /\ prev[e] = d
      BY <2>1, <3>2, Zenon
    <3>. QED  BY <2>1, <2>2, <2>4, <3>1, <3>2, Zenon DEF NoOrphanSession
  <2>. QED  BY <2>3, <2>4, Zenon DEF NoOrphanSession
<1>5. CASE Drain(c)
  <2>1. PICK l \in {"loop", "flush"} : pc' = [pc EXCEPT ![c] = l]
    BY <1>5, Zenon DEF Drain
  <2>. QED  BY <1>5, <2>1, RegistryInside, Zenon DEF Drain, Serving
<1>6. CASE FlushWrite(c)
  <2>1. PICK l \in {"loop", "flush", "requeue"} : pc' = [pc EXCEPT ![c] = l]
    BY <1>6, Zenon DEF FlushWrite
  <2>2. \A d \in Conns : sock[d] = "closed" => sock'[d] = "closed"
    BY <1>6, Zenon DEF FlushWrite, WriteOk, WriteFails, TypeOK
  <2>. QED  BY <1>6, <2>1, <2>2, RegistryInside, Zenon DEF FlushWrite, Serving
<1>7. CASE Requeue(c)
  <2>1. PICK l \in {"loop", "requeue"} : pc' = [pc EXCEPT ![c] = l]
    BY <1>7, Zenon DEF Requeue
  <2>. QED  BY <1>7, <2>1, RegistryInside, Zenon DEF Requeue, Serving
<1>8. CASE ReadEnds(c)
  BY <1>8, RegistryInside, Zenon DEF ReadEnds, Serving
<1>9. CASE Unregister(c)
  <2>1. /\ UNCHANGED <<sock, prev>>
        /\ pc'[c] \notin Serving
        /\ \A d \in Conns \ {c} : pc'[d] = pc[d]
        /\ pc[c] # "closePrev"
        /\ \A u \in Users : clients'[u] = IF clients[u] = c /\ u = UserOf[c]
                                          THEN NoConn ELSE clients[u]
    BY <1>9, Zenon DEF Unregister, TypeOK, Serving
  <2>2. \A u \in Users : clients'[u] # c
    BY <2>1 DEF NoOrphanSession, TypeOK
  <2>3. ASSUME NEW u \in Users, clients'[u] # NoConn
        PROVE  UserOf[clients'[u]] = u /\ pc'[clients'[u]] \in Serving
    BY <2>1, <2>2, <2>3 DEF NoOrphanSession, TypeOK
  <2>4. ASSUME NEW d \in Conns, pc'[d] \in Serving, clients'[UserOf[d]] # d
        PROVE  \/ sock'[d] = "closed"
               \/ \E e \in Conns : pc'[e] = "closePrev" /\ prev'[e] = d
    <3>1. d # c /\ pc[d] \in Serving /\ clients[UserOf[d]] # d
      BY <2>1, <2>4, Zenon DEF TypeOK
    <3>. QED  BY <2>1, <3>1 DEF NoOrphanSession
  <2>. QED  BY <2>3, <2>4, Zenon DEF NoOrphanSession
<1>. QED
  BY <1>1, <1>2, <1>3, <1>4, <1>5, <1>6, <1>7, <1>8, <1>9, Zenon DEF ConnStep

(* Every step of the relay keeps the registry sound. *)
LEMMA NextRegistry == TypeOK /\ NoOrphanSession /\ [Next]_vars => NoOrphanSession'
<1>. SUFFICES ASSUME TypeOK, NoOrphanSession, [Next]_vars PROVE NoOrphanSession'
  OBVIOUS
<1>1. ASSUME NEW c \in Conns, Connect(c) \/ SockDies(c) \/ ConnStep(c)
      PROVE  NoOrphanSession'
  BY <1>1, ConnRegistry, Zenon
<1>2. ASSUME NEW m \in Msgs, Accept(m) \/ DeliverStep(m)
      PROVE  NoOrphanSession'
  <2>1. CASE DeliverWrite(m)
    BY <2>1, RegistryUntouched, Zenon DEF DeliverWrite, WriteOk, WriteFails, TypeOK
  <2>2. CASE Accept(m) \/ LookupClient(m) \/ DeliverEnqueue(m)
    BY <2>2, RegistryUntouched, Zenon DEF Accept, LookupClient, DeliverEnqueue, connVars
  <2>. QED  BY <1>2, <2>1, <2>2, Zenon DEF DeliverStep
<1>3. CASE Background \/ BeginShutdown \/ FinishShutdown \/ ListenerFails \/ ProcessRestarts
  BY <1>3, RegistryUntouched, Zenon
     DEF Background, BeginShutdown, FinishShutdown, ListenerFails, ProcessRestarts, connVars
<1>4. CASE ProcessEnds
  BY <1>4, Zenon DEF ProcessEnds, NoOrphanSession, Serving
<1>5. CASE UNCHANGED vars
  BY <1>5, RegistryUntouched, Zenon DEF vars, connVars
<1>. QED  BY <1>1, <1>2, <1>3, <1>4, <1>5, Zenon DEF Next

-----------------------------------------------------------------------------
(* All variables of the relay keep their types in every reachable state.    *)
THEOREM TypeCorrect == Spec => []TypeOK
BY InitType, NextType, PTL DEF Spec

(* The relay uses the store only through its methods: whatever goroutines,  *)
(* flushes, shutdowns and crashes do, the store sees a behaviour of         *)
(* OfflineStore, so its invariants hold of the running relay.               *)
THEOREM RelayImplementsStore == Spec => StoreSpec
<1>1. Init => StoreInit
  BY Zenon DEF Init
<1>2. TypeOK /\ [Next]_vars => [StoreNext]_storeVars
  BY StoreStep, Zenon
<1>. QED  BY <1>1, <1>2, TypeCorrect, PTL DEF Spec, StoreSpec

(* However connections of one user replace each other, fail and end, the    *)
(* registry never points at a finished handler and a replaced handler is    *)
(* closed or about to be closed (Register, Unregister, server.go:235).      *)
THEOREM NoOrphans == Spec => []NoOrphanSession
<1>1. Init => NoOrphanSession
  BY DEF Init, NoOrphanSession, Serving
<1>. QED  BY <1>1, NextRegistry, TypeCorrect, PTL DEF Spec

=============================================================================
