-------------------------------- MODULE Relay --------------------------------
(***************************************************************************)
(* The delivery core: the client registry (store.go), the connection       *)
(* handler serveConn (server.go), Router.deliver and Router.FlushQueue     *)
(* (router.go), over the offline queue of OfflineStore.                    *)
(*                                                                         *)
(* Goroutines: one per connection (pc[c]) and one per delivery (dpc[m]):   *)
(* the read loop of the sender's connection or the /federation/deliver     *)
(* request that called deliver for m.  Store.mu is held inside one action  *)
(* only; lookup, socket write and enqueue are separate actions, as in the  *)
(* code, where no lock spans them.                                         *)
(***************************************************************************)
EXTENDS OfflineStore

CONSTANTS
  Conns,      \* WebSocket connections, each used once
  NoConn,     \* nil *websocket.Conn
  UserOf,     \* the authenticated user of a connection
  To,         \* the local recipient of a message
  HttpMsgs    \* messages that arrive at /federation/deliver

ASSUME RelayAssumption ==
  /\ NoConn \notin Conns
  /\ UserOf \in [Conns -> Users]
  /\ To \in [Msgs -> Users]
  /\ HttpMsgs \subseteq Msgs

VARIABLES
  phase,      \* Server.Run: "serving", "draining", or "failed" (returns an error)
  clients,    \* Store.clients
  sock,       \* "new", "open", "closed"
  pc,         \* where serveConn is
  prev,       \* the connection Register returned, still to be closed
  flush,      \* FlushQueue: the drained rows not written yet
  dpc,        \* where deliver is
  target,     \* the connection LookupClient returned to deliver
  delivered,  \* history: how often the message went out on a socket
  ambiguous,  \* history: how often it did although conn.Write returned an error
  lost        \* history: in a goroutine's hands when the process ended

connVars == <<clients, sock, pc, prev, flush>>
deliverVars == <<dpc, target>>
histVars == <<delivered, ambiguous, lost>>
vars == <<storeVars, phase, connVars, deliverVars, histVars>>

(* Past Register and not yet past Unregister. *)
Serving == {"closePrev", "drain", "flush", "requeue", "loop", "unregister"}
Delivering == {"lookup", "write", "enqueue"}

TypeOK ==
  /\ StoreTypeOK
  /\ phase \in {"serving", "draining", "failed"}
  /\ clients \in [Users -> Conns \cup {NoConn}]
  /\ sock \in [Conns -> {"new", "open", "closed"}]
  /\ pc \in [Conns -> {"idle", "register", "done"} \cup Serving]
  /\ prev \in [Conns -> Conns \cup {NoConn}]
  /\ flush \in [Conns -> SUBSET Row]
  /\ dpc \in [Msgs -> {"unsent", "done"} \cup Delivering]
  /\ target \in [Msgs -> Conns \cup {NoConn}]
  /\ \A m \in Msgs : dpc[m] = "write" => target[m] # NoConn
  /\ delivered \in [Msgs -> Nat]
  /\ ambiguous \in [Msgs -> Nat]
  /\ lost \subseteq Msgs

(* Messages that only a goroutine holds. *)
InFlight == {m \in Msgs : dpc[m] \in Delivering}
              \cup UNION {MsgsOf(flush[c]) : c \in Conns}

(* The row FlushQueue handles next (ids are unique). *)
First(R) == {r \in R : \A q \in R : r.id <= q.id}

-----------------------------------------------------------------------------
(* Wrong variants of definitions below. *)

(* The socket of the replaced connection is left open. *)
ClosePrev_bug(c) ==
  /\ pc[c] = "closePrev"
  /\ prev' = [prev EXCEPT ![c] = NoConn]
  /\ pc' = [pc EXCEPT ![c] = "drain"]
  /\ UNCHANGED <<storeVars, phase, clients, sock, flush, deliverVars, histVars>>

(* msgs[i+1:] *)
Leftover_bug(R) == R \ First(R)

(* delete(s.clients, userID) whoever is registered. *)
Unregister_bug(c) ==
  /\ pc[c] = "unregister"
  /\ clients' = [clients EXCEPT ![UserOf[c]] = NoConn]
  /\ pc' = [pc EXCEPT ![c] = "done"]
  /\ UNCHANGED <<storeVars, phase, sock, prev, flush, deliverVars, histVars>>

(* `online' is not looked at: the write gets the nil connection. *)
LookupClient_bug(m) ==
  /\ dpc[m] = "lookup"
  /\ target' = [target EXCEPT ![m] = clients[To[m]]]
  /\ dpc' = [dpc EXCEPT ![m] = "write"]
  /\ UNCHANGED <<storeVars, phase, connVars, histVars>>

(* The return after a successful write is missing. *)
DeliverWrite_bug(m) ==
  /\ dpc[m] = "write"
  /\ delivered' = [delivered EXCEPT ![m] = @ + 1]
  /\ dpc' = [dpc EXCEPT ![m] = "enqueue"]
  /\ target' = [target EXCEPT ![m] = NoConn]
  /\ UNCHANGED <<storeVars, phase, connVars, ambiguous, lost>>

(* An enqueue that waits for a database that is up. *)
DeliverEnqueue_bug(m) ==
  /\ dpc[m] = "enqueue"
  /\ mode = "up"
  /\ Enqueue(To[m], m)
  /\ dpc' = [dpc EXCEPT ![m] = "done"]
  /\ UNCHANGED <<phase, connVars, target, histVars>>

-----------------------------------------------------------------------------
(* The registry and the life of a connection. *)

(* The upgrade in handleWS succeeds.  Authenticate runs, to its success,    *)
(* before Register is called; Admission has its steps and its failures.     *)
Upgraded(c) ==
  /\ pc[c] = "idle"
  /\ pc' = [pc EXCEPT ![c] = "register"]
  /\ sock' = [sock EXCEPT ![c] = "open"]
  /\ UNCHANGED <<storeVars, phase, clients, prev, flush, deliverVars, histVars>>

(* A client connects: the listener is open. *)
Connect(c) ==
  /\ mode = "up" /\ phase = "serving"
  /\ Upgraded(c)

Register(c) ==
  LET u == UserOf[c] IN
  /\ pc[c] = "register"
  /\ prev' = [prev EXCEPT ![c] = clients[u]]
  /\ clients' = [clients EXCEPT ![u] = c]
  /\ pc' = [pc EXCEPT ![c] = IF clients[u] = NoConn THEN "drain" ELSE "closePrev"]
  /\ UNCHANGED <<storeVars, phase, sock, flush, deliverVars, histVars>>

ClosePrev(c) ==
  /\ pc[c] = "closePrev"
  /\ sock' = [sock EXCEPT ![prev[c]] = "closed"]
  /\ prev' = [prev EXCEPT ![c] = NoConn]
  /\ pc' = [pc EXCEPT ![c] = "drain"]
  /\ UNCHANGED <<storeVars, phase, clients, flush, deliverVars, histVars>>

(* FlushQueue calls DrainQueue, which returns no messages when it fails. *)
Drain(c) ==
  /\ pc[c] = "drain"
  /\ \/ \E got \in SUBSET rows :
          /\ DrainQueue(UserOf[c], got)
          /\ flush' = [flush EXCEPT ![c] = got]
     \/ /\ mode = "stopped" \/ DbFaults
        /\ UNCHANGED <<storeVars, flush>>
  /\ pc' = [pc EXCEPT ![c] = IF flush'[c] = {} THEN "loop" ELSE "flush"]
  /\ UNCHANGED <<phase, clients, sock, prev, deliverVars, histVars>>

(* conn.Write returned nil. *)
WriteOk(c, m) ==
  /\ sock[c] = "open"
  /\ delivered' = [delivered EXCEPT ![m] = @ + 1]
  /\ UNCHANGED <<sock, ambiguous>>

(* conn.Write returned an error, which leaves the connection closed.  The   *)
(* frame may have reached the peer all the same.                            *)
WriteFails(c, m) ==
  /\ sock' = [sock EXCEPT ![c] = "closed"]
  /\ \/ UNCHANGED <<delivered, ambiguous>>
     \/ /\ sock[c] = "open"
        /\ delivered' = [delivered EXCEPT ![m] = @ + 1]
        /\ ambiguous' = [ambiguous EXCEPT ![m] = @ + 1]

(* The rows FlushQueue puts back after a failed write: msgs[i:]. *)
Leftover(R) == R

FlushWrite(c) ==
  /\ pc[c] = "flush"
  /\ \E r \in First(flush[c]) :
       \/ /\ WriteOk(c, r.msg)
          /\ flush' = [flush EXCEPT ![c] = @ \ {r}]
          /\ pc' = [pc EXCEPT ![c] = IF flush'[c] = {} THEN "loop" ELSE "flush"]
       \/ /\ WriteFails(c, r.msg)
          /\ flush' = [flush EXCEPT ![c] = Leftover(@)]
          /\ pc' = [pc EXCEPT ![c] = IF flush'[c] = {} THEN "loop" ELSE "requeue"]
  /\ UNCHANGED <<storeVars, phase, clients, prev, deliverVars, lost>>

(* One turn of the loop over msgs[i:]. *)
Requeue(c) ==
  /\ pc[c] = "requeue"
  /\ \E r \in First(flush[c]) :
       /\ Enqueue(UserOf[c], r.msg)
       /\ flush' = [flush EXCEPT ![c] = @ \ {r}]
  /\ pc' = [pc EXCEPT ![c] = IF flush'[c] = {} THEN "loop" ELSE "requeue"]
  /\ UNCHANGED <<phase, clients, sock, prev, deliverVars, histVars>>

(* The peer goes away. *)
SockDies(c) ==
  /\ sock[c] = "open"
  /\ sock' = [sock EXCEPT ![c] = "closed"]
  /\ UNCHANGED <<storeVars, phase, clients, pc, prev, flush, deliverVars, histVars>>

(* c.Read returns an error and serveConn leaves its loop. *)
ReadEnds(c) ==
  /\ pc[c] = "loop"
  /\ sock[c] = "closed"
  /\ pc' = [pc EXCEPT ![c] = "unregister"]
  /\ UNCHANGED <<storeVars, phase, clients, sock, prev, flush, deliverVars, histVars>>

(* The deferred call: only if the registry still points at c. *)
Unregister(c) ==
  LET u == UserOf[c] IN
  /\ pc[c] = "unregister"
  /\ clients' = IF clients[u] = c THEN [clients EXCEPT ![u] = NoConn] ELSE clients
  /\ pc' = [pc EXCEPT ![c] = "done"]
  /\ UNCHANGED <<storeVars, phase, sock, prev, flush, deliverVars, histVars>>

-----------------------------------------------------------------------------
(* Router.deliver for a local recipient. *)

(* A frame or a request that leads to deliver arrives.  Shutdown stops new  *)
(* HTTP requests; established WebSocket connections go on sending.          *)
Accept(m) ==
  /\ dpc[m] = "unsent"
  /\ mode # "down"
  /\ m \in HttpMsgs => mode = "up" /\ phase = "serving"
  /\ dpc' = [dpc EXCEPT ![m] = "lookup"]
  /\ UNCHANGED <<storeVars, phase, connVars, target, histVars>>

LookupClient(m) ==
  /\ dpc[m] = "lookup"
  /\ target' = [target EXCEPT ![m] = clients[To[m]]]
  /\ dpc' = [dpc EXCEPT ![m] = IF clients[To[m]] = NoConn THEN "enqueue" ELSE "write"]
  /\ UNCHANGED <<storeVars, phase, connVars, histVars>>

DeliverWrite(m) ==
  /\ dpc[m] = "write"
  /\ \/ /\ WriteOk(target[m], m)
        /\ dpc' = [dpc EXCEPT ![m] = "done"]
     \/ /\ WriteFails(target[m], m)
        /\ dpc' = [dpc EXCEPT ![m] = "enqueue"]
  /\ target' = [target EXCEPT ![m] = NoConn]
  /\ UNCHANGED <<storeVars, phase, clients, pc, prev, flush, lost>>

DeliverEnqueue(m) ==
  /\ dpc[m] = "enqueue"
  /\ Enqueue(To[m], m)
  /\ dpc' = [dpc EXCEPT ![m] = "done"]
  /\ UNCHANGED <<phase, connVars, target, histVars>>

-----------------------------------------------------------------------------
(* Purging, time, shutdown and crash. *)

Background ==
  /\ PurgeExpired \/ Tick
  /\ UNCHANGED <<phase, connVars, deliverVars, histVars>>

(* SIGTERM: Run calls http.Server.Shutdown, which closes the listener. *)
BeginShutdown ==
  /\ mode = "up" /\ phase = "serving"
  /\ phase' = "draining"
  /\ UNCHANGED <<storeVars, connVars, deliverVars, histVars>>

(* Shutdown returns nil once plain HTTP requests are done; it does not wait *)
(* for hijacked (WebSocket) connections.  After 30 seconds it gives up with *)
(* an error.  Either way Run then calls store.Stop.                         *)
FinishShutdown ==
  /\ phase = "draining"
  /\ phase' = IF \E m \in HttpMsgs : dpc[m] \in Delivering THEN "failed" ELSE phase
  /\ Stop
  /\ UNCHANGED <<connVars, deliverVars, histVars>>

(* The listener fails: store.Stop at once. *)
ListenerFails ==
  /\ phase = "serving"
  /\ phase' = "failed"
  /\ Stop
  /\ UNCHANGED <<connVars, deliverVars, histVars>>

(* The process ends: at exit after Stop, or killed at any moment. *)
ProcessEnds ==
  /\ Crash
  /\ lost' = lost \cup InFlight
  /\ clients' = [u \in Users |-> NoConn]
  /\ sock' = [c \in Conns |-> IF pc[c] = "idle" THEN "new" ELSE "closed"]
  /\ pc' = [c \in Conns |-> IF pc[c] = "idle" THEN "idle" ELSE "done"]
  /\ flush' = [c \in Conns |-> {}]
  /\ prev' = [c \in Conns |-> NoConn]
  /\ dpc' = [m \in Msgs |-> IF dpc[m] = "unsent" THEN "unsent" ELSE "done"]
  /\ target' = [m \in Msgs |-> NoConn]
  /\ UNCHANGED <<phase, delivered, ambiguous>>

ProcessRestarts ==
  /\ Restart
  /\ phase' = "serving"
  /\ UNCHANGED <<connVars, deliverVars, histVars>>

-----------------------------------------------------------------------------
Init ==
  /\ StoreInit
  /\ phase = "serving"
  /\ clients = [u \in Users |-> NoConn]
  /\ sock = [c \in Conns |-> "new"]
  /\ pc = [c \in Conns |-> "idle"]
  /\ prev = [c \in Conns |-> NoConn]
  /\ flush = [c \in Conns |-> {}]
  /\ dpc = [m \in Msgs |-> "unsent"]
  /\ target = [m \in Msgs |-> NoConn]
  /\ delivered = [m \in Msgs |-> 0]
  /\ ambiguous = [m \in Msgs |-> 0]
  /\ lost = {}

ConnStep(c) ==
  \/ Register(c) \/ ClosePrev(c) \/ Drain(c) \/ FlushWrite(c)
  \/ Requeue(c) \/ ReadEnds(c) \/ Unregister(c)

DeliverStep(m) == LookupClient(m) \/ DeliverWrite(m) \/ DeliverEnqueue(m)

Next ==
  \/ \E c \in Conns : Connect(c) \/ SockDies(c) \/ ConnStep(c)
  \/ \E m \in Msgs : Accept(m) \/ DeliverStep(m)
  \/ Background
  \/ BeginShutdown
  \/ FinishShutdown
  \/ ListenerFails
  \/ ProcessEnds
  \/ ProcessRestarts

Spec == Init /\ [][Next]_vars

(* The Go scheduler runs every goroutine that can run, and conn.Write is    *)
(* bounded by a 10 second context, so each handler keeps taking its steps.  *)
Fairness ==
  /\ \A c \in Conns : WF_vars(ConnStep(c))
  /\ \A m \in Msgs : WF_vars(DeliverStep(m))

FairSpec == Spec /\ Fairness

-----------------------------------------------------------------------------
(* Where a message is inside the relay: with its delivery, in the list of a *)
(* flush, in the table, or in the file while the process is down.           *)
Stored == IF mode = "down" THEN disk.rows ELSE rows

Places(m) ==
  {<<"deliver", n>> : n \in {k \in {m} : dpc[k] \in Delivering}}
    \cup (UNION {{<<c, r.id>> : r \in {q \in flush[c] : q.msg = m}} : c \in Conns})
    \cup {<<"queue", r.id>> : r \in {q \in Stored : q.msg = m}}

(* No accepted message vanishes: it is still in the relay, it was written   *)
(* to a client, or it fell to one of the causes the code accepts: expiry or *)
(* the cap, a database error, a failed persist followed by a crash, or      *)
(* the end of the process.  Above all deliver's fall-through to Enqueue and *)
(* FlushQueue's re-enqueue leave no gap (router.go:178, 197).               *)
NoSilentLoss ==
  \A m \in Msgs :
    dpc[m] # "unsent" =>
      \/ Places(m) # {}
      \/ delivered[m] > 0
      \/ m \in discarded \cup rejected \cup diverged \cup lost

(* A message has one owner at a time and goes out once more than writes     *)
(* misreported it, at most, however deliver, flushes, reconnections and     *)
(* restarts interleave; only a crash after a failed persist revives it.     *)
SingleCustody ==
  \A m \in Msgs \ diverged :
    /\ \A p, q \in Places(m) : p = q
    /\ delivered[m] <= ambiguous[m] + (IF Places(m) = {} THEN 1 ELSE 0)

(* The relay seen as a mailbox: an expired row is as good as gone. *)
Status(m) ==
  CASE dpc[m] = "unsent" -> "new"
    [] dpc[m] \in Delivering -> "held"
    [] m \in (UNION {MsgsOf(flush[c]) : c \in Conns}) \cup MsgsOf(Live(Stored, now)) -> "held"
    [] OTHER -> "gone"

MB == INSTANCE Mailbox WITH
        status <- [m \in Msgs |-> Status(m)],
        sent <- delivered,
        up <- mode # "down",
        tainted <- diverged

(* Connections, registry, queue and file together implement Mailbox: each   *)
(* step of the relay accepts, hands over, drops or (at the end of the       *)
(* process) loses or revives messages only as Mailbox allows.               *)
ImplementsMailbox == MB!Spec

(* The registry never points at a connection whose handler is gone, and a   *)
(* handler it no longer points at is on its way out: its socket is closed   *)
(* or the connection that replaced it is about to close it                  *)
(* (Register, Unregister and server.go:235).                                *)
NoOrphanSession ==
  /\ \A u \in Users :
       clients[u] # NoConn => UserOf[clients[u]] = u /\ pc[clients[u]] \in Serving
  /\ \A c \in Conns :
       pc[c] \in Serving /\ clients[UserOf[c]] # c =>
         \/ sock[c] = "closed"
         \/ \E d \in Conns : pc[d] = "closePrev" /\ prev[d] = c

(* A connection that another one of the same user replaced comes to its end *)
(* (server.go:235), even when it is in the middle of its flush.             *)
SupersededEnds ==
  \A c \in Conns :
    (pc[c] \in Serving /\ clients[UserOf[c]] # c) ~> pc[c] = "done"

(* Every delivery finishes: deliver blocks neither its sender's read loop   *)
(* nor an HTTP request for ever, also after the store has been closed.      *)
DeliveriesFinish ==
  \A m \in Msgs : dpc[m] \in Delivering ~> dpc[m] = "done"

-----------------------------------------------------------------------------
(* Statements of the repository's comments and README that the code does    *)
(* not keep; the runs exhibit how.                                          *)

(* "On shutdown it gives in-flight connections 30 seconds to drain before   *)
(* forcing exit" (server.go:90): a shutdown that ran without error loses no *)
(* message once the store has been closed.                                  *)
GracefulShutdownKeepsMail ==
  [][phase = "draining" /\ mode = "stopped" => UNCHANGED <<rejected, lost>>]_vars

(* "FlushQueue drains any persisted messages to a freshly-connected user"   *)
(* (router.go:184; more loosely README.md:9): the connection having been    *)
(* flushed, a message in the queue of a user who is connected goes out      *)
(* while the connection and the relay last.                                 *)
NoStrandedMail ==
  \A u \in Users :
    (mode = "up" /\ clients[u] # NoConn /\ RowsOf(rows, u) # {})
      ~> (phase # "serving" \/ mode # "up" \/ clients[u] = NoConn \/ RowsOf(rows, u) = {})

=============================================================================
