---------------------------- MODULE OfflineStore ----------------------------
(***************************************************************************)
(* The offline queue of server/store.go: an in-memory SQLite table `queue` *)
(* (id, recipient_id, payload, expires_at), every mutation of which is     *)
(* done under Store.mu and followed by persistLocked, which replaces the   *)
(* encrypted file on disk (temporary file, then rename).                   *)
(*                                                                         *)
(* Because every method holds Store.mu from its first to its last          *)
(* statement, a method is one action here.  Encryption and JSON are left   *)
(* out: the key never changes while the file exists, so both round-trip.   *)
(* The wall clock only moves forward.                                      *)
(*                                                                         *)
(* `dirty', `discarded', `rejected' and `diverged' are history variables:  *)
(* the program keeps none of them and they enable or disable no action.    *)
(***************************************************************************)
EXTENDS Integers, FiniteSets

CONSTANTS
  Users,      \* recipient ids
  Msgs,       \* envelopes
  MaxQueue,   \* maxQueuePerRecipient
  TTL,        \* Store.ttl in seconds
  DbFaults,   \* may a statement on the open in-memory database fail?
  DiskFaults, \* may persistLocked fail?
  MaxTime,    \* bound on the clock
  MaxId       \* bound on the autoincrement id

ASSUME StoreAssumption ==
  /\ MaxQueue \in Nat \ {0}
  /\ TTL \in Nat \ {0}
  /\ DbFaults \in BOOLEAN
  /\ DiskFaults \in BOOLEAN
  /\ MaxTime \in Nat
  /\ MaxId \in Nat

VARIABLES
  rows,       \* the table
  nextId,     \* the next AUTOINCREMENT id
  disk,       \* what the queue file holds: [rows, nextId]
  now,        \* the wall clock, in seconds
  mode,       \* "up", "stopped" (database closed, process alive), "down"
  dirty,      \* the latest persistLocked failed
  discarded,  \* messages let go of by expiry or by the cap
  rejected,   \* messages lost to a database error in Enqueue or DrainQueue
  diverged    \* messages whose file and table disagreed at a crash

storeVars == <<rows, nextId, disk, now, mode, dirty, discarded, rejected, diverged>>

Row == [id : Nat \ {0}, to : Users, msg : Msgs, exp : Nat]

MsgsOf(R) == {r.msg : r \in R}

StoreTypeOK ==
  /\ rows \subseteq Row
  /\ nextId \in Nat \ {0}
  /\ disk \in [rows : SUBSET Row, nextId : Nat \ {0}]
  /\ now \in Nat
  /\ mode \in {"up", "stopped", "down"}
  /\ dirty \in BOOLEAN
  /\ discarded \subseteq Msgs
  /\ rejected \subseteq Msgs
  /\ diverged \subseteq Msgs

-----------------------------------------------------------------------------
(* Wrong variants of the definitions below: each is a bug this code could  *)
(* have, and shows that a property notices it.                             *)

NewRow_bug(u, m) == [id |-> nextId - 1, to |-> u, msg |-> m, exp |-> now + TTL]

HasRoom_bug(R, u) == Cardinality({r \in R : r.to = u}) <= MaxQueue

Persist_bug(R, n) == dirty' = FALSE /\ UNCHANGED disk

Loaded_bug == [rows |-> disk.rows, nextId |-> 1]

Loaded_bug2 == [rows |-> {}, nextId |-> 1]

Drained_bug(u) == {r \in rows : r.to = u}

PurgeExpired_bug ==
  /\ mode = "up"
  /\ rows' = {r \in rows : r.exp >= now - 1}
  /\ UNCHANGED <<nextId, disk, now, mode, dirty, discarded, rejected, diverged>>

-----------------------------------------------------------------------------
(* expires_at < unixepoch(), and the same test in Go in DrainQueue. *)
Expired(r, t) == r.exp < t

Live(R, t) == {r \in R : ~Expired(r, t)}

RowsOf(R, u) == {r \in R : r.to = u}

(* count < maxQueuePerRecipient *)
HasRoom(R, u) == Cardinality(RowsOf(R, u)) < MaxQueue

(* persistLocked: on any error the old file stays and the caller only logs. *)
Persist(R, n) ==
  \/ disk' = [rows |-> R, nextId |-> n] /\ dirty' = FALSE
  \/ DiskFaults /\ dirty' = TRUE /\ UNCHANGED disk

NewRow(u, m) == [id |-> nextId, to |-> u, msg |-> m, exp |-> now + TTL]

(* The rows left once Enqueue has dropped the recipient's expired ones. *)
Swept(u) == {r \in rows : ~(r.to = u /\ Expired(r, now))}

(* A message that finds the queue full is dropped, and that path returns    *)
(* without persisting the sweep.  So does every error path, after the sweep *)
(* or before it; on a closed database the sweep itself fails.               *)
Enqueue(u, m) ==
  /\ mode # "down"
  /\ nextId <= MaxId
  /\ \/ /\ mode = "up"
        /\ ~HasRoom(Swept(u), u)
        /\ rows' = Swept(u)
        /\ discarded' = discarded \cup MsgsOf(rows \ Swept(u)) \cup {m}
        /\ UNCHANGED <<nextId, disk, dirty, rejected>>
     \/ /\ mode = "up"
        /\ HasRoom(Swept(u), u)
        /\ rows' = Swept(u) \cup {NewRow(u, m)}
        /\ nextId' = nextId + 1
        /\ discarded' = discarded \cup MsgsOf(rows \ Swept(u))
        /\ Persist(rows', nextId')
        /\ UNCHANGED rejected
     \/ /\ \/ rows' = rows /\ (mode = "stopped" \/ DbFaults)
           \/ rows' = Swept(u) /\ mode = "up" /\ DbFaults
        /\ rejected' = rejected \cup {m}
        /\ discarded' = discarded \cup MsgsOf(rows \ rows')
        /\ UNCHANGED <<nextId, disk, dirty>>
  /\ UNCHANGED <<now, mode, diverged>>

(* What DrainQueue is to return; the caller handles it in id order. *)
Drained(u) == Live(RowsOf(rows, u), now)

(* Wrong variant: the deletion is not persisted. *)
DrainQueue_bug(u, got) ==
  /\ mode = "up"
  /\ got = Drained(u)
  /\ rows' = rows \ RowsOf(rows, u)
  /\ discarded' = discarded \cup MsgsOf(RowsOf(rows, u) \ Drained(u))
  /\ UNCHANGED <<nextId, disk, now, mode, dirty, rejected, diverged>>

(* It returns `got'.  The DELETE takes every row of the recipient, also     *)
(* those that could not be read: a row that fails to scan is skipped and an *)
(* error that ends the iteration early is not looked at.  A DrainQueue that *)
(* fails elsewhere (always, on a closed database) rolls its transaction     *)
(* back and returns nothing: no step of the store.                          *)
DrainQueue(u, got) ==
  /\ mode = "up"
  /\ got = Drained(u) \/ (DbFaults /\ got \subseteq Drained(u))
  /\ rejected' = rejected \cup MsgsOf(Drained(u) \ got)
  /\ rows' = rows \ RowsOf(rows, u)
  /\ discarded' = discarded \cup MsgsOf(RowsOf(rows, u) \ Drained(u))
  /\ Persist(rows', nextId)
  /\ UNCHANGED <<nextId, now, mode, diverged>>

(* One tick of purgeLoop.  A DELETE that fails is no step. *)
PurgeExpired ==
  /\ mode = "up"
  /\ rows' = Live(rows, now)
  /\ discarded' = discarded \cup MsgsOf(rows \ rows')
  /\ Persist(rows', nextId)
  /\ UNCHANGED <<nextId, now, mode, rejected, diverged>>

(* Stop closes the database; the process still runs. *)
Stop ==
  /\ mode = "up"
  /\ mode' = "stopped"
  /\ UNCHANGED <<rows, nextId, disk, now, dirty, discarded, rejected, diverged>>

(* The process ends, by a crash or after Stop: the table is gone. *)
Crash ==
  /\ mode # "down"
  /\ mode' = "down"
  /\ rows' = {}
  /\ nextId' = 1
  /\ dirty' = FALSE
  /\ diverged' = IF dirty
                 THEN diverged \cup MsgsOf(rows \ disk.rows)
                               \cup MsgsOf(disk.rows \ rows)
                 ELSE diverged
  /\ UNCHANGED <<disk, now, discarded, rejected>>

(* What loadFromDisk deserializes: table and sqlite_sequence. *)
Loaded == disk

(* NewStore after a crash.  A missing file is an empty table. *)
Restart ==
  /\ mode = "down"
  /\ mode' = "up"
  /\ rows' = Loaded.rows
  /\ nextId' = Loaded.nextId
  /\ UNCHANGED <<disk, now, dirty, discarded, rejected, diverged>>

Tick ==
  /\ now < MaxTime
  /\ now' = now + 1
  /\ UNCHANGED <<rows, nextId, disk, mode, dirty, discarded, rejected, diverged>>

-----------------------------------------------------------------------------
(* initSchema on first start: an empty table, persisted. *)
StoreInit ==
  /\ rows = {}
  /\ nextId = 1
  /\ disk = [rows |-> {}, nextId |-> 1]
  /\ now = 0
  /\ mode = "up"
  /\ dirty = FALSE
  /\ discarded = {}
  /\ rejected = {}
  /\ diverged = {}

StoreNext ==
  \/ \E u \in Users, m \in Msgs : Enqueue(u, m)
  \/ \E u \in Users : \E got \in SUBSET rows : DrainQueue(u, got)
  \/ PurgeExpired
  \/ Stop
  \/ Crash
  \/ Restart
  \/ Tick

StoreSpec == StoreInit /\ [][StoreNext]_storeVars

-----------------------------------------------------------------------------
(* The per-recipient cap (store.go:26) holds of the table and of the file   *)
(* at every moment, also for a table restored from a stale file.            *)
QueueBounded ==
  \A u \in Users : /\ Cardinality(RowsOf(rows, u)) <= MaxQueue
                   /\ Cardinality(RowsOf(disk.rows, u)) <= MaxQueue

(* While the latest persist succeeded, a crash would lose and revive        *)
(* nothing that can still be delivered: table and file hold the same        *)
(* unexpired rows, although Enqueue sweeps a full queue without persisting. *)
FileMatchesTable ==
  mode # "down" /\ ~dirty =>
    /\ Live(rows, now) = Live(disk.rows, now)
    /\ nextId = disk.nextId

(* Its inductive form, which the proofs use: without a failed persist the   *)
(* file is the table plus rows that expired.                                *)
FileCovers ==
  mode # "down" /\ ~dirty =>
    /\ rows \subseteq disk.rows
    /\ \A r \in disk.rows \ rows : Expired(r, now)
    /\ nextId = disk.nextId

(* ORDER BY id is arrival order and expiry order at once, restarts          *)
(* included: the next id is above those in the table, no two rows share     *)
(* one, and a later row never expires first, so what DrainQueue returns has *)
(* no gap.  (After a failed persist and a crash an id may be given again,   *)
(* when its first row is gone from table and file.)                         *)
IdOrderIsExpiryOrder ==
  /\ \A r \in rows : r.id < nextId
  /\ \A q, r \in rows : /\ q.id = r.id => q = r
                        /\ q.id < r.id => q.exp <= r.exp

(* The purge ticker fires again and again while the process is up, and its  *)
(* DELETE (store.go:307), which is retried at every tick, does not fail     *)
(* for ever.                                                                *)
StoreFairness == WF_storeVars(PurgeExpired)

FairStoreSpec == StoreSpec /\ StoreFairness

(* An expired row of a running relay is eventually deleted, also for a      *)
(* recipient nobody writes to or drains (purgeLoop, store.go:289).          *)
ExpiredRowsGo ==
  \A u \in Users :
    (mode = "up" /\ \E r \in RowsOf(rows, u) : Expired(r, now))
      ~> (mode # "up" \/ ~\E r \in RowsOf(rows, u) : Expired(r, now))

=============================================================================
