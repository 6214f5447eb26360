-------------------------- MODULE OfflineStoreProofs --------------------------
(***************************************************************************)
(* The invariants of OfflineStore, proved for every cap, TTL and set of    *)
(* users and messages, with or without faults of the database or the disk. *)
(***************************************************************************)
EXTENDS OfflineStore, FiniteSetTheorems, TLAPS

-----------------------------------------------------------------------------
(* The inductive invariant.  The three invariants are not inductive alone:  *)
(* the cap needs finite tables, the order of expiry needs that no row lives *)
(* longer than TTL from now, and all of it must hold of the file as well,   *)
(* because a restart makes the file the table.                              *)

(* A table as the store writes them at time t, n being the next id. *)
WellFormed(R, n, t) ==
  /\ IsFiniteSet(R)
  /\ \A u \in Users : Cardinality(RowsOf(R, u)) <= MaxQueue
  /\ \A r \in R : r.id < n /\ r.exp <= t + TTL
  /\ \A q, r \in R : /\ q.id = r.id => q = r
                     /\ q.id < r.id => q.exp <= r.exp

StoreInv ==
  /\ StoreTypeOK
  /\ WellFormed(rows, nextId, now)
  /\ WellFormed(disk.rows, disk.nextId, now)
  /\ FileCovers

-----------------------------------------------------------------------------
(* The invariant implies what the runs check. *)
LEMMA InvImplies ==
  StoreInv => StoreTypeOK /\ QueueBounded /\ FileMatchesTable /\ IdOrderIsExpiryOrder
<1>1. StoreInv => StoreTypeOK /\ QueueBounded /\ IdOrderIsExpiryOrder
  BY DEF StoreInv, WellFormed, QueueBounded, IdOrderIsExpiryOrder
<1>2. StoreInv => FileMatchesTable
  BY DEF StoreInv, StoreTypeOK, FileCovers, FileMatchesTable, Live, Expired
<1>. QED  BY <1>1, <1>2

(* The empty table of a process that is down. *)
LEMMA WellFormedEmpty ==
  ASSUME NEW n, NEW t
  PROVE  WellFormed({}, n, t)
<1>1. IsFiniteSet({}) /\ Cardinality({}) = 0
  BY FS_EmptySet
<1>2. \A u \in Users : RowsOf({}, u) = {}
  BY DEF RowsOf
<1>. QED  BY <1>1, <1>2, StoreAssumption DEF WellFormed

(* Removing rows keeps a table well formed. *)
LEMMA WellFormedSubset ==
  ASSUME NEW R, NEW n, NEW t, NEW Q \in SUBSET R, WellFormed(R, n, t)
  PROVE  WellFormed(Q, n, t)
<1>1. IsFiniteSet(Q)
  BY FS_Subset DEF WellFormed
<1>2. ASSUME NEW u \in Users
      PROVE  Cardinality(RowsOf(Q, u)) <= MaxQueue
  <2>1. RowsOf(Q, u) \subseteq RowsOf(R, u) /\ RowsOf(R, u) \subseteq R
    BY DEF RowsOf
  <2>2. IsFiniteSet(RowsOf(R, u))
    BY <2>1, FS_Subset DEF WellFormed
  <2>3. /\ Cardinality(RowsOf(Q, u)) <= Cardinality(RowsOf(R, u))
        /\ Cardinality(RowsOf(Q, u)) \in Nat
        /\ Cardinality(RowsOf(R, u)) \in Nat
    BY <2>1, <2>2, FS_Subset, FS_CardinalityType
  <2>4. Cardinality(RowsOf(R, u)) <= MaxQueue
    BY DEF WellFormed
  <2>. QED  BY <2>3, <2>4, StoreAssumption
<1>. QED  BY <1>1, <1>2 DEF WellFormed

(* The insertion of Enqueue, into a table with room for the recipient. *)
LEMMA WellFormedInsert ==
  ASSUME NEW n \in Nat, NEW t \in Nat, NEW R \in SUBSET Row, NEW x \in Row,
         WellFormed(R, n, t), HasRoom(R, x.to), x.id = n, x.exp = t + TTL
  PROVE  WellFormed(R \cup {x}, n + 1, t)
<1>1. IsFiniteSet(R \cup {x})
  BY FS_AddElement DEF WellFormed
<1>2. ASSUME NEW v \in Users
      PROVE  Cardinality(RowsOf(R \cup {x}, v)) <= MaxQueue
  <2>1. IsFiniteSet(RowsOf(R, v)) /\ Cardinality(RowsOf(R, v)) \in Nat
    BY FS_Subset, FS_CardinalityType DEF WellFormed, RowsOf
  <2>2. CASE v = x.to
    <3>1. RowsOf(R \cup {x}, v) = RowsOf(R, v) \cup {x}
      BY <2>2 DEF RowsOf
    <3>2. \/ Cardinality(RowsOf(R, v) \cup {x}) = Cardinality(RowsOf(R, v))
          \/ Cardinality(RowsOf(R, v) \cup {x}) = Cardinality(RowsOf(R, v)) + 1
      BY <2>1, FS_AddElement, Zenon
    <3>3. Cardinality(RowsOf(R, v)) < MaxQueue
      BY <2>2 DEF HasRoom
    <3>4. Cardinality(RowsOf(R, v) \cup {x}) <= MaxQueue
      BY <2>1, <3>2, <3>3, StoreAssumption
    <3>. QED  BY <3>1, <3>4, Zenon
  <2>3. CASE v # x.to
    <3>1. RowsOf(R \cup {x}, v) = RowsOf(R, v)
      BY <2>3 DEF RowsOf
    <3>. QED  BY <3>1 DEF WellFormed
  <2>. QED  BY <2>2, <2>3
<1>3. \A r \in R \cup {x} : r.id < n + 1 /\ r.exp <= t + TTL
  BY StoreAssumption DEF WellFormed, Row
<1>4. \A q, r \in R \cup {x} : /\ q.id = r.id => q = r
                               /\ q.id < r.id => q.exp <= r.exp
  BY StoreAssumption DEF WellFormed, Row
<1>. QED  BY <1>1, <1>2, <1>3, <1>4 DEF WellFormed

(* A well-formed table stays one while the clock runs. *)
LEMMA WellFormedLater ==
  ASSUME NEW n, NEW t \in Nat, NEW R \in SUBSET Row, WellFormed(R, n, t)
  PROVE  WellFormed(R, n, t + 1)
<1>1. \A r \in R : r.id < n /\ r.exp <= (t + 1) + TTL
  BY StoreAssumption DEF WellFormed, Row
<1>. QED  BY <1>1 DEF WellFormed

(* What a persist leaves in the file: the table, or what was there. *)
LEMMA PersistKeeps ==
  ASSUME StoreInv, NEW R \in SUBSET Row, NEW n \in Nat \ {0},
         rows' = R, nextId' = n, now' = now,
         WellFormed(R, n, now), Persist(R, n)
  PROVE  /\ disk' \in [rows : SUBSET Row, nextId : Nat \ {0}]
         /\ dirty' \in BOOLEAN
         /\ WellFormed(rows', nextId', now')
         /\ WellFormed(disk'.rows, disk'.nextId, now')
         /\ FileCovers'
<1>1. CASE disk' = [rows |-> R, nextId |-> n] /\ dirty' = FALSE
  BY <1>1, Zenon DEF FileCovers
<1>2. CASE dirty' = TRUE /\ UNCHANGED disk
  BY <1>2 DEF FileCovers, StoreInv, StoreTypeOK
<1>. QED  BY <1>1, <1>2, Zenon DEF Persist

-----------------------------------------------------------------------------
(* The empty table and its file satisfy the invariant. *)
LEMMA InitInv == StoreInit => StoreInv
<1>. SUFFICES ASSUME StoreInit PROVE StoreInv
  OBVIOUS
<1>1. StoreTypeOK
  <2>1. disk \in [rows : SUBSET Row, nextId : Nat \ {0}]
    BY DEF StoreInit
  <2>. QED  BY <2>1, Zenon DEF StoreInit, StoreTypeOK
<1>2. WellFormed(rows, nextId, now) /\ WellFormed(disk.rows, disk.nextId, now)
  BY WellFormedEmpty DEF StoreInit
<1>3. FileCovers
  BY DEF StoreInit, FileCovers
<1>. QED  BY <1>1, <1>2, <1>3 DEF StoreInv

(* Enqueue and its three outcomes. *)
LEMMA EnqueueInv ==
  ASSUME StoreInv, NEW u \in Users, NEW m \in Msgs, Enqueue(u, m)
  PROVE  StoreInv'
<1>. USE StoreAssumption
<1>0. /\ rows \in SUBSET Row /\ nextId \in Nat \ {0} /\ now \in Nat
      /\ WellFormed(rows, nextId, now)
      /\ Swept(u) \in SUBSET rows
      /\ \A r \in rows \ Swept(u) : Expired(r, now)
  BY DEF StoreInv, StoreTypeOK, Swept
<1>1. WellFormed(Swept(u), nextId, now)
  BY <1>0, WellFormedSubset
<1>2. /\ now' = now /\ mode' = mode /\ diverged' = diverged
      /\ MsgsOf(rows \ Swept(u)) \subseteq Msgs
      /\ MsgsOf(rows \ rows') \subseteq Msgs
  BY <1>0 DEF Enqueue, MsgsOf, Row
<1>3. ASSUME rows' \in {rows, Swept(u)}, UNCHANGED <<nextId, disk, dirty>>
      PROVE  /\ WellFormed(rows', nextId', now')
             /\ WellFormed(disk'.rows, disk'.nextId, now')
             /\ FileCovers'
             /\ rows' \in SUBSET Row
  <2>1. WellFormed(rows', nextId', now')
    BY <1>0, <1>1, <1>2, <1>3
  <2>2. WellFormed(disk'.rows, disk'.nextId, now')
    BY <1>2, <1>3 DEF StoreInv
  <2>3. rows' \in SUBSET Row
    BY <1>0, <1>3
  <2>4. FileCovers'
    BY <1>0, <1>2, <1>3 DEF StoreInv, FileCovers, Expired
  <2>. QED  BY <2>1, <2>2, <2>3, <2>4
<1>4. CASE /\ ~HasRoom(Swept(u), u)
           /\ rows' = Swept(u)
           /\ discarded' = discarded \cup MsgsOf(rows \ Swept(u)) \cup {m}
           /\ UNCHANGED <<nextId, disk, dirty, rejected>>
  <2>1. StoreTypeOK'
    BY <1>2, <1>3, <1>4 DEF StoreInv, StoreTypeOK
  <2>. QED  BY <1>3, <1>4, <2>1 DEF StoreInv
<1>5. CASE /\ HasRoom(Swept(u), u)
           /\ rows' = Swept(u) \cup {NewRow(u, m)}
           /\ nextId' = nextId + 1
           /\ discarded' = discarded \cup MsgsOf(rows \ Swept(u))
           /\ Persist(rows', nextId')
           /\ UNCHANGED rejected
  <2>1. /\ NewRow(u, m) \in Row
        /\ NewRow(u, m).id = nextId
        /\ NewRow(u, m).exp = now + TTL
        /\ NewRow(u, m).to = u
    BY <1>0 DEF NewRow, Row
  <2>2. WellFormed(Swept(u) \cup {NewRow(u, m)}, nextId + 1, now)
    BY <1>0, <1>1, <1>5, <2>1, WellFormedInsert
  <2>3. rows' \in SUBSET Row /\ nextId' \in Nat \ {0}
    BY <1>0, <1>5, <2>1
  <2>4. WellFormed(rows', nextId', now)
    BY <1>5, <2>2
  <2>5. /\ disk' \in [rows : SUBSET Row, nextId : Nat \ {0}]
        /\ dirty' \in BOOLEAN
        /\ WellFormed(rows', nextId', now')
        /\ WellFormed(disk'.rows, disk'.nextId, now')
        /\ FileCovers'
    BY <1>2, <1>5, <2>3, <2>4, PersistKeeps
  <2>6. StoreTypeOK'
    BY <1>2, <1>5, <2>3, <2>5, Zenon DEF StoreInv, StoreTypeOK
  <2>. QED  BY <2>5, <2>6 DEF StoreInv
<1>6. CASE /\ rows' \in {rows, Swept(u)}
           /\ rejected' = rejected \cup {m}
           /\ discarded' = discarded \cup MsgsOf(rows \ rows')
           /\ UNCHANGED <<nextId, disk, dirty>>
  <2>1. StoreTypeOK'
    BY <1>2, <1>3, <1>6 DEF StoreInv, StoreTypeOK
  <2>. QED  BY <1>3, <1>6, <2>1 DEF StoreInv
<1>. QED  BY <1>4, <1>5, <1>6, Zenon DEF Enqueue

(* DrainQueue and purgeExpired remove rows and persist. *)
LEMMA RemoveInv ==
  ASSUME StoreInv, rows' \in SUBSET rows, Persist(rows', nextId),
         discarded' \subseteq Msgs, rejected' \subseteq Msgs,
         UNCHANGED <<nextId, now, mode, diverged>>
  PROVE  StoreInv'
<1>1. rows' \in SUBSET Row /\ nextId \in Nat \ {0}
  BY DEF StoreInv, StoreTypeOK
<1>2. WellFormed(rows', nextId, now)
  BY WellFormedSubset DEF StoreInv
<1>3. /\ disk' \in [rows : SUBSET Row, nextId : Nat \ {0}]
      /\ dirty' \in BOOLEAN
      /\ WellFormed(rows', nextId', now')
      /\ WellFormed(disk'.rows, disk'.nextId, now')
      /\ FileCovers'
  BY <1>1, <1>2, PersistKeeps
<1>4. StoreTypeOK'
  BY <1>1, <1>3 DEF StoreInv, StoreTypeOK
<1>. QED  BY <1>3, <1>4 DEF StoreInv

(* Every method, crash and restart keeps the invariant. *)
LEMMA NextInv == StoreInv /\ [StoreNext]_storeVars => StoreInv'
<1>. SUFFICES ASSUME StoreInv, [StoreNext]_storeVars PROVE StoreInv'
  OBVIOUS
<1>. USE StoreAssumption
<1>0. \A R \in SUBSET Row : MsgsOf(R) \subseteq Msgs
  BY DEF MsgsOf, Row
<1>1. ASSUME NEW u \in Users, NEW m \in Msgs, Enqueue(u, m) PROVE StoreInv'
  BY <1>1, EnqueueInv
<1>2. ASSUME NEW u \in Users, NEW got \in SUBSET rows, DrainQueue(u, got) PROVE StoreInv'
  <2>1. /\ rows' \in SUBSET rows
        /\ RowsOf(rows, u) \ Drained(u) \in SUBSET Row
        /\ Drained(u) \ got \in SUBSET Row
    BY <1>2 DEF DrainQueue, StoreInv, StoreTypeOK, RowsOf, Drained, Live
  <2>2. discarded' \subseteq Msgs /\ rejected' \subseteq Msgs
    BY <1>0, <1>2, <2>1 DEF DrainQueue, StoreInv, StoreTypeOK
  <2>. QED  BY <1>2, <2>1, <2>2, RemoveInv DEF DrainQueue
<1>3. CASE PurgeExpired
  <2>1. rows' \in SUBSET rows /\ rows \ rows' \in SUBSET Row
    BY <1>3 DEF PurgeExpired, Live, StoreInv, StoreTypeOK
  <2>2. discarded' \subseteq Msgs /\ rejected' \subseteq Msgs
    BY <1>0, <1>3, <2>1 DEF PurgeExpired, StoreInv, StoreTypeOK
  <2>. QED  BY <1>3, <2>1, <2>2, RemoveInv DEF PurgeExpired
<1>4. CASE Stop
  BY <1>4 DEF Stop, StoreInv, StoreTypeOK, FileCovers, Expired
<1>5. CASE Crash
  <2>1. WellFormed(rows', nextId', now') /\ WellFormed(disk'.rows, disk'.nextId, now')
    BY <1>5, WellFormedEmpty DEF Crash, StoreInv
  <2>2. diverged' \subseteq Msgs
    <3>1. MsgsOf(rows \ disk.rows) \subseteq Msgs /\ MsgsOf(disk.rows \ rows) \subseteq Msgs
      BY <1>0 DEF StoreInv, StoreTypeOK
    <3>. QED  BY <1>5, <3>1, Zenon DEF Crash, StoreInv, StoreTypeOK
  <2>3. dirty' \in BOOLEAN
    BY <1>5, Zenon DEF Crash
  <2>4. StoreTypeOK'
    BY <1>5, <2>2, <2>3 DEF Crash, StoreInv, StoreTypeOK
  <2>5. FileCovers'
    BY <1>5 DEF Crash, FileCovers
  <2>. QED  BY <2>1, <2>4, <2>5 DEF StoreInv
<1>6. CASE Restart
  <2>1. WellFormed(rows', nextId', now') /\ WellFormed(disk'.rows, disk'.nextId, now')
    BY <1>6 DEF Restart, Loaded, StoreInv
  <2>2. StoreTypeOK'
    BY <1>6 DEF Restart, Loaded, StoreInv, StoreTypeOK
  <2>3. FileCovers'
    BY <1>6 DEF Restart, Loaded, FileCovers
  <2>. QED  BY <2>1, <2>2, <2>3 DEF StoreInv
<1>7. CASE Tick
  <2>1. now \in Nat /\ rows \in SUBSET Row /\ disk.rows \in SUBSET Row
    BY DEF StoreInv, StoreTypeOK
  <2>2. WellFormed(rows, nextId, now + 1) /\ WellFormed(disk.rows, disk.nextId, now + 1)
    BY <2>1, WellFormedLater DEF StoreInv
  <2>3. WellFormed(rows', nextId', now') /\ WellFormed(disk'.rows, disk'.nextId, now')
    BY <1>7, <2>2 DEF Tick
  <2>4. StoreTypeOK'
    BY <1>7 DEF Tick, StoreInv, StoreTypeOK
  <2>5. FileCovers'
    BY <1>7, <2>1 DEF Tick, StoreInv, FileCovers, Expired, Row
  <2>. QED  BY <2>3, <2>4, <2>5 DEF StoreInv
<1>8. CASE UNCHANGED storeVars
  BY <1>8 DEF storeVars, StoreInv, StoreTypeOK, FileCovers, Expired
<1>. QED
  BY <1>1, <1>2, <1>3, <1>4, <1>5, <1>6, <1>7, <1>8 DEF StoreNext

-----------------------------------------------------------------------------
(* Every reachable state of the store satisfies the inductive invariant. *)
THEOREM StoreInvariant == StoreSpec => []StoreInv
<1>. QED  BY InitInv, NextInv, PTL DEF StoreSpec

(* The table, the id counter, the file and the clock keep their types       *)
(* through every call of store.go, crashes and restarts included.           *)
THEOREM StoreTypeCorrect == StoreSpec => []StoreTypeOK
<1>. QED  BY StoreInvariant, InvImplies, PTL

(* No interleaving of Enqueue, DrainQueue, purgeExpired, failed persists,   *)
(* crashes and restarts takes a recipient above maxQueuePerRecipient.       *)
THEOREM StoreQueueBounded == StoreSpec => []QueueBounded
<1>. QED  BY StoreInvariant, InvImplies, PTL

(* As long as persistLocked succeeds, a crash at any moment loses and       *)
(* revives no row that could still be delivered.                            *)
THEOREM StoreFileMatchesTable == StoreSpec => []FileMatchesTable
<1>. QED  BY StoreInvariant, InvImplies, PTL

(* ORDER BY id in DrainQueue is the order of arrival and of expiry.         *)
THEOREM StoreIdOrder == StoreSpec => []IdOrderIsExpiryOrder
<1>. QED  BY StoreInvariant, InvImplies, PTL

=============================================================================
