------------------------- MODULE RelayCustodyProofs -------------------------
(***************************************************************************)
(* What becomes of messages in Relay: none vanishes, and each has one      *)
(* owner.  Here are the inductive invariant, what each kind of step does   *)
(* to it (a write, a row stored or taken, an end, a restart), and what it  *)
(* implies; RelayMailboxProofs goes through the actions.                   *)
(***************************************************************************)
EXTENDS Relay, TLAPS

USE RelayAssumption

-----------------------------------------------------------------------------
(* The inductive invariant. *)

(* A handler has rows in hand only inside FlushQueue, and no handler or     *)
(* delivery outlives its process.                                           *)
HandsEmpty ==
  /\ \A c \in Conns : flush[c] # {} => pc[c] \in {"flush", "requeue"}
  /\ mode = "down" =>
       /\ \A c \in Conns : flush[c] = {}
       /\ \A m \in Msgs : dpc[m] \notin Delivering

(* A message that was not accepted yet has left no trace. *)
UnsentUnknown ==
  \A m \in Msgs : dpc[m] = "unsent" =>
    /\ m \notin MsgsOf(rows) \cup MsgsOf(disk.rows) \cup diverged
    /\ \A c \in Conns : m \notin MsgsOf(flush[c])
    /\ delivered[m] = 0

(* The rows that count as stored: what a crash would leave, or the table    *)
(* when the file is out of date.  With a good file it is the larger of the  *)
(* two: Enqueue may have swept expired rows without persisting.             *)
Surviving == IF mode = "down" \/ ~dirty THEN disk.rows ELSE rows

FlushRows(c, m) == {r \in flush[c] : r.msg = m}
StoredRows(m) == {r \in Surviving : r.msg = m}

Held(m) ==
  \/ dpc[m] \in Delivering
  \/ \E c \in Conns : FlushRows(c, m) # {}
  \/ StoredRows(m) # {}

(* One owner: a delivery, one row of one flush, or one stored row; and      *)
(* while it has an owner, every time it went out was misreported.           *)
Custody(m) ==
  /\ \A c, d \in Conns : \A q \in FlushRows(c, m), r \in FlushRows(d, m) : c = d /\ q = r
  /\ \A q, r \in StoredRows(m) : q = r
  /\ \A c \in Conns : FlushRows(c, m) = {} \/ StoredRows(m) = {}
  /\ dpc[m] \in Delivering =>
       StoredRows(m) = {} /\ \A c \in Conns : FlushRows(c, m) = {}
  /\ delivered[m] <= ambiguous[m] + 1
  /\ Held(m) => delivered[m] <= ambiguous[m]

CustodyInv == \A m \in Msgs \ diverged : Custody(m)

MailInv == HandsEmpty /\ UnsentUnknown /\ CustodyInv /\ NoSilentLoss

RelayInv == TypeOK /\ FileCovers /\ MailInv

(* NoSilentLoss, message by message. *)
InRelay(m) ==
  \/ dpc[m] \in Delivering
  \/ \E c \in Conns : FlushRows(c, m) # {}
  \/ \E r \in Stored : r.msg = m

Gone == discarded \cup rejected \cup diverged \cup lost

Accounted(m) ==
  dpc[m] = "unsent" \/ InRelay(m) \/ delivered[m] > 0 \/ m \in Gone

(* A message has a place exactly if someone in the relay holds it. *)
LEMMA PlacesInRelay == \A m \in Msgs : Places(m) # {} <=> InRelay(m)
<1>. SUFFICES ASSUME NEW m \in Msgs
              PROVE  Places(m) # {} <=> InRelay(m)
  OBVIOUS
<1>1. ASSUME InRelay(m)
      PROVE  Places(m) # {}
  <2>1. CASE dpc[m] \in Delivering
    <3>1. <<"deliver", m>> \in Places(m)
      BY <2>1, Zenon DEF Places
    <3>. QED  BY <3>1, Zenon
  <2>2. ASSUME NEW c \in Conns, NEW r \in FlushRows(c, m)
        PROVE  Places(m) # {}
    <3>. DEFINE Ids(d) == {<<d, q.id>> : q \in {k \in flush[d] : k.msg = m}}
    <3>1. <<c, r.id>> \in Ids(c)
      BY <2>2, Zenon DEF FlushRows
    <3>. HIDE DEF Ids
    <3>2. <<c, r.id>> \in UNION {Ids(d) : d \in Conns}
      BY <3>1, Zenon
    <3>3. <<c, r.id>> \in Places(m)
      BY <3>2, Zenon DEF Places, Ids
    <3>. QED  BY <3>3, Zenon
  <2>3. ASSUME NEW r \in Stored, r.msg = m
        PROVE  Places(m) # {}
    <3>1. <<"queue", r.id>> \in Places(m)
      BY <2>3, Zenon DEF Places
    <3>. QED  BY <3>1, Zenon
  <2>. QED  BY <1>1, <2>1, <2>2, <2>3, Zenon DEF InRelay
<1>2. ASSUME NEW p \in Places(m)
      PROVE  InRelay(m)
  <2>1. \/ p \in {<<"deliver", n>> : n \in {k \in {m} : dpc[k] \in Delivering}}
        \/ p \in UNION {{<<c, r.id>> : r \in {q \in flush[c] : q.msg = m}} : c \in Conns}
        \/ p \in {<<"queue", r.id>> : r \in {q \in Stored : q.msg = m}}
    BY Zenon DEF Places
  <2>2. CASE p \in {<<"deliver", n>> : n \in {k \in {m} : dpc[k] \in Delivering}}
    BY <2>2, Zenon DEF InRelay
  <2>3. CASE p \in UNION {{<<c, r.id>> : r \in {q \in flush[c] : q.msg = m}} : c \in Conns}
    BY <2>3 DEF InRelay, FlushRows
  <2>4. CASE p \in {<<"queue", r.id>> : r \in {q \in Stored : q.msg = m}}
    BY <2>4, Zenon DEF InRelay
  <2>. QED  BY <2>1, <2>2, <2>3, <2>4, Zenon
<1>. QED  BY <1>1, <1>2, Zenon

AllAccounted == \A m \in Msgs : Accounted(m)

(* NoSilentLoss is a statement about each message. *)
LEMMA LossByMessage == NoSilentLoss <=> AllAccounted
BY PlacesInRelay, Zenon DEF NoSilentLoss, AllAccounted, Accounted, Gone

(* The same in the next state. *)
LEMMA LossByMessageNext == NoSilentLoss' <=> AllAccounted'
BY LossByMessage, PTL

(* Owners disappear, or nothing happens to the message. *)
LEMMA CustodyShrinks ==
  ASSUME NEW m \in Msgs, Custody(m),
         \A c \in Conns : FlushRows(c, m)' \subseteq FlushRows(c, m),
         StoredRows(m)' \subseteq StoredRows(m),
         dpc'[m] \in Delivering => dpc[m] \in Delivering,
         delivered'[m] = delivered[m], ambiguous'[m] = ambiguous[m]
  PROVE  Custody(m)'
<1>1. Held(m)' => Held(m)
  BY Zenon DEF Held
<1>. QED  BY <1>1 DEF Custody

-----------------------------------------------------------------------------
(* What the methods of the store do to rows. *)

(* The table of a live process counts as stored. *)
LEMMA RowsSurvive ==
  ASSUME FileCovers
  PROVE  mode # "down" => rows \subseteq Surviving
BY Zenon DEF FileCovers, Surviving

(* After a persist, successful or not, the table is what counts. *)
LEMMA PersistSurvives ==
  ASSUME NEW n, Persist(rows', n), mode' # "down"
  PROVE  /\ Surviving' = rows'
         /\ disk'.rows \subseteq disk.rows \cup rows'
BY DEF Persist, Surviving

(* Enqueue adds the row or says why not; what it sweeps had expired. *)
LEMMA EnqueueEffect ==
  ASSUME TypeOK, FileCovers, NEW u \in Users, NEW m \in Msgs, Enqueue(u, m)
  PROVE  /\ mode # "down" /\ UNCHANGED <<now, mode, diverged>>
         /\ discarded \subseteq discarded' /\ rejected \subseteq rejected'
         /\ \A r \in rows \ rows' : Expired(r, now) /\ r.msg \in discarded'
         /\ rows' \subseteq rows \cup {NewRow(u, m)}
         /\ disk'.rows \subseteq disk.rows \cup rows'
         /\ Surviving' \subseteq Surviving \cup {NewRow(u, m)}
         /\ NewRow(u, m) \in rows' \/ m \in discarded' \cup rejected'
         /\ NewRow(u, m).msg = m /\ ~Expired(NewRow(u, m), now)
<1>1. mode # "down" /\ UNCHANGED <<now, mode, diverged>>
  BY Zenon DEF Enqueue
<1>2. NewRow(u, m).msg = m /\ ~Expired(NewRow(u, m), now)
  BY StoreAssumption DEF NewRow, Expired, TypeOK, StoreTypeOK
<1>3. \A r \in rows \ Swept(u) : Expired(r, now)
  BY Zenon DEF Swept
<1>4. Swept(u) \subseteq rows /\ rows \subseteq Surviving
  BY <1>1, RowsSurvive, Zenon DEF Swept
<1>. HIDE DEF NewRow
<1>5. CASE /\ ~HasRoom(Swept(u), u)
           /\ rows' = Swept(u)
           /\ discarded' = discarded \cup MsgsOf(rows \ Swept(u)) \cup {m}
           /\ UNCHANGED <<nextId, disk, dirty, rejected>>
  <2>1. Surviving' \subseteq Surviving
    BY <1>1, <1>4, <1>5, Zenon DEF Surviving
  <2>. QED  BY <1>1, <1>2, <1>3, <1>4, <1>5, <2>1, Zenon DEF MsgsOf
<1>6. CASE /\ mode = "up"
           /\ rows' = Swept(u) \cup {NewRow(u, m)}
           /\ nextId' = nextId + 1
           /\ discarded' = discarded \cup MsgsOf(rows \ Swept(u))
           /\ Persist(rows', nextId')
           /\ UNCHANGED rejected
  <2>1. Surviving' = rows' /\ disk'.rows \subseteq disk.rows \cup rows'
    BY <1>1, <1>6, PersistSurvives, Zenon
  <2>. QED  BY <1>1, <1>2, <1>3, <1>4, <1>6, <2>1, Zenon DEF MsgsOf
<1>7. CASE /\ rows' = rows \/ rows' = Swept(u)
           /\ rejected' = rejected \cup {m}
           /\ discarded' = discarded \cup MsgsOf(rows \ rows')
           /\ UNCHANGED <<nextId, disk, dirty>>
  <2>1. Surviving' \subseteq Surviving
    BY <1>1, <1>4, <1>7, Zenon DEF Surviving
  <2>. QED  BY <1>1, <1>2, <1>3, <1>4, <1>7, <2>1, Zenon DEF MsgsOf
<1>. QED  BY <1>5, <1>6, <1>7, Zenon DEF Enqueue

(* DrainQueue moves rows into the hands of its caller or gives them up. *)
LEMMA DrainEffect ==
  ASSUME FileCovers, NEW u \in Users, NEW got \in SUBSET rows, DrainQueue(u, got)
  PROVE  /\ mode = "up" /\ UNCHANGED <<now, mode, diverged>>
         /\ discarded \subseteq discarded' /\ rejected \subseteq rejected'
         /\ rows' \subseteq rows /\ disk'.rows \subseteq disk.rows \cup rows
         /\ \A r \in rows \ rows' : r \in got \/ r.msg \in discarded' \cup rejected'
         /\ \A r \in got : r \notin rows' /\ ~Expired(r, now)
         /\ Surviving' = rows' /\ rows \subseteq Surviving
<1>1. mode = "up" /\ UNCHANGED <<now, mode, diverged>> /\ rows' = rows \ RowsOf(rows, u)
  BY Zenon DEF DrainQueue
<1>2. Surviving' = rows' /\ disk'.rows \subseteq disk.rows \cup rows' /\ rows \subseteq Surviving
  BY <1>1, RowsSurvive, PersistSurvives, Zenon DEF DrainQueue
<1>3. Drained(u) \subseteq RowsOf(rows, u) /\ \A r \in Drained(u) : ~Expired(r, now)
  BY Zenon DEF Drained, Live
<1>4. /\ got \subseteq Drained(u)
      /\ rejected' = rejected \cup MsgsOf(Drained(u) \ got)
      /\ discarded' = discarded \cup MsgsOf(RowsOf(rows, u) \ Drained(u))
  BY Zenon DEF DrainQueue
<1>. QED  BY <1>1, <1>2, <1>3, <1>4, Zenon DEF MsgsOf

(* purgeExpired removes rows that had expired. *)
LEMMA PurgeEffect ==
  ASSUME FileCovers, PurgeExpired
  PROVE  /\ mode = "up" /\ UNCHANGED <<now, mode, diverged, rejected>>
         /\ discarded \subseteq discarded'
         /\ rows' \subseteq rows /\ disk'.rows \subseteq disk.rows \cup rows
         /\ \A r \in rows \ rows' : Expired(r, now) /\ r.msg \in discarded'
         /\ Surviving' = rows' /\ rows \subseteq Surviving
<1>1. mode = "up" /\ UNCHANGED <<now, mode, diverged, rejected>> /\ rows' = Live(rows, now)
  BY Zenon DEF PurgeExpired
<1>2. Surviving' = rows' /\ disk'.rows \subseteq disk.rows \cup rows' /\ rows \subseteq Surviving
  BY <1>1, RowsSurvive, PersistSurvives, Zenon DEF PurgeExpired
<1>. QED  BY <1>1, <1>2, Zenon DEF PurgeExpired, MsgsOf, Live

-----------------------------------------------------------------------------
(* MailInv is kept: first the steps by what they do to a message. *)

(* Rows, wherever they are, carry messages. *)
LEMMA RowMsgs ==
  ASSUME RelayInv
  PROVE  /\ \A r \in rows : r.msg \in Msgs
         /\ \A r \in disk.rows : r.msg \in Msgs
         /\ \A c \in Conns : \A r \in flush[c] : r.msg \in Msgs
BY DEF RelayInv, TypeOK, StoreTypeOK, Row

(* Steps that move no message. *)
LEMMA QuietStep ==
  ASSUME RelayInv, TypeOK',
         UNCHANGED <<rows, disk, dirty, discarded, rejected, diverged>>,
         UNCHANGED <<flush, delivered, ambiguous, lost>>,
         mode' = "down" <=> mode = "down",
         \A c \in Conns : flush[c] # {} => pc'[c] \in {"flush", "requeue"},
         \A m \in Msgs : /\ dpc'[m] \in Delivering <=> dpc[m] \in Delivering
                         /\ dpc'[m] = "unsent" <=> dpc[m] = "unsent"
  PROVE  MailInv'
<1>1. HandsEmpty'
  BY Zenon DEF RelayInv, MailInv, HandsEmpty
<1>2. UnsentUnknown'
  BY Zenon DEF RelayInv, MailInv, UnsentUnknown, MsgsOf
<1>3. Surviving' = Surviving /\ Stored' = Stored
  BY Zenon DEF Surviving, Stored
<1>4. CustodyInv'
  <2>. SUFFICES ASSUME NEW m \in Msgs, m \notin diverged'
                PROVE  Custody(m)'
    BY Zenon DEF CustodyInv
  <2>1. Custody(m)
    BY Zenon DEF RelayInv, MailInv, CustodyInv
  <2>2. /\ StoredRows(m)' \subseteq StoredRows(m)
        /\ \A c \in Conns : FlushRows(c, m)' \subseteq FlushRows(c, m)
    BY <1>3, Zenon DEF StoredRows, FlushRows
  <2>. QED  BY <2>1, <2>2, CustodyShrinks, Zenon
<1>5. NoSilentLoss'
  <2>. SUFFICES ASSUME NEW m \in Msgs
                PROVE  Accounted(m)'
    BY LossByMessageNext, Zenon DEF AllAccounted
  <2>1. Accounted(m)
    BY LossByMessage, Zenon DEF RelayInv, MailInv, AllAccounted
  <2>2. InRelay(m)' <=> InRelay(m)
    BY <1>3, Zenon DEF InRelay, FlushRows
  <2>. QED  BY <2>1, <2>2, Zenon DEF Accounted, Gone
<1>. QED  BY <1>1, <1>2, <1>4, <1>5, Zenon DEF MailInv

(* conn.Write of m by the goroutine that owns it. *)
LEMMA WriteStep ==
  ASSUME RelayInv, TypeOK', NEW m \in Msgs, UNCHANGED <<storeVars, lost>>,
         mode # "down", dpc[m] # "unsent", dpc'[m] # "unsent",
         \A c \in Conns : flush'[c] # {} => pc'[c] \in {"flush", "requeue"},
         \A n \in Msgs \ {m} :
           /\ dpc'[n] = dpc[n]
           /\ delivered'[n] = delivered[n] /\ ambiguous'[n] = ambiguous[n]
           /\ \A c \in Conns : FlushRows(c, n)' = FlushRows(c, n),
         m \notin diverged => Held(m),
         \/ /\ delivered'[m] = delivered[m] + 1 /\ ambiguous'[m] = ambiguous[m]
            /\ m \notin diverged => ~Held(m)'
         \/ /\ \/ delivered'[m] = delivered[m] /\ ambiguous'[m] = ambiguous[m]
               \/ delivered'[m] = delivered[m] + 1 /\ ambiguous'[m] = ambiguous[m] + 1
            /\ dpc'[m] \in Delivering <=> dpc[m] \in Delivering
            /\ \A c \in Conns : FlushRows(c, m)' = FlushRows(c, m)
  PROVE  MailInv'
<1>0. /\ rows' = rows /\ disk' = disk /\ dirty' = dirty /\ mode' = mode
      /\ discarded' = discarded /\ rejected' = rejected /\ diverged' = diverged /\ lost' = lost
  BY Zenon DEF storeVars
<1>1. Surviving' = Surviving /\ Stored' = Stored
  BY <1>0, Zenon DEF Surviving, Stored
<1>2. /\ delivered[m] \in Nat /\ delivered'[m] \in Nat
      /\ ambiguous[m] \in Nat /\ ambiguous'[m] \in Nat
  BY Zenon DEF RelayInv, TypeOK
<1>3. HandsEmpty'
  BY <1>0, Zenon DEF HandsEmpty
<1>4. UnsentUnknown'
  <2>. SUFFICES ASSUME NEW n \in Msgs, dpc'[n] = "unsent"
                PROVE  /\ n \notin (MsgsOf(rows) \cup MsgsOf(disk.rows) \cup diverged)'
                       /\ \A c \in Conns : n \notin MsgsOf(flush[c])'
                       /\ delivered'[n] = 0
    BY Zenon DEF UnsentUnknown
  <2>1. n # m /\ dpc[n] = "unsent"
    OBVIOUS
  <2>2. \A c \in Conns : FlushRows(c, n) = {}
    BY <2>1 DEF RelayInv, MailInv, UnsentUnknown, FlushRows, MsgsOf
  <2>3. \A c \in Conns : n \notin MsgsOf(flush[c])'
    BY <2>1, <2>2, Zenon DEF FlushRows, MsgsOf
  <2>. QED  BY <1>0, <2>1, <2>3, Zenon DEF RelayInv, MailInv, UnsentUnknown, MsgsOf
<1>5. CustodyInv'
  <2>. SUFFICES ASSUME NEW n \in Msgs, n \notin diverged
                PROVE  Custody(n)'
    BY <1>0, Zenon DEF CustodyInv
  <2>1. Custody(n)
    BY Zenon DEF RelayInv, MailInv, CustodyInv
  <2>2. StoredRows(n)' = StoredRows(n)
    BY <1>1, Zenon DEF StoredRows
  <2>3. CASE n # m
    BY <2>1, <2>2, <2>3, CustodyShrinks, Zenon
  <2>4. CASE n = m /\ delivered'[m] = delivered[m] + 1 /\ ambiguous'[m] = ambiguous[m] /\ ~Held(m)'
    <3>1. delivered[m] <= ambiguous[m]
      BY <2>1, <2>4, Zenon DEF Custody
    <3>2. delivered'[m] <= ambiguous'[m] + 1
      BY <3>1, <2>4, <1>2
    <3>. QED  BY <2>4, <3>2, Zenon DEF Custody, Held
  <2>5. CASE /\ n = m
             /\ \/ delivered'[m] = delivered[m] /\ ambiguous'[m] = ambiguous[m]
                \/ delivered'[m] = delivered[m] + 1 /\ ambiguous'[m] = ambiguous[m] + 1
             /\ dpc'[m] \in Delivering <=> dpc[m] \in Delivering
             /\ \A c \in Conns : FlushRows(c, m)' = FlushRows(c, m)
    <3>1. delivered[m] <= ambiguous[m]
      BY <2>1, <2>5, Zenon DEF Custody
    <3>2. delivered'[m] <= ambiguous'[m] /\ delivered'[m] <= ambiguous'[m] + 1
      BY <3>1, <2>5, <1>2
    <3>. QED  BY <2>1, <2>2, <2>5, <3>2 DEF Custody
  <2>. QED  BY <2>3, <2>4, <2>5, Zenon
<1>6. NoSilentLoss'
  <2>. SUFFICES ASSUME NEW n \in Msgs
                PROVE  Accounted(n)'
    BY LossByMessageNext, Zenon DEF AllAccounted
  <2>1. Accounted(n)
    BY LossByMessage, Zenon DEF RelayInv, MailInv, AllAccounted
  <2>2. Gone' = Gone
    BY <1>0, Zenon DEF Gone
  <2>3. CASE n # m
    BY <1>1, <2>1, <2>2, <2>3, Zenon DEF Accounted, InRelay
  <2>4. CASE n = m /\ delivered'[m] = delivered[m] + 1
    BY <1>2, <2>4 DEF Accounted
  <2>5. CASE n = m /\ delivered'[m] # delivered[m] + 1
    <3>1. InRelay(m)' <=> InRelay(m)
      BY <1>1, <1>2, <2>5, Zenon DEF InRelay
    <3>. QED  BY <1>2, <2>1, <2>2, <2>5, <3>1, Zenon DEF Accounted
  <2>. QED  BY <2>3, <2>4, <2>5, Zenon
<1>. QED  BY <1>3, <1>4, <1>5, <1>6, Zenon DEF MailInv

(* The owner of m passes it to Enqueue. *)
LEMMA EnqueueStep ==
  ASSUME RelayInv, TypeOK', NEW u \in Users, NEW m \in Msgs, Enqueue(u, m),
         UNCHANGED <<delivered, ambiguous, lost>>,
         dpc[m] # "unsent", dpc'[m] # "unsent",
         \A c \in Conns : flush'[c] # {} => pc'[c] \in {"flush", "requeue"},
         \A n \in Msgs \ {m} :
           /\ dpc'[n] = dpc[n]
           /\ \A c \in Conns : FlushRows(c, n)' = FlushRows(c, n),
         m \notin diverged =>
           /\ dpc'[m] \notin Delivering
           /\ \A c \in Conns : FlushRows(c, m)' = {}
           /\ StoredRows(m) = {}
           /\ delivered[m] <= ambiguous[m]
  PROVE  MailInv'
<1>. DEFINE new == NewRow(u, m)
<1>0. /\ mode # "down" /\ mode' = mode /\ diverged' = diverged
      /\ discarded \subseteq discarded' /\ rejected \subseteq rejected' /\ lost' = lost
      /\ \A r \in rows \ rows' : r.msg \in discarded'
      /\ rows' \subseteq rows \cup {new}
      /\ disk'.rows \subseteq disk.rows \cup rows'
      /\ Surviving' \subseteq Surviving \cup {new}
      /\ new \in rows' \/ m \in discarded' \cup rejected'
      /\ new.msg = m
  BY EnqueueEffect, Zenon DEF RelayInv
<1>. HIDE DEF new
<1>2. /\ delivered[m] \in Nat /\ ambiguous[m] \in Nat
      /\ delivered' = delivered /\ ambiguous' = ambiguous
  BY Zenon DEF RelayInv, TypeOK
<1>3. HandsEmpty'
  BY <1>0, Zenon DEF HandsEmpty
<1>4. UnsentUnknown'
  <2>. SUFFICES ASSUME NEW n \in Msgs, dpc'[n] = "unsent"
                PROVE  /\ n \notin (MsgsOf(rows) \cup MsgsOf(disk.rows) \cup diverged)'
                       /\ \A c \in Conns : n \notin MsgsOf(flush[c])'
                       /\ delivered'[n] = 0
    BY Zenon DEF UnsentUnknown
  <2>1. n # m /\ dpc[n] = "unsent"
    OBVIOUS
  <2>2. /\ n \notin MsgsOf(rows) \cup MsgsOf(disk.rows) \cup diverged
        /\ \A c \in Conns : FlushRows(c, n) = {}
        /\ delivered[n] = 0
    BY <2>1 DEF RelayInv, MailInv, UnsentUnknown, FlushRows, MsgsOf
  <2>3. \A c \in Conns : n \notin MsgsOf(flush[c])'
    BY <2>1, <2>2, Zenon DEF FlushRows, MsgsOf
  <2>4. n \notin MsgsOf(rows') /\ n \notin MsgsOf(disk'.rows)
    BY <1>0, <2>1, <2>2 DEF MsgsOf
  <2>. QED  BY <1>0, <1>2, <2>2, <2>3, <2>4, Zenon
<1>5. CustodyInv'
  <2>. SUFFICES ASSUME NEW n \in Msgs, n \notin diverged
                PROVE  Custody(n)'
    BY <1>0, Zenon DEF CustodyInv
  <2>1. Custody(n)
    BY Zenon DEF RelayInv, MailInv, CustodyInv
  <2>3. CASE n # m
    <3>1. StoredRows(n)' \subseteq StoredRows(n)
      BY <1>0, <2>3, Zenon DEF StoredRows
    <3>. QED  BY <1>2, <2>1, <2>3, <3>1, CustodyShrinks, Zenon
  <2>4. CASE n = m
    <3>1. StoredRows(m)' \subseteq {new}
      BY <1>0, <2>4, Zenon DEF StoredRows
    <3>2. delivered'[m] <= ambiguous'[m] /\ delivered'[m] <= ambiguous'[m] + 1
      BY <2>4, <1>2
    <3>. QED  BY <2>4, <3>1, <3>2, Zenon DEF Custody
  <2>. QED  BY <2>3, <2>4, Zenon
<1>6. NoSilentLoss'
  <2>. SUFFICES ASSUME NEW n \in Msgs
                PROVE  Accounted(n)'
    BY LossByMessageNext, Zenon DEF AllAccounted
  <2>1. Accounted(n)
    BY LossByMessage, Zenon DEF RelayInv, MailInv, AllAccounted
  <2>2. Gone \subseteq Gone' /\ discarded' \subseteq Gone' /\ rejected' \subseteq Gone'
    BY <1>0, Zenon DEF Gone
  <2>3. Stored = rows /\ Stored' = rows'
    BY <1>0, Zenon DEF Stored
  <2>4. CASE n # m
    <3>1. InRelay(n) => InRelay(n)' \/ n \in Gone'
      BY <1>0, <2>2, <2>3, <2>4, Zenon DEF InRelay
    <3>2. delivered'[n] = delivered[n] /\ delivered[n] \in Nat
      BY <1>2, Zenon DEF RelayInv, TypeOK
    <3>. QED  BY <2>1, <2>2, <2>4, <3>1, <3>2, Zenon DEF Accounted
  <2>5. CASE n = m
    BY <1>0, <2>2, <2>3, <2>5, Zenon DEF Accounted, InRelay
  <2>. QED  BY <2>4, <2>5, Zenon
<1>. QED  BY <1>3, <1>4, <1>5, <1>6, Zenon DEF MailInv

(* Rows leave the table for FlushQueue's list, or for good.  Purging is the *)
(* case of an empty list.                                                   *)
LEMMA TakeStep ==
  ASSUME RelayInv, TypeOK', NEW c, NEW got \in SUBSET rows,
         mode = "up", UNCHANGED <<mode, diverged, dpc, delivered, ambiguous, lost>>,
         discarded \subseteq discarded', rejected \subseteq rejected',
         rows' \subseteq rows, disk'.rows \subseteq disk.rows \cup rows,
         \A r \in rows \ rows' : r \in got \/ r.msg \in discarded' \cup rejected',
         \A r \in got : r \notin rows',
         Surviving' = rows', rows \subseteq Surviving,
         \A d \in Conns \ {c} : flush'[d] = flush[d] /\ pc'[d] = pc[d],
         \/ got = {} /\ UNCHANGED <<flush, pc>>
         \/ c \in Conns /\ flush[c] = {} /\ flush'[c] = got /\ (got # {} => pc'[c] = "flush")
  PROVE  MailInv'
<1>1. HandsEmpty'
  BY Zenon DEF RelayInv, MailInv, HandsEmpty
<1>2. UnsentUnknown'
  <2>. SUFFICES ASSUME NEW n \in Msgs, dpc'[n] = "unsent"
                PROVE  /\ n \notin (MsgsOf(rows) \cup MsgsOf(disk.rows) \cup diverged)'
                       /\ \A d \in Conns : n \notin MsgsOf(flush[d])'
                       /\ delivered'[n] = 0
    BY Zenon DEF UnsentUnknown
  <2>2. /\ n \notin MsgsOf(rows) \cup MsgsOf(disk.rows) \cup diverged
        /\ \A d \in Conns : n \notin MsgsOf(flush[d])
        /\ delivered[n] = 0
    BY Zenon DEF RelayInv, MailInv, UnsentUnknown
  <2>3. \A d \in Conns : n \notin MsgsOf(flush'[d])
    BY <2>2, Zenon DEF MsgsOf
  <2>4. n \notin MsgsOf(rows') /\ n \notin MsgsOf(disk'.rows)
    BY <2>2, Zenon DEF MsgsOf
  <2>. QED  BY <2>2, <2>3, <2>4, Zenon
<1>3. CustodyInv'
  <2>. SUFFICES ASSUME NEW n \in Msgs, n \notin diverged
                PROVE  Custody(n)'
    BY Zenon DEF CustodyInv
  <2>1. Custody(n)
    BY Zenon DEF RelayInv, MailInv, CustodyInv
  <2>2. /\ StoredRows(n)' \subseteq StoredRows(n)
        /\ StoredRows(n)' = {r \in rows' : r.msg = n}
    BY Zenon DEF StoredRows
  <2>3. CASE \A r \in got : r.msg # n
    <3>1. \A d \in Conns : FlushRows(d, n)' \subseteq FlushRows(d, n)
      BY <2>3, Zenon DEF FlushRows
    <3>. QED  BY <2>1, <2>2, <3>1, CustodyShrinks, Zenon
  <2>4. ASSUME NEW r \in got, r.msg = n
        PROVE  Custody(n)'
    <3>1. r \in StoredRows(n)
      BY <2>4, Zenon DEF StoredRows
    <3>2. \A q \in StoredRows(n) : q = r
      BY <2>1, <3>1, Zenon DEF Custody
    <3>3. StoredRows(n)' = {}
      BY <2>2, <3>2, Zenon
    <3>4. /\ \A d \in Conns : FlushRows(d, n) = {}
          /\ dpc[n] \notin Delivering
          /\ Held(n)
      BY <2>1, <3>1, Zenon DEF Custody, Held
    <3>5. got \subseteq Surviving
      OBVIOUS
    <3>6. \A q \in got : q.msg = n => q = r
      BY <3>2, <3>5, Zenon DEF StoredRows
    <3>7. flush'[c] = got
      BY <2>4, Zenon
    <3>8. \A d \in Conns : \A q \in FlushRows(d, n)' : d = c /\ q = r
      BY <3>4, <3>6, <3>7, Zenon DEF FlushRows
    <3>9. delivered[n] <= ambiguous[n] /\ delivered[n] <= ambiguous[n] + 1
      BY <2>1, <3>4, Zenon DEF Custody
    <3>. QED  BY <3>3, <3>4, <3>8, <3>9, Zenon DEF Custody
  <2>. QED  BY <2>3, <2>4, Zenon
<1>4. NoSilentLoss'
  <2>. SUFFICES ASSUME NEW n \in Msgs
                PROVE  Accounted(n)'
    BY LossByMessageNext, Zenon DEF AllAccounted
  <2>1. Accounted(n)
    BY LossByMessage, Zenon DEF RelayInv, MailInv, AllAccounted
  <2>2. Gone \subseteq Gone' /\ discarded' \subseteq Gone' /\ rejected' \subseteq Gone'
    BY Zenon DEF Gone
  <2>3. Stored = rows /\ Stored' = rows'
    BY Zenon DEF Stored
  <2>4. ASSUME NEW r \in rows, r.msg = n
        PROVE  InRelay(n)' \/ n \in Gone'
    <3>1. CASE r \in rows'
      BY <2>3, <2>4, <3>1, Zenon DEF InRelay
    <3>2. CASE r \in got
      <4>1. c \in Conns /\ r \in FlushRows(c, n)'
        BY <2>4, <3>2, Zenon DEF FlushRows
      <4>. QED  BY <4>1, Zenon DEF InRelay
    <3>. QED  BY <2>2, <2>4, <3>1, <3>2, Zenon
  <2>5. ASSUME NEW d \in Conns, FlushRows(d, n) # {}
        PROVE  FlushRows(d, n)' # {}
    BY <2>5, Zenon DEF FlushRows
  <2>6. InRelay(n) => InRelay(n)' \/ n \in Gone'
    BY <2>3, <2>4, <2>5, Zenon DEF InRelay
  <2>. QED  BY <2>1, <2>2, <2>6, Zenon DEF Accounted
<1>. QED  BY <1>1, <1>2, <1>3, <1>4, Zenon DEF MailInv

(* A message enters: its delivery is its owner. *)
LEMMA AcceptStep ==
  ASSUME RelayInv, TypeOK', NEW m \in Msgs, Accept(m)
  PROVE  MailInv'
<1>0. /\ mode # "down" /\ dpc[m] = "unsent" /\ dpc' = [dpc EXCEPT ![m] = "lookup"]
      /\ UNCHANGED <<rows, disk, mode, dirty, discarded, rejected, diverged>>
      /\ UNCHANGED <<pc, flush, delivered, ambiguous, lost>>
  BY Zenon DEF Accept, storeVars, connVars, histVars
<1>1. /\ dpc'[m] = "lookup"
      /\ \A n \in Msgs \ {m} : dpc'[n] = dpc[n]
  BY <1>0, Zenon DEF RelayInv, TypeOK
<1>2. HandsEmpty'
  BY <1>0, Zenon DEF RelayInv, MailInv, HandsEmpty
<1>3. UnsentUnknown'
  BY <1>0, <1>1, Zenon DEF RelayInv, MailInv, UnsentUnknown, MsgsOf
<1>4. Surviving' = Surviving /\ Stored' = Stored
  BY <1>0, Zenon DEF Surviving, Stored
<1>5. CustodyInv'
  <2>. SUFFICES ASSUME NEW n \in Msgs, n \notin diverged
                PROVE  Custody(n)'
    BY <1>0, Zenon DEF CustodyInv
  <2>1. Custody(n)
    BY Zenon DEF RelayInv, MailInv, CustodyInv
  <2>2. /\ StoredRows(n)' = StoredRows(n)
        /\ \A c \in Conns : FlushRows(c, n)' = FlushRows(c, n)
    BY <1>0, <1>4, Zenon DEF StoredRows, FlushRows
  <2>3. CASE n # m
    BY <1>0, <1>1, <2>1, <2>2, <2>3, CustodyShrinks, Zenon
  <2>4. CASE n = m
    <3>1. m \notin MsgsOf(rows) /\ m \notin MsgsOf(disk.rows) /\ delivered[m] = 0
      BY <1>0, Zenon DEF RelayInv, MailInv, UnsentUnknown
    <3>2. \A c \in Conns : m \notin MsgsOf(flush[c])
      BY <1>0, Zenon DEF RelayInv, MailInv, UnsentUnknown
    <3>3. StoredRows(m)' = {} /\ \A c \in Conns : FlushRows(c, m)' = {}
      BY <2>2, <2>4, <3>1, <3>2 DEF StoredRows, FlushRows, MsgsOf, Surviving
    <3>4. ambiguous[m] \in Nat
      BY Zenon DEF RelayInv, TypeOK
    <3>5. delivered'[m] <= ambiguous'[m] /\ delivered'[m] <= ambiguous'[m] + 1
      BY <1>0, <3>1, <3>4
    <3>. QED  BY <2>4, <3>3, <3>5, Zenon DEF Custody
  <2>. QED  BY <2>3, <2>4, Zenon
<1>6. NoSilentLoss'
  <2>. SUFFICES ASSUME NEW n \in Msgs
                PROVE  Accounted(n)'
    BY LossByMessageNext, Zenon DEF AllAccounted
  <2>1. Accounted(n)
    BY LossByMessage, Zenon DEF RelayInv, MailInv, AllAccounted
  <2>2. Gone' = Gone
    BY <1>0, Zenon DEF Gone
  <2>3. CASE n # m
    BY <1>0, <1>1, <1>4, <2>1, <2>2, <2>3, Zenon DEF Accounted, InRelay, FlushRows
  <2>4. CASE n = m
    BY <1>1, <2>4, Zenon DEF Accounted, InRelay, Delivering
  <2>. QED  BY <2>3, <2>4, Zenon
<1>. QED  BY <1>2, <1>3, <1>5, <1>6, Zenon DEF MailInv

(* The end of the process: what only goroutines held is lost, and the file  *)
(* decides about the rest.                                                  *)
LEMMA EndStep ==
  ASSUME RelayInv, TypeOK', ProcessEnds
  PROVE  MailInv'
<1>0. /\ mode # "down" /\ mode' = "down" /\ disk' = disk /\ rows' = {}
      /\ UNCHANGED <<discarded, rejected, delivered, ambiguous>>
      /\ diverged' = IF dirty
                     THEN diverged \cup MsgsOf(rows \ disk.rows) \cup MsgsOf(disk.rows \ rows)
                     ELSE diverged
      /\ lost' = lost \cup InFlight
      /\ \A c \in Conns : flush'[c] = {}
      /\ \A m \in Msgs : dpc'[m] = IF dpc[m] = "unsent" THEN "unsent" ELSE "done"
  BY Zenon DEF ProcessEnds, Crash
<1>1. \A m \in Msgs : dpc'[m] \notin Delivering
  BY <1>0, Zenon DEF Delivering
<1>2. HandsEmpty'
  BY <1>0, <1>1, Zenon DEF HandsEmpty
<1>3. UnsentUnknown'
  <2>. SUFFICES ASSUME NEW n \in Msgs, dpc'[n] = "unsent"
                PROVE  /\ n \notin (MsgsOf(rows) \cup MsgsOf(disk.rows) \cup diverged)'
                       /\ \A c \in Conns : n \notin MsgsOf(flush[c])'
                       /\ delivered'[n] = 0
    BY Zenon DEF UnsentUnknown
  <2>1. dpc[n] = "unsent"
    BY <1>0, Zenon
  <2>2. n \notin MsgsOf(rows) \cup MsgsOf(disk.rows) \cup diverged /\ delivered[n] = 0
    BY <2>1, Zenon DEF RelayInv, MailInv, UnsentUnknown
  <2>3. n \notin MsgsOf(rows') /\ n \notin MsgsOf(disk'.rows) /\ n \notin diverged'
    BY <1>0, <2>2, Zenon DEF MsgsOf
  <2>4. \A c \in Conns : n \notin MsgsOf(flush'[c])
    BY <1>0, Zenon DEF MsgsOf
  <2>. QED  BY <1>0, <2>2, <2>3, <2>4, Zenon
<1>4. diverged \subseteq diverged' /\ Surviving' = disk.rows /\ Stored' = disk.rows /\ Stored = rows
  BY <1>0, Zenon DEF Surviving, Stored
<1>5. CustodyInv'
  <2>. SUFFICES ASSUME NEW n \in Msgs, n \notin diverged'
                PROVE  Custody(n)'
    BY Zenon DEF CustodyInv
  <2>1. Custody(n)
    BY <1>4, Zenon DEF RelayInv, MailInv, CustodyInv
  <2>2. StoredRows(n)' \subseteq StoredRows(n)
    BY <1>0, <1>4, Zenon DEF StoredRows, Surviving, MsgsOf
  <2>3. \A c \in Conns : FlushRows(c, n)' \subseteq FlushRows(c, n)
    BY <1>0, Zenon DEF FlushRows
  <2>. QED  BY <1>0, <1>1, <2>1, <2>2, <2>3, CustodyShrinks, Zenon
<1>6. NoSilentLoss'
  <2>. SUFFICES ASSUME NEW n \in Msgs
                PROVE  Accounted(n)'
    BY LossByMessageNext, Zenon DEF AllAccounted
  <2>1. Accounted(n)
    BY LossByMessage, Zenon DEF RelayInv, MailInv, AllAccounted
  <2>2. Gone \subseteq Gone' /\ diverged' \subseteq Gone' /\ lost' \subseteq Gone'
    BY <1>0, <1>4, Zenon DEF Gone
  <2>3. CASE dpc[n] \in Delivering
    BY <1>0, <2>2, <2>3, Zenon DEF InFlight, Accounted
  <2>4. ASSUME NEW c \in Conns, FlushRows(c, n) # {}
        PROVE  Accounted(n)'
    <3>1. n \in MsgsOf(flush[c])
      BY <2>4, Zenon DEF FlushRows, MsgsOf
    <3>. QED  BY <1>0, <2>2, <3>1, Zenon DEF InFlight, Accounted
  <2>5. ASSUME NEW r \in rows, r.msg = n
        PROVE  Accounted(n)'
    <3>1. CASE r \in disk.rows
      BY <1>4, <2>5, <3>1, Zenon DEF Accounted, InRelay
    <3>2. CASE r \notin disk.rows
      <4>1. dirty
        BY <1>0, <3>2, Zenon DEF RelayInv, FileCovers
      <4>. QED  BY <1>0, <2>2, <2>5, <3>2, <4>1, Zenon DEF MsgsOf, Accounted
    <3>. QED  BY <3>1, <3>2, Zenon
  <2>6. CASE InRelay(n)
    BY <1>4, <2>3, <2>4, <2>5, <2>6, Zenon DEF InRelay
  <2>. QED  BY <1>0, <2>1, <2>2, <2>6, Zenon DEF Accounted
<1>. QED  BY <1>2, <1>3, <1>5, <1>6, Zenon DEF MailInv

(* The file becomes the table: the stored rows are the same. *)
LEMMA RestartStep ==
  ASSUME RelayInv, TypeOK', ProcessRestarts
  PROVE  MailInv'
<1>0. /\ mode = "down" /\ mode' = "up" /\ rows' = disk.rows
      /\ UNCHANGED <<disk, dirty, discarded, rejected, diverged>>
      /\ UNCHANGED <<pc, flush, dpc, delivered, ambiguous, lost>>
  BY Zenon DEF ProcessRestarts, Restart, Loaded, connVars, deliverVars, histVars
<1>1. HandsEmpty'
  BY <1>0, Zenon DEF RelayInv, MailInv, HandsEmpty
<1>2. UnsentUnknown'
  BY <1>0, Zenon DEF RelayInv, MailInv, UnsentUnknown, MsgsOf
<1>3. Surviving' = Surviving /\ Stored' = Stored
  BY <1>0, Zenon DEF Surviving, Stored
<1>4. CustodyInv'
  <2>. SUFFICES ASSUME NEW m \in Msgs, m \notin diverged
                PROVE  Custody(m)'
    BY <1>0, Zenon DEF CustodyInv
  <2>1. Custody(m)
    BY Zenon DEF RelayInv, MailInv, CustodyInv
  <2>2. /\ StoredRows(m)' \subseteq StoredRows(m)
        /\ \A c \in Conns : FlushRows(c, m)' \subseteq FlushRows(c, m)
    BY <1>0, <1>3, Zenon DEF StoredRows, FlushRows
  <2>. QED  BY <1>0, <2>1, <2>2, CustodyShrinks, Zenon
<1>5. NoSilentLoss'
  <2>. SUFFICES ASSUME NEW m \in Msgs
                PROVE  Accounted(m)'
    BY LossByMessageNext, Zenon DEF AllAccounted
  <2>1. Accounted(m)
    BY LossByMessage, Zenon DEF RelayInv, MailInv, AllAccounted
  <2>. QED  BY <1>0, <1>3, <2>1, Zenon DEF Accounted, InRelay, FlushRows, Gone
<1>. QED  BY <1>1, <1>2, <1>4, <1>5, Zenon DEF MailInv

-----------------------------------------------------------------------------
(* Now the actions. *)

(* A handler that has rows in hand is in FlushQueue; its process runs. *)
LEMMA FlushOwner ==
  ASSUME RelayInv, NEW c \in Conns, NEW r \in flush[c]
  PROVE  /\ mode # "down"
         /\ r.msg \in Msgs /\ dpc[r.msg] # "unsent"
         /\ r \in FlushRows(c, r.msg) /\ Held(r.msg)
         /\ r.msg \notin diverged =>
              /\ dpc[r.msg] \notin Delivering
              /\ StoredRows(r.msg) = {}
              /\ \A d \in Conns : \A q \in FlushRows(d, r.msg) : d = c /\ q = r
              /\ delivered[r.msg] <= ambiguous[r.msg]
<1>1. r.msg \in Msgs
  BY RowMsgs, Zenon
<1>2. mode # "down"
  BY Zenon DEF RelayInv, MailInv, HandsEmpty
<1>3. dpc[r.msg] # "unsent"
  BY <1>1 DEF RelayInv, MailInv, UnsentUnknown, MsgsOf
<1>4. r \in FlushRows(c, r.msg)
  BY Zenon DEF FlushRows
<1>5. Held(r.msg)
  BY <1>4, Zenon DEF Held
<1>6. ASSUME r.msg \notin diverged
      PROVE  Custody(r.msg)
  BY <1>1, <1>6, Zenon DEF RelayInv, MailInv, CustodyInv
<1>. QED  BY <1>1, <1>2, <1>3, <1>4, <1>5, <1>6, Zenon DEF Custody

(* While a delivery is under way nobody else holds its message. *)
LEMMA DeliverOwner ==
  ASSUME RelayInv, NEW m \in Msgs, dpc[m] \in Delivering
  PROVE  /\ mode # "down" /\ dpc[m] # "unsent" /\ Held(m)
         /\ m \notin diverged =>
              /\ StoredRows(m) = {}
              /\ \A c \in Conns : FlushRows(c, m) = {}
              /\ delivered[m] <= ambiguous[m]
<1>1. mode # "down" /\ dpc[m] # "unsent" /\ Held(m)
  BY Zenon DEF RelayInv, MailInv, HandsEmpty, Delivering, Held
<1>2. ASSUME m \notin diverged
      PROVE  Custody(m)
  BY <1>2, Zenon DEF RelayInv, MailInv, CustodyInv
<1>. QED  BY <1>1, <1>2, Zenon DEF Custody

(* conn.Write: sent and reported, not sent, or sent and misreported. *)
LEMMA WriteCounts ==
  ASSUME TypeOK, NEW c, NEW m \in Msgs, WriteOk(c, m) \/ WriteFails(c, m)
  PROVE  /\ \A n \in Msgs \ {m} : delivered'[n] = delivered[n] /\ ambiguous'[n] = ambiguous[n]
         /\ WriteOk(c, m) => delivered'[m] = delivered[m] + 1 /\ ambiguous'[m] = ambiguous[m]
         /\ WriteFails(c, m) =>
              \/ delivered'[m] = delivered[m] /\ ambiguous'[m] = ambiguous[m]
              \/ delivered'[m] = delivered[m] + 1 /\ ambiguous'[m] = ambiguous[m] + 1
BY Zenon DEF TypeOK, WriteOk, WriteFails

-----------------------------------------------------------------------------
(* The invariant implies SingleCustody. *)
LEMMA CustodyImplies == RelayInv => SingleCustody
<1>. SUFFICES ASSUME RelayInv, NEW m \in Msgs, m \notin diverged
              PROVE  /\ \A p, q \in Places(m) : p = q
                     /\ delivered[m] <= ambiguous[m] + (IF Places(m) = {} THEN 1 ELSE 0)
  BY Zenon DEF SingleCustody
<1>1. Custody(m)
  BY Zenon DEF RelayInv, MailInv, CustodyInv
<1>2. Stored \subseteq Surviving
  BY RowsSurvive, Zenon DEF RelayInv, Stored, Surviving
<1>3. ASSUME NEW p \in Places(m)
      PROVE  \/ p = <<"deliver", m>> /\ dpc[m] \in Delivering
             \/ \E c \in Conns : \E r \in FlushRows(c, m) : p = <<c, r.id>>
             \/ \E r \in StoredRows(m) : p = <<"queue", r.id>>
  <2>1. \/ p \in {<<"deliver", n>> : n \in {k \in {m} : dpc[k] \in Delivering}}
        \/ p \in UNION {{<<c, r.id>> : r \in {q \in flush[c] : q.msg = m}} : c \in Conns}
        \/ p \in {<<"queue", r.id>> : r \in {q \in Stored : q.msg = m}}
    BY Zenon DEF Places
  <2>2. CASE p \in {<<"deliver", n>> : n \in {k \in {m} : dpc[k] \in Delivering}}
    BY <2>2, Zenon
  <2>3. CASE p \in UNION {{<<c, r.id>> : r \in {q \in flush[c] : q.msg = m}} : c \in Conns}
    BY <2>3 DEF FlushRows
  <2>4. CASE p \in {<<"queue", r.id>> : r \in {q \in Stored : q.msg = m}}
    BY <1>2, <2>4, Zenon DEF StoredRows
  <2>. QED  BY <2>1, <2>2, <2>3, <2>4, Zenon
<1>4. ASSUME NEW p \in Places(m), NEW q \in Places(m)
      PROVE  p = q
  <2>1. CASE dpc[m] \in Delivering
    BY <1>1, <1>3, <2>1, Zenon DEF Custody
  <2>2. CASE StoredRows(m) # {}
    BY <1>1, <1>3, <2>2, Zenon DEF Custody
  <2>3. CASE dpc[m] \notin Delivering /\ StoredRows(m) = {}
    BY <1>1, <1>3, <2>3 DEF Custody
  <2>. QED  BY <2>1, <2>2, <2>3, Zenon
<1>5. Places(m) # {} => Held(m)
  BY <1>3, Zenon DEF Held
<1>6. delivered[m] \in Nat /\ ambiguous[m] \in Nat
  BY Zenon DEF RelayInv, TypeOK
<1>7. delivered[m] <= ambiguous[m] + (IF Places(m) = {} THEN 1 ELSE 0)
  BY <1>1, <1>5, <1>6 DEF Custody
<1>. QED  BY <1>4, <1>7, Zenon

=============================================================================
