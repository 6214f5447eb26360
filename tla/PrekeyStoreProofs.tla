-------------------------- MODULE PrekeyStoreProofs --------------------------
(***************************************************************************)
(* Proofs about PrekeyStore for any users, prekeys, requests and bounds.   *)
(***************************************************************************)
EXTENDS PrekeyStore, SequenceTheorems, TLAPS

USE PrekeyAssumption

(* A user not marked dirty has the same bundle in the map and in the file,  *)
(* so the crash that follows changes nothing that counts.                   *)
FileUpToDate == up => \A u \in Users \ dirty : bundles[u] = disk[u]

(* No request is inside a handler while the process is down. *)
NoGhostRequest ==
  /\ \A f \in Fetches : fetch[f].state = "get" => up
  /\ \A r \in CertReqs : cert[r].state \in Issuing => up

(* A registered user's bundle stays. *)
KnownKept == \A u \in known \ stale : Current[u] # None

(* Map and file hold keys their user published, and what counts holds the   *)
(* last one.                                                                *)
KeysPublished ==
  /\ \A u \in Users : bundles[u] # None => bundles[u].ik \in published[u]
  /\ \A u \in Users : disk[u] # None => disk[u].ik \in published[u]
  /\ \A u \in Users \ stale : Current[u] # None => Current[u].ik = latest[u]

(* A certificate request knows the user's latest key among those of its     *)
(* time, and holds one of them once it has read the map.                    *)
CertKeys ==
  \A r \in CertReqs :
    LET c == cert[r] IN
    /\ c.state = "read" /\ latest[c.user] # None => latest[c.user] \in c.current
    /\ c.state = "sign" => /\ c.ik \in published[c.user]
                           /\ c.user \notin stale => c.ik \in c.current

PrekeyInv ==
  /\ PrekeyTypeOK
  /\ SingleUse
  /\ FileUpToDate
  /\ NoGhostRequest
  /\ KnownKept
  /\ KeysPublished
  /\ CertKeys

-----------------------------------------------------------------------------
(* A stored bundle is not the mark for no bundle. *)
LEMMA StoredNotNone ==
  ASSUME NEW b \in Stored
  PROVE  b # None
BY DEF Stored, Pool

(* Popping the head of a pool gives a pool that holds the head no longer    *)
(* and nothing new (prekey_store.go:183).                                   *)
LEMMA PopPool ==
  ASSUME NEW s \in Pool, s # << >>
  PROVE  /\ Head(s) \in Otpks
         /\ Tail(s) \in Pool
         /\ Head(s) \in Elems(s)
         /\ Head(s) \notin Elems(Tail(s))
         /\ Elems(Tail(s)) \subseteq Elems(s)
<1>1. s \in Seq(Otpks) /\ Len(s) <= MaxOtpks /\ NoDuplicates(s)
  BY DEF Pool
<1>2. /\ Head(s) \in Otpks
      /\ Tail(s) \in Seq(Otpks)
      /\ Len(Tail(s)) = Len(s) - 1
      /\ \A i \in 1 .. Len(Tail(s)) : Tail(s)[i] = s[i + 1]
  BY <1>1, HeadTailProperties
<1>3. /\ Len(s) \in Nat \ {0}
      /\ DOMAIN s = 1 .. Len(s)
      /\ DOMAIN Tail(s) = 1 .. Len(s) - 1
      /\ Head(s) = s[1]
  BY <1>1, <1>2, EmptySeq, LenProperties
<1>4. \A i \in 1 .. Len(s) - 1 : Tail(s)[i] = s[i + 1] /\ i + 1 \in 1 .. Len(s)
  BY <1>2, <1>3
<1>5. NoDuplicates(Tail(s))
  <2> SUFFICES ASSUME NEW i \in 1 .. Len(s) - 1, NEW j \in 1 .. Len(s) - 1,
                      Tail(s)[i] = Tail(s)[j]
               PROVE  i = j
    BY <1>3 DEF NoDuplicates
  <2>1. s[i + 1] = s[j + 1]
    BY <1>4
  <2>2. i + 1 = j + 1
    BY <1>1, <1>3, <1>4, <2>1 DEF NoDuplicates
  <2> QED
    BY <1>3, <2>2
<1>6. Tail(s) \in Pool
  BY <1>1, <1>2, <1>3, <1>5 DEF Pool
<1>7. Elems(Tail(s)) \subseteq Elems(s)
  BY <1>3, <1>4 DEF Elems
<1>8. Head(s) \in Elems(s)
  BY <1>3 DEF Elems
<1>9. Head(s) \notin Elems(Tail(s))
  <2> SUFFICES ASSUME NEW i \in 1 .. Len(s) - 1, Tail(s)[i] = s[1]
               PROVE  FALSE
    BY <1>3 DEF Elems
  <2>1. s[i + 1] = s[1] /\ 1 \in 1 .. Len(s) /\ i + 1 \in 1 .. Len(s)
    BY <1>3, <1>4
  <2>2. i + 1 = 1
    BY <1>1, <1>3, <2>1 DEF NoDuplicates
  <2> QED
    BY <1>3, <2>2
<1> QED
  BY <1>2, <1>6, <1>7, <1>8, <1>9

(* The same for the bundle that holds the pool. *)
LEMMA PopStored ==
  ASSUME NEW b \in Stored, b.otpks # << >>,
         NEW c, c = [b EXCEPT !.otpks = Tail(@)]
  PROVE  /\ Head(b.otpks) \in Otpks
         /\ c \in Stored
         /\ c # None
         /\ c.ik = b.ik
         /\ Left(c, Head(b.otpks)) + 1 <= Left(b, Head(b.otpks))
         /\ \A k \in Otpks : Left(c, k) <= Left(b, k)
<1> DEFINE s == b.otpks
<1>1. s \in Pool /\ s # << >>
  BY DEF Stored
<1>2. /\ Head(s) \in Otpks
      /\ Tail(s) \in Pool
      /\ Head(s) \in Elems(s)
      /\ Head(s) \notin Elems(Tail(s))
      /\ Elems(Tail(s)) \subseteq Elems(s)
  BY <1>1, PopPool
<1>3. c \in Stored /\ c.ik = b.ik /\ c.otpks = Tail(s)
  BY <1>2, Zenon DEF Stored
<1>4. b # None /\ c # None
  BY <1>3, StoredNotNone, Zenon
<1>5. Left(c, Head(s)) = 0 /\ Left(b, Head(s)) = 1
  BY <1>2, <1>3, <1>4 DEF Left
<1>6. ASSUME NEW k \in Otpks
      PROVE  Left(c, k) <= Left(b, k)
  <2>1. k \in Elems(c.otpks) => k \in Elems(b.otpks)
    BY <1>2, <1>3, Zenon
  <2>2. /\ Left(c, k) = IF k \in Elems(c.otpks) THEN 1 ELSE 0
        /\ Left(b, k) = IF k \in Elems(b.otpks) THEN 1 ELSE 0
    BY <1>4 DEF Left
  <2> QED
    BY <2>1, <2>2
<1>7. Left(c, Head(s)) + 1 <= Left(b, Head(s))
  BY <1>5
<1> QED
  BY <1>2, <1>3, <1>4, <1>6, <1>7, Zenon

(* What registerBundle stores of a valid bundle. *)
LEMMA ValidStored ==
  ASSUME NEW b \in Candidates, Valid(b), NEW c, c = [ik |-> b.ik, otpks |-> b.otpks]
  PROVE  /\ c \in Stored
         /\ c # None
         /\ c.ik = b.ik /\ b.ik \in IdKeys
         /\ \A k \in Otpks : Left(c, k) = Left(b, k)
<1>1. c \in Stored /\ b.ik \in IdKeys /\ c.ik = b.ik /\ c.otpks = b.otpks
  BY DEF Valid, Pool, Stored
<1>2. c # None
  BY <1>1, StoredNotNone
<1>3. b # None
  OBVIOUS
<1> QED
  BY <1>1, <1>2, <1>3 DEF Left

(* A pool holds a prekey once or not at all. *)
LEMMA LeftRange ==
  ASSUME NEW s, NEW k
  PROVE  Left(s, k) \in {0, 1}
BY DEF Left

(* Whether persistLocked succeeds or not, map and file differ only for      *)
(* dirty users.                                                             *)
LEMMA PersistKeeps ==
  ASSUME NEW B \in [Users -> Bundle], disk \in [Users -> Bundle], Persist(B)
  PROVE  /\ disk' \in [Users -> Bundle]
         /\ dirty' \subseteq Users
         /\ disk' \in {disk, B}
         /\ \A u \in Users \ dirty' : B[u] = disk'[u]
BY DEF Persist

-----------------------------------------------------------------------------
(* The empty map satisfies the invariant. *)
LEMMA InitPrekeyInv == Init => PrekeyInv
<1> SUFFICES ASSUME Init PROVE PrekeyInv
  OBVIOUS
<1>1. PrekeyTypeOK
  BY DEF Init, PrekeyTypeOK, Bundle, Certificate, Issuing, Idle, NoCert, CertReq
<1>2. SingleUse
  BY DEF Init, SingleUse, Current, Left
<1>3. FileUpToDate /\ NoGhostRequest /\ KnownKept /\ KeysPublished /\ CertKeys
  BY DEF Init, FileUpToDate, NoGhostRequest, KnownKept, known, KeysPublished, Current,
         CertKeys, Issuing, Idle, NoCert, CertReq
<1> QED
  BY <1>1, <1>2, <1>3 DEF PrekeyInv

(* A new bundle adds one upload for each prekey it brings, and what was     *)
(* left of the old bundle no longer counts.                                 *)
LEMMA RegisterInv ==
  ASSUME PrekeyInv, NEW u \in Users, NEW b \in Candidates, RegisterBundle(u, b)
  PROVE  PrekeyInv'
<1> DEFINE c == [ik |-> b.ik, otpks |-> b.otpks]
<1> USE DEF PrekeyInv
<1>1. /\ c \in Stored
      /\ c # None
      /\ c.ik = b.ik /\ b.ik \in IdKeys
      /\ \A k \in Otpks : Left(c, k) = Left(b, k)
  BY ValidStored DEF RegisterBundle
<1>2. /\ bundles' \in [Users -> Bundle]
      /\ \A v \in Users : bundles'[v] = IF v = u THEN c ELSE bundles[v]
  BY <1>1 DEF RegisterBundle, PrekeyTypeOK, Bundle
<1>3. /\ disk' \in [Users -> Bundle]
      /\ dirty' \subseteq Users
      /\ disk' \in {disk, bundles'}
      /\ \A v \in Users \ dirty' : bundles'[v] = disk'[v]
  BY <1>2, PersistKeeps, Zenon DEF RegisterBundle, PrekeyTypeOK
<1>4. \A v \in Users, k \in Otpks :
        uploads'[v][k] = IF v = u THEN uploads[v][k] + Left(c, k) ELSE uploads[v][k]
  BY <1>1 DEF RegisterBundle, PrekeyTypeOK
<1>5. uploads' \in [Users -> [Otpks -> Nat]]
  <2>1. \A k \in Otpks : Left(b, k) \in Nat
    BY LeftRange
  <2>2. [k \in Otpks |-> uploads[u][k] + Left(b, k)] \in [Otpks -> Nat]
    BY <2>1 DEF PrekeyTypeOK
  <2> QED
    BY <2>2 DEF RegisterBundle, PrekeyTypeOK
<1>6. up /\ up' /\ UNCHANGED <<fetch, served, stale>>
  BY DEF RegisterBundle
<1>12. /\ published' \in [Users -> SUBSET IdKeys]
      /\ latest' \in [Users -> IdKeys \cup {None}]
      /\ \A v \in Users :
           /\ published[v] \subseteq published'[v]
           /\ IF v = u THEN latest'[v] = c.ik /\ c.ik \in published'[v]
                       ELSE latest'[v] = latest[v]
  BY <1>1 DEF RegisterBundle, PrekeyTypeOK
<1>13. /\ cert' \in [CertReqs -> Certificate]
       /\ \A r \in CertReqs :
            /\ cert'[r].state = cert[r].state
            /\ cert'[r].user = cert[r].user
            /\ cert'[r].ik = cert[r].ik
            /\ cert[r].current \subseteq cert'[r].current
            /\ cert[r].state \in Issuing /\ cert[r].user = u => c.ik \in cert'[r].current
  <2>1. cert \in [CertReqs -> Certificate]
    BY DEF PrekeyTypeOK
  <2>2. ASSUME NEW d \in Certificate, NEW e, e = [d EXCEPT !.current = @ \cup {b.ik}]
        PROVE  /\ e \in Certificate /\ e.state = d.state /\ e.user = d.user /\ e.ik = d.ik
               /\ e.current = d.current \cup {b.ik}
    BY <1>1, <2>2, Zenon DEF Certificate
  <2>3. cert' = [r \in CertReqs |-> IF cert[r].state \in Issuing /\ cert[r].user = u
                                    THEN [cert[r] EXCEPT !.current = @ \cup {b.ik}]
                                    ELSE cert[r]]
    BY DEF RegisterBundle
  <2>4. \A r \in CertReqs :
          /\ cert'[r] \in Certificate
          /\ cert'[r].state = cert[r].state
          /\ cert'[r].user = cert[r].user
          /\ cert'[r].ik = cert[r].ik
          /\ cert[r].current \subseteq cert'[r].current
          /\ cert[r].state \in Issuing /\ cert[r].user = u => b.ik \in cert'[r].current
    BY <2>1, <2>2, <2>3
  <2> QED
    BY <1>1, <2>3, <2>4, Zenon
<1>14. CertKeys'
  <2> SUFFICES ASSUME NEW r \in CertReqs
               PROVE  /\ cert'[r].state = "read" /\ latest'[cert'[r].user] # None =>
                           latest'[cert'[r].user] \in cert'[r].current
                      /\ cert'[r].state = "sign" =>
                           /\ cert'[r].ik \in published'[cert'[r].user]
                           /\ cert'[r].user \notin stale => cert'[r].ik \in cert'[r].current
    BY <1>6 DEF CertKeys
  <2>1. cert[r].state \in Issuing => cert[r].user \in Users
    BY DEF PrekeyTypeOK
  <2> QED
    BY <1>12, <1>13, <2>1 DEF CertKeys, Issuing
<1>15. accepted' \in Nat /\ served' = served /\ up' \in BOOLEAN
  BY DEF RegisterBundle, PrekeyTypeOK
<1>7. PrekeyTypeOK'
  <2>1. \A r \in CertReqs : cert'[r].state \in Issuing => cert'[r].user \in Users
    BY <1>13, Zenon DEF PrekeyTypeOK
  <2>2. /\ fetch' \in [Fetches -> [state : {"idle", "get", "found", "notFound"},
                                   user : Ids \cup {None}, consume : BOOLEAN]]
        /\ \A f \in Fetches : fetch'[f].state = "get" => fetch'[f].user \in Ids
    BY <1>6, Zenon DEF PrekeyTypeOK
  <2>3. served' \in [Users -> [Otpks -> Nat]] /\ stale' \subseteq Users
    BY <1>6, Zenon DEF PrekeyTypeOK
  <2> QED
    BY <1>2, <1>3, <1>5, <1>12, <1>13, <1>15, <2>1, <2>2, <2>3, Zenon DEF PrekeyTypeOK
<1>8. SingleUse'
  <2> SUFFICES ASSUME NEW v \in Users \ stale, NEW k \in Otpks
               PROVE  served[v][k] + Left(bundles'[v], k) <= uploads'[v][k]
    BY <1>6 DEF SingleUse, Current
  <2>1. served[v][k] + Left(bundles[v], k) <= uploads[v][k]
    BY <1>6 DEF SingleUse, Current
  <2>2. /\ served[v][k] \in Nat /\ uploads[v][k] \in Nat
        /\ Left(bundles[v], k) \in {0, 1} /\ Left(c, k) \in {0, 1}
    BY LeftRange DEF PrekeyTypeOK
  <2>3. CASE v = u
    <3>1. bundles'[v] = c /\ uploads'[v][k] = uploads[v][k] + Left(c, k)
      BY <1>2, <1>4, <2>3
    <3> QED
      BY <2>1, <2>2, <3>1
  <2>4. CASE v # u
    <3>1. bundles'[v] = bundles[v] /\ uploads'[v][k] = uploads[v][k]
      BY <1>2, <1>4, <2>4
    <3> QED
      BY <2>1, <3>1
  <2> QED
    BY <2>3, <2>4
<1>9. FileUpToDate' /\ NoGhostRequest'
  BY <1>3, <1>6, <1>13 DEF FileUpToDate, NoGhostRequest
<1>10. KnownKept'
  BY <1>1, <1>2, <1>6, <1>12 DEF KnownKept, known, Current
<1>11. KeysPublished'
  <2>1. \A v \in Users : bundles'[v] # None => bundles'[v].ik \in published'[v]
    BY <1>2, <1>12 DEF KeysPublished
  <2>2. \A v \in Users : disk'[v] # None => disk'[v].ik \in published'[v]
    BY <1>3, <1>12, <2>1 DEF KeysPublished
  <2>3. \A v \in Users \ stale : bundles'[v] # None => bundles'[v].ik = latest'[v]
    BY <1>2, <1>6, <1>12 DEF KeysPublished, Current
  <2> QED
    BY <1>6, <2>1, <2>2, <2>3 DEF KeysPublished, Current
<1> QED
  BY <1>7, <1>8, <1>9, <1>10, <1>11, <1>14

(* What the locked pop does to the pools and to the history of responses. *)
LEMMA PopKeeps ==
  ASSUME PrekeyTypeOK, SingleUse, up, NEW u \in Users, HasOtpk(u), Pop(u)
  PROVE  /\ bundles' \in [Users -> Bundle]
         /\ served' \in [Users -> [Otpks -> Nat]]
         /\ disk' \in [Users -> Bundle]
         /\ dirty' \subseteq Users
         /\ disk' \in {disk, bundles'}
         /\ \A v \in Users \ dirty' : bundles'[v] = disk'[v]
         /\ \A v \in Users : bundles[v] # None => bundles'[v] # None
         /\ \A v \in Users : bundles'[v] # None =>
              bundles[v] # None /\ bundles'[v].ik = bundles[v].ik
         /\ \A v \in Users \ stale, k \in Otpks :
              served'[v][k] + Left(bundles'[v], k) <= uploads[v][k]
<1> DEFINE b == bundles[u]
           h == Head(b.otpks)
           c == [b EXCEPT !.otpks = Tail(@)]
<1>1. b \in Stored /\ b.otpks # << >> /\ b # None
  BY DEF HasOtpk, Exists, PrekeyTypeOK, Bundle
<1>2. /\ h \in Otpks
      /\ c \in Stored
      /\ c # None
      /\ c.ik = b.ik
      /\ Left(c, h) + 1 <= Left(b, h)
      /\ \A k \in Otpks : Left(c, k) <= Left(b, k)
  BY <1>1, PopStored
<1>4. /\ bundles' \in [Users -> Bundle]
      /\ \A v \in Users : bundles'[v] = IF v = u THEN c ELSE bundles[v]
  BY <1>2 DEF Pop, Rest, PrekeyTypeOK, Bundle
<1>5. /\ disk' \in [Users -> Bundle]
      /\ dirty' \subseteq Users
      /\ disk' \in {disk, bundles'}
      /\ \A v \in Users \ dirty' : bundles'[v] = disk'[v]
  BY <1>4, PersistKeeps, Zenon DEF Pop, PrekeyTypeOK
<1>6. /\ served' \in [Users -> [Otpks -> Nat]]
      /\ \A v \in Users, k \in Otpks :
           served'[v][k] = IF v = u /\ k = h THEN served[v][k] + 1 ELSE served[v][k]
  BY <1>2 DEF Pop, PrekeyTypeOK
<1>7. ASSUME NEW v \in Users \ stale, NEW k \in Otpks
      PROVE  served'[v][k] + Left(bundles'[v], k) <= uploads[v][k]
  <2>1. served[v][k] + Left(bundles[v], k) <= uploads[v][k]
    BY DEF SingleUse, Current
  <2>2. /\ served[v][k] \in Nat /\ uploads[v][k] \in Nat
        /\ Left(bundles[v], k) \in {0, 1} /\ Left(c, k) \in {0, 1}
    BY LeftRange DEF PrekeyTypeOK
  <2>3. CASE v = u /\ k = h
    <3>1. served'[v][k] = served[v][k] + 1 /\ bundles'[v] = c
      BY <1>4, <1>6, <2>3
    <3>2. Left(c, k) + 1 <= Left(bundles[v], k)
      BY <1>2, <2>3
    <3> QED
      BY <2>1, <2>2, <3>1, <3>2
  <2>4. CASE v = u /\ k # h
    <3>1. served'[v][k] = served[v][k] /\ bundles'[v] = c
      BY <1>4, <1>6, <2>4
    <3>2. Left(c, k) <= Left(bundles[v], k)
      BY <1>2, <2>4, Zenon
    <3> QED
      BY <2>1, <2>2, <3>1, <3>2
  <2>5. CASE v # u
    <3>1. served'[v][k] = served[v][k] /\ bundles'[v] = bundles[v]
      BY <1>4, <1>6, <2>5
    <3> QED
      BY <2>1, <3>1
  <2> QED
    BY <2>3, <2>4, <2>5
<1>8. \A v \in Users :
        /\ bundles[v] # None => bundles'[v] # None
        /\ bundles'[v] # None => bundles[v] # None /\ bundles'[v].ik = bundles[v].ik
  BY <1>1, <1>2, <1>4, Zenon
<1> QED
  BY <1>4, <1>5, <1>6, <1>7, <1>8

(* A request pops under the lock, or reads only. *)
LEMMA GetBundleInv ==
  ASSUME PrekeyInv, NEW f \in Fetches, GetBundle(f)
  PROVE  PrekeyInv'
<1> DEFINE u == fetch[f].user
<1> USE DEF PrekeyInv
<1>1. /\ up /\ up' /\ u \in Ids
      /\ UNCHANGED <<cert, uploads, published, latest, accepted, stale>>
  BY DEF GetBundle, NoGhostRequest, PrekeyTypeOK
<1>2. /\ fetch' \in [Fetches -> [state : {"idle", "get", "found", "notFound"},
                                 user : Ids \cup {None}, consume : BOOLEAN]]
      /\ \A g \in Fetches : fetch'[g].state = "get" => fetch'[g].user \in Ids
  BY <1>1 DEF GetBundle, Respond, PrekeyTypeOK
<1>3. NoGhostRequest' /\ CertKeys'
  BY <1>1 DEF NoGhostRequest, CertKeys
<1>4. CASE fetch[f].consume /\ HasOtpk(u)
  <2>1. Pop(u) /\ u \in Users
    BY <1>4 DEF GetBundle, HasOtpk, Exists
  <2>2. /\ bundles' \in [Users -> Bundle]
        /\ served' \in [Users -> [Otpks -> Nat]]
        /\ disk' \in [Users -> Bundle]
        /\ dirty' \subseteq Users
        /\ disk' \in {disk, bundles'}
        /\ \A v \in Users \ dirty' : bundles'[v] = disk'[v]
        /\ \A v \in Users : bundles[v] # None => bundles'[v] # None
        /\ \A v \in Users : bundles'[v] # None =>
             bundles[v] # None /\ bundles'[v].ik = bundles[v].ik
        /\ \A v \in Users \ stale, k \in Otpks :
             served'[v][k] + Left(bundles'[v], k) <= uploads[v][k]
    BY <1>1, <1>4, <2>1, PopKeeps
  <2>3. PrekeyTypeOK'
    BY <1>1, <1>2, <2>2 DEF PrekeyTypeOK
  <2>4. SingleUse' /\ FileUpToDate'
    BY <1>1, <2>2 DEF SingleUse, FileUpToDate, Current
  <2>5. KnownKept'
    BY <1>1, <2>2 DEF KnownKept, known, Current
  <2>6. KeysPublished'
    <3>1. \A v \in Users : bundles'[v] # None => bundles'[v].ik \in published[v]
      BY <2>2 DEF KeysPublished
    <3>2. \A v \in Users : disk'[v] # None => disk'[v].ik \in published[v]
      BY <2>2, <3>1 DEF KeysPublished
    <3>3. \A v \in Users \ stale : bundles'[v] # None => bundles'[v].ik = latest[v]
      BY <1>1, <2>2 DEF KeysPublished, Current
    <3> QED
      BY <1>1, <3>1, <3>2, <3>3 DEF KeysPublished, Current
  <2> QED
    BY <1>3, <2>3, <2>4, <2>5, <2>6
<1>5. CASE ~(fetch[f].consume /\ HasOtpk(u))
  <2>1. UNCHANGED <<bundles, disk, served, dirty>>
    BY <1>5 DEF GetBundle
  <2>2. PrekeyTypeOK'
    BY <1>1, <1>2, <2>1 DEF PrekeyTypeOK
  <2>3. SingleUse' /\ FileUpToDate' /\ KnownKept' /\ KeysPublished'
    BY <1>1, <2>1 DEF SingleUse, FileUpToDate, KnownKept, known, KeysPublished, Current
  <2> QED
    BY <1>3, <2>2, <2>3
<1> QED
  BY <1>4, <1>5

(* A GET request arrives. *)
LEMMA FetchBeginInv ==
  ASSUME PrekeyInv, NEW f \in Fetches, NEW id \in Ids, FetchBegin(f, id)
  PROVE  PrekeyInv'
<1> USE DEF PrekeyInv
<1>1. PrekeyTypeOK'
  <2>1. /\ fetch' \in [Fetches -> [state : {"idle", "get", "found", "notFound"},
                                   user : Ids \cup {None}, consume : BOOLEAN]]
        /\ \A g \in Fetches : fetch'[g].state = "get" => fetch'[g].user \in Ids
    <3>1. PICK e : /\ e \in [state : {"get", "notFound"}, user : {id}, consume : BOOLEAN]
                   /\ fetch' = [fetch EXCEPT ![f] = e]
      BY Zenon DEF FetchBegin, Respond
    <3> QED
      BY <3>1 DEF PrekeyTypeOK
  <2> QED
    BY <2>1, Zenon DEF FetchBegin, pastVars, PrekeyTypeOK
<1>2. SingleUse' /\ FileUpToDate' /\ KnownKept' /\ KeysPublished' /\ CertKeys'
  BY DEF FetchBegin, pastVars, SingleUse, FileUpToDate, KnownKept, known,
         KeysPublished, CertKeys, Current
<1>3. NoGhostRequest'
  BY DEF FetchBegin, NoGhostRequest
<1> QED
  BY <1>1, <1>2, <1>3

(* After the crash the file is what counts; it agrees with the map that     *)
(* went away for every user who does not become stale.                      *)
LEMMA CrashInv ==
  ASSUME PrekeyInv, Crash
  PROVE  PrekeyInv'
<1> USE DEF PrekeyInv
<1>0. NoCert("dropped") \in Certificate /\ NoCert("dropped").state \notin Issuing
  BY DEF NoCert, CertReq, Certificate, Issuing
<1>1. PrekeyTypeOK'
  <2>1. /\ cert' \in [CertReqs -> Certificate]
        /\ \A r \in CertReqs : cert'[r].state \notin Issuing
    BY <1>0 DEF Crash, PrekeyTypeOK
  <2> QED
    BY <2>1, Zenon DEF Crash, pastVars, PrekeyTypeOK, Bundle, Idle
<1>2. /\ up /\ ~up' /\ UNCHANGED <<disk, uploads, served, published, latest>>
      /\ \A u \in Users : bundles'[u] = None
  BY DEF Crash, pastVars
<1>3. stale \subseteq stale' /\ \A u \in Users \ stale' : bundles[u] = disk[u]
  BY <1>2 DEF Crash, FileUpToDate
<1>4. SingleUse'
  BY <1>2, <1>3 DEF SingleUse, Current
<1>5. KnownKept' /\ KeysPublished'
  BY <1>2, <1>3 DEF KnownKept, known, KeysPublished, Current
<1>6. FileUpToDate' /\ NoGhostRequest' /\ CertKeys'
  BY <1>0, <1>2 DEF Crash, FileUpToDate, NoGhostRequest, CertKeys, Idle, Issuing,
                    PrekeyTypeOK
<1> QED
  BY <1>1, <1>4, <1>5, <1>6

(* The map is read back from the file. *)
LEMMA RestartInv ==
  ASSUME PrekeyInv, Restart
  PROVE  PrekeyInv'
<1> USE DEF PrekeyInv
<1>1. PrekeyTypeOK'
  BY DEF Restart, pastVars, PrekeyTypeOK
<1>2. SingleUse' /\ FileUpToDate' /\ KnownKept' /\ NoGhostRequest'
  BY DEF Restart, pastVars, SingleUse, FileUpToDate, KnownKept, known, NoGhostRequest,
         Current
<1>3. KeysPublished' /\ CertKeys'
  BY DEF Restart, pastVars, KeysPublished, CertKeys, Current
<1> QED
  BY <1>1, <1>2, <1>3

(* A certificate request reads the map only; the key it reads is the        *)
(* latest, which is among those of the request's time.                      *)
LEMMA CertInv ==
  ASSUME PrekeyInv, NEW r \in CertReqs,
         \/ IdentityKeyOf(r) \/ IssueCert(r)
         \/ \E u \in Users : CertBegin(r, u)
  PROVE  PrekeyInv'
<1> USE DEF PrekeyInv
<1> DEFINE Fits(c) ==
      /\ c \in Certificate
      /\ c.state \in Issuing => c.user \in Users
      /\ c.state = "read" /\ latest[c.user] # None => latest[c.user] \in c.current
      /\ c.state = "sign" => /\ c.ik \in published[c.user]
                             /\ c.user \notin stale => c.ik \in c.current
<1>1. UNCHANGED <<bundles, disk, up, fetch, uploads, served, published, latest, accepted,
                  dirty, stale>>
  BY Zenon DEF IdentityKeyOf, IssueCert, CertBegin, pastVars
<1>2. up
  BY Zenon DEF IdentityKeyOf, IssueCert, CertBegin, NoGhostRequest, Issuing
<1>3. Fits(NoCert("dropped"))
  BY DEF NoCert, CertReq, Certificate, Issuing
<1>4. cert[r] \in Certificate /\ (cert[r].state \in Issuing => cert[r].user \in Users)
  BY DEF PrekeyTypeOK
<1>5. \E c : Fits(c) /\ cert' = [cert EXCEPT ![r] = c]
  <2>1. CASE \E u \in Users : CertBegin(r, u)
    <3>1. PICK u \in Users : CertBegin(r, u)
      BY <2>1
    <3>2. Fits(CertReq("read", u, None, {latest[u]} \ {None}))
      BY DEF CertReq, Certificate, Issuing, PrekeyTypeOK
    <3> QED
      BY <1>3, <3>1, <3>2, Zenon DEF CertBegin
  <2>2. CASE IdentityKeyOf(r)
    <3> DEFINE u == cert[r].user
               c == CertReq("sign", u, bundles[u].ik, cert[r].current)
    <3>1. cert[r].state = "read" /\ u \in Users
      BY <1>4, <2>2 DEF IdentityKeyOf, Issuing
    <3>2. ASSUME Exists(u)
          PROVE  Fits(c)
      <4>1. bundles[u] # None /\ bundles[u] \in Stored
        BY <3>1, <3>2 DEF Exists, PrekeyTypeOK, Bundle
      <4>2. bundles[u].ik \in IdKeys /\ bundles[u].ik # None
        BY <4>1 DEF Stored
      <4>3. bundles[u].ik \in published[u]
        BY <3>1, <4>1 DEF KeysPublished
      <4>4. u \notin stale => bundles[u].ik = latest[u]
        BY <1>2, <3>1, <4>1 DEF KeysPublished, Current
      <4>5. u \notin stale => bundles[u].ik \in cert[r].current
        BY <3>1, <4>2, <4>4 DEF CertKeys
      <4> QED
        BY <1>4, <3>1, <4>2, <4>3, <4>5 DEF CertReq, Certificate, Issuing
    <3> QED
      BY <1>3, <2>2, <3>2, Zenon DEF IdentityKeyOf
  <2>3. CASE IssueCert(r)
    <3>1. Fits(CertReq("issued", cert[r].user, cert[r].ik, {}))
      BY <1>4 DEF CertReq, Certificate, Issuing
    <3> QED
      BY <1>3, <2>3, <3>1, Zenon DEF IssueCert
  <2> QED
    BY <2>1, <2>2, <2>3
<1>6. PrekeyTypeOK'
  BY <1>1, <1>5 DEF PrekeyTypeOK
<1>7. CertKeys'
  BY <1>1, <1>5 DEF CertKeys, PrekeyTypeOK
<1>8. SingleUse' /\ FileUpToDate' /\ KnownKept' /\ KeysPublished' /\ NoGhostRequest'
  BY <1>1, <1>2 DEF SingleUse, FileUpToDate, KnownKept, known, KeysPublished,
                    NoGhostRequest, Current
<1> QED
  BY <1>6, <1>7, <1>8

(* The invariant is inductive. *)
LEMMA NextPrekeyInv == PrekeyInv /\ [Next]_vars => PrekeyInv'
<1> SUFFICES ASSUME PrekeyInv, [Next]_vars PROVE PrekeyInv'
  OBVIOUS
<1>0. \A id \in Ids : SessionId[id] \in Users
  OBVIOUS
<1>1. CASE \E id \in Ids, b \in Candidates : RegisterBundle(SessionId[id], b)
  BY <1>0, <1>1, RegisterInv
<1>2. CASE \E id \in Ids, f \in Fetches : FetchBegin(f, id)
  BY <1>2, FetchBeginInv
<1>3. CASE \E f \in Fetches : GetBundle(f)
  BY <1>3, GetBundleInv
<1>4. CASE Crash
  BY <1>4, CrashInv
<1>5. CASE Restart
  BY <1>5, RestartInv
<1>6. CASE UNCHANGED vars
  BY <1>6 DEF vars, pastVars, PrekeyInv, PrekeyTypeOK, SingleUse, FileUpToDate,
              NoGhostRequest, KnownKept, known, KeysPublished, CertKeys, Current
<1>7. CASE \E r \in CertReqs : \/ IdentityKeyOf(r) \/ IssueCert(r)
                               \/ \E id \in Ids : CertBegin(r, SessionId[id])
  BY <1>0, <1>7, CertInv
<1> QED
  BY <1>1, <1>2, <1>3, <1>4, <1>5, <1>6, <1>7 DEF Next

-----------------------------------------------------------------------------
(* The inductive invariant holds throughout. *)
THEOREM PrekeyInvariant == Spec => []PrekeyInv
BY InitPrekeyInv, NextPrekeyInv, PTL DEF Spec

(* The directory's state keeps its type: stored pools are within the cap    *)
(* and free of duplicates, restarts included (validatePrekeyBundle).        *)
THEOREM PrekeyTypeCorrect == Spec => []PrekeyTypeOK
<1>1. PrekeyInv => PrekeyTypeOK
  BY DEF PrekeyInv
<1> QED
  BY <1>1, PrekeyInvariant, PTL

(* getBundleWithOTPK hands a prekey out at most once per upload, for any    *)
(* number of concurrent requests, re-registrations and restarts, unless a   *)
(* crash followed a failed persist.                                         *)
THEOREM PrekeysSingleUse == Spec => []SingleUse
<1>1. PrekeyInv => SingleUse
  BY DEF PrekeyInv
<1> QED
  BY <1>1, PrekeyInvariant, PTL

(* handlePrekeysGet answers 404 for a user who registered only after a      *)
(* failed persist and a crash, or for an id it never finds.                 *)
THEOREM NotFoundOnlyIfUnknown == Spec => NotFoundMeansUnknown
<1> DEFINE Good(f) == LET id == fetch'[f].user IN
                      \/ SessionId[id] \notin known \/ SessionId[id] \in stale
                      \/ id \in Unservable
                      \/ id # SessionId[id]
<1>1. ASSUME PrekeyInv, [Next]_vars, NEW f \in Fetches,
             fetch[f].state # "notFound", fetch'[f].state = "notFound"
      PROVE  Good(f)
  <2>1. CASE GetBundle(f)
    <3> DEFINE id == fetch[f].user
    <3>1. up /\ id \in Ids
      BY <1>1, <2>1 DEF GetBundle, PrekeyInv, NoGhostRequest, PrekeyTypeOK
    <3>2. fetch'[f].user = id /\ ~Exists(id)
      BY <1>1, <2>1 DEF GetBundle, Respond, PrekeyInv, PrekeyTypeOK
    <3>3. CASE id \in Users
      <4>1. SessionId[id] = id /\ bundles[id] = None
        BY <3>2, <3>3 DEF Exists
      <4>2. id \notin known \/ id \in stale
        BY <1>1, <3>1, <4>1 DEF PrekeyInv, KnownKept, known, Current
      <4> QED
        BY <3>2, <4>1, <4>2
    <3>4. CASE id \notin Users
      BY <3>1, <3>2, <3>4
    <3> QED
      BY <3>3, <3>4
  <2>2. ASSUME NEW g \in Fetches, g # f, GetBundle(g)
        PROVE  FALSE
    BY <1>1, <2>2 DEF GetBundle, Respond, PrekeyInv, PrekeyTypeOK
  <2>3. ASSUME NEW g \in Fetches, NEW id \in Ids, FetchBegin(g, id)
        PROVE  Good(f)
    <3>1. g = f /\ id \in Unservable /\ fetch'[f].user = id
      BY <1>1, <2>3 DEF FetchBegin, Respond, PrekeyInv, PrekeyTypeOK
    <3> QED
      BY <3>1
  <2>4. CASE Crash
    BY <1>1, <2>4 DEF Crash, Idle
  <2>5. CASE UNCHANGED fetch
    BY <1>1, <2>5
  <2>6. ASSUME NEW u, NEW b, RegisterBundle(u, b)
        PROVE  UNCHANGED fetch
    BY <2>6 DEF RegisterBundle
  <2>7. Restart \/ UNCHANGED vars => UNCHANGED fetch
    BY DEF Restart, vars
  <2>8. ASSUME NEW r, IdentityKeyOf(r) \/ IssueCert(r) \/ \E u : CertBegin(r, u)
        PROVE  UNCHANGED fetch
    BY <2>8, Zenon DEF IdentityKeyOf, IssueCert, CertBegin
  <2> QED
    BY <1>1, <2>1, <2>2, <2>3, <2>4, <2>5, <2>6, <2>7, <2>8, Zenon DEF Next
<1>2. PrekeyInv /\ [Next]_vars =>
        [\A f \in Fetches :
           fetch[f].state # "notFound" /\ fetch'[f].state = "notFound" => Good(f)]_vars
  BY <1>1
<1> QED
  BY <1>2, PrekeyInvariant, PTL DEF Spec, NotFoundMeansUnknown

(* buildSenderCert binds a user to an identity key the user published, one  *)
(* that was the latest while the request was served unless a crash followed *)
(* a failed persist.                                                        *)
THEOREM CertsBindPublishedKeys == Spec => CertBindsPublishedKey
<1> DEFINE Good(r) == /\ cert'[r].ik \in published[cert[r].user]
                      /\ cert[r].user \notin stale => cert'[r].ik \in cert[r].current
<1>1. ASSUME PrekeyInv, [Next]_vars, NEW r \in CertReqs,
             cert[r].state # "issued", cert'[r].state = "issued"
      PROVE  Good(r)
  <2>0. cert \in [CertReqs -> Certificate]
    BY <1>1 DEF PrekeyInv, PrekeyTypeOK
  <2>1. CASE IssueCert(r)
    <3>1. cert[r].state = "sign" /\ cert'[r].ik = cert[r].ik
      BY <1>1, <2>0, <2>1 DEF IssueCert, CertReq, NoCert
    <3> QED
      BY <1>1, <3>1 DEF PrekeyInv, CertKeys
  <2>2. ASSUME NEW q \in CertReqs, q # r, IssueCert(q)
        PROVE  FALSE
    BY <1>1, <2>0, <2>2 DEF IssueCert
  <2>3. ASSUME NEW q \in CertReqs, NEW u, CertBegin(q, u)
        PROVE  FALSE
    BY <1>1, <2>0, <2>3 DEF CertBegin, CertReq, NoCert
  <2>9. ASSUME NEW q \in CertReqs, IdentityKeyOf(q)
        PROVE  FALSE
    BY <1>1, <2>0, <2>9 DEF IdentityKeyOf, CertReq, NoCert
  <2>4. CASE Crash
    BY <1>1, <2>0, <2>4 DEF Crash, CertReq, NoCert
  <2>5. CASE UNCHANGED cert
    BY <1>1, <2>5
  <2>6. ASSUME NEW u, NEW b, RegisterBundle(u, b)
        PROVE  FALSE
    BY <1>1, <2>0, <2>6 DEF RegisterBundle, Certificate
  <2>7. ASSUME NEW f, GetBundle(f) \/ \E id : FetchBegin(f, id)
        PROVE  UNCHANGED cert
    BY <2>7, Zenon DEF GetBundle, FetchBegin
  <2>8. Restart \/ UNCHANGED vars => UNCHANGED cert
    BY DEF Restart, vars
  <2> QED
    BY <1>1, <2>1, <2>2, <2>3, <2>4, <2>5, <2>6, <2>7, <2>8, <2>9, Zenon DEF Next
<1>2. PrekeyInv /\ [Next]_vars =>
        [\A r \in CertReqs :
           cert[r].state # "issued" /\ cert'[r].state = "issued" => Good(r)]_vars
  BY <1>1
<1> QED
  BY <1>2, PrekeyInvariant, PTL DEF Spec, CertBindsPublishedKey

=============================================================================
