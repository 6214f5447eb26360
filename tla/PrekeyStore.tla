----------------------------- MODULE PrekeyStore -----------------------------
(***************************************************************************)
(* The prekey directory of server/prekey_store.go and the request handlers *)
(* that use it: bundles are kept in a map under PrekeyStore.mu, and every  *)
(* change is followed by persistLocked, which replaces the file.           *)
(*                                                                         *)
(* A GET /prekeys/{id} takes two steps, the verdict of prekeyLimiter and   *)
(* the locked read-and-pop, so requests interleave between them.  A        *)
(* request_sender_cert takes three: the verdict of certLimiter, the locked *)
(* read of the identity key, and the signature without the lock.  A        *)
(* one-time prekey is a value of the sequence its owner uploaded; the key  *)
(* bytes, base64 and AES are left out.                                     *)
(*                                                                         *)
(* The map is keyed by the id under which a session is registered, which   *)
(* is the client's id without the relay's own domain (SessionId).  A GET   *)
(* looks up the id of its path as it stands.                               *)
(*                                                                         *)
(* `uploads', `served', `published', `latest', `dirty', `stale' and the    *)
(* field `current' of `cert' are history.                                  *)
(***************************************************************************)
EXTENDS Integers, Sequences

CONSTANTS
  Users,        \* ids of sessions: owners of bundles
  Ids,          \* ids a GET may ask for
  SessionId,    \* the id under which a client that logs in with an id is served
  Unservable,   \* ids that are empty or contain one of / ? #
  Otpks,        \* one-time prekeys
  IdKeys,       \* identity keys
  Candidates,   \* bundles a client may send in register_prekeys
  Fetches,      \* GET requests
  CertReqs,     \* request_sender_cert frames
  MaxOtpks,     \* maxOneTimePrekeys
  None,         \* absent from the map; no user; no key
  DiskFaults,   \* may persistLocked fail?
  MaxUploads    \* bound on the registrations of a behaviour

ASSUME PrekeyAssumption ==
  /\ MaxOtpks \in Nat
  /\ MaxUploads \in Nat
  /\ DiskFaults \in BOOLEAN
  /\ \A b \in Candidates :
       b \in [valid : BOOLEAN, ik : IdKeys, otpks : Seq(Otpks)]
  /\ None \notin Ids \cup IdKeys \cup Candidates
  /\ None \notin [ik : IdKeys, otpks : Seq(Otpks)]
  /\ Users \subseteq Ids
  /\ SessionId \in [Ids -> Users]
  /\ \A u \in Users : SessionId[u] = u
  /\ Unservable \subseteq Ids

VARIABLES
  bundles,    \* PrekeyStore.bundles: identity key and one-time prekeys left
  disk,       \* the same map in the file
  up,         \* is the process running?
  fetch,      \* GET requests: [state, user, consume]
  cert,       \* certificate requests: [state, user, ik, current], where the
              \* last are the keys that were the user's latest meanwhile
  uploads,    \* how many accepted bundles of the user held the prekey
  served,     \* how many responses carried it
  published,  \* the identity keys of the user's accepted registrations
  latest,     \* the identity key of the last of them
  accepted,   \* number of accepted registrations
  dirty,      \* users whose bundle in the file is out of date
  stale       \* users for whom a crash put an out-of-date bundle back

pastVars == <<uploads, served, published, latest, accepted>>
vars == <<bundles, disk, up, fetch, cert, pastVars, dirty, stale>>

Elems(s) == {s[i] : i \in DOMAIN s}

(* How often a stored bundle still holds a prekey. *)
Left(b, k) == IF b # None /\ k \in Elems(b.otpks) THEN 1 ELSE 0

NoDuplicates(s) == \A i, j \in DOMAIN s : s[i] = s[j] => i = j

(* The one-time prekeys of a stored bundle. *)
Pool == {s \in Seq(Otpks) : Len(s) <= MaxOtpks /\ NoDuplicates(s)}

Stored == [ik : IdKeys, otpks : Pool]
Bundle == Stored \cup {None}

(* handleAuthedFrame is in issueSenderCert, before or after identityKeyOf. *)
Issuing == {"read", "sign"}

Certificate == [state : {"idle", "issued", "dropped"} \cup Issuing,
                user : Users \cup {None}, ik : IdKeys \cup {None},
                current : SUBSET IdKeys]

(* Users with an accepted registration. *)
known == {u \in Users : latest[u] # None}

PrekeyTypeOK ==
  /\ bundles \in [Users -> Bundle]
  /\ disk \in [Users -> Bundle]
  /\ up \in BOOLEAN
  /\ fetch \in [Fetches -> [state : {"idle", "get", "found", "notFound"},
                            user : Ids \cup {None}, consume : BOOLEAN]]
  /\ \A f \in Fetches : fetch[f].state = "get" => fetch[f].user \in Ids
  /\ cert \in [CertReqs -> Certificate]
  /\ \A r \in CertReqs : cert[r].state \in Issuing => cert[r].user \in Users
  /\ uploads \in [Users -> [Otpks -> Nat]]
  /\ served \in [Users -> [Otpks -> Nat]]
  /\ published \in [Users -> SUBSET IdKeys]
  /\ latest \in [Users -> IdKeys \cup {None}]
  /\ accepted \in Nat
  /\ dirty \subseteq Users
  /\ stale \subseteq Users

CertReq(state, user, ik, current) ==
  [state |-> state, user |-> user, ik |-> ik, current |-> current]

NoCert(state) == CertReq(state, None, None, {})

-----------------------------------------------------------------------------
(* Wrong variants of definitions below. *)

(* Duplicate ids are not looked for. *)
Valid_bug(b) == b.valid /\ Len(b.otpks) <= MaxOtpks

(* The file is not rewritten. *)
Persist_bug(B) == UNCHANGED <<disk, dirty>>

(* The head is served but not removed. *)
Rest_bug(s) == s

(* A restart that starts from an empty map. *)
Restart_bug ==
  /\ ~up
  /\ up' = TRUE
  /\ bundles' = [u \in Users |-> None]
  /\ UNCHANGED <<disk, fetch, cert, pastVars, dirty, stale>>

(* The identity key is read from the file. *)
IdentityKeyOf_bug(r) ==
  LET c == cert[r] IN
  /\ c.state = "read"
  /\ cert' = [cert EXCEPT ![r] = IF disk[c.user] = None THEN NoCert("dropped")
                                 ELSE CertReq("sign", c.user, disk[c.user].ik, c.current)]
  /\ UNCHANGED <<bundles, disk, up, fetch, pastVars, dirty, stale>>

-----------------------------------------------------------------------------
(* validatePrekeyBundle; `valid' stands for the checks of lengths, base64   *)
(* and a non-zero signed prekey id.                                         *)
Valid(b) ==
  /\ b.valid
  /\ Len(b.otpks) <= MaxOtpks
  /\ NoDuplicates(b.otpks)

(* persistLocked: the whole map, or nothing. *)
Persist(B) ==
  \/ disk' = B /\ dirty' = {}
  \/ /\ DiskFaults
     /\ dirty' = {u \in Users : B[u] # disk[u]}
     /\ UNCHANGED disk

(* registerBundle: the map keeps the bundle even when the persist fails. *)
RegisterBundle(u, b) ==
  /\ up
  /\ accepted < MaxUploads
  /\ Valid(b)
  /\ bundles' = [bundles EXCEPT ![u] = [ik |-> b.ik, otpks |-> b.otpks]]
  /\ Persist(bundles')
  /\ uploads' = [uploads EXCEPT ![u] =
                   [k \in Otpks |-> @[k] + Left(b, k)]]
  /\ published' = [published EXCEPT ![u] = @ \cup {b.ik}]
  /\ latest' = [latest EXCEPT ![u] = b.ik]
  /\ accepted' = accepted + 1
  /\ cert' = [r \in CertReqs |-> IF cert[r].state \in Issuing /\ cert[r].user = u
                                 THEN [cert[r] EXCEPT !.current = @ \cup {b.ik}]
                                 ELSE cert[r]]
  /\ UNCHANGED <<up, fetch, served, stale>>

Idle == [state |-> "idle", user |-> None, consume |-> FALSE]

(* The response: 200 with the bundle, or 404. *)
Respond(f, id, ok) ==
  fetch' = [fetch EXCEPT ![f] = [state |-> IF ok THEN "found" ELSE "notFound",
                                 user |-> id, consume |-> FALSE]]

(* handlePrekeysGet up to the verdict of the limiter, which may be either.  *)
(* Some ids are not looked up at all.                                       *)
FetchBegin(f, id) ==
  /\ up
  /\ fetch[f].state = "idle"
  /\ \/ id \in Unservable /\ Respond(f, id, FALSE)
     \/ /\ id \notin Unservable
        /\ \E consume \in BOOLEAN :
             fetch' = [fetch EXCEPT ![f] = [state |-> "get", user |-> id, consume |-> consume]]
  /\ UNCHANGED <<bundles, disk, up, cert, pastVars, dirty, stale>>

Rest(s) == Tail(s)

(* Pop the head of u's prekeys, hand it out and persist. *)
Pop(u) ==
  /\ bundles' = [bundles EXCEPT ![u].otpks = Rest(@)]
  /\ served' = [served EXCEPT ![u][Head(bundles[u].otpks)] = @ + 1]
  /\ Persist(bundles')

(* b, ok := ps.bundles[userID] *)
Exists(id) == id \in Users /\ bundles[id] # None

HasOtpk(id) == Exists(id) /\ bundles[id].otpks # << >>

(* getBundleWithOTPK: without a verdict to consume, or without prekeys      *)
(* left, the static part of the bundle is served and nothing changes.       *)
GetBundle(f) ==
  LET u == fetch[f].user IN
  /\ fetch[f].state = "get"
  /\ Respond(f, u, Exists(u))
  /\ IF fetch[f].consume /\ HasOtpk(u)
     THEN Pop(u)
     ELSE UNCHANGED <<bundles, disk, served, dirty>>
  /\ UNCHANGED <<up, cert, uploads, published, latest, accepted, stale>>

(* handleAuthedFrame and issueSenderCert up to the verdict of certLimiter.  *)
(* The connection is u's; several connections of u may be served at once.   *)
CertBegin(r, u) ==
  /\ up
  /\ cert[r].state = "idle"
  /\ \E c \in {CertReq("read", u, None, {latest[u]} \ {None}), NoCert("dropped")} :
       cert' = [cert EXCEPT ![r] = c]
  /\ UNCHANGED <<bundles, disk, up, fetch, pastVars, dirty, stale>>

(* identityKeyOf, under the lock. *)
IdentityKeyOf(r) ==
  LET c == cert[r] IN
  /\ c.state = "read"
  /\ cert' = [cert EXCEPT ![r] = IF ~Exists(c.user) THEN NoCert("dropped")
                                 ELSE CertReq("sign", c.user, bundles[c.user].ik, c.current)]
  /\ UNCHANGED <<bundles, disk, up, fetch, pastVars, dirty, stale>>

(* SealedCA.IssueCert with the key that was read, and the write, whose      *)
(* result is ignored; the lock is not held.  Marshalling may fail.          *)
IssueCert(r) ==
  LET c == cert[r] IN
  /\ c.state = "sign"
  /\ \E d \in {CertReq("issued", c.user, c.ik, {}), NoCert("dropped")} :
       cert' = [cert EXCEPT ![r] = d]
  /\ UNCHANGED <<bundles, disk, up, fetch, pastVars, dirty, stale>>

(* The process ends at any moment; requests in progress vanish. *)
Crash ==
  /\ up
  /\ up' = FALSE
  /\ bundles' = [u \in Users |-> None]
  /\ stale' = stale \cup dirty
  /\ dirty' = {}
  /\ fetch' = [f \in Fetches |-> IF fetch[f].state = "get"
                                 THEN Idle ELSE fetch[f]]
  /\ cert' = [r \in CertReqs |-> IF cert[r].state \in Issuing
                                 THEN NoCert("dropped") ELSE cert[r]]
  /\ UNCHANGED <<disk, pastVars>>

(* NewPrekeyStore and loadFromDisk. *)
Restart ==
  /\ ~up
  /\ up' = TRUE
  /\ bundles' = disk
  /\ UNCHANGED <<disk, fetch, cert, pastVars, dirty, stale>>

-----------------------------------------------------------------------------
Init ==
  /\ bundles = [u \in Users |-> None]
  /\ disk = [u \in Users |-> None]
  /\ up = TRUE
  /\ fetch = [f \in Fetches |-> Idle]
  /\ cert = [r \in CertReqs |-> NoCert("idle")]
  /\ uploads = [u \in Users |-> [k \in Otpks |-> 0]]
  /\ served = [u \in Users |-> [k \in Otpks |-> 0]]
  /\ published = [u \in Users |-> {}]
  /\ latest = [u \in Users |-> None]
  /\ accepted = 0
  /\ dirty = {}
  /\ stale = {}

Next ==
  \/ \E id \in Ids, b \in Candidates : RegisterBundle(SessionId[id], b)
  \/ \E id \in Ids, f \in Fetches : FetchBegin(f, id)
  \/ \E f \in Fetches : GetBundle(f)
  \/ \E id \in Ids, r \in CertReqs : CertBegin(r, SessionId[id])
  \/ \E r \in CertReqs : IdentityKeyOf(r) \/ IssueCert(r)
  \/ Crash
  \/ Restart

Spec == Init /\ [][Next]_vars

-----------------------------------------------------------------------------
(* What the directory will serve once it is running. *)
Current == IF up THEN bundles ELSE disk

(* Every upload of a one-time prekey is good for one response: requests,    *)
(* re-registrations, crashes and restarts in any order hand a prekey out at *)
(* most as often as its owner uploaded it, what is still in store included, *)
(* unless a crash followed a failed persist (prekey_store.go:151-155).      *)
SingleUse ==
  \A u \in Users \ stale, k \in Otpks :
    served[u][k] + Left(Current[u], k) <= uploads[u][k]

(* A 404 for a user who registered takes a failed persist and a crash, or   *)
(* an id that handlePrekeysGet never finds, whatever is registered: one     *)
(* with / ? # in it, which Authenticate accepts and the GET rejects, or one *)
(* with the relay's own domain, which serveConn removes and the GET does    *)
(* not (server.go:226, 397, 409; auth.go:168).                              *)
NotFoundMeansUnknown ==
  [][\A f \in Fetches :
       LET id == fetch'[f].user IN
       fetch[f].state # "notFound" /\ fetch'[f].state = "notFound" =>
         \/ SessionId[id] \notin known \/ SessionId[id] \in stale
         \/ id \in Unservable
         \/ id # SessionId[id]]_vars

(* A certificate binds its user to an identity key that user published, and *)
(* that was the user's latest at some moment of the request, although the   *)
(* user may register another one, on another connection, before the request *)
(* has read the key or while it signs it; unless a crash followed a failed  *)
(* persist (server.go:337-341, prekey_store.go:199).                        *)
CertBindsPublishedKey ==
  [][\A r \in CertReqs :
       cert[r].state # "issued" /\ cert'[r].state = "issued" =>
         /\ cert'[r].ik \in published[cert[r].user]
         /\ cert[r].user \notin stale => cert'[r].ik \in cert[r].current]_vars

(* "persist immediately so a crash cannot resurrect a consumed OTPK on      *)
(* restart" (prekey_store.go:181): no prekey is served more often than it   *)
(* was uploaded, whatever fails.                                            *)
NoResurrection ==
  \A u \in Users, k \in Otpks : served[u][k] <= uploads[u][k]

=============================================================================
