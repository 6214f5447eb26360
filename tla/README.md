# A TLA+ model of spectre-relay

spectre-relay is a store-and-forward relay for encrypted messages: clients hold
one WebSocket each, messages for absent clients wait in an encrypted queue, and
an HTTP endpoint serves prekey bundles. Relays forward envelopes to one another.
The modules here model the parts of it
in which goroutines, failures and restarts meet, TLC checks them on small
instances, and TLAPS proves their safety properties for all instances. Line
numbers refer to the files under `src/`.

## The system

| part | state | operations | source |
|---|---|---|---|
| offline queue | in-memory SQLite table, encrypted file | Enqueue, DrainQueue, purgeExpired, persistLocked, loadFromDisk, Stop | `server/store.go` |
| client registry | map from user to connection | Register, Unregister, LookupClient | `server/store.go` |
| delivery | none of its own | Route, deliver, FlushQueue | `server/router.go` |
| connection handler | one goroutine per connection | handleWS, serveConn, handleAuthedFrame | `server/server.go` |
| lifecycle | listener, contexts | New, Run, shutdown | `server/server.go`, `main.go` |
| prekey directory | map of bundles, encrypted file | registerBundle, getBundleWithOTPK, identityKeyOf | `server/prekey_store.go` |
| rate limiters | time stamps per key | allow (three copies) | `server/ratelimit.go`, `router.go`, `auth.go` |
| federation | none | forwardFederated, handleFederationDeliver, isLocalRelay | `router.go`, `server.go` |
| authentication, admission | counter of active clients | Authenticate, handleWS | `auth.go`, `server.go` |
| sealed-sender CA | key file, previous key file | NewSealedCA, IssueCert, RotationProofB64 | `server/sealed_ca.go` |
| configuration, start | environment, key files | Load, main, loadOrCreateKey | `config/config.go`, `main.go`, `store.go` |

How they interact: a frame from an authenticated connection, or a request from
another relay, reaches `deliver`. It looks the recipient up, writes to the
connection found, and enqueues when there is none or the write fails. A new
connection registers, closes the one it replaces, drains the queue of its user
and writes what it got; on a failed write it enqueues the rest again. Each
method of `Store` holds `Store.mu` from start to end, but no lock spans two
methods: that is where the interleavings come from.

What is hard to test: a reconnection between any two of those steps; a write
that fails although its bytes left; a persist that fails and is only logged,
followed by a crash; a shutdown that closes the store under running handlers;
concurrent requests for one user's prekeys while the owner replaces them; a
capacity check that several upgrades pass at once; time stamps that enter the
limiter out of order; a forwarded request that arrives after its sender gave up;
a crash while a key file is written, in the middle of a rotation.
`PROJECT.json` lists these hazards by line.

## Modules

`OfflineStore` models the queue. `rows` is the table, `disk` the file, `mode`
whether the database is open, closed by `Stop`, or the process is gone. One
action per method of `Store`. A persist may fail (`DiskFaults`), which leaves
the old file; a database statement may fail (`DbFaults`), which loses the
message of an `Enqueue`, or the rows a `DrainQueue` could not read: its loop
skips them and does not look at `rows.Err`, and its DELETE takes them along.

`Relay` extends it with the registry, connections (`pc`, `sock`, `flush`),
deliveries (`dpc`, `target`), shutdown, process end and restart. Lookup, write
and enqueue of `deliver` are separate actions; so are each write and each
re-enqueue of `FlushQueue`. `MCRelay` holds the instances; `RelayOrder` adds the
id under which a message was first queued.

`Mailbox` is what the relay promises about a message: held from acceptance until
it is handed over or dropped. `Relay` refines it: a message is *held* while a
delivery, a flush or an unexpired row has it, *gone* afterwards.

`Admission` extends `Relay` with what comes before `Register`: the capacity
check, the upgrade and the increment of `active` as three steps, then the stages
of `Authenticate`, any of which may fail; and with the deferred decrement. `peak`
records how many requests were ever between check and increment. The client's
answer (`ClientAnswers`) is a step of the client, all else of the handler.

`PrekeyStore` models the directory: the map, the file, a GET request in two
steps (the verdict of the limiter, then the locked read and pop), and a request
for a sender certificate in three (the limiter, `identityKeyOf`, the signature
without the lock). A bundle is its identity key and its one-time prekeys.
Registrations go to the id of the session, from which `serveConn` has removed the
relay's own domain (`SessionId`); a GET looks up the id of its path as it stands,
and rejects some ids (`Unservable`).
`consumeOneTimePrekey` has no caller and is left out. `MCPrekeyStore` holds its
instances.

`RateLimiter` models the sliding window that the code has three times. The time
stamp is taken in one step and the critical section is another. `Federation`
extends it with `Route`: size, limiter, decoding, and the choice between local
delivery and a POST to another relay. A payload is the set of its JSON fields, some
of which may have the wrong type, and decoding keeps the fields of the target
struct, as `json.Unmarshal` does. A POST may get lost, and may arrive after its
sender has timed out; `Foreign` POSTs come from programs other than these relays.
What follows a local
recipient is a delivery of `Relay`; here it is a deposit in a mailbox.

`Startup` models `config.Load`, the three constructors in `server.New` with their
key files, the CA's key rotation, and clients that pin the CA's key. A key file is
created in one step and filled in another, since `os.WriteFile` writes in place.
The operator's actions are those that comments in `sealed_ca.go` describe, plus
the removal of a key file that stops the relay from starting.

The theorems are in modules of their own: `OfflineStoreProofs`, `RelayProofs`
(types, registry, the queue in the relay), `RelayCustodyProofs` (the invariant about
messages and what each kind of step does to it), `RelayMailboxProofs` (all actions,
and the refinement), `AdmissionProofs`, `PrekeyStoreProofs`, `FederationProofs`
(with the limiter) and `StartupProofs`.

Some variables are history only (`discarded`, `rejected`, `diverged`, `lost`,
`delivered`, `ambiguous`; `uploads`, `served`, `published`, `latest`, `dirty`,
`stale`; `peak`; `copies`, and the field `at` of `log`; `hasServed`,
`overwritten`): no guard reads them. Definitions ending in `_bug` are deliberately wrong variants
with which each property has been seen to fail; no specification uses them.

## Abstractions

- Messages, users, connections and prekeys are model values. JSON and AES
  round-trip; the key stays the same while its file exists.
- The wall clock moves forward, one second per `Tick`, and a method runs within
  one second.
- A file is replaced atomically (temporary file, rename); loss of power after a
  rename without fsync is not modelled.
- A successful `conn.Write` means that the frame was handed to the socket; the
  relay has no acknowledgement from the client. A failed one closes the
  connection, as the library does, and the frame may have arrived.
- Each message is delivered by a goroutine of its own. A sender's read loop
  handles one at a time, so the model allows more interleavings than the code.
- A connection is used once; a reconnection is another connection. In `Relay`
  it starts after a successful `Authenticate`, in `Admission` at the request.
- `http.Server.Shutdown` waits for requests that are not yet upgraded, and an
  upgrade takes less than its 30 seconds.
- A signature verifies or not; a limiter that is not the subject of a module may
  answer either way.
- A goroutine waits at most `MaxDelay` for the limiter's lock. The code has no
  such bound; `WindowBudget` says how the limit depends on it.
- An address is a host and a port or no port. Splitting at `@` and `:` is not
  modelled character by character.
- Clients follow a rotation as `sealed_ca.go:39-53` says; their code is not here.
- The four numeric settings are treated alike by `Load`; the model has one.
- In `PrekeyStore` an element of a bundle stands for its id and key, the
  limiter may answer either way, and the checks of lengths and base64 are one
  Boolean of the bundle.

## Runs

| run | instance | result |
|---|---|---|
| `offline_store` | 2 users, cap 2, TTL 1, clock to 3, 3 ids, all faults | `QueueBounded`, `FileMatchesTable`, `IdOrderIsExpiryOrder`, `ExpiredRowsGo` hold (84,176 states) |
| `relay` | 2 connections of a user, 2 messages (one by HTTP), cap 2, all faults | `NoSilentLoss`, `SingleCustody`, `NoOrphanSession` hold (574,195 states, connections symmetric) |
| `relay_expiry` | 1 connection, 2 messages, cap 1, clock to 2 | the first two, with expiry and overflow, and `ImplementsMailbox` hold (106,643 states) |
| `relay_live` | `Admission` with 2 connections, 1 message, room for 1 client, no disk faults, fairness | `AdmissionBound`, `SupersededEnds`, `DeliveriesFinish`, `PlaceComesBack`, `HandshakeEnds` hold (32,455 states) |
| `prekey_store` | 2 users, one of them out of a GET's reach, an id with the relay's domain, 2 identity keys, 2 prekeys, 3 requests, 1 certificate request, all faults | `SingleUse`, `NotFoundMeansUnknown`, `CertBindsPublishedKey` hold (1,188,729 states) |
| `federation` | 4 relays, 2 senders, 4 frames, 1 foreign POST, 2 grants per window | `WindowBudget`, `RefusedOnlyIfSpent`, `AtMostOnce`, `RightMailbox`, `RepliesReachSender`, `ForwardedIsTaken` hold (980,600 states) |
| `startup` | 2 clients, 5 environments | `DataReadable`, `KeyKept`, `StartsAgain`, `ClientsFollow`, `ServesAsConfigured` hold (19,007 states) |
| `relay_shutdown` | no faults | `GracefulShutdownKeepsMail` is violated |
| `relay_stranded` | no faults, fairness | `NoStrandedMail` is violated |
| `relay_order` | no faults | `RequeueKeepsOrder` is violated |
| `prekey_crash` | one failing persist | `NoResurrection` is violated |
| `open_envelope` | as `federation` | `OpenStaysHome` is violated |

Each module with a passing run has a type invariant that its run checks as well.

Why the bounds suffice: two connections of one user give every pair of old and
new session, two messages give an overtaking one and an overflowing one, and
users share nothing in `Relay` but the table and the file, which `OfflineStore`
checks with two. The clock stands still in `relay` and `relay_live`; expiry is
the subject of `relay_expiry` and `offline_store`. `MaxId`, `MaxTime` and
`MaxUploads` only cut behaviours short.

In `relay_live` two connections compete for one place, which is what it takes to
exceed the limit; disk faults are left to `relay` and `relay_expiry`. In
`federation` two of the relays share a host, one listens on the default port and
one has no `RELAY_ID`; three frames meet a limiter of two, and `MaxTime` lets a
window pass. One frame sets `federation_sender_relay` itself, in one it has the
wrong type, one has a `sender_id`. All are JSON of admissible size: the branches for
others drop the frame, and are in the model without being exercised. `startup` has two
clients so that one may migrate while the other is away, and `MaxMints` allows three
rotations. `Load` rejects two of its environments; the accepted ones have unset,
unreadable and positive numbers, with and without a certificate.

What some of the properties say is weaker than one might expect, because that is
what the code does:

- `AdmissionBound`: `MaxClients` can be exceeded, by the number of requests that
  were upgrading at one time, less one.
- `NoSilentLoss` names the losses the code accepts: a full queue, expiry, a failed
  database statement (also the rows a drain could not read), and the end of the
  process while a goroutine has the message or after a failed persist. It says that
  there are no others. `SingleCustody` likewise allows one further copy for each
  write that failed although its bytes left.
- `NotFoundMeansUnknown`: a registered user gets a 404 under an id with `/`, `?` or
  `#`, which `Authenticate` accepts and `handlePrekeysGet` rejects, and under an id with
  the relay's own domain, which `serveConn` removes and the GET does not.
  `server.go:383` says "returned ONLY when no bundle was ever registered for the
  requested userID".
- `RepliesReachSender` is about forwarded envelopes. Within one relay a recipient
  gets `federation_sender_relay` as the sending client wrote it; `envelope.go:21`
  says "Never set by clients" and "Empty for local (non-federated) messages".
- `StartsAgain`: the first start, and the first one after a rotation, can leave a
  torn key file, which stops the next start until it is removed.
- `WindowBudget`: more than the limit fits into one window, since stamps are taken
  before the lock; two grants that are `limit` apart are at least a window less
  `MaxDelay` apart.
- `ClientsFollow`: a client that misses two rotations is locked out, and so is
  every client with the old key if an operator repeats the move to `.prev` after a start that was
  interrupted while it wrote the new key. `sealed_ca.go:48` says that "an honest
  operator can rotate without bricking anyone"; the property exempts these two cases,
  in which that is not so, and says that there are no others.
- `ForwardedIsTaken` needs relays whose `RELAY_ID` is the address they are reached
  at; without one, a relay's forwarded envelopes are dropped by the receiver.

The five violated properties are statements of the repository that the code
does not keep:

- *Shutdown* (`server.go:90`, "gives in-flight connections 30 seconds to
  drain"). `http.Server.Shutdown` does not wait for WebSocket connections. Run
  closes the store and returns while a handler has a message to deliver. In the
  shortest trace the process ends at that point; in others the handler goes on
  to enqueue and finds the database closed. The message is lost and no error is
  reported.
- *Stranded mail* (`router.go:184`, "drains any persisted messages to a
  freshly-connected user"; more loosely `README.md:9`). `deliver` finds the
  recipient offline; the recipient registers and flushes; `deliver` enqueues.
  The message waits for the next reconnection although its user is connected.
- *Order* (`router.go:197`, "preserves ordering"). A message enqueued between
  the drain and the re-enqueue gets a smaller id than the older ones.
- *Prekeys* (`prekey_store.go:181`, "a crash cannot resurrect a consumed
  OTPK"). If the persist fails the prekey is served all the same, and served
  again after a crash.
- *Open envelopes* (`federation_test.go:102`, "Test that OpenEnvelope is NOT
  forwarded to remote host"; `router.go:157`). `Route` tries the sealed form
  first, and `json.Unmarshal` ignores the unknown field `sender_id`, so an open
  envelope is taken for a sealed one: it loses its sender and is forwarded. The
  branch for open envelopes is reached only by a frame whose
  `federation_sender_relay`, a field of the sealed form alone, has the wrong type.

## Fairness

`relay_live` assumes weak fairness of each connection handler and each delivery:
the Go scheduler runs every runnable goroutine, a write is bounded by a
ten-second context and the store's lock is held for one method only. The failure
of a handshake is a step of the handler because its ten-second context brings it
about when the client is silent. Nothing is assumed of clients, peers, the network,
shutdown or crashes; in particular clients need not answer. `offline_store` assumes weak
fairness of the purge, which a ticker drives while the process is up: the process
runs on, and the DELETE of `purgeExpired` (`store.go:307`), tried again at every
tick, does not fail for ever.

## Proofs

The theorems hold for every value of the constants, from the assumptions each
module names. These say that bounds are natural numbers and that functions have
their domains, and further: `RelayAssumption`, that `NoConn` is no connection;
`AdmissionAssumption`, that there are finitely many connections, since they are
counted; `FederationAssumption`, that every relay listens at a port; and `PrekeyAssumption`,
that `None` is no value of another kind and that the id of a session stays what it
is when it is normalised again.

Every safety property that a passing run checks is proved, for its specification
as a whole: faults, crashes and restarts included.

**Queue.** `StoreInv` says of the table *and* of the file that they are well formed
(ids below the next id, unique, in expiry order, no expiry beyond now + TTL, at most
the cap per user), since a restart turns the file into the table; and `FileCovers`,
that after a successful persist the file is the table plus expired rows. From it
follow `StoreTypeCorrect`, `StoreQueueBounded`, `StoreFileMatchesTable` and
`StoreIdOrder`.

**Registry.** `TypeCorrect`; `NoOrphans`, with `NoOrphanSession` inductive given the
types; `RelayImplementsStore`: a step of the relay is a step of the queue or leaves
it alone, so the queue's theorems hold in the relay.

**Messages.** `RelayNoSilentLoss` and `RelaySingleCustody` rest on `RelayInv`, which
TLC checked on the instances of `relay` and `relay_expiry` first. To the types and
`FileCovers` it adds:

- `HandsEmpty`: rows are in a handler's hands only inside `FlushQueue`, and nobody
  holds anything once the process is down;
- `UnsentUnknown`: a message not yet accepted is nowhere, so that accepting it
  gives it one owner and not a second one;
- `CustodyInv`: deliver, the rows of a flush and the stored rows exclude one
  another, and a message that has an owner went out only as often as a write
  misreported it. It speaks of the rows a crash would leave (`Surviving`: the file,
  or the table if the file is out of date) where `SingleCustody` speaks of the table
  while the process runs. The difference is what makes it inductive: `Enqueue` may
  sweep rows without persisting, and a crash brings them back;
- `NoSilentLoss` itself.

`RelayCustodyProofs` says what a write, a stored row, a drained queue, an end and a
restart do to it, and `RelayMailboxProofs` goes through the actions.

**Refinement.** `RelayImplementsMailbox`: from a state with `RelayInv`, every step of
the relay is a step of `Mailbox` or a stutter under the mapping in `Relay`. Most
steps are stutters; a write hands over, a sweep or expiry drops, the process end
stops the mailbox and marks what diverged, and a restart starts it again.

**Admission.** `CounterInv` says that `active` is the number of handlers past the
increment and that `peak` covers those before it; `AdmissionBounded` is a count over
it. `AdmissionInv` contains `RelayInv` and `NoOrphanSession`, and that a handler is
not registered before `Authenticate` has returned (`NotYetRegistered`). Hence
`AdmissionKeepsMail` and `AdmissionImplementsMailbox`: with refused connections, failed
handshakes and the limit on clients, the relay still keeps what `Relay` promises. No run
lists these two; they were checked once with TLC, on the instance of `relay_live`
with disk faults and a clock to 2 (536,792 states).

**Limiter and federation.** In `LimiterInv`, a waiting call's stamp is at most
`MaxDelay` old and the map forgets only stamps that no later cutoff reaches
(`ForgottenIsOld`); with the order of the grants this gives `LimiterWindowBudget`, and
`LimiterRefusals` follows by counting what the map remembers: all of it is in the log
of grants, and the log's last `PerMin` entries are at least as young.
`FederationImplementsLimiter` carries both over. `FedInv` adds what a goroutine's
place says about its request and its deposits (`ForwardedOnce`, `DepositedOnce`,
`CopiesCount`); `FederationAtMostOnce`, `FederationRightMailbox`, `FederationReplies`
and `FederationForwardedIsTaken` follow.

**Prekeys.** `PrekeyTypeCorrect`, `PrekeysSingleUse`, `NotFoundOnlyIfUnknown` and
`CertsBindPublishedKeys`. `PrekeyInv` adds to `SingleUse` that the file agrees with
the map for users not marked dirty (so a crash changes nothing that counts), that a
known user's bundle stays, and that no request is inside the handler while the
process is down. Popping the head is the lemma `PopPool`. For certificates,
`KeysPublished` says that every identity key in map or file was published by its
user, and that the current one is the last unless the user is stale; `CertKeys`
says the same of the key a request holds while it signs: it was the latest at some
moment since the request began.

**Start.** `StartupDataReadable`, `StartupKeyKept`, `StartupStartsAgain`,
`StartupClientsFollow` and `StartupServesAsConfigured`. `StartupInv` adds that a file
being written is the one torn file of its stage, that the parts are built in order
with the keys of their files, that a key file holds the last key minted for it
(`Newest`), and that every key a client has pinned is in the key
file, in `.prev`, or was overwritten there.

Only model-checked: the liveness properties `ExpiredRowsGo`, `SupersededEnds`,
`DeliveriesFinish`, `PlaceComesBack` and `HandshakeEnds`, which need fairness and are
outside this prover's reach. The five violated properties are false.

## Not modelled, and the plan

1. A re-enqueued message's fresh expiry (`store.go:161`): it needs a history of
   first expiries in `Relay`.
2. The dispatch of frames by `type` in `handleAuthedFrame`: each module takes the
   frames that are its own.

Left out for good: recovery from panics, paths and addresses in the configuration,
the certificate's expiry (only recipients look at it), the health endpoint, metrics
and logging, TLS and cryptography.
