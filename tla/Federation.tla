----------------------------- MODULE Federation -----------------------------
(***************************************************************************)
(* What happens to a frame that reaches Router.Route (router.go): the      *)
(* limiter, the parse as an envelope, and deliver's choice between the     *)
(* local mailbox and another relay, which takes the envelope in            *)
(* handleFederationDeliver (server.go).                                    *)
(*                                                                         *)
(* The steps after a local recipient has been found are those of module    *)
(* Relay; here they are one deposit in a mailbox.  A forwarded envelope is *)
(* one HTTP POST by a goroutine of its own; the request may get lost, and  *)
(* may arrive after the goroutine's ten seconds are over.  Foreign POSTs   *)
(* come from programs other than these relays, and to any of them.         *)
(*                                                                         *)
(* A payload is the set of the JSON fields that are present and not empty, *)
(* and the set of those whose JSON type is not the struct's; decoding it   *)
(* into a struct keeps the fields the struct has.  (Time stamp and id,     *)
(* common to both envelopes, are left out.)  An address is a host and a    *)
(* port, where NoPort stands for "no port given".                          *)
(***************************************************************************)
EXTENDS RateLimiter

CONSTANTS
  Relays,
  RelayID,      \* RELAY_ID of a relay, as an address
  Listens,      \* the address its HTTP server is reached at
  NoHost,
  NoPort,
  DefaultPort,  \* of http URLs
  Home,         \* the relay a user (key of the limiter) is connected to
  Foreign,      \* POSTs to /federation/deliver that no relay here sent
  Payload       \* what Route or a foreign POST carries: [json, big, fields,
                \* mistyped, user, domain, sender (the value of the field
                \* federation_sender_relay), header (X-Spectre-Relay-ID)]

(* The empty RELAY_ID, and the domain of a name without one. *)
NoAddr == [host |-> NoHost, port |-> NoPort]

Requests == Calls \cup Foreign

VARIABLES
  post,     \* the POST of a request; "late" when its goroutine has given up
  mailbox,  \* envelopes handed to the local part of deliver
  copies    \* history: how often that happened to the envelope of a request

fedVars == <<post, mailbox, copies>>
vars == <<limiterVars, fedVars>>

SealedFields == {"recipient_id", "ciphertext", "federation_sender_relay"}
OpenFields == {"recipient_id", "ciphertext", "sender_id"}

ASSUME FederationAssumption ==
  /\ Home \in [Keys -> Relays]
  /\ \A r \in Relays : Listens[r].port # NoPort
  /\ Calls \cap Foreign = {}
  /\ \A c \in Requests : /\ Payload[c].json \in BOOLEAN
                         /\ Payload[c].big \in BOOLEAN
                         /\ Payload[c].fields \subseteq SealedFields \cup OpenFields
                         /\ Payload[c].mistyped \subseteq SealedFields \cup OpenFields

(* A user name, with or without a domain: the keys of Store. *)
Name == [user : {Payload[c].user : c \in Requests},
         domain : {Payload[c].domain : c \in Requests} \cup {NoAddr}]

SenderRelay == {RelayID[r] : r \in Relays} \cup {NoAddr}
               \cup {Payload[c].sender : c \in Requests}
               \cup {Payload[c].header : c \in Foreign}

Entry == [relay : Relays, call : Requests, name : Name,
          fields : SUBSET (SealedFields \cup OpenFields), sender : SenderRelay]

FedTypeOK ==
  /\ LimiterTypeOK
  /\ post \in [Requests -> {"none", "sent", "late", "handled", "lost"}]
  /\ mailbox \subseteq Entry
  /\ copies \in [Requests -> Nat]

Origin(c) == Home[KeyOf[c]]

-----------------------------------------------------------------------------
(* Wrong variants of definitions below. *)

(* The port is not compared. *)
isLocalRelay_bug(domain, id) == domain.host = id.host

(* A POST is sent again when its answer does not come in time. *)
PostTimesOut_bug(c) ==
  /\ post[c] \in {"sent", "handled"}
  /\ post' = [post EXCEPT ![c] = "sent"]
  /\ UNCHANGED <<limiterVars, mailbox, copies>>

(* The domain must be the whole RELAY_ID. *)
isLocalRelay_bug2(domain, id) == domain = id

(* A federation_sender_relay that is set is left as it is. *)
Stamp_bug(e, id) ==
  [e EXCEPT !.fields = @ \cup {"federation_sender_relay"},
            !.sender = IF "federation_sender_relay" \in e.fields THEN @ ELSE id]

-----------------------------------------------------------------------------
(* json.Unmarshal into a struct with the given fields, which are all there  *)
(* is left of the payload (unknown fields are no error), and the check that *)
(* recipient and ciphertext are not empty.                                  *)
Decode(p, fields) ==
  IF /\ p.json
     /\ p.mistyped \cap fields = {}
     /\ {"recipient_id", "ciphertext"} \subseteq p.fields
  THEN {[sealed |-> fields = SealedFields, fields |-> p.fields \cap fields,
         sender |-> IF "federation_sender_relay" \in p.fields \cap fields
                    THEN p.sender ELSE NoAddr]}
  ELSE {}

(* Route's two attempts, sealed first: the envelope deliver gets, if any.   *)
(* What decodes as an open envelope decodes as a sealed one too, unless its *)
(* federation_sender_relay, unknown to the open one, has the wrong type.    *)
Envelope(p) ==
  IF Decode(p, SealedFields) # {} THEN Decode(p, SealedFields) ELSE Decode(p, OpenFields)

isLocalRelay(domain, id) ==
  /\ domain.host = id.host
  /\ domain.port = NoPort \/ domain.port = id.port

Local(name, r) == name.domain = NoAddr \/ isLocalRelay(name.domain, RelayID[r])

(* serveConn: the name under which a user who logs in at relay r registers  *)
(* and drains the queue.                                                    *)
SessionName(name, r) == IF Local(name, r) THEN [name EXCEPT !.domain = NoAddr] ELSE name

Recipient(c) == [user |-> Payload[c].user, domain |-> Payload[c].domain]

(* deliver, once its recipient is known to be local: the envelope goes to   *)
(* the mailbox of the name without domain.                                  *)
Deposit(r, c, e) ==
  /\ mailbox' = mailbox \cup {[relay |-> r, call |-> c,
                               name |-> [user |-> Payload[c].user, domain |-> NoAddr],
                               fields |-> e.fields, sender |-> e.sender]}
  /\ copies' = [copies EXCEPT ![c] = @ + 1]

(* deliver for a frame of a client of relay r.  A local recipient gets the  *)
(* envelope as the client wrote it, federation_sender_relay included.       *)
Deliver(r, c, e) ==
  IF Local(Recipient(c), r)
  THEN Deposit(r, c, e) /\ UNCHANGED post
  ELSE /\ post' = IF e.sealed THEN [post EXCEPT ![c] = "sent"] ELSE post
       /\ UNCHANGED <<mailbox, copies>>

(* A frame arrives; an oversize one changes nothing. *)
RouteBegin(c) ==
  /\ ~Payload[c].big
  /\ TakeStamp(c)
  /\ UNCHANGED fedVars

Route(c) ==
  /\ Allow(c)
  /\ IF call'[c].state = "allowed" /\ Envelope(Payload[c]) # {}
     THEN \E e \in Envelope(Payload[c]) : Deliver(Origin(c), c, e)
     ELSE UNCHANGED fedVars

(* Where http://domain/federation/deliver leads. *)
Reached(domain) ==
  {r \in Relays : /\ Listens[r].host = domain.host
                  /\ Listens[r].port = IF domain.port = NoPort THEN DefaultPort ELSE domain.port}

(* X-Spectre-Relay-ID: whatever its sender put there. *)
Header(c) == IF c \in Foreign THEN Payload[c].header ELSE RelayID[Origin(c)]

(* sealed.FederationSenderRelay = relayID *)
Stamp(e, id) ==
  [e EXCEPT !.fields = @ \cup {"federation_sender_relay"}, !.sender = id]

(* The request reaches relay r: no header, a body that does not decode or a *)
(* recipient of another relay, and it is dropped silently.  The body of a   *)
(* forwarded frame is what the first relay decoded, and decodes again.      *)
HandleFederationDeliver(c, r) ==
  LET body == Decode(Payload[c], SealedFields) IN
  /\ post[c] \in {"sent", "late"}
  /\ c \in Calls => r \in Reached(Payload[c].domain)
  /\ post' = [post EXCEPT ![c] = "handled"]
  /\ IF Header(c) # NoAddr /\ body # {} /\ Local(Recipient(c), r)
     THEN \E e \in body : Deposit(r, c, Stamp(e, Header(c)))
     ELSE UNCHANGED <<mailbox, copies>>
  /\ UNCHANGED limiterVars

(* No such host, a relay that is down, a broken connection, the end of the  *)
(* sending process before the request is out.                               *)
LosePost(c) ==
  /\ post[c] \in {"sent", "late"}
  /\ post' = [post EXCEPT ![c] = "lost"]
  /\ UNCHANGED <<limiterVars, mailbox, copies>>

(* federationClient gives up after ten seconds.  forwardFederated returns   *)
(* as it does after an answer or an error: it looks at neither.             *)
PostTimesOut(c) ==
  /\ post[c] = "sent"
  /\ post' = [post EXCEPT ![c] = "late"]
  /\ UNCHANGED <<limiterVars, mailbox, copies>>

TimePasses ==
  /\ ClockTick
  /\ UNCHANGED fedVars

Init ==
  /\ LimiterInit
  /\ post = [c \in Requests |-> IF c \in Foreign THEN "sent" ELSE "none"]
  /\ mailbox = {}
  /\ copies = [c \in Requests |-> 0]

Next ==
  \/ \E c \in Calls : RouteBegin(c) \/ Route(c) \/ PostTimesOut(c)
  \/ \E c \in Requests : LosePost(c)
  \/ \E c \in Requests, r \in Relays : HandleFederationDeliver(c, r)
  \/ TimePasses

Spec == Init /\ [][Next]_vars

-----------------------------------------------------------------------------
(* A frame is delivered in at most one place and at most once, although a   *)
(* goroutine gives up on requests that may still arrive (router.go:117).    *)
AtMostOnce ==
  \A c \in Requests :
    /\ copies[c] <= 1
    /\ Cardinality({e \in mailbox : e.call = c}) = copies[c]

(* A relay whose RELAY_ID is the address it is reached at. *)
WellConfigured(r) == RelayID[r] = Listens[r]

(* A delivered envelope is in a mailbox that its recipient reads when       *)
(* connected there under the full name (server.go:226), and at the relay    *)
(* where replies and other mail for that name arrive: without a domain the  *)
(* sender's own; else one on the domain's host and, if the domain has a     *)
(* port, the one that listens there, provided the relay's RELAY_ID is       *)
(* right (router.go:124-142, 163; server.go:465).                           *)
RightMailbox ==
  \A e \in mailbox :
    LET d == Recipient(e.call).domain IN
    /\ e.name = SessionName(Recipient(e.call), e.relay)
    /\ d = NoAddr /\ e.call \in Calls => e.relay = Origin(e.call)
    /\ d # NoAddr /\ WellConfigured(e.relay) =>
         /\ Listens[e.relay].host = d.host
         /\ d.port # NoPort => e.relay \in Reached(d)

(* The recipient of a forwarded envelope is told the relay of its sender,   *)
(* "so replies can be routed correctly" (envelope.go:18), whatever the      *)
(* client wrote in that field: a reply sent there reaches the sender's      *)
(* relay if its RELAY_ID is right (server.go:478).                          *)
RepliesReachSender ==
  \A e \in mailbox :
    e.call \in Calls /\ post[e.call] = "handled" =>
      /\ e.sender = RelayID[Origin(e.call)]
      /\ WellConfigured(Origin(e.call)) => Origin(e.call) \in Reached(e.sender)

(* Between relays that know their own address, a forwarded envelope that    *)
(* arrives is never dropped: what the sending relay takes for remote, the   *)
(* receiving one takes for local (router.go:154, server.go:465).            *)
ForwardedIsTaken ==
  \A c \in Calls :
    /\ post[c] = "handled"
    /\ WellConfigured(Origin(c))
    /\ \A r \in Reached(Payload[c].domain) : WellConfigured(r)
    => copies[c] > 0

-----------------------------------------------------------------------------
(* "Test that OpenEnvelope is NOT forwarded to remote host"                 *)
(* (federation_test.go:102), "federated delivery is sealed sender only"     *)
(* (router.go:157): a frame that discloses its sender stays at its relay.   *)
OpenStaysHome ==
  \A c \in Calls : "sender_id" \in Payload[c].fields => post[c] = "none"

=============================================================================
