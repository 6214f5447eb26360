---------------------------- MODULE MCFederation ----------------------------
(* Relays ra and rb share a host, as in docker-compose.federation.yml; rc   *)
(* listens on the default port; rd has no RELAY_ID.  Three frames of one    *)
(* user at ra: m1 for rb, with a federation_sender_relay of its own; m2     *)
(* local, and read as an open envelope since that field is no string; m3    *)
(* for rc, with a sender_id.  m4 is of a user at rd.  x1 is the POST of a   *)
(* relay that is not among these.                                           *)
EXTENDS Federation

CONSTANTS m1, m2, m3, m4, x1, s1, s2, u, ra, rb, rc, rd, h1, h2, h3, p1, p2

Addr(h, p) == [host |-> h, port |-> p]

MCKeyOf == [m \in Calls |-> IF m = m4 THEN s2 ELSE s1]
MCHome == [k \in Keys |-> IF k = s1 THEN ra ELSE rd]

MCListens ==
  [r \in Relays |-> CASE r = ra -> Addr(h1, p1) [] r = rb -> Addr(h1, p2)
                      [] r = rc -> Addr(h2, DefaultPort) [] r = rd -> Addr(h3, p1)]
MCRelayID == [MCListens EXCEPT ![rd] = NoAddr]

Frame(fields, domain) ==
  [json |-> TRUE, big |-> FALSE, fields |-> fields, mistyped |-> {}, user |-> u,
   domain |-> domain, sender |-> Addr(h2, DefaultPort), header |-> Addr(h3, p2)]
Sealed == {"recipient_id", "ciphertext"}

MCPayload ==
  [m \in Requests |->
     CASE m = m1 -> Frame(Sealed \cup {"federation_sender_relay"}, Addr(h1, p2))
       [] m = m2 -> [Frame(Sealed, Addr(h1, NoPort))
                       EXCEPT !.mistyped = {"federation_sender_relay"}]
       [] m = m3 -> Frame(Sealed \cup {"sender_id"}, Addr(h2, NoPort))
       [] m = m4 -> Frame(Sealed, Addr(h1, p2))
       [] m = x1 -> Frame(Sealed, Addr(h1, NoPort))]

=============================================================================
