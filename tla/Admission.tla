------------------------------ MODULE Admission ------------------------------
(***************************************************************************)
(* How a connection gets to Register and what it leaves behind: handleWS   *)
(* (server.go), Authenticator.Authenticate (auth.go) and the counter       *)
(* Server.active, composed with the relay.                                 *)
(*                                                                         *)
(* handleWS compares the counter with MaxClients, upgrades, and only then  *)
(* increments it; the three are separate steps.  The increment is undone   *)
(* by a deferred call, after serveConn and its own deferred Unregister.    *)
(***************************************************************************)
EXTENDS Relay, FiniteSets

CONSTANT MaxClients    \* Config.MaxClients

ASSUME AdmissionAssumption == MaxClients \in Nat /\ IsFiniteSet(Conns)

VARIABLES
  stage,    \* where handleWS or Authenticate is, for each connection
  active,   \* Server.active
  peak      \* history: most requests ever between check and increment

admVars == <<stage, active, peak>>
allVars == <<vars, admVars>>

(* Authenticate, and where it goes on if a stage succeeds: the limiter, the *)
(* challenge, the client's answer and its signature, the response.          *)
Handshake ==
  [limiter |-> "challenge", challenge |-> "answer", answer |-> "response",
   response |-> "served"]

Authenticating == DOMAIN Handshake
Uncounted == {"upgrading", "upgraded"}
Counted == Authenticating \cup {"served", "failed"}

In(stages) == {c \in Conns : stage[c] \in stages}

AdmissionTypeOK ==
  /\ TypeOK
  /\ stage \in [Conns -> {"out", "refused", "gone"} \cup Uncounted \cup Counted]
  /\ active \in Nat
  /\ peak \in 0 .. Cardinality(Conns)

-----------------------------------------------------------------------------
(* Wrong variants of definitions below. *)

(* active > MaxClients *)
Full_bug == active > MaxClients

(* No deadline on the read of the client's answer. *)
AuthFails_bug(c) ==
  /\ stage[c] \in Authenticating
  /\ stage[c] = "answer" => sock[c] = "closed"
  /\ stage' = [stage EXCEPT ![c] = "failed"]
  /\ pc' = [pc EXCEPT ![c] = "done"]
  /\ sock' = [sock EXCEPT ![c] = "closed"]
  /\ UNCHANGED <<storeVars, phase, clients, prev, flush, deliverVars, histVars,
                 active, peak>>

(* Decremented once in the error path and once by the deferred call. *)
Decrement_bug(c) ==
  /\ pc[c] = "done" /\ stage[c] \in {"served", "failed"}
  /\ active' = active - (IF stage[c] = "failed" THEN 2 ELSE 1)
  /\ stage' = [stage EXCEPT ![c] = "gone"]
  /\ UNCHANGED <<vars, peak>>

(* The decrement is not deferred and the error path misses it. *)
Decrement_bug2(c) ==
  /\ pc[c] = "done" /\ stage[c] = "served"
  /\ active' = active - 1
  /\ stage' = [stage EXCEPT ![c] = "gone"]
  /\ UNCHANGED <<vars, peak>>

-----------------------------------------------------------------------------
Full == active >= MaxClients

(* A request for /ws arrives: 503 when the relay is full. *)
CheckCapacity(c) ==
  /\ mode = "up" /\ phase = "serving"
  /\ stage[c] = "out"
  /\ stage' = [stage EXCEPT ![c] = IF Full THEN "refused" ELSE "upgrading"]
  /\ peak' = LET n == Cardinality({d \in Conns : stage'[d] \in Uncounted})
             IN  IF n > peak THEN n ELSE peak
  /\ UNCHANGED <<vars, active>>

(* websocket.Accept *)
UpgradeOk(c) ==
  /\ stage[c] = "upgrading"
  /\ Upgraded(c)
  /\ stage' = [stage EXCEPT ![c] = "upgraded"]
  /\ UNCHANGED <<active, peak>>

UpgradeFails(c) ==
  /\ stage[c] = "upgrading"
  /\ stage' = [stage EXCEPT ![c] = "refused"]
  /\ UNCHANGED <<vars, active, peak>>

Increment(c) ==
  /\ stage[c] = "upgraded"
  /\ active' = active + 1
  /\ stage' = [stage EXCEPT ![c] = "limiter"]
  /\ UNCHANGED <<vars, peak>>

(* A stage of Authenticate succeeds; all but the first use the connection. *)
Proceed(c) ==
  /\ stage[c] \in Authenticating
  /\ stage[c] # "limiter" => sock[c] = "open"
  /\ stage' = [stage EXCEPT ![c] = Handshake[@]]
  /\ UNCHANGED <<vars, active, peak>>

AuthProceeds(c) == stage[c] # "answer" /\ Proceed(c)

(* The client's answer arrives and its signature verifies. *)
ClientAnswers(c) == stage[c] = "answer" /\ Proceed(c)

(* Any error of Authenticate, among them the deadline of ten seconds for    *)
(* the whole exchange: serveConn closes the connection and returns.         *)
AuthFails(c) ==
  /\ stage[c] \in Authenticating
  /\ stage' = [stage EXCEPT ![c] = "failed"]
  /\ pc' = [pc EXCEPT ![c] = "done"]
  /\ sock' = [sock EXCEPT ![c] = "closed"]
  /\ UNCHANGED <<storeVars, phase, clients, prev, flush, deliverVars, histVars,
                 active, peak>>

(* The rest of serveConn, once Authenticate has returned a user. *)
Serve(c) ==
  /\ stage[c] = "served"
  /\ ConnStep(c)
  /\ UNCHANGED admVars

(* The deferred call of handleWS. *)
Decrement(c) ==
  /\ pc[c] = "done" /\ stage[c] \in {"served", "failed"}
  /\ active' = active - 1
  /\ stage' = [stage EXCEPT ![c] = "gone"]
  /\ UNCHANGED <<vars, peak>>

-----------------------------------------------------------------------------
(* http.Server.Shutdown waits for a request that has not been upgraded yet, *)
(* which takes less than its 30 seconds.                                    *)
Shutdown ==
  /\ \/ BeginShutdown
     \/ In({"upgrading"}) = {} /\ FinishShutdown
     \/ ListenerFails
  /\ UNCHANGED admVars

ProcessEndsAll ==
  /\ ProcessEnds
  /\ stage' = [c \in Conns |-> IF stage[c] = "out" THEN "out" ELSE "gone"]
  /\ active' = 0
  /\ UNCHANGED peak

Elsewhere ==
  /\ \/ \E c \in Conns : SockDies(c)
     \/ \E m \in Msgs : Accept(m) \/ DeliverStep(m)
     \/ Background
     \/ ProcessRestarts
  /\ UNCHANGED admVars

AdmissionInit ==
  /\ Init
  /\ stage = [c \in Conns |-> "out"]
  /\ active = 0
  /\ peak = 0

HandlerStep(c) ==
  \/ UpgradeOk(c) \/ UpgradeFails(c) \/ Increment(c)
  \/ AuthProceeds(c) \/ AuthFails(c)
  \/ Serve(c) \/ Decrement(c)

AdmissionNext ==
  \/ \E c \in Conns : CheckCapacity(c) \/ ClientAnswers(c) \/ HandlerStep(c)
  \/ Shutdown
  \/ ProcessEndsAll
  \/ Elsewhere

AdmissionSpec == AdmissionInit /\ [][AdmissionNext]_allVars

(* The scheduler runs every handler; the ten-second context ends a          *)
(* handshake whose client is silent, which is a step of the handler too.    *)
(* Nothing is assumed of clients: they need not answer.                     *)
AdmissionFairSpec ==
  /\ AdmissionSpec
  /\ \A c \in Conns : WF_allVars(HandlerStep(c))
  /\ \A m \in Msgs : WF_allVars(DeliverStep(m) /\ UNCHANGED admVars)

-----------------------------------------------------------------------------
(* The check of the limit and the increment are not atomic, so the limit    *)
(* may be exceeded, but by no more than the requests that were upgrading at *)
(* one time, less one (server.go:173, 194).  With one upgrade at a time     *)
(* MaxClients is never exceeded; it takes several to pass the check on the  *)
(* same value of the counter.                                               *)
AdmissionBound ==
  In(Uncounted \cup Counted) # {} =>
    Cardinality(In(Uncounted \cup Counted)) <= MaxClients + peak - 1

(* A connection whose client goes away gives its place back, whatever it    *)
(* was doing: in the handshake, in a flush or in its read loop              *)
(* (server.go:195, 244).                                                    *)
PlaceComesBack ==
  \A c \in Conns :
    stage[c] \in Counted /\ sock[c] = "closed" ~> stage[c] = "gone"

(* A connection that does not authenticate does not keep its place: the     *)
(* handshake ends within its deadline even if the client says nothing       *)
(* (auth.go:124).                                                           *)
HandshakeEnds ==
  \A c \in Conns :
    stage[c] \in Authenticating ~> stage[c] \in {"served", "gone"}

=============================================================================
