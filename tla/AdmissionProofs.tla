--------------------------- MODULE AdmissionProofs ---------------------------
(***************************************************************************)
(* Proofs about Admission, for any number of connections, messages and     *)
(* clients: how far Server.active can exceed MaxClients, and that the      *)
(* relay behind the handshake keeps what Relay promises.                   *)
(***************************************************************************)
EXTENDS Admission, RelayMailboxProofs, FiniteSetTheorems

USE RelayAssumption

-----------------------------------------------------------------------------
(* The inductive invariant.  The bound is a matter of counting: the counter *)
(* is the number of handlers past the increment, and the history variable   *)
(* covers those before it.                                                  *)

StageTypeOK ==
  /\ stage \in [Conns -> {"out", "refused", "gone"} \cup Uncounted \cup Counted]
  /\ active \in Nat
  /\ peak \in 0 .. Cardinality(Conns)

CounterInv ==
  /\ active = Cardinality(In(Counted))
  /\ Cardinality(In(Uncounted)) <= peak
  /\ Cardinality(In(Uncounted)) + active > 0 =>
       Cardinality(In(Uncounted)) + active <= MaxClients + peak - 1

(* Until Authenticate has returned a user, serveConn has not registered     *)
(* one: a handshake that fails leaves no trace in the registry.             *)
NotYetRegistered ==
  \A c \in Conns : stage[c] \in {"upgraded"} \cup Authenticating => pc[c] = "register"

AdmissionInv ==
  /\ RelayInv
  /\ NoOrphanSession
  /\ NotYetRegistered
  /\ StageTypeOK
  /\ CounterInv

-----------------------------------------------------------------------------
(* The relay inside. *)

(* The two steps in which the handshake replaces Connect touch no message,  *)
(* and no handler that is registered.                                       *)
LEMMA HandshakeRelay ==
  ASSUME RelayInv, NoOrphanSession, NEW c \in Conns,
         Upgraded(c) \/ (pc[c] = "register" /\ AuthFails(c))
  PROVE  RelayInv' /\ NoOrphanSession' /\ MB!Next
<1>0. /\ pc \in [Conns -> {"idle", "register", "done"} \cup Serving]
      /\ sock \in [Conns -> {"new", "open", "closed"}]
      /\ \A d \in Conns : flush[d] # {} => pc[d] \in {"flush", "requeue"}
  BY Zenon DEF RelayInv, TypeOK, MailInv, HandsEmpty
<1>1. /\ UNCHANGED <<storeVars, phase, clients, prev, flush, deliverVars, histVars>>
      /\ pc[c] \in {"idle", "register"}
  BY Zenon DEF Upgraded, AuthFails
<1>2. PICK l \in {"register", "done"} :
        /\ pc' = [pc EXCEPT ![c] = l]
        /\ \E s \in {"open", "closed"} : sock' = [sock EXCEPT ![c] = s]
  BY Zenon DEF Upgraded, AuthFails
<1>3. TypeOK' /\ FileCovers'
  <2>1. StoreTypeOK' /\ FileCovers'
    BY <1>1, StoreKept, Zenon DEF RelayInv, TypeOK
  <2>2. SessionTypeOK' /\ DeliveryTypeOK'
    BY <1>0, <1>1, <1>2, TypeSplit, Zenon
       DEF RelayInv, SessionTypeOK, DeliveryTypeOK, deliverVars, histVars
  <2>. QED  BY <2>1, <2>2, Zenon DEF TypeOK, SessionTypeOK, DeliveryTypeOK
<1>4. UNCHANGED <<rows, disk, dirty, now, mode, discarded, rejected, diverged,
                  flush, dpc, delivered, ambiguous, lost>>
  BY <1>1, Zenon DEF storeVars, deliverVars, histVars
<1>5. RelayInv'
  <2>1. \A d \in Conns : flush[d] # {} => pc'[d] \in {"flush", "requeue"}
    BY <1>0, <1>1, <1>2, Zenon
  <2>2. MailInv'
    BY <1>3, <1>4, <2>1, QuietStep, Zenon
  <2>. QED  BY <1>3, <2>2, Zenon DEF RelayInv
<1>6. NoOrphanSession'
  <2>1. \A d \in Conns : pc[d] \in Serving /\ sock[d] = "closed" => sock'[d] = "closed"
    BY <1>0, <1>1, <1>2, Zenon DEF Serving
  <2>2. pc[c] \in Serving <=> l \in Serving
    BY <1>1, <1>2, Zenon DEF Serving
  <2>3. TypeOK /\ pc[c] # "closePrev" /\ UNCHANGED <<clients, prev>>
    BY <1>1, Zenon DEF RelayInv
  <2>. QED  BY <1>2, <2>1, <2>2, <2>3, RegistryInside, Zenon
<1>7. MB!Next
  BY <1>4, <1>5, QuietMap, Zenon DEF MB!Next
<1>. QED  BY <1>5, <1>6, <1>7, Zenon

(* Whatever handleWS does, the relay inside keeps its invariants and does   *)
(* what Mailbox allows.                                                     *)
LEMMA RelayBehind ==
  ASSUME RelayInv, NoOrphanSession, NotYetRegistered, [AdmissionNext]_allVars
  PROVE  RelayInv' /\ NoOrphanSession' /\ [MB!Next]_MB!vars
<1>1. CASE [Next]_vars
  <2>1. RelayInv' /\ NoOrphanSession'
    BY <1>1, NextRelayInv, NextRegistry, Zenon DEF RelayInv
  <2>. QED  BY <1>1, <2>1, MailboxStep, Zenon
<1>2. ASSUME NEW c \in Conns, CheckCapacity(c) \/ ClientAnswers(c) \/ HandlerStep(c)
      PROVE  RelayInv' /\ NoOrphanSession' /\ [MB!Next]_MB!vars
  <2>1. CASE UpgradeOk(c) \/ AuthFails(c)
    <3>1. Upgraded(c) \/ (pc[c] = "register" /\ AuthFails(c))
      BY <2>1, Zenon DEF UpgradeOk, AuthFails, NotYetRegistered
    <3>. QED  BY <3>1, HandshakeRelay, Zenon
  <2>2. CASE Serve(c)
    BY <1>1, <2>2, Zenon DEF Serve, Next
  <2>3. CASE \/ CheckCapacity(c) \/ ClientAnswers(c) \/ UpgradeFails(c)
             \/ Increment(c) \/ AuthProceeds(c) \/ Decrement(c)
    BY <1>1, <2>3, Zenon DEF CheckCapacity, ClientAnswers, UpgradeFails, Increment,
       AuthProceeds, Proceed, Decrement
  <2>. QED  BY <1>2, <2>1, <2>2, <2>3, Zenon DEF HandlerStep
<1>3. CASE Shutdown \/ ProcessEndsAll \/ Elsewhere
  BY <1>1, <1>3, Zenon DEF Shutdown, ProcessEndsAll, Elsewhere, Next
<1>4. CASE UNCHANGED allVars
  BY <1>1, <1>4, Zenon DEF allVars
<1>. QED  BY <1>2, <1>3, <1>4, Zenon DEF AdmissionNext

-----------------------------------------------------------------------------
(* Counting connections by stage. *)

(* The handlers in some stages are finitely many, at most all of them. *)
LEMMA InFinite ==
  ASSUME NEW S
  PROVE  /\ IsFiniteSet(In(S)) /\ Cardinality(In(S)) \in Nat
         /\ Cardinality(In(S)) <= Cardinality(Conns) /\ Cardinality(Conns) \in Nat
<1>1. In(S) \subseteq Conns /\ IsFiniteSet(Conns)
  BY AdmissionAssumption, Zenon DEF In
<1>. QED  BY <1>1, FS_Subset, FS_CardinalityType, Zenon

(* One connection moves. *)
LEMMA MoveCounts ==
  ASSUME StageTypeOK, NEW c \in Conns, NEW s, NEW S,
         stage' = [stage EXCEPT ![c] = s]
  PROVE  /\ (s \in S <=> stage[c] \in S) => In(S)' = In(S)
         /\ s \in S /\ stage[c] \notin S => Cardinality(In(S)') = Cardinality(In(S)) + 1
         /\ s \notin S /\ stage[c] \in S => Cardinality(In(S)') = Cardinality(In(S)) - 1
<1>1. \A d \in Conns : stage'[d] = IF d = c THEN s ELSE stage[d]
  BY Zenon DEF StageTypeOK
<1>2. IsFiniteSet(In(S))
  BY InFinite, Zenon
<1>3. ASSUME s \in S <=> stage[c] \in S
      PROVE  In(S)' = In(S)
  BY <1>1, <1>3, Zenon DEF In
<1>4. ASSUME s \in S, stage[c] \notin S
      PROVE  Cardinality(In(S)') = Cardinality(In(S)) + 1
  <2>1. In(S)' = In(S) \cup {c} /\ c \notin In(S)
    BY <1>1, <1>4, Zenon DEF In
  <2>. QED  BY <1>2, <2>1, FS_AddElement, Zenon
<1>5. ASSUME s \notin S, stage[c] \in S
      PROVE  Cardinality(In(S)') = Cardinality(In(S)) - 1
  <2>1. In(S)' = In(S) \ {c} /\ c \in In(S)
    BY <1>1, <1>5, Zenon DEF In
  <2>. QED  BY <1>2, <2>1, FS_RemoveElement, Zenon
<1>. QED  BY <1>3, <1>4, <1>5, Zenon

-----------------------------------------------------------------------------
(* The counter. *)

(* Stages the steps tell apart. *)
LEMMA Stages ==
  /\ Authenticating = {"limiter", "challenge", "answer", "response"}
  /\ Uncounted = {"upgrading", "upgraded"}
  /\ Counted = {"limiter", "challenge", "answer", "response", "served", "failed"}
  /\ \A s \in Authenticating : Handshake[s] \in Counted
  /\ \A s \in {"out", "refused", "gone"} : s \notin Uncounted /\ s \notin Counted
  /\ \A s \in Uncounted : s \notin Counted
<1>1. Authenticating = {"limiter", "challenge", "answer", "response"}
  BY Zenon DEF Authenticating, Handshake
<1>. QED  BY <1>1 DEF Uncounted, Counted, Handshake

(* A handshake moves on, fails or is served, and only then ConnStep begins. *)
LEMMA NextNotYet ==
  ASSUME TypeOK, StageTypeOK, NotYetRegistered, [AdmissionNext]_allVars
  PROVE  NotYetRegistered'
<1>. DEFINE Early == {"upgraded"} \cup Authenticating
<1>0. /\ pc \in [Conns -> {"idle", "register", "done"} \cup Serving]
      /\ \A d \in Conns : stage[d] \in Early => pc[d] = "register"
      /\ Early = {"upgraded", "limiter", "challenge", "answer", "response"}
  BY Stages, Zenon DEF TypeOK, NotYetRegistered
<1>1. ASSUME NEW c \in Conns, CheckCapacity(c) \/ ClientAnswers(c) \/ HandlerStep(c)
      PROVE  NotYetRegistered'
  <2>1. \A d \in Conns \ {c} : stage'[d] = stage[d] /\ pc'[d] = pc[d]
    <3>1. CASE Serve(c)
      BY <1>0, <3>1, Zenon DEF Serve, ConnStep, admVars, Register, ClosePrev, Drain, FlushWrite,
         Requeue, ReadEnds, Unregister
    <3>2. CASE \/ CheckCapacity(c) \/ ClientAnswers(c) \/ UpgradeOk(c) \/ UpgradeFails(c)
               \/ Increment(c) \/ AuthProceeds(c) \/ AuthFails(c) \/ Decrement(c)
      BY <1>0, <3>2, Zenon DEF StageTypeOK, CheckCapacity, ClientAnswers, UpgradeOk, Upgraded,
         UpgradeFails, Increment, AuthProceeds, Proceed, AuthFails, Decrement, vars, connVars
    <3>. QED  BY <1>1, <3>1, <3>2, Zenon DEF HandlerStep
  <2>2. stage'[c] \in Early => pc'[c] = "register"
    <3>1. CASE Serve(c)
      BY <1>0, <3>1, Zenon DEF Serve, admVars
    <3>2. CASE ClientAnswers(c) \/ AuthProceeds(c) \/ Increment(c)
      BY <1>0, <3>2, Zenon DEF ClientAnswers, AuthProceeds, Proceed, Increment, vars, connVars
    <3>3. CASE UpgradeOk(c)
      BY <1>0, <3>3, Zenon DEF UpgradeOk, Upgraded
    <3>4. CASE CheckCapacity(c) \/ UpgradeFails(c) \/ AuthFails(c) \/ Decrement(c)
      BY <1>0, <3>4, Zenon DEF StageTypeOK, CheckCapacity, UpgradeFails, AuthFails, Decrement
    <3>. QED  BY <1>1, <3>1, <3>2, <3>3, <3>4, Zenon DEF HandlerStep
  <2>. QED  BY <1>0, <2>1, <2>2, Zenon DEF NotYetRegistered
<1>2. CASE ProcessEndsAll
  BY <1>0, <1>2, Zenon DEF ProcessEndsAll, NotYetRegistered
<1>3. CASE UNCHANGED <<stage, pc>>
  BY <1>0, <1>3, Zenon DEF NotYetRegistered
<1>4. CASE Shutdown \/ Elsewhere
  BY <1>3, <1>4, Zenon
     DEF Shutdown, Elsewhere, admVars, connVars, BeginShutdown, FinishShutdown, ListenerFails,
         SockDies, Accept, DeliverStep, LookupClient, DeliverWrite, DeliverEnqueue,
         Background, ProcessRestarts
<1>5. CASE UNCHANGED allVars
  BY <1>3, <1>5, Zenon DEF allVars, admVars, vars, connVars
<1>. QED  BY <1>1, <1>2, <1>4, <1>5, Zenon DEF AdmissionNext

(* The handler and its stages in which nothing is counted anew. *)
LEMMA SameCounts ==
  ASSUME StageTypeOK, CounterInv, NEW c \in Conns, NEW s \in Uncounted \cup Counted,
         stage' = [stage EXCEPT ![c] = s],
         s \in Uncounted <=> stage[c] \in Uncounted,
         s \in Counted <=> stage[c] \in Counted,
         UNCHANGED <<active, peak>>
  PROVE  StageTypeOK' /\ CounterInv'
<1>1. StageTypeOK'
  BY Zenon DEF StageTypeOK
<1>2. In(Uncounted)' = In(Uncounted) /\ In(Counted)' = In(Counted)
  BY MoveCounts, Zenon
<1>. QED  BY <1>1, <1>2, Zenon DEF CounterInv

(* The check of MaxClients keeps the count. *)
LEMMA CheckCounts ==
  ASSUME StageTypeOK, CounterInv, NEW c \in Conns, CheckCapacity(c)
  PROVE  StageTypeOK' /\ CounterInv'
<1>. DEFINE U == Cardinality(In(Uncounted))
            V == Cardinality(In(Uncounted)')
<1>t. /\ U \in Nat /\ U <= Cardinality(Conns) /\ Cardinality(Conns) \in Nat
      /\ active \in Nat /\ peak \in Nat /\ peak <= Cardinality(Conns)
      /\ MaxClients \in Nat
  BY InFinite, AdmissionAssumption DEF StageTypeOK
<1>v. V \in Nat /\ V <= Cardinality(Conns)
  <2>1. In(Uncounted)' \subseteq Conns
    BY Zenon DEF In
  <2>. QED  BY <2>1, AdmissionAssumption, FS_Subset, FS_CardinalityType, Zenon
<1>p. peak' = IF V > peak THEN V ELSE peak
  BY Zenon DEF CheckCapacity, In
<1>a. active' = active /\ stage[c] = "out"
  BY Zenon DEF CheckCapacity
<1>c. active = Cardinality(In(Counted)) /\ U <= peak /\ (U + active > 0 => U + active <= MaxClients + peak - 1)
  BY Zenon DEF CounterInv
<1>1. CASE Full
  <2>1. stage' = [stage EXCEPT ![c] = "refused"]
    BY <1>1, Zenon DEF CheckCapacity
  <2>2. In(Uncounted)' = In(Uncounted) /\ In(Counted)' = In(Counted)
    <3>1. "refused" \notin Uncounted \cup Counted /\ stage[c] \notin Uncounted \cup Counted
      BY <1>a, Stages, Zenon
    <3>. QED  BY <2>1, <3>1, MoveCounts, Zenon
  <2>3. StageTypeOK'
    BY <1>t, <1>v, <1>p, <1>a, <2>1 DEF StageTypeOK
  <2>4. peak' = peak
    BY <1>p, <1>c, <1>t, <2>2
  <2>. QED  BY <2>2, <2>3, <2>4, <1>a, Zenon DEF CounterInv
<1>2. CASE ~Full
  <2>1. stage' = [stage EXCEPT ![c] = "upgrading"]
    BY <1>2, Zenon DEF CheckCapacity
  <2>2. V = U + 1 /\ In(Counted)' = In(Counted)
    <3>1. /\ "upgrading" \in Uncounted /\ "upgrading" \notin Counted
          /\ stage[c] \notin Uncounted /\ stage[c] \notin Counted
      BY <1>a, Stages, Zenon
    <3>. QED  BY <2>1, <3>1, MoveCounts, Zenon
  <2>3. StageTypeOK'
    BY <1>t, <1>v, <1>p, <1>a, <2>1 DEF StageTypeOK, Uncounted
  <2>4. active < MaxClients
    BY <1>2, <1>t DEF Full
  <2>5. V <= peak' /\ V + active <= MaxClients + peak' - 1
    BY <1>t, <1>v, <1>p, <2>4
  <2>. QED  BY <1>a, <1>c, <2>2, <2>3, <2>5, Zenon DEF CounterInv
<1>. QED  BY <1>1, <1>2, Zenon

(* The handler from the upgrade to its deferred decrement keeps the count. *)
LEMMA HandlerCounts ==
  ASSUME StageTypeOK, CounterInv, NEW c \in Conns, ClientAnswers(c) \/ HandlerStep(c)
  PROVE  StageTypeOK' /\ CounterInv'
<1>. DEFINE U == Cardinality(In(Uncounted))
            C == Cardinality(In(Counted))
<1>t. /\ U \in Nat /\ C \in Nat /\ active \in Nat /\ peak \in Nat /\ MaxClients \in Nat
      /\ active = C /\ U <= peak /\ (U + active > 0 => U + active <= MaxClients + peak - 1)
  BY InFinite, AdmissionAssumption DEF StageTypeOK, CounterInv
<1>1. CASE UpgradeOk(c)
  BY <1>1, SameCounts, Stages, Zenon DEF UpgradeOk
<1>2. CASE UpgradeFails(c)
  <2>1. /\ stage[c] = "upgrading" /\ stage' = [stage EXCEPT ![c] = "refused"]
        /\ UNCHANGED <<active, peak>>
    BY <1>2, Zenon DEF UpgradeFails
  <2>2. Cardinality(In(Uncounted)') = U - 1 /\ In(Counted)' = In(Counted)
    <3>1. /\ "refused" \notin Uncounted /\ "refused" \notin Counted
          /\ stage[c] \in Uncounted /\ stage[c] \notin Counted
      BY <2>1, Stages, Zenon
    <3>. QED  BY <2>1, <3>1, MoveCounts, Zenon
  <2>3. StageTypeOK'
    BY <2>1, Zenon DEF StageTypeOK
  <2>. QED  BY <1>t, <2>1, <2>2, <2>3 DEF CounterInv
<1>3. CASE Increment(c)
  <2>1. /\ stage[c] = "upgraded" /\ stage' = [stage EXCEPT ![c] = "limiter"]
        /\ active' = active + 1 /\ peak' = peak
    BY <1>3, Zenon DEF Increment
  <2>2. Cardinality(In(Uncounted)') = U - 1 /\ Cardinality(In(Counted)') = C + 1
    <3>1. /\ "limiter" \notin Uncounted /\ "limiter" \in Counted
          /\ stage[c] \in Uncounted /\ stage[c] \notin Counted
      BY <2>1, Stages, Zenon
    <3>. QED  BY <2>1, <3>1, MoveCounts, Zenon
  <2>3. StageTypeOK'
    BY <2>1, Stages DEF StageTypeOK
  <2>. QED  BY <1>t, <2>1, <2>2, <2>3 DEF CounterInv
<1>4. CASE ClientAnswers(c) \/ AuthProceeds(c)
  BY <1>4, SameCounts, Stages, Zenon DEF ClientAnswers, AuthProceeds, Proceed
<1>5. CASE AuthFails(c)
  BY <1>5, SameCounts, Stages, Zenon DEF AuthFails
<1>6. CASE Serve(c)
  BY <1>6, Zenon DEF Serve, admVars, StageTypeOK, CounterInv, In
<1>7. CASE Decrement(c)
  <2>1. /\ stage[c] \in {"served", "failed"} /\ stage' = [stage EXCEPT ![c] = "gone"]
        /\ active' = active - 1 /\ peak' = peak
    BY <1>7, Zenon DEF Decrement
  <2>2. In(Uncounted)' = In(Uncounted) /\ Cardinality(In(Counted)') = C - 1
    <3>1. /\ "gone" \notin Uncounted /\ "gone" \notin Counted
          /\ stage[c] \notin Uncounted /\ stage[c] \in Counted
      BY <2>1, Stages, Zenon
    <3>. QED  BY <2>1, <3>1, MoveCounts, Zenon
  <2>3. Cardinality(In(Counted)') \in Nat
    BY InFinite, FS_CardinalityType, FS_Subset, AdmissionAssumption, Zenon DEF In
  <2>4. StageTypeOK'
    BY <1>t, <2>1, <2>2, <2>3, Zenon DEF StageTypeOK
  <2>. QED  BY <1>t, <2>1, <2>2, <2>4 DEF CounterInv
<1>. QED  BY <1>1, <1>2, <1>3, <1>4, <1>5, <1>6, <1>7, Zenon DEF HandlerStep

(* The invariant is inductive. *)
LEMMA NextAdmission == AdmissionInv /\ [AdmissionNext]_allVars => AdmissionInv'
<1>. SUFFICES ASSUME AdmissionInv, [AdmissionNext]_allVars
              PROVE  AdmissionInv'
  OBVIOUS
<1>0. RelayInv' /\ NoOrphanSession' /\ NotYetRegistered'
  BY RelayBehind, NextNotYet, Zenon DEF AdmissionInv, RelayInv
<1>i. StageTypeOK /\ CounterInv
  BY Zenon DEF AdmissionInv
<1>1. ASSUME NEW c \in Conns, CheckCapacity(c) \/ ClientAnswers(c) \/ HandlerStep(c)
      PROVE  AdmissionInv'
  BY <1>0, <1>i, <1>1, CheckCounts, HandlerCounts, Zenon DEF AdmissionInv
<1>2. CASE ProcessEndsAll
  <2>1. /\ stage' = [c \in Conns |-> IF stage[c] = "out" THEN "out" ELSE "gone"]
        /\ active' = 0 /\ peak' = peak
    BY <1>2, Zenon DEF ProcessEndsAll
  <2>2. In(Uncounted)' = {} /\ In(Counted)' = {}
    BY <2>1, Stages, Zenon DEF In
  <2>3. Cardinality({}) = 0
    BY FS_EmptySet, Zenon
  <2>4. StageTypeOK'
    BY <1>i, <2>1, Zenon DEF StageTypeOK
  <2>5. peak' >= 0
    BY <1>i, <2>1, InFinite DEF StageTypeOK
  <2>6. CounterInv'
    BY <2>1, <2>2, <2>3, <2>5 DEF CounterInv
  <2>. QED  BY <1>0, <2>4, <2>6, Zenon DEF AdmissionInv
<1>3. CASE UNCHANGED admVars
  <2>1. UNCHANGED <<stage, active, peak>>
    BY <1>3, Zenon DEF admVars
  <2>2. In(Uncounted)' = In(Uncounted) /\ In(Counted)' = In(Counted)
    BY <2>1, Zenon DEF In
  <2>3. StageTypeOK'
    BY <1>i, <2>1, Zenon DEF StageTypeOK
  <2>4. CounterInv'
    BY <1>i, <2>1, <2>2, Zenon DEF CounterInv
  <2>. QED  BY <1>0, <2>3, <2>4, Zenon DEF AdmissionInv
<1>4. CASE Shutdown \/ Elsewhere
  BY <1>3, <1>4, Zenon DEF Shutdown, Elsewhere
<1>5. CASE UNCHANGED allVars
  BY <1>3, <1>5, Zenon DEF allVars
<1>. QED  BY <1>1, <1>2, <1>4, <1>5, Zenon DEF AdmissionNext

-----------------------------------------------------------------------------
(* The results. *)

(* The counter is right and the relay's invariants hold in every reachable  *)
(* state.                                                                   *)
THEOREM AdmissionInvariant == AdmissionSpec => []AdmissionInv
<1>1. AdmissionInit => AdmissionInv
  <2>. SUFFICES ASSUME AdmissionInit PROVE AdmissionInv
    OBVIOUS
  <2>1. RelayInv /\ NoOrphanSession /\ NotYetRegistered
    <3>1. RelayInv
      BY InitRelayInv, Zenon DEF AdmissionInit
    <3>2. NoOrphanSession
      BY Zenon DEF AdmissionInit, Init, NoOrphanSession, Serving
    <3>3. NotYetRegistered
      BY Stages, Zenon DEF AdmissionInit, NotYetRegistered
    <3>. QED  BY <3>1, <3>2, <3>3, Zenon
  <2>2. In(Uncounted) = {} /\ In(Counted) = {} /\ Cardinality({}) = 0
    BY Stages, FS_EmptySet, Zenon DEF AdmissionInit, In
  <2>3. StageTypeOK
    BY InFinite DEF AdmissionInit, StageTypeOK
  <2>4. CounterInv
    BY <2>2 DEF AdmissionInit, CounterInv
  <2>. QED  BY <2>1, <2>3, <2>4, Zenon DEF AdmissionInv
<1>. QED  BY <1>1, NextAdmission, PTL DEF AdmissionSpec

(* The relay behind the handshake keeps its types, and Server.active never  *)
(* goes below zero.                                                         *)
THEOREM AdmissionTypeCorrect == AdmissionSpec => []AdmissionTypeOK
<1>1. AdmissionInv => AdmissionTypeOK
  BY Zenon DEF AdmissionInv, RelayInv, StageTypeOK, AdmissionTypeOK
<1>. QED  BY <1>1, AdmissionInvariant, PTL

(* handleWS exceeds MaxClients by at most the requests that were ever       *)
(* between the check and the increment at one time, less one.               *)
THEOREM AdmissionBounded == AdmissionSpec => []AdmissionBound
<1>1. AdmissionInv => AdmissionBound
  <2>. SUFFICES ASSUME AdmissionInv, In(Uncounted \cup Counted) # {}
                PROVE  Cardinality(In(Uncounted \cup Counted)) <= MaxClients + peak - 1
    BY Zenon DEF AdmissionBound
  <2>. DEFINE U == In(Uncounted)
              C == In(Counted)
  <2>1. /\ IsFiniteSet(U) /\ IsFiniteSet(C)
        /\ Cardinality(U) \in Nat /\ Cardinality(C) \in Nat
    BY InFinite, Zenon
  <2>2. In(Uncounted \cup Counted) = U \cup C /\ U \cap C = {}
    BY Stages, Zenon DEF In
  <2>3. Cardinality(U \cup C) = Cardinality(U) + Cardinality(C)
    <3>1. Cardinality({}) = 0
      BY FS_EmptySet, Zenon
    <3>2. Cardinality(U \cup C) = Cardinality(U) + Cardinality(C) - Cardinality(U \cap C)
      BY <2>1, FS_Union, Zenon
    <3>3. Cardinality(U \cap C) = 0
      BY <2>2, <3>1, Zenon
    <3>. HIDE DEF U, C
    <3>. QED  BY <2>1, <3>2, <3>3
  <2>4. Cardinality(U \cup C) # 0
    <3>1. IsFiniteSet(U \cup C)
      BY <2>1, FS_Union, Zenon
    <3>. QED  BY <2>2, <3>1, FS_EmptySet, Zenon
  <2>5. /\ Cardinality(C) = active
        /\ Cardinality(U) + active > 0 => Cardinality(U) + active <= MaxClients + peak - 1
    BY Zenon DEF AdmissionInv, CounterInv
  <2>6. Cardinality(In(Uncounted \cup Counted)) = Cardinality(U) + active
    BY <2>2, <2>3, <2>5, Zenon
  <2>7. Cardinality(U) + active # 0
    BY <2>2, <2>4, <2>6, Zenon
  <2>. HIDE DEF U, C
  <2>. QED  BY <2>1, <2>5, <2>6, <2>7
<1>. QED  BY <1>1, AdmissionInvariant, PTL

(* Mail behind the handshake: a connection that is refused, fails to        *)
(* authenticate or loses its client on the way costs no message and leaves  *)
(* none with two owners, and the registry keeps pointing at live handlers   *)
(* only (handleWS and serveConn, server.go:172, 216).                       *)
THEOREM AdmissionKeepsMail ==
  AdmissionSpec => [](NoSilentLoss /\ SingleCustody /\ NoOrphanSession)
<1>1. AdmissionInv => NoSilentLoss /\ SingleCustody /\ NoOrphanSession
  BY CustodyImplies, Zenon DEF AdmissionInv, RelayInv, MailInv
<1>. QED  BY <1>1, AdmissionInvariant, PTL

(* The relay with its limit on clients and its handshake implements Mailbox *)
(* as well: both are invisible to whoever waits for messages.               *)
THEOREM AdmissionImplementsMailbox == AdmissionSpec => ImplementsMailbox
<1>1. AdmissionInit => MB!Init
  BY MailboxInit, Zenon DEF AdmissionInit
<1>2. AdmissionInv /\ [AdmissionNext]_allVars => [MB!Next]_MB!vars
  BY RelayBehind, Zenon DEF AdmissionInv
<1>. QED  BY <1>1, <1>2, AdmissionInvariant, PTL DEF AdmissionSpec, ImplementsMailbox, MB!Spec

=============================================================================
