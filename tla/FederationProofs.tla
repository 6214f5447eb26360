-------------------------- MODULE FederationProofs --------------------------
(***************************************************************************)
(* Proofs about RateLimiter, for any number of callers and keys, any       *)
(* limit, window and bound on the wait for the lock; and about Federation, *)
(* for any relays, addresses, frames and losses.  The limiter's results    *)
(* carry over because every step of Federation is a step of the limiter or *)
(* leaves it alone.                                                        *)
(***************************************************************************)
EXTENDS Federation, FiniteSetTheorems, TLAPS

-----------------------------------------------------------------------------
(* The limiter: its inductive invariant.  The budget alone is not           *)
(* inductive: whether a grant is within it depends on what the map has      *)
(* forgotten, and on how far stamps lag behind the clock.                   *)

(* A call that waits for the lock holds a stamp at most MaxDelay old. *)
WaitBounded ==
  \A c \in Calls : call[c].state = "waiting" =>
    call[c].stamp <= clock /\ clock <= call[c].stamp + MaxDelay

(* So is the stamp of a grant when it is given. *)
LogSound ==
  \A k \in Keys : \A i \in DOMAIN log[k] :
    /\ log[k][i].at <= clock
    /\ log[k][i].stamp <= log[k][i].at
    /\ log[k][i].at <= log[k][i].stamp + MaxDelay

(* Grants are given one after the other, whatever their stamps. *)
LogOrdered ==
  \A k \in Keys : \A i, j \in DOMAIN log[k] : i <= j => log[k][i].at <= log[k][j].at

(* The map forgets only stamps that no later cutoff reaches back to. *)
ForgottenIsOld ==
  \A k \in Keys : \A i \in DOMAIN log[k] \ attempts[k] :
    log[k][i].stamp <= clock - Window

LimiterInv ==
  /\ LimiterTypeOK
  /\ WaitBounded
  /\ LogSound
  /\ LogOrdered
  /\ ForgottenIsOld
  /\ WindowBudget

-----------------------------------------------------------------------------
(* A limiter starts with nothing logged. *)
LEMMA InitLimiter == LimiterInit => LimiterInv
BY LimiterAssumption DEF LimiterInit, LimiterInv, LimiterTypeOK, Grant, WaitBounded,
   LogSound, LogOrdered, ForgottenIsOld, WindowBudget

(* time.Now before the lock: a call starts to wait. *)
LEMMA StampInv ==
  ASSUME LimiterInv, NEW c \in Calls, TakeStamp(c)
  PROVE  LimiterInv'
<1>. USE LimiterAssumption DEF LimiterInv, TakeStamp
<1>1. LimiterTypeOK'
  BY Zenon DEF LimiterTypeOK
<1>2. WaitBounded'
  BY DEF LimiterTypeOK, WaitBounded
<1>3. LogSound' /\ LogOrdered' /\ ForgottenIsOld' /\ WindowBudget'
  BY Zenon DEF LogSound, LogOrdered, ForgottenIsOld, WindowBudget
<1>. QED  BY <1>1, <1>2, <1>3, Zenon

(* The entries of the log. *)
LEMMA GrantType ==
  ASSUME LimiterTypeOK, NEW k \in Keys
  PROVE  /\ Len(log[k]) \in Nat /\ DOMAIN log[k] = 1..Len(log[k])
         /\ \A i \in DOMAIN log[k] : log[k][i].at \in Nat /\ log[k][i].stamp \in Nat
<1>1. log[k] \in Seq(Grant)
  BY Zenon DEF LimiterTypeOK
<1>2. \A i \in DOMAIN log[k] : log[k][i] \in Grant
  BY <1>1
<1>3. \A i \in DOMAIN log[k] : log[k][i].at \in Nat /\ log[k][i].stamp \in Nat
  BY <1>2, Zenon DEF Grant
<1>. QED  BY <1>1, <1>3

(* Time passes only as long as no waiting call exceeds MaxDelay. *)
LEMMA TickInv == LimiterInv /\ ClockTick => LimiterInv'
<1>. SUFFICES ASSUME LimiterInv, ClockTick PROVE LimiterInv'
  OBVIOUS
<1>. USE LimiterAssumption DEF LimiterInv, ClockTick
<1>t. LimiterTypeOK
  OBVIOUS
<1>e. \A k \in Keys : \A i \in DOMAIN log[k] : log[k][i].at \in Nat /\ log[k][i].stamp \in Nat
  BY <1>t, GrantType, Zenon
<1>1. LimiterTypeOK'
  BY DEF LimiterTypeOK
<1>2. WaitBounded'
  BY <1>t DEF LimiterTypeOK, WaitBounded
<1>3. LogSound' /\ ForgottenIsOld'
  BY <1>t, <1>e DEF LimiterTypeOK, LogSound, ForgottenIsOld
<1>4. LogOrdered' /\ WindowBudget'
  BY Zenon DEF LogOrdered, WindowBudget
<1>. QED  BY <1>1, <1>2, <1>3, <1>4, Zenon

(* What is left of a key's grants: a finite set, and all that was dropped   *)
(* is a window older than the clock.                                        *)
LEMMA KeptFacts ==
  ASSUME LimiterInv, NEW c \in Calls, call[c].state = "waiting"
  PROVE  LET k == KeyOf[c]
             kept == Kept(k, call[c].stamp)
         IN /\ k \in Keys /\ Len(log[k]) \in Nat /\ DOMAIN log[k] = 1..Len(log[k])
            /\ kept \subseteq DOMAIN log[k] /\ IsFiniteSet(kept)
            /\ Cardinality(kept) \in Nat
            /\ \A i \in DOMAIN log[k] \ kept : log[k][i].stamp <= clock - Window
<1>. DEFINE k == KeyOf[c]
            kept == Kept(k, call[c].stamp)
<1>. USE LimiterAssumption DEF LimiterInv
<1>1. k \in Keys /\ log[k] \in Seq(Grant) /\ attempts[k] \subseteq DOMAIN log[k]
  BY Zenon DEF LimiterTypeOK
<1>2. Len(log[k]) \in Nat /\ DOMAIN log[k] = 1..Len(log[k])
  BY <1>1, GrantType, Zenon
<1>3. kept \subseteq DOMAIN log[k]
  BY <1>1, Zenon DEF Kept
<1>4. IsFiniteSet(kept)
  <2>1. IsFiniteSet(1..Len(log[k]))
    BY <1>2, FS_Interval
  <2>. QED  BY <1>2, <1>3, <2>1, FS_Subset, Zenon
<1>5. Cardinality(kept) \in Nat
  BY <1>4, FS_CardinalityType, Zenon
<1>6. \A i \in DOMAIN log[k] : log[k][i].stamp \in Nat
  BY <1>1, GrantType, Zenon
<1>7. call[c].stamp \in Nat /\ clock \in Nat /\ call[c].stamp <= clock
  BY Zenon DEF LimiterTypeOK, WaitBounded
<1>8. \A i \in DOMAIN log[k] \ kept : log[k][i].stamp <= clock - Window
  BY <1>1, <1>6, <1>7 DEF ForgottenIsOld, Kept
<1>. QED  BY <1>1, <1>2, <1>3, <1>4, <1>5, <1>8, Zenon

(* A grant that would come too early is refused: the PerMin grants before   *)
(* it would all be remembered.                                              *)
LEMMA GrantInBudget ==
  ASSUME LimiterInv, NEW c \in Calls, call[c].state = "waiting",
         ~Full(Kept(KeyOf[c], call[c].stamp)),
         NEW i \in DOMAIN log[KeyOf[c]], i + PerMin = Len(log[KeyOf[c]]) + 1
  PROVE  clock - log[KeyOf[c]][i].at >= Window - MaxDelay
<1>. DEFINE k == KeyOf[c]
            kept == Kept(k, call[c].stamp)
            n == Len(log[k])
<1>0. /\ k \in Keys /\ n \in Nat /\ DOMAIN log[k] = 1..n
      /\ IsFiniteSet(kept) /\ Cardinality(kept) \in Nat
      /\ \A j \in DOMAIN log[k] \ kept : log[k][j].stamp <= clock - Window
  BY KeptFacts, Zenon
<1>t. /\ log[k] \in Seq(Grant) /\ clock \in Nat
      /\ PerMin \in Nat \ {0} /\ Window \in Nat /\ MaxDelay \in Nat
  BY <1>0, LimiterAssumption, Zenon DEF LimiterInv, LimiterTypeOK
<1>e. \A j \in DOMAIN log[k] : log[k][j].at \in Nat /\ log[k][j].stamp \in Nat
  BY <1>0, GrantType, Zenon DEF LimiterInv
<1>. SUFFICES ASSUME clock - log[k][i].at < Window - MaxDelay
              PROVE  FALSE
  BY <1>t, <1>e, SMTT(20)
<1>i. i \in 1..n /\ i + PerMin = n + 1
  BY <1>0, Zenon
<1>5. ~(Cardinality(kept) >= PerMin)
  BY Zenon DEF Full
<1>. HIDE DEF k, kept, n
<1>1. i \in Nat /\ i >= 1 /\ i <= n /\ i = n + 1 - PerMin
  BY <1>0, <1>i, <1>t
<1>2. \A j \in i..n : j \in kept
  <2>. SUFFICES ASSUME NEW j \in i..n, j \notin kept
                PROVE  FALSE
    OBVIOUS
  <2>1. j \in DOMAIN log[k] /\ i \in DOMAIN log[k]
    BY <1>0, <1>1
  <2>2. log[k][i].at <= log[k][j].at /\ log[k][j].at <= log[k][j].stamp + MaxDelay
    BY <1>0, <1>1, <2>1 DEF LimiterInv, LogOrdered, LogSound
  <2>3. log[k][j].stamp <= clock - Window
    BY <1>0, <2>1, Zenon
  <2>4. log[k][i].at \in Nat /\ log[k][j].at \in Nat /\ log[k][j].stamp \in Nat
    BY <1>e, <2>1, Zenon
  <2>5. \A x, y, z, t \in Nat :
          x <= y /\ y <= z + MaxDelay /\ z <= t - Window => ~(t - x < Window - MaxDelay)
    BY LimiterAssumption
  <2>. QED  BY <1>t, <2>2, <2>3, <2>4, <2>5, Zenon
<1>3. Cardinality(i..n) = PerMin /\ IsFiniteSet(i..n)
  <2>1. i \in Int /\ n \in Int
    BY <1>0, <1>1
  <2>2. IsFiniteSet(i..n) /\ Cardinality(i..n) = IF i > n THEN 0 ELSE n - i + 1
    BY <2>1, FS_Interval, Zenon
  <2>. QED  BY <1>0, <1>1, <1>t, <2>2
<1>4. Cardinality(i..n) <= Cardinality(kept)
  BY <1>0, <1>2, FS_Subset, Zenon
<1>. QED  BY <1>0, <1>t, <1>3, <1>4, <1>5, Zenon

-----------------------------------------------------------------------------
(* The critical section refuses. *)
LEMMA RefuseInv ==
  ASSUME LimiterInv, NEW c \in Calls, call[c].state = "waiting",
         attempts' = [attempts EXCEPT ![KeyOf[c]] = Kept(KeyOf[c], call[c].stamp)],
         call' = [call EXCEPT ![c] = Verdict("refused")],
         UNCHANGED <<clock, log>>
  PROVE  LimiterInv'
<1>. DEFINE k == KeyOf[c]
            kept == Kept(k, call[c].stamp)
<1>0. /\ k \in Keys /\ kept \subseteq DOMAIN log[k]
      /\ Len(log[k]) \in Nat /\ DOMAIN log[k] = 1..Len(log[k])
      /\ \A j \in DOMAIN log[k] \ kept : log[k][j].stamp <= clock - Window
  BY KeptFacts, Zenon
<1>a. attempts' = [attempts EXCEPT ![k] = kept]
  OBVIOUS
<1>. HIDE DEF k, kept
<1>. USE DEF LimiterInv
<1>1. LimiterTypeOK'
  <2>1. call' \in [Calls -> [state : {"idle", "waiting", "allowed", "refused"}, stamp : Nat]]
    BY Zenon DEF LimiterTypeOK, Verdict
  <2>2. kept \subseteq Nat
    BY <1>0
  <2>3. attempts' \in [Keys -> SUBSET Nat] /\ \A j \in Keys : attempts'[j] \subseteq DOMAIN log[j]
    BY <1>0, <1>a, <2>2, Zenon DEF LimiterTypeOK
  <2>. QED  BY <2>1, <2>3, Zenon DEF LimiterTypeOK
<1>2. WaitBounded'
  BY Zenon DEF WaitBounded, Verdict, LimiterTypeOK
<1>3. ForgottenIsOld'
  BY <1>0, <1>a, Zenon DEF ForgottenIsOld, LimiterTypeOK
<1>4. LogSound' /\ LogOrdered' /\ WindowBudget'
  BY Zenon DEF LogSound, LogOrdered, WindowBudget
<1>. QED  BY <1>1, <1>2, <1>3, <1>4, Zenon

(* The critical section grants: one entry more in one key's log. *)
LEMMA GrantInv ==
  ASSUME LimiterInv, NEW c \in Calls, call[c].state = "waiting",
         ~Full(Kept(KeyOf[c], call[c].stamp)),
         log' = [log EXCEPT ![KeyOf[c]] =
                   Append(@, [stamp |-> call[c].stamp, at |-> clock])],
         attempts' = [attempts EXCEPT ![KeyOf[c]] =
                   Kept(KeyOf[c], call[c].stamp) \cup {Len(log[KeyOf[c]]) + 1}],
         call' = [call EXCEPT ![c] = Verdict("allowed")],
         UNCHANGED clock
  PROVE  LimiterInv'
<1>. DEFINE k == KeyOf[c]
            now == call[c].stamp
            kept == Kept(k, now)
            n == Len(log[k])
            g == [stamp |-> now, at |-> clock]
<1>0. /\ k \in Keys /\ n \in Nat /\ DOMAIN log[k] = 1..n /\ kept \subseteq DOMAIN log[k]
      /\ \A j \in DOMAIN log[k] \ kept : log[k][j].stamp <= clock - Window
  BY KeptFacts, Zenon
<1>b. \A i \in DOMAIN log[k] : i + PerMin = n + 1 => clock - log[k][i].at >= Window - MaxDelay
  BY GrantInBudget, Zenon
<1>n. /\ now \in Nat /\ clock \in Nat /\ now <= clock /\ clock <= now + MaxDelay
      /\ PerMin \in Nat \ {0} /\ Window \in Nat /\ MaxDelay \in Nat
  BY LimiterAssumption, Zenon DEF LimiterInv, LimiterTypeOK, WaitBounded
<1>l. /\ log \in [Keys -> Seq(Grant)] /\ log[k] \in Seq(Grant) /\ g \in Grant
  BY <1>0, <1>n, Zenon DEF LimiterInv, LimiterTypeOK, Grant
<1>a. /\ attempts' = [attempts EXCEPT ![k] = kept \cup {n + 1}]
      /\ log' = [log EXCEPT ![k] = Append(log[k], g)]
  BY <1>0, <1>l, Zenon
<1>e. \A j \in Keys : \A i \in DOMAIN log[j] : log[j][i].at \in Nat /\ log[j][i].stamp \in Nat
  BY GrantType, Zenon DEF LimiterInv
<1>g. g.stamp = now /\ g.at = clock
  OBVIOUS
<1>. HIDE DEF k, now, kept, n, g
<1>d. DOMAIN Append(log[k], g) = 1..(n + 1)
  BY <1>l, <1>0 DEF n
<1>f. /\ Append(log[k], g) \in Seq(Grant)
      /\ Append(log[k], g)[n + 1] = g
      /\ \A i \in 1..n : Append(log[k], g)[i] = log[k][i]
  BY <1>l, <1>0 DEF n
<1>p. /\ log' \in [Keys -> Seq(Grant)]
      /\ DOMAIN log'[k] = 1..(n + 1)
      /\ log'[k][n + 1] = g
      /\ \A i \in 1..n : log'[k][i] = log[k][i]
      /\ \A j \in Keys \ {k} : log'[j] = log[j]
  BY <1>0, <1>l, <1>a, <1>d, <1>f
<1>1. LimiterTypeOK'
  <2>1. call' \in [Calls -> [state : {"idle", "waiting", "allowed", "refused"}, stamp : Nat]]
    BY Zenon DEF LimiterInv, LimiterTypeOK, Verdict
  <2>2. attempts' \in [Keys -> SUBSET Nat] /\ attempts'[k] = kept \cup {n + 1}
    BY <1>0, <1>a DEF LimiterInv, LimiterTypeOK
  <2>3. \A j \in Keys : attempts'[j] \subseteq DOMAIN log'[j]
    BY <1>0, <1>a, <1>p, <2>2 DEF LimiterInv, LimiterTypeOK
  <2>. QED  BY <1>n, <1>p, <2>1, <2>2, <2>3, Zenon DEF LimiterTypeOK
<1>2. WaitBounded'
  BY Zenon DEF LimiterInv, WaitBounded, Verdict, LimiterTypeOK
<1>3. LogSound'
  <2>. SUFFICES ASSUME NEW j \in Keys, NEW i \in DOMAIN log'[j]
                PROVE  /\ log'[j][i].at <= clock
                       /\ log'[j][i].stamp <= log'[j][i].at
                       /\ log'[j][i].at <= log'[j][i].stamp + MaxDelay
    BY Zenon DEF LogSound
  <2>1. CASE j = k /\ i = n + 1
    BY <2>1, <1>p, <1>g, <1>n
  <2>2. CASE ~(j = k /\ i = n + 1)
    <3>1. i \in DOMAIN log[j] /\ log'[j][i] = log[j][i]
      BY <2>2, <1>p, <1>0
    <3>. QED  BY <3>1, Zenon DEF LimiterInv, LogSound
  <2>. QED  BY <2>1, <2>2, Zenon
<1>4. LogOrdered'
  <2>. SUFFICES ASSUME NEW j \in Keys, NEW h \in DOMAIN log'[j], NEW i \in DOMAIN log'[j], h <= i
                PROVE  log'[j][h].at <= log'[j][i].at
    BY Zenon DEF LogOrdered
  <2>1. CASE j = k /\ h = n + 1
    <3>1. i = n + 1
      BY <2>1, <1>p, <1>0
    <3>. QED  BY <2>1, <3>1, <1>p, <1>g, <1>n
  <2>2. CASE j = k /\ h # n + 1 /\ i = n + 1
    <3>1. h \in DOMAIN log[k] /\ log'[k][h] = log[k][h]
      BY <2>2, <1>p, <1>0
    <3>2. log[k][h].at <= clock
      BY <3>1, <1>0, Zenon DEF LimiterInv, LogSound
    <3>. QED  BY <2>2, <3>1, <3>2, <1>p, <1>g, Zenon
  <2>3. CASE ~(j = k /\ (h = n + 1 \/ i = n + 1))
    <3>1. /\ h \in DOMAIN log[j] /\ log'[j][h] = log[j][h]
          /\ i \in DOMAIN log[j] /\ log'[j][i] = log[j][i]
      BY <2>3, <1>p, <1>0
    <3>. QED  BY <3>1, Zenon DEF LimiterInv, LogOrdered
  <2>. QED  BY <2>1, <2>2, <2>3, Zenon
<1>5. ForgottenIsOld'
  <2>. SUFFICES ASSUME NEW j \in Keys, NEW i \in DOMAIN log'[j] \ attempts'[j]
                PROVE  log'[j][i].stamp <= clock - Window
    BY Zenon DEF ForgottenIsOld
  <2>1. CASE j = k
    <3>1. i \in DOMAIN log[k] \ kept /\ log'[k][i] = log[k][i]
      BY <2>1, <1>a, <1>p, <1>0 DEF LimiterInv, LimiterTypeOK
    <3>. QED  BY <2>1, <3>1, <1>0, Zenon
  <2>2. CASE j # k
    BY <2>2, <1>a, <1>p, Zenon DEF LimiterInv, ForgottenIsOld, LimiterTypeOK
  <2>. QED  BY <2>1, <2>2, Zenon
<1>6. WindowBudget'
  <2>. SUFFICES ASSUME NEW j \in Keys, NEW i \in DOMAIN log'[j], i + PerMin \in DOMAIN log'[j]
                PROVE  log'[j][i + PerMin].at - log'[j][i].at >= Window - MaxDelay
    BY Zenon DEF WindowBudget
  <2>1. CASE j = k /\ i + PerMin = n + 1
    <3>1. i \in DOMAIN log[k] /\ log'[k][i] = log[k][i]
      BY <2>1, <1>p, <1>0, <1>n
    <3>. QED  BY <2>1, <3>1, <1>p, <1>g, <1>b, Zenon
  <2>2. CASE ~(j = k /\ i + PerMin = n + 1)
    <3>1. /\ i \in DOMAIN log[j] /\ log'[j][i] = log[j][i]
          /\ i + PerMin \in DOMAIN log[j] /\ log'[j][i + PerMin] = log[j][i + PerMin]
      BY <2>2, <1>p, <1>0, <1>n, SMTT(20)
    <3>. QED  BY <3>1, Zenon DEF LimiterInv, WindowBudget
  <2>. QED  BY <2>1, <2>2, Zenon
<1>. QED  BY <1>1, <1>2, <1>3, <1>4, <1>5, <1>6, Zenon DEF LimiterInv

(* The invariant of the limiter is inductive. *)
LEMMA NextLimiter == LimiterInv /\ [LimiterNext]_limiterVars => LimiterInv'
<1>. SUFFICES ASSUME LimiterInv, [LimiterNext]_limiterVars
              PROVE  LimiterInv'
  OBVIOUS
<1>1. ASSUME NEW c \in Calls, Allow(c)
      PROVE  LimiterInv'
  BY <1>1, RefuseInv, GrantInv, Zenon DEF Allow
<1>2. CASE UNCHANGED limiterVars
  BY <1>2, Zenon DEF limiterVars, LimiterInv, LimiterTypeOK, WaitBounded, LogSound, LogOrdered,
     ForgottenIsOld, WindowBudget
<1>. QED  BY <1>1, <1>2, StampInv, TickInv, Zenon DEF LimiterNext

(* What RefusedOnlyIfSpent says of a refused call. *)
Spent(c) ==
  /\ Len(log[KeyOf[c]]) >= PerMin
  /\ clock - log[KeyOf[c]][Len(log[KeyOf[c]]) - PerMin + 1].at < Window + MaxDelay

(* PerMin positions of a log are not all among its last PerMin - 1. *)
LEMMA EarlyMember ==
  ASSUME NEW n \in Nat, NEW S \in SUBSET (1..n), NEW p \in Nat \ {0},
         Cardinality(S) >= p
  PROVE  n >= p /\ \E i \in S : i <= n - p + 1
<1>1. IsFiniteSet(1..n) /\ Cardinality(1..n) = n
  BY FS_Interval
<1>2. IsFiniteSet(S) /\ Cardinality(S) \in Nat /\ Cardinality(S) <= n
  BY <1>1, FS_Subset, FS_CardinalityType, Zenon
<1>3. n >= p
  BY <1>2
<1>4. ASSUME \A i \in S : ~(i <= n - p + 1)
      PROVE  FALSE
  <2>1. S \subseteq (n - p + 2)..n
    BY <1>3, <1>4
  <2>2. IsFiniteSet((n - p + 2)..n) /\ Cardinality((n - p + 2)..n) = p - 1
    <3>. DEFINE a == n - p + 2
    <3>1. a \in Int /\ n \in Int /\ (IF a > n THEN 0 ELSE n - a + 1) = p - 1
      BY <1>3
    <3>2. IsFiniteSet(a..n) /\ Cardinality(a..n) = IF a > n THEN 0 ELSE n - a + 1
      BY <3>1, FS_Interval, Zenon
    <3>. QED  BY <3>1, <3>2
  <2>3. Cardinality(S) <= p - 1
    BY <2>1, <2>2, FS_Subset, Zenon
  <2>. QED  BY <1>2, <2>3
<1>. QED  BY <1>3, <1>4

(* A refused caller's key got its last PerMin grants not long ago: of the   *)
(* grants that are remembered one is at least as old as all of these, and   *)
(* its stamp lies in the caller's window.                                   *)
LEMMA StepRefuses ==
  ASSUME LimiterInv, [LimiterNext]_limiterVars,
         NEW c \in Calls, call[c].state = "waiting", call'[c].state = "refused"
  PROVE  Spent(c)
<1>. DEFINE k == KeyOf[c]
            kept == Kept(k, call[c].stamp)
            n == Len(log[k])
<1>0. /\ k \in Keys /\ n \in Nat /\ DOMAIN log[k] = 1..n
      /\ kept \subseteq DOMAIN log[k] /\ IsFiniteSet(kept) /\ Cardinality(kept) \in Nat
  BY KeptFacts, Zenon
<1>1. Full(kept)
  <2>t. call \in [Calls -> [state : {"idle", "waiting", "allowed", "refused"}, stamp : Nat]]
    BY Zenon DEF LimiterInv, LimiterTypeOK
  <2>1. ASSUME NEW d \in Calls, TakeStamp(d)
        PROVE  FALSE
    BY <2>1, <2>t, Zenon DEF TakeStamp
  <2>2. ASSUME NEW d \in Calls, Allow(d), d # c
        PROVE  FALSE
    <3>1. call'[c] = call[c]
      BY <2>2, <2>t, Zenon DEF Allow
    <3>. QED  BY <3>1, Zenon
  <2>3. CASE Allow(c)
    <3>. SUFFICES ASSUME ~Full(kept)
                  PROVE  FALSE
      OBVIOUS
    <3>1. call' = [call EXCEPT ![c] = Verdict("allowed")]
      BY <2>3, Zenon DEF Allow
    <3>. QED  BY <2>t, <3>1, Zenon DEF Verdict
  <2>4. CASE ClockTick \/ UNCHANGED limiterVars
    BY <2>4, Zenon DEF ClockTick, limiterVars
  <2>. QED  BY <2>1, <2>2, <2>3, <2>4, Zenon DEF LimiterNext
<1>t. /\ call[c].stamp \in Nat /\ clock \in Nat /\ clock <= call[c].stamp + MaxDelay
      /\ PerMin \in Nat \ {0} /\ Window \in Nat /\ MaxDelay \in Nat
  BY LimiterAssumption, Zenon DEF LimiterInv, LimiterTypeOK, WaitBounded
<1>e. \A i \in DOMAIN log[k] : log[k][i].at \in Nat /\ log[k][i].stamp \in Nat
  BY <1>0, GrantType, Zenon DEF LimiterInv
<1>2. Cardinality(kept) >= PerMin
  BY <1>1, Zenon DEF Full
<1>k. \A i \in kept : log[k][i].stamp > call[c].stamp - Window
  BY Zenon DEF Kept
<1>. HIDE DEF k, kept, n
<1>3. n >= PerMin /\ \E i \in kept : i <= n - PerMin + 1
  BY <1>0, <1>t, <1>2, EarlyMember, Zenon
<1>4. PICK i \in kept : i <= n - PerMin + 1
  BY <1>3, Zenon
<1>. DEFINE j == n - PerMin + 1
<1>5. i \in DOMAIN log[k] /\ j \in DOMAIN log[k] /\ i <= j
  BY <1>0, <1>t, <1>3, <1>4
<1>6. log[k][i].stamp <= log[k][i].at /\ log[k][i].at <= log[k][j].at
  BY <1>0, <1>5, Zenon DEF LimiterInv, LogSound, LogOrdered
<1>7. log[k][i].stamp > call[c].stamp - Window
  BY <1>k, Zenon
<1>8. \A x, y, z, u, t \in Nat :
        x <= y /\ y <= z /\ x > u - Window /\ t <= u + MaxDelay => t - z < Window + MaxDelay
  BY LimiterAssumption
<1>9. clock - log[k][j].at < Window + MaxDelay
  BY <1>t, <1>e, <1>5, <1>6, <1>7, <1>8, Zenon
<1>. QED  BY <1>3, <1>9, Zenon DEF Spent, k, n

-----------------------------------------------------------------------------
(* The results about the limiter. *)

(* The invariant of the limiter's steps, for all callers together. *)
THEOREM LimiterInvariant == LimiterSpec => []LimiterInv
<1>. QED  BY InitLimiter, NextLimiter, PTL DEF LimiterSpec

(* Although every allow reads the clock before it takes the lock, PerMin+1  *)
(* grants of a key take at least a window less the longest wait.            *)
THEOREM LimiterWindowBudget == LimiterSpec => []WindowBudget
<1>1. LimiterInv => WindowBudget
  BY Zenon DEF LimiterInv
<1>. QED  BY <1>1, LimiterInvariant, PTL

(* allow refuses only a caller whose key got PerMin grants within a window  *)
(* and the longest wait.                                                    *)
THEOREM LimiterRefusals == LimiterSpec => RefusedOnlyIfSpent
<1>1. LimiterInv /\ [LimiterNext]_limiterVars =>
        [\A c \in Calls :
           LET granted == log[KeyOf[c]] IN
           call[c].state = "waiting" /\ call'[c].state = "refused" =>
             /\ Len(granted) >= PerMin
             /\ clock - granted[Len(granted) - PerMin + 1].at < Window + MaxDelay]_limiterVars
  BY StepRefuses, Zenon DEF Spent
<1>. QED  BY <1>1, LimiterInvariant, PTL DEF LimiterSpec, RefusedOnlyIfSpent

-----------------------------------------------------------------------------
(* Federation.  The inductive invariant. *)

EntriesOf(c) == {e \in mailbox : e.call = c}

(* A frame is forwarded once it was allowed, as a sealed envelope, and only *)
(* if its recipient is not local where it arrived.                          *)
ForwardedOnce ==
  \A c \in Calls : post[c] # "none" =>
    /\ call[c].state = "allowed"
    /\ ~Local(Recipient(c), Origin(c))
    /\ Decode(Payload[c], SealedFields) # {}

(* An envelope that is in a mailbox is not under way any more. *)
DepositedOnce ==
  \A c \in Requests : copies[c] > 0 =>
    /\ post[c] \in {"none", "handled"}
    /\ c \in Calls => call[c].state = "allowed"

(* The history counts what is in the mailboxes. *)
CopiesCount ==
  \A c \in Requests : \/ copies[c] = 0 /\ EntriesOf(c) = {}
                      \/ copies[c] = 1 /\ \E e \in mailbox : EntriesOf(c) = {e}

FedInv ==
  /\ LimiterInv
  /\ FedTypeOK
  /\ ForwardedOnce
  /\ DepositedOnce
  /\ CopiesCount
  /\ RightMailbox
  /\ RepliesReachSender
  /\ ForwardedIsTaken

(* What RightMailbox says of one entry. *)
RightEntry(e) ==
  LET d == Recipient(e.call).domain IN
  /\ e.name = SessionName(Recipient(e.call), e.relay)
  /\ d = NoAddr /\ e.call \in Calls => e.relay = Origin(e.call)
  /\ d # NoAddr /\ WellConfigured(e.relay) =>
       /\ Listens[e.relay].host = d.host
       /\ d.port # NoPort => e.relay \in Reached(d)

(* RightMailbox, entry by entry. *)
LEMMA RightEntries == RightMailbox <=> \A e \in mailbox : RightEntry(e)
BY Zenon DEF RightMailbox, RightEntry

-----------------------------------------------------------------------------
(* The limiter inside. *)

(* Every step of federation is a step of the limiter or leaves it alone. *)
LEMMA StepIsLimiterStep == [Next]_vars => [LimiterNext]_limiterVars
BY Zenon DEF Next, vars, LimiterNext, RouteBegin, Route, LosePost, PostTimesOut,
   HandleFederationDeliver, TimePasses

(* Route, the goroutines of forwardFederated and the handlers of several    *)
(* relays leave the limiter to allow, the only function that uses its map.  *)
THEOREM FederationImplementsLimiter == Spec => LimiterSpec
<1>1. Init => LimiterInit
  BY Zenon DEF Init
<1>. QED  BY <1>1, StepIsLimiterStep, PTL DEF Spec, LimiterSpec

-----------------------------------------------------------------------------
(* A call is made at one of the relays. *)
LEMMA OriginType ==
  ASSUME NEW c \in Calls
  PROVE  Origin(c) \in Relays
BY LimiterAssumption, FederationAssumption, Zenon DEF Origin

(* An envelope that Route or handleFederationDeliver has decoded. *)
Decoded == [sealed : BOOLEAN, fields : SUBSET (SealedFields \cup OpenFields),
            sender : SenderRelay]

(* What decodes has only known fields, and the sender the client wrote. *)
LEMMA DecodeType ==
  ASSUME NEW c \in Requests, NEW fields \in {SealedFields, OpenFields},
         NEW e \in Decode(Payload[c], fields)
  PROVE  /\ e \in Decoded
         /\ e.sealed => fields = SealedFields
<1>1. e = [sealed |-> fields = SealedFields, fields |-> Payload[c].fields \cap fields,
           sender |-> IF "federation_sender_relay" \in Payload[c].fields \cap fields
                      THEN Payload[c].sender ELSE NoAddr]
  BY Zenon DEF Decode
<1>2. Payload[c].sender \in SenderRelay /\ NoAddr \in SenderRelay
  BY Zenon DEF SenderRelay
<1>. QED  BY <1>1, <1>2, Zenon DEF Decoded

(* So does what Route delivers; it is sealed only if it decodes so. *)
LEMMA EnvelopeType ==
  ASSUME NEW c \in Requests, NEW e \in Envelope(Payload[c])
  PROVE  /\ e \in Decoded
         /\ e.sealed => Decode(Payload[c], SealedFields) # {}
<1>1. OpenFields # SealedFields
  BY DEF OpenFields, SealedFields
<1>2. CASE Decode(Payload[c], SealedFields) # {}
  BY <1>2, DecodeType, Zenon DEF Envelope
<1>3. CASE Decode(Payload[c], SealedFields) = {}
  BY <1>1, <1>3, DecodeType, Zenon DEF Envelope
<1>. QED  BY <1>2, <1>3, Zenon

(* A relay reaches itself under the address it listens at. *)
LEMMA ReachesItself ==
  ASSUME NEW r \in Relays
  PROVE  r \in Reached(Listens[r])
BY FederationAssumption, Zenon DEF Reached

(* The name of a local recipient is the one its sessions use, and a relay   *)
(* that knows its address is where the domain leads.                        *)
LEMMA LocalName ==
  ASSUME NEW c \in Requests, NEW r \in Relays, Local(Recipient(c), r)
  PROVE  /\ SessionName(Recipient(c), r) = [user |-> Payload[c].user, domain |-> NoAddr]
         /\ Recipient(c).domain # NoAddr /\ WellConfigured(r) =>
              /\ Listens[r].host = Recipient(c).domain.host
              /\ Recipient(c).domain.port # NoPort => r \in Reached(Recipient(c).domain)
<1>1. SessionName(Recipient(c), r) = [user |-> Payload[c].user, domain |-> NoAddr]
  BY Zenon DEF SessionName, Recipient
<1>. DEFINE d == Recipient(c).domain
<1>2. d # NoAddr => d.host = RelayID[r].host /\ (d.port = NoPort \/ d.port = RelayID[r].port)
  BY Zenon DEF Local, isLocalRelay
<1>. HIDE DEF d
<1>3. d # NoAddr /\ WellConfigured(r) =>
        Listens[r].host = d.host /\ (d.port # NoPort => r \in Reached(d))
  BY <1>2, Zenon DEF WellConfigured, Reached
<1>. QED  BY <1>1, <1>3, Zenon DEF d

(* The mailboxes hold what they held, and an envelope of request c. *)
OneMore(c, sender) ==
  \A y \in mailbox' : \/ y \in mailbox /\ y.call # c
                      \/ y.call = c /\ y.sender = sender

(* A deposit of an envelope that was in no mailbox. *)
LEMMA DepositKeeps ==
  ASSUME FedInv, NEW c \in Requests, copies[c] = 0, NEW r \in Relays,
         Local(Recipient(c), r),
         NEW e \in Decoded,
         Recipient(c).domain = NoAddr /\ c \in Calls => r = Origin(c),
         Deposit(r, c, e)
  PROVE  /\ mailbox' \subseteq Entry
         /\ copies' \in [Requests -> Nat]
         /\ copies' = [copies EXCEPT ![c] = 1]
         /\ CopiesCount'
         /\ RightMailbox'
         /\ OneMore(c, e.sender)
<1>. DEFINE n == [user |-> Payload[c].user, domain |-> NoAddr]
            x == [relay |-> r, call |-> c, name |-> n, fields |-> e.fields,
                  sender |-> e.sender]
<1>t. mailbox \subseteq Entry /\ copies \in [Requests -> Nat]
  BY Zenon DEF FedInv, FedTypeOK
<1>n. n \in Name
  BY Zenon DEF Name
<1>x. x \in Entry
  BY <1>n, Zenon DEF Entry, Decoded
<1>f. x.relay = r /\ x.call = c /\ x.name = n /\ x.sender = e.sender
  OBVIOUS
<1>d. mailbox' = mailbox \cup {x} /\ copies' = [copies EXCEPT ![c] = 1]
  BY <1>t DEF Deposit
<1>. HIDE DEF x, n
<1>1. mailbox' \subseteq Entry /\ copies' \in [Requests -> Nat]
  BY <1>t, <1>x, <1>d, Zenon
<1>e. EntriesOf(c) = {}
  BY DEF FedInv, CopiesCount
<1>2. CopiesCount'
  <2>2. EntriesOf(c)' = {x} /\ x \in mailbox'
    BY <1>d, <1>f, <1>e, Zenon DEF EntriesOf
  <2>3. \A d \in Requests \ {c} : EntriesOf(d)' = EntriesOf(d) /\ copies'[d] = copies[d]
    BY <1>d, <1>f, <1>t, Zenon DEF EntriesOf
  <2>4. copies'[c] = 1
    BY <1>d, <1>t, Zenon
  <2>5. mailbox \subseteq mailbox'
    BY <1>d, Zenon
  <2>. QED  BY <2>2, <2>3, <2>4, <2>5, Zenon DEF FedInv, CopiesCount
<1>3. RightEntry(x)
  BY <1>f, LocalName, Zenon DEF RightEntry, n
<1>4. RightMailbox'
  <2>1. \A y \in mailbox' : RightEntry(y)
    BY <1>3, <1>d, RightEntries, Zenon DEF FedInv
  <2>. QED  BY <2>1, Zenon DEF RightMailbox, RightEntry
<1>5. OneMore(c, e.sender)
  BY <1>d, <1>e, <1>f, Zenon DEF EntriesOf, OneMore
<1>. QED  BY <1>1, <1>2, <1>4, <1>5, <1>d, Zenon

-----------------------------------------------------------------------------
(* Only a call without a verdict moves in the limiter. *)
LEMMA CallMoves ==
  ASSUME LimiterTypeOK, NEW c \in Calls, TakeStamp(c) \/ Allow(c)
  PROVE  /\ call[c].state # "allowed"
         /\ \A d \in Calls \ {c} : call'[d] = call[d]
BY Zenon DEF LimiterTypeOK, TakeStamp, Allow

(* Route takes a frame up. *)
LEMMA RouteBeginInv ==
  ASSUME FedInv, LimiterInv', NEW c \in Calls, RouteBegin(c)
  PROVE  FedInv'
<1>1. /\ call[c].state # "allowed" /\ c \in Requests
      /\ \A d \in Calls \ {c} : call'[d] = call[d]
      /\ UNCHANGED <<post, mailbox, copies>>
  BY CallMoves, Zenon DEF FedInv, FedTypeOK, RouteBegin, fedVars, Requests
<1>2. FedTypeOK'
  BY <1>1, Zenon DEF FedInv, FedTypeOK, LimiterInv
<1>3. ForwardedOnce' /\ DepositedOnce'
  BY <1>1, Zenon DEF FedInv, ForwardedOnce, DepositedOnce
<1>4. CopiesCount' /\ RightMailbox' /\ RepliesReachSender' /\ ForwardedIsTaken'
  BY <1>1, Zenon DEF FedInv, CopiesCount, EntriesOf, RightMailbox, RepliesReachSender,
     ForwardedIsTaken
<1>. QED  BY <1>2, <1>3, <1>4, Zenon DEF FedInv

(* The verdict, and what Route does with an allowed frame. *)
LEMMA RouteInv ==
  ASSUME FedInv, LimiterInv', NEW c \in Calls, Route(c)
  PROVE  FedInv'
<1>t. /\ post \in [Requests -> {"none", "sent", "late", "handled", "lost"}]
      /\ mailbox \subseteq Entry /\ copies \in [Requests -> Nat]
  BY Zenon DEF FedInv, FedTypeOK
<1>1. /\ call[c].state # "allowed" /\ c \in Requests
      /\ \A d \in Calls \ {c} : call'[d] = call[d]
  BY CallMoves, Zenon DEF FedInv, FedTypeOK, Route, Requests
<1>2. post[c] = "none" /\ copies[c] = 0
  BY <1>1, <1>t DEF FedInv, ForwardedOnce, DepositedOnce
<1>3. CASE UNCHANGED fedVars
  <2>1. FedTypeOK'
    BY <1>3, Zenon DEF FedInv, FedTypeOK, LimiterInv, fedVars
  <2>2. ForwardedOnce' /\ DepositedOnce'
    BY <1>1, <1>2, <1>3, Zenon DEF FedInv, ForwardedOnce, DepositedOnce, fedVars
  <2>3. CopiesCount' /\ RightMailbox' /\ RepliesReachSender' /\ ForwardedIsTaken'
    BY <1>3, Zenon DEF FedInv, CopiesCount, EntriesOf, RightMailbox, RepliesReachSender,
       ForwardedIsTaken, fedVars
  <2>. QED  BY <2>1, <2>2, <2>3, Zenon DEF FedInv
<1>4. ASSUME call'[c].state = "allowed", NEW e \in Envelope(Payload[c]),
             Deliver(Origin(c), c, e)
      PROVE  FedInv'
  <2>1. CASE Local(Recipient(c), Origin(c))
    <3>1. Deposit(Origin(c), c, e) /\ UNCHANGED post
      BY <1>4, <2>1, Zenon DEF Deliver
    <3>2. /\ mailbox' \subseteq Entry /\ copies' \in [Requests -> Nat]
          /\ copies' = [copies EXCEPT ![c] = 1] /\ CopiesCount' /\ RightMailbox'
          /\ OneMore(c, e.sender)
      <4>1. e \in Decoded
        BY <1>1, <1>4, EnvelopeType, Zenon
      <4>2. Origin(c) \in Relays
        BY OriginType, Zenon
      <4>. QED  BY <1>1, <1>2, <2>1, <3>1, <4>1, <4>2, DepositKeeps, Zenon
    <3>3. FedTypeOK'
      BY <1>t, <3>1, <3>2, Zenon DEF FedTypeOK, LimiterInv
    <3>4. ForwardedOnce' /\ DepositedOnce'
      BY <1>1, <1>2, <1>4, <1>t, <3>1, <3>2, Zenon DEF FedInv, ForwardedOnce, DepositedOnce
    <3>5. ForwardedIsTaken'
      BY <1>1, <1>t, <3>1, <3>2 DEF FedInv, ForwardedIsTaken
    <3>6. RepliesReachSender'
      BY <1>2, <3>1, <3>2, Zenon DEF FedInv, RepliesReachSender, OneMore
    <3>. QED  BY <3>2, <3>3, <3>4, <3>5, <3>6, Zenon DEF FedInv
  <2>2. CASE ~Local(Recipient(c), Origin(c))
    <3>1. /\ \/ post' = post
             \/ /\ post' = [post EXCEPT ![c] = "sent"]
                /\ Decode(Payload[c], SealedFields) # {}
          /\ UNCHANGED <<mailbox, copies>>
      BY <1>1, <1>4, <2>2, EnvelopeType, Zenon DEF Deliver
    <3>2. FedTypeOK'
      BY <1>t, <3>1, Zenon DEF FedTypeOK, LimiterInv
    <3>3. ForwardedOnce' /\ DepositedOnce'
      <4>. DEFINE Same(d) == post'[d] = post[d] /\ copies'[d] = copies[d]
      <4>1. \A d \in Requests \ {c} : Same(d)
        BY <1>t, <3>1, Zenon
      <4>2. /\ copies'[c] = 0
            /\ post'[c] # "none" => Decode(Payload[c], SealedFields) # {}
        BY <1>2, <3>1, Zenon
      <4>3. \A d \in Calls : d \in Requests
        BY Zenon DEF Requests
      <4>4. ForwardedOnce'
        BY <1>1, <1>4, <2>2, <4>1, <4>2, <4>3, Zenon DEF FedInv, ForwardedOnce
      <4>5. DepositedOnce'
        BY <1>1, <4>1, <4>2 DEF FedInv, DepositedOnce
      <4>. QED  BY <4>4, <4>5
    <3>4. CopiesCount' /\ RightMailbox'
      BY <3>1, Zenon DEF FedInv, CopiesCount, EntriesOf, RightMailbox
    <3>5. ForwardedIsTaken' /\ RepliesReachSender'
      BY <1>1, <1>t, <3>1, Zenon DEF FedInv, ForwardedIsTaken, RepliesReachSender, Requests
    <3>. QED  BY <3>2, <3>3, <3>4, <3>5, Zenon DEF FedInv
  <2>. QED  BY <2>1, <2>2, Zenon
<1>. QED  BY <1>3, <1>4, Zenon DEF Route

(* A request gets lost, or its goroutine stops waiting. *)
LEMMA PostInv ==
  ASSUME FedInv, LimiterInv', NEW c \in Requests, LosePost(c) \/ PostTimesOut(c)
  PROVE  FedInv'
<1>t. /\ post \in [Requests -> {"none", "sent", "late", "handled", "lost"}]
      /\ mailbox \subseteq Entry /\ copies \in [Requests -> Nat]
  BY Zenon DEF FedInv, FedTypeOK
<1>1. /\ post[c] \in {"sent", "late"}
      /\ post' \in {[post EXCEPT ![c] = "lost"], [post EXCEPT ![c] = "late"]}
      /\ UNCHANGED <<call, mailbox, copies>>
  BY Zenon DEF LosePost, PostTimesOut, limiterVars
<1>2. FedTypeOK'
  BY <1>t, <1>1, Zenon DEF FedTypeOK, LimiterInv
<1>3. ForwardedOnce' /\ DepositedOnce'
  BY <1>t, <1>1, Zenon DEF FedInv, ForwardedOnce, DepositedOnce, Requests
<1>4. CopiesCount' /\ RightMailbox'
  BY <1>1, Zenon DEF FedInv, CopiesCount, EntriesOf, RightMailbox
<1>5. ForwardedIsTaken' /\ RepliesReachSender'
  BY <1>t, <1>1 DEF FedInv, ForwardedIsTaken, RepliesReachSender, Entry, Requests
<1>. QED  BY <1>2, <1>3, <1>4, <1>5, Zenon DEF FedInv

(* The addressed relay takes the request, or drops it. *)
LEMMA HandleInv ==
  ASSUME FedInv, LimiterInv', NEW c \in Requests, NEW r \in Relays,
         HandleFederationDeliver(c, r)
  PROVE  FedInv'
<1>t. /\ post \in [Requests -> {"none", "sent", "late", "handled", "lost"}]
      /\ mailbox \subseteq Entry /\ copies \in [Requests -> Nat]
  BY Zenon DEF FedInv, FedTypeOK
<1>. DEFINE Taken == /\ Header(c) # NoAddr
                     /\ Decode(Payload[c], SealedFields) # {}
                     /\ Local(Recipient(c), r)
<1>1. /\ post[c] \in {"sent", "late"}
      /\ c \in Calls => r \in Reached(Payload[c].domain)
      /\ post' = [post EXCEPT ![c] = "handled"] /\ UNCHANGED call
  BY Zenon DEF HandleFederationDeliver, limiterVars
<1>2. /\ copies[c] = 0
      /\ c \in Calls => /\ call[c].state = "allowed" /\ ~Local(Recipient(c), Origin(c))
                        /\ Decode(Payload[c], SealedFields) # {}
  BY <1>1, <1>t DEF FedInv, ForwardedOnce, DepositedOnce
<1>3. c \in Calls => Recipient(c).domain # NoAddr
  BY <1>2, Zenon DEF Local
<1>h. /\ c \in Calls => Header(c) = RelayID[Origin(c)]
      /\ Header(c) \in SenderRelay
  BY OriginType, FederationAssumption, Zenon DEF Header, SenderRelay, Requests
<1>4. CASE Taken
  <2>1. PICK e \in Decode(Payload[c], SealedFields) : Deposit(r, c, Stamp(e, Header(c)))
    BY <1>4, Zenon DEF HandleFederationDeliver
  <2>0. /\ Stamp(e, Header(c)) \in Decoded
        /\ Stamp(e, Header(c)).sender = Header(c)
    <3>1. e \in Decoded
      BY DecodeType, Zenon
    <3>2. "federation_sender_relay" \in SealedFields
      BY DEF SealedFields
    <3>. QED  BY <1>h, <3>1, <3>2, Zenon DEF Stamp, Decoded
  <2>3. /\ mailbox' \subseteq Entry /\ copies' \in [Requests -> Nat]
        /\ copies' = [copies EXCEPT ![c] = 1] /\ CopiesCount' /\ RightMailbox'
        /\ OneMore(c, Header(c))
    <3>. DEFINE x == Stamp(e, Header(c))
    <3>1. x \in Decoded
          /\ x.sender = Header(c) /\ Deposit(r, c, x)
      BY <2>0, <2>1, Zenon
    <3>2. Local(Recipient(c), r) /\ (Recipient(c).domain = NoAddr /\ c \in Calls => r = Origin(c))
      BY <1>3, <1>4, Zenon
    <3>. HIDE DEF x
    <3>3. /\ mailbox' \subseteq Entry /\ copies' \in [Requests -> Nat]
          /\ copies' = [copies EXCEPT ![c] = 1] /\ CopiesCount' /\ RightMailbox'
          /\ OneMore(c, x.sender)
      BY <1>2, <3>1, <3>2, DepositKeeps, Zenon
    <3>. QED  BY <3>1, <3>3, Zenon
  <2>4. FedTypeOK'
    BY <1>t, <1>1, <2>3, Zenon DEF FedTypeOK, LimiterInv
  <2>5. ForwardedOnce' /\ DepositedOnce'
    BY <1>t, <1>1, <1>2, <2>3, Zenon DEF FedInv, ForwardedOnce, DepositedOnce, Requests
  <2>6. ForwardedIsTaken'
    BY <1>t, <1>1, <2>3 DEF FedInv, ForwardedIsTaken, Requests
  <2>7. RepliesReachSender'
    <3>. SUFFICES ASSUME NEW y \in mailbox', y.call \in Calls, post'[y.call] = "handled"
                  PROVE  /\ y.sender = RelayID[Origin(y.call)]
                         /\ WellConfigured(Origin(y.call)) =>
                              Origin(y.call) \in Reached(y.sender)
      BY Zenon DEF RepliesReachSender
    <3>1. CASE y.call = c
      <4>1. y.sender = RelayID[Origin(c)]
        BY <1>h, <2>3, <3>1, Zenon DEF OneMore
      <4>2. WellConfigured(Origin(c)) => Origin(c) \in Reached(y.sender)
        BY <3>1, <4>1, OriginType, ReachesItself, Zenon DEF WellConfigured
      <4>. QED  BY <3>1, <4>1, <4>2, Zenon
    <3>2. CASE y.call # c
      <4>1. y \in mailbox /\ post[y.call] = "handled"
        BY <1>t, <1>1, <2>3, <3>2, Zenon DEF Requests, OneMore
      <4>. QED  BY <4>1, Zenon DEF FedInv, RepliesReachSender
    <3>. QED  BY <3>1, <3>2, Zenon
  <2>. QED  BY <2>3, <2>4, <2>5, <2>6, <2>7, Zenon DEF FedInv
<1>5. CASE ~Taken
  <2>1. UNCHANGED <<mailbox, copies>>
    BY <1>5, Zenon DEF HandleFederationDeliver
  <2>2. FedTypeOK'
    BY <1>t, <1>1, <2>1, Zenon DEF FedTypeOK, LimiterInv
  <2>3. ForwardedOnce' /\ DepositedOnce'
    BY <1>t, <1>1, <1>2, <2>1, Zenon DEF FedInv, ForwardedOnce, DepositedOnce, Requests
  <2>4. CopiesCount' /\ RightMailbox'
    BY <2>1, Zenon DEF FedInv, CopiesCount, EntriesOf, RightMailbox
  <2>5. c \in Calls => ~(WellConfigured(Origin(c)) /\ WellConfigured(r))
    <3>. SUFFICES ASSUME c \in Calls, WellConfigured(Origin(c)), WellConfigured(r)
                  PROVE  FALSE
      BY Zenon
    <3>1. Header(c) # NoAddr
      <4>1. Listens[Origin(c)].port # NoPort
        BY OriginType, FederationAssumption, Zenon
      <4>. QED  BY <1>h, <4>1 DEF WellConfigured, NoAddr
    <3>2. Local(Recipient(c), r)
      BY <1>1, Zenon DEF WellConfigured, Reached, Local, isLocalRelay, Recipient
    <3>. QED  BY <1>2, <1>5, <3>1, <3>2, Zenon
  <2>6. ForwardedIsTaken'
    BY <1>t, <1>1, <2>1, <2>5, Zenon DEF FedInv, ForwardedIsTaken, Requests
  <2>7. RepliesReachSender'
    <3>1. \A y \in mailbox : y.call # c
      BY <1>2 DEF FedInv, CopiesCount, EntriesOf
    <3>. QED  BY <1>t, <1>1, <2>1, <3>1, Zenon DEF FedInv, RepliesReachSender, Requests
  <2>. QED  BY <2>2, <2>3, <2>4, <2>6, <2>7, Zenon DEF FedInv
<1>. QED  BY <1>4, <1>5, Zenon

(* Only foreign requests are under way at first. *)
LEMMA InitFed == Init => FedInv
<1>. SUFFICES ASSUME Init PROVE FedInv
  OBVIOUS
<1>1. LimiterInv /\ LimiterTypeOK
  BY InitLimiter, Zenon DEF Init, LimiterInv
<1>2. FedTypeOK
  BY <1>1, Zenon DEF Init, FedTypeOK
<1>p. \A c \in Calls : post[c] = "none"
  BY FederationAssumption, Zenon DEF Init, Requests
<1>3. /\ ForwardedOnce /\ DepositedOnce /\ RightMailbox /\ RepliesReachSender
      /\ ForwardedIsTaken
  BY <1>p DEF Init, ForwardedOnce, DepositedOnce, RightMailbox, RepliesReachSender,
         ForwardedIsTaken
<1>4. CopiesCount
  BY Zenon DEF Init, CopiesCount, EntriesOf
<1>. QED  BY <1>1, <1>2, <1>3, <1>4, Zenon DEF FedInv

(* The invariant of federation is inductive. *)
LEMMA NextFed == FedInv /\ [Next]_vars => FedInv'
<1>. SUFFICES ASSUME FedInv, [Next]_vars PROVE FedInv'
  OBVIOUS
<1>1. LimiterInv'
  BY StepIsLimiterStep, NextLimiter, Zenon DEF FedInv
<1>2. CASE UNCHANGED <<call, fedVars>>
  <2>1. FedTypeOK'
    BY <1>1, <1>2, Zenon DEF FedInv, FedTypeOK, LimiterInv, fedVars
  <2>2. ForwardedOnce' /\ DepositedOnce' /\ CopiesCount'
    BY <1>2, Zenon DEF FedInv, ForwardedOnce, DepositedOnce, CopiesCount, EntriesOf, fedVars
  <2>3. RightMailbox' /\ RepliesReachSender' /\ ForwardedIsTaken'
    BY <1>2, Zenon DEF FedInv, RightMailbox, RepliesReachSender, ForwardedIsTaken, fedVars
  <2>. QED  BY <1>1, <2>1, <2>2, <2>3, Zenon DEF FedInv
<1>3. CASE TimePasses
  BY <1>2, <1>3, Zenon DEF TimePasses, ClockTick
<1>4. CASE UNCHANGED vars
  BY <1>2, <1>4, Zenon DEF vars, limiterVars
<1>. QED  BY <1>1, <1>3, <1>4, RouteBeginInv, RouteInv, PostInv, HandleInv, Zenon
          DEF Next, Requests

-----------------------------------------------------------------------------
(* The results. *)

(* The invariant holds whatever gets lost, is late or is refused. *)
THEOREM FederationInvariant == Spec => []FedInv
<1>. QED  BY InitFed, NextFed, PTL DEF Spec

(* The state of limiter, requests and mailboxes keeps its type. *)
THEOREM FederationTypeCorrect == Spec => []FedTypeOK
<1>1. FedInv => FedTypeOK
  BY Zenon DEF FedInv
<1>. QED  BY <1>1, FederationInvariant, PTL

(* Every frame, delivered by deliver or by handleFederationDeliver of       *)
(* another relay, is delivered at most once.                                *)
THEOREM FederationAtMostOnce == Spec => []AtMostOnce
<1>1. FedInv => AtMostOnce
  <2>. SUFFICES ASSUME FedInv, NEW c \in Requests
                PROVE  copies[c] <= 1 /\ Cardinality(EntriesOf(c)) = copies[c]
    BY Zenon DEF AtMostOnce, EntriesOf
  <2>1. CASE copies[c] = 0 /\ EntriesOf(c) = {}
    BY <2>1, FS_EmptySet
  <2>2. CASE copies[c] = 1 /\ \E e \in mailbox : EntriesOf(c) = {e}
    <3>1. PICK e : EntriesOf(c) = {e}
      BY <2>2, Zenon
    <3>2. Cardinality({e}) = 1
      BY FS_Singleton, Zenon
    <3>. QED  BY <2>2, <3>1, <3>2
  <2>. QED  BY <2>1, <2>2, Zenon DEF FedInv, CopiesCount
<1>. QED  BY <1>1, FederationInvariant, PTL

(* What deliver and handleFederationDeliver take for local is in a mailbox  *)
(* the recipient reads, at the relay that the recipient's domain leads to,  *)
(* if that relay knows its own address.                                     *)
THEOREM FederationRightMailbox == Spec => []RightMailbox
<1>1. FedInv => RightMailbox
  BY Zenon DEF FedInv
<1>. QED  BY <1>1, FederationInvariant, PTL

(* handleFederationDeliver tells the recipient of a forwarded envelope the  *)
(* relay of its sender, and a reply sent there arrives at that relay.       *)
THEOREM FederationReplies == Spec => []RepliesReachSender
<1>1. FedInv => RepliesReachSender
  BY Zenon DEF FedInv
<1>. QED  BY <1>1, FederationInvariant, PTL

(* forwardFederated and handleFederationDeliver agree on whose a recipient  *)
(* is, when relays know their own address.                                  *)
THEOREM FederationForwardedIsTaken == Spec => []ForwardedIsTaken
<1>1. FedInv => ForwardedIsTaken
  BY Zenon DEF FedInv
<1>. QED  BY <1>1, FederationInvariant, PTL

(* The limiter's budget, with frames as its callers. *)
THEOREM FederationWindowBudget == Spec => []WindowBudget
<1>. QED  BY FederationImplementsLimiter, LimiterWindowBudget, PTL

(* Route refuses a frame only when its sender got PerMin grants within a    *)
(* window and the longest wait.                                             *)
THEOREM FederationRefusals == Spec => RefusedOnlyIfSpent
<1>. QED  BY FederationImplementsLimiter, LimiterRefusals, PTL

=============================================================================
