----------------------------- MODULE RateLimiter -----------------------------
(***************************************************************************)
(* The sliding-window limiter that exists three times in the code:         *)
(* rateLimiter.allow (ratelimit.go), Router.allow (router.go) and          *)
(* authLimiter.allow (auth.go).                                            *)
(*                                                                         *)
(* All three read the clock before they take the lock, so calls enter the  *)
(* critical section in another order than their time stamps.  Between the  *)
(* two steps at most MaxDelay units of time pass (a goroutine waiting for  *)
(* the mutex).                                                             *)
(*                                                                         *)
(* `log' is history: the grants of a key, each with the time stamp it was  *)
(* given and the time it was given at.  The slice attempts[key] is         *)
(* modelled by the positions of its elements in log[key]; the code only    *)
(* filters it, appends to it and takes its length.                         *)
(***************************************************************************)
EXTENDS Integers, Sequences, FiniteSets

CONSTANTS
  Calls,      \* calls of allow, each made once
  Keys,       \* user ids or addresses
  KeyOf,      \* the key of a call
  PerMin,     \* grants per window
  Window,     \* time.Minute
  MaxDelay,   \* bound on the wait for the lock
  MaxTime     \* bound on the clock

ASSUME LimiterAssumption ==
  /\ KeyOf \in [Calls -> Keys]
  /\ PerMin \in Nat \ {0}
  /\ Window \in Nat \ {0}
  /\ MaxDelay \in Nat
  /\ MaxTime \in Nat

VARIABLES
  clock,      \* time.Now()
  call,       \* where a call is, and its time stamp
  attempts,   \* the map: for every key the grants it still remembers
  log         \* history: all grants of a key, in order

limiterVars == <<clock, call, attempts, log>>

Grant == [stamp : Nat, at : Nat]

LimiterTypeOK ==
  /\ clock \in Nat
  /\ call \in [Calls -> [state : {"idle", "waiting", "allowed", "refused"}, stamp : Nat]]
  /\ log \in [Keys -> Seq(Grant)]
  /\ attempts \in [Keys -> SUBSET Nat]
  /\ \A k \in Keys : attempts[k] \subseteq DOMAIN log[k]

-----------------------------------------------------------------------------
(* Wrong variants of definitions below. *)

(* len(kept) > perMin *)
Full_bug(kept) == Cardinality(kept) > PerMin

(* The cutoff lies two windows back. *)
Kept_bug(k, now) == {i \in attempts[k] : log[k][i].stamp > now - 2 * Window}

(* The cutoff is recorded. *)
TakeStamp_bug(c) ==
  /\ call[c].state = "idle"
  /\ call' = [call EXCEPT ![c] = [state |-> "waiting", stamp |-> clock - Window]]
  /\ UNCHANGED <<clock, attempts, log>>

-----------------------------------------------------------------------------
(* now := time.Now(), before the lock. *)
TakeStamp(c) ==
  /\ call[c].state = "idle"
  /\ call' = [call EXCEPT ![c] = [state |-> "waiting", stamp |-> clock]]
  /\ UNCHANGED <<clock, attempts, log>>

(* t.After(cutoff) *)
Kept(k, now) == {i \in attempts[k] : log[k][i].stamp > now - Window}

Full(kept) == Cardinality(kept) >= PerMin

Verdict(v) == [state |-> v, stamp |-> 0]

(* The critical section. *)
Allow(c) ==
  LET k == KeyOf[c]
      now == call[c].stamp
      kept == Kept(k, now)
  IN /\ call[c].state = "waiting"
     /\ \/ /\ Full(kept)
           /\ attempts' = [attempts EXCEPT ![k] = kept]
           /\ call' = [call EXCEPT ![c] = Verdict("refused")]
           /\ UNCHANGED log
        \/ /\ ~Full(kept)
           /\ log' = [log EXCEPT ![k] = Append(@, [stamp |-> now, at |-> clock])]
           /\ attempts' = [attempts EXCEPT ![k] = kept \cup {Len(log[k]) + 1}]
           /\ call' = [call EXCEPT ![c] = Verdict("allowed")]
     /\ UNCHANGED clock

(* Time passes, but no call waits for the lock longer than MaxDelay. *)
ClockTick ==
  /\ clock < MaxTime
  /\ \A c \in Calls : call[c].state = "waiting" => clock < call[c].stamp + MaxDelay
  /\ clock' = clock + 1
  /\ UNCHANGED <<call, attempts, log>>

LimiterInit ==
  /\ clock = 0
  /\ call = [c \in Calls |-> [state |-> "idle", stamp |-> 0]]
  /\ attempts = [k \in Keys |-> {}]
  /\ log = [k \in Keys |-> << >>]

LimiterNext ==
  \/ \E c \in Calls : TakeStamp(c) \/ Allow(c)
  \/ ClockTick

LimiterSpec == LimiterInit /\ [][LimiterNext]_limiterVars

-----------------------------------------------------------------------------
(* What the limiter guarantees although stamps are taken before the lock: a *)
(* grant and the one PerMin grants later are at least a window apart, less  *)
(* the longest wait for the lock (router.go:42-61, ratelimit.go:29-46).     *)
WindowBudget ==
  \A k \in Keys : \A i \in DOMAIN log[k] :
    i + PerMin \in DOMAIN log[k] =>
      log[k][i + PerMin].at - log[k][i].at >= Window - MaxDelay

(* A refusal means that the key really got its PerMin grants not long ago:  *)
(* the last PerMin of them were all given within a window and the longest   *)
(* wait for the lock before the refusal.  So refused attempts do not count  *)
(* against a key, a caller with an old stamp costs no other one its turn,   *)
(* and a key is not locked out for longer (router.go:46-56).                *)
RefusedOnlyIfSpent ==
  [][\A c \in Calls :
       LET granted == log[KeyOf[c]] IN
       call[c].state = "waiting" /\ call'[c].state = "refused" =>
         /\ Len(granted) >= PerMin
         /\ clock - granted[Len(granted) - PerMin + 1].at < Window + MaxDelay]_limiterVars

=============================================================================
