---------------------------- MODULE RateLimiter ----------------------------
(***************************************************************************)
(* The token bucket of one key, a property and an endpoint (TokenBucket in *)
(* packages/sync/src/push/limiter.ts), and the callers that take a token   *)
(* before each call and report what came of it.  The bucket starts full,   *)
(* refills at an adaptive rate up to its burst, and lives in the memory of *)
(* the worker.                                                             *)
(*                                                                         *)
(* Time passes in ticks, of which one refills one token at the base rate.  *)
(* Tokens are counted in parts: a token has Parts of them, so that a rate  *)
(* below the base is a whole number of parts per tick.                     *)
(***************************************************************************)
EXTENDS Integers, Sequences, FiniteSetsExt

CONSTANTS Callers,
          Parts,         \* baseRatePerSecond, in parts per tick
          MinRate,       \* minRatePerSecond: the floor of the rate
          Burst,         \* tokens of a full bucket
          RecoverAfter,  \* successes after which the rate doubles
          Window,        \* ticks over which calls are counted
          MaxReboots    \* bound: restarts of the worker

ASSUME LimiterPositive ==
  /\ {Parts, MinRate, Burst, RecoverAfter, Window} \subseteq Nat \ {0}
  /\ MinRate <= Parts

VARIABLES tokens, rate, elapsed, successes,  \* the bucket; time since lastMs
          caller,    \* per caller: idle, asleep for a number of ticks, or in its call
          quota,     \* the provider answers every call, or throttles some
          stretch,   \* history: a stretch of less than Window ticks that began with any of
                     \* them: its ticks, the calls begun in it, and the buckets it had
          throttle,  \* history: ticks since the last throttle, up to Window, and the calls
                     \* begun since
          reboots

bucket == <<tokens, rate, elapsed, successes>>
limVars == <<bucket, caller, quota, stretch, throttle, reboots>>

Full == Burst * Parts
\* Idle time that fills any bucket: more of it makes no difference.
LongIdle == Full

idle == [at |-> "idle", ticks |-> 0]
calling == [at |-> "calling", ticks |-> 0]
asleep(n) == [at |-> "asleep", ticks |-> n]

newStretch == [ticks |-> 0, calls |-> 0, buckets |-> 1]

LimInit ==
  /\ tokens = Full /\ rate = Parts /\ elapsed = 0 /\ successes = 0
  /\ caller = [c \in Callers |-> idle]
  /\ quota \in {"ample", "tight"}
  /\ stretch = newStretch
  /\ throttle = [ticks |-> Window, calls |-> 0]
  /\ reboots = 0

-----------------------------------------------------------------------------
(* The bucket *)

\* Mutant of refilled: the bucket does not stop at its burst.
refilledBeyond == tokens + elapsed * rate

\* bucket(): what it holds now.
refilled == Min({Full, tokens + elapsed * rate})

\* ceil((1 - tokens) / rate): the ticks until a token is whole.
waitTicks == (Parts - refilled + rate - 1) \div rate

\* acquire, once round its loop: take a token and make the call, or sleep.
Acquire(c) ==
  /\ caller[c].at # "calling" /\ caller[c].ticks = 0
  /\ elapsed' = 0
  /\ IF refilled >= Parts
     THEN /\ tokens' = refilled - Parts
          /\ caller' = [caller EXCEPT ![c] = calling]
          /\ stretch' = [stretch EXCEPT !.calls = @ + 1]
          /\ throttle' = [throttle EXCEPT !.calls = IF throttle.ticks < Window THEN @ + 1 ELSE @]
     ELSE /\ tokens' = refilled
          /\ caller' = [caller EXCEPT ![c] = asleep(waitTicks)]
          /\ UNCHANGED <<stretch, throttle>>
  /\ UNCHANGED <<rate, successes, quota, reboots>>

\* reportThrottle.
lowered ==
  /\ rate' = Max({MinRate, rate \div 2})
  /\ tokens' = 0 /\ elapsed' = 0 /\ successes' = 0

\* Mutant of raises: a rate that would reach the base is not raised.
raisesBelow == successes + 1 >= RecoverAfter /\ 2 * rate < Parts

\* reportSuccess: this success is one that raises the rate.
raises == successes + 1 >= RecoverAfter /\ rate < Parts

\* A call is answered.  At the base rate successes are counted without end; here
\* up to RecoverAfter, from where on they make no difference.
Succeeds(c) ==
  /\ caller[c] = calling
  /\ tokens' = refilled /\ elapsed' = 0
  /\ IF raises THEN rate' = Min({Parts, 2 * rate}) /\ successes' = 0
     ELSE successes' = Min({RecoverAfter, successes + 1}) /\ UNCHANGED rate
  /\ caller' = [caller EXCEPT ![c] = idle]
  /\ UNCHANGED <<quota, stretch, throttle, reboots>>

\* A call is answered with a 429.
Throttled(c) ==
  /\ caller[c] = calling /\ quota = "tight"
  /\ lowered
  /\ caller' = [caller EXCEPT ![c] = idle]
  /\ throttle' = [ticks |-> 0, calls |-> 0]
  /\ UNCHANGED <<quota, stretch, reboots>>

\* A call fails otherwise, and reports nothing to the limiter.
Fails(c) ==
  /\ caller[c] = calling
  /\ caller' = [caller EXCEPT ![c] = idle]
  /\ UNCHANGED <<bucket, quota, stretch, throttle, reboots>>

-----------------------------------------------------------------------------
Tick ==
  /\ elapsed' = Min({LongIdle, elapsed + 1})
  /\ caller' = [c \in Callers |-> [caller[c] EXCEPT !.ticks = Max({0, @ - 1})]]
  /\ \/ stretch' = newStretch
     \/ /\ stretch.ticks + 1 < Window
        /\ stretch' = [stretch EXCEPT !.ticks = @ + 1]
  /\ throttle' = IF throttle.ticks + 1 < Window THEN [throttle EXCEPT !.ticks = @ + 1]
                 ELSE [ticks |-> Window, calls |-> 0]
  /\ UNCHANGED <<tokens, rate, successes, quota, reboots>>

QuotaTurns ==
  /\ quota' = IF quota = "ample" THEN "tight" ELSE "ample"
  /\ UNCHANGED <<bucket, caller, stretch, throttle, reboots>>

\* The worker restarts: the next caller finds a new bucket, full and at the base rate.
LimRestart ==
  /\ reboots < MaxReboots /\ reboots' = reboots + 1
  /\ tokens' = Full /\ rate' = Parts /\ elapsed' = 0 /\ successes' = 0
  /\ caller' = [c \in Callers |-> idle]
  /\ throttle' = [ticks |-> Window, calls |-> 0]
  /\ stretch' = [stretch EXCEPT !.buckets = @ + 1]
  /\ UNCHANGED quota

Reports(c) == Succeeds(c) \/ Throttled(c)

LimNext ==
  \/ \E c \in Callers : Acquire(c) \/ Reports(c) \/ Fails(c)
  \/ Tick \/ QuotaTurns \/ LimRestart

LimSpec == LimInit /\ [][LimNext]_limVars

\* Callers go on calling, time passes, and calls that go on failing are answered at
\* some time: strong fairness, since each failure takes the call away.
LimFairness ==
  /\ \A c \in Callers : WF_limVars(Acquire(c)) /\ SF_limVars(Reports(c))
  /\ WF_limVars(Tick)

LimFairSpec == LimSpec /\ LimFairness

-----------------------------------------------------------------------------
(* Properties *)

LimTypeOK ==
  /\ tokens \in 0..Full /\ rate \in MinRate..Parts
  /\ elapsed \in 0..LongIdle /\ successes \in 0..RecoverAfter
  /\ \A c \in Callers : caller[c].at \in {"idle", "asleep", "calling"} /\ caller[c].ticks \in Nat

\* However calls, sleeps, throttles and recoveries interleave, any stretch of time sees at
\* most a burst more calls than the base rate refills in it, and a burst more per restart.
\* (The provider's quota, 10 a minute, is what the base rate alone refills.)
CallsBounded == stretch.calls <= Burst * stretch.buckets + stretch.ticks

\* A throttle takes the burst away: from then on calls begin no faster than the base
\* rate refills, those already on their way apart.
NoBurstAfterThrottle == throttle.ticks < Window => throttle.calls <= throttle.ticks

\* Once the provider stops throttling, the rate is the base rate again for good.
RateRecovers == <>[](quota = "ample") => <>[](rate = Parts)
=============================================================================
