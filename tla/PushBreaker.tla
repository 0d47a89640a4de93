---------------------------- MODULE PushBreaker ----------------------------
(***************************************************************************)
(* The circuit breaker of one organization (MemoryCircuitBreaker in        *)
(* packages/sync/src/push/limiter.ts) and the pushes that ask it: every     *)
(* property of the organization has its own push, and they share the        *)
(* breaker.  A push asks once, before it loads what is pending, and reports *)
(* the outcome of its calls; some of its ends report nothing.  The breaker  *)
(* lives in the memory of the worker.                                       *)
(*                                                                         *)
(* Time is the cooldown only: an open breaker cools down some time after    *)
(* the failure that opened it.                                              *)
(***************************************************************************)
EXTENDS Integers, FiniteSets

CONSTANTS Pushes,      \* the pushes of the organization's properties
          Threshold,   \* failureThreshold: consecutive failures that open the breaker
          MaxRestarts  \* bound: restarts of the worker

ASSUME ThresholdPositive == Threshold \in Nat \ {0}

VARIABLES failures,  \* consecutive failures, counted up to the threshold
          state,     \* closed, open, or half open once the cooldown has passed
          place,     \* the probe's place (`probing'): free, taken, or, as only the
                     \* model knows, lost: taken though its push has ended
          running,   \* the pushes that were let through and have not ended
          probe,     \* the one among them, if any, that has the probe's place
          provider,  \* the provider answers calls, or is down
          probes,    \* history: pushes let through since the breaker opened
          restarts

breaker == <<failures, state, place>>
breakerVars == <<breaker, running, probe, provider, probes, restarts>>

\* The breaker of an organization it has not heard of.
BreakerInit ==
  /\ failures = 0 /\ state = "closed" /\ place = "free"
  /\ running = {} /\ probe = {}
  /\ provider \in {"up", "down"}
  /\ probes = 0 /\ restarts = 0

-----------------------------------------------------------------------------
(* The breaker *)

\* Mutant of mayProbe: half-open lets every push through.
mayProbeAlways == state = "half_open"

\* allow, on a half-open breaker: one push probes, the others wait for it.
mayProbe == state = "half_open" /\ place = "free"

\* allow: closed lets every push through, half-open the probe.  A push that is
\* refused is delayed by 30 s, which changes nothing here.
Begin(p) ==
  /\ p \notin running
  /\ \/ state = "closed" /\ UNCHANGED <<place, probe, probes>>
     \/ mayProbe /\ place' = "taken" /\ probe' = {p} /\ probes' = probes + 1
  /\ running' = running \cup {p}
  /\ UNCHANGED <<failures, state, provider, restarts>>

\* onSuccess: a fresh entry.
onSuccess ==
  /\ failures' = 0 /\ state' = "closed" /\ place' = "free"
  /\ probe' = {} /\ probes' = 0

\* Mutant of onFailure: a probe that fails keeps the probe's place.
onFailureKeeping ==
  /\ failures' = IF failures < Threshold THEN failures + 1 ELSE failures
  /\ state' = IF state # "closed" \/ failures' = Threshold THEN "open" ELSE "closed"
  /\ probe' = {} /\ probes' = 0
  /\ UNCHANGED place

\* onFailure: a failure of a breaker that is not closed, or one too many, sets
\* openedAtMs to now.
onFailure ==
  /\ failures' = IF failures < Threshold THEN failures + 1 ELSE failures
  /\ state' = IF state # "closed" \/ failures' = Threshold THEN "open" ELSE "closed"
  /\ place' = "free"
  /\ probe' = {} /\ probes' = 0

-----------------------------------------------------------------------------
(* The pushes *)

End(p) == running' = running \ {p}

\* A call is answered, with a result or with a validation error.  The push makes
\* its next call or ends.
Answered(p) ==
  /\ p \in running /\ provider = "up"
  /\ onSuccess
  /\ End(p) \/ UNCHANGED running
  /\ UNCHANGED <<provider, restarts>>

\* A call fails with a 5xx or a timeout; the push ends and is retried later.
Failed(p) ==
  /\ p \in running /\ provider = "down"
  /\ onFailure
  /\ End(p)
  /\ UNCHANGED <<provider, restarts>>

\* The push ends and reports nothing: nothing was pending, the provider throttled
\* the call or refused the key, or an error the pipeline does not know came up.
EndsSilently(p) ==
  /\ p \in running
  /\ End(p)
  /\ probe' = probe \ {p}
  /\ place' = IF p \in probe THEN "lost" ELSE place
  /\ UNCHANGED <<failures, state, provider, probes, restarts>>

-----------------------------------------------------------------------------
(* Around them *)

CoolsDown ==
  /\ state = "open" /\ state' = "half_open"
  /\ UNCHANGED <<failures, place, running, probe, provider, probes, restarts>>

\* The provider goes down or comes back.
ProviderTurns ==
  /\ provider' = IF provider = "up" THEN "down" ELSE "up"
  /\ UNCHANGED <<breaker, running, probe, probes, restarts>>

\* The worker restarts: its pushes and its breaker are gone.
Restart ==
  /\ restarts < MaxRestarts
  /\ restarts' = restarts + 1
  /\ failures' = 0 /\ state' = "closed" /\ place' = "free"
  /\ running' = {} /\ probe' = {} /\ probes' = 0
  /\ UNCHANGED provider

Ends(p) == Answered(p) \/ Failed(p) \/ EndsSilently(p)

BreakerNext == \/ \E p \in Pushes : Begin(p) \/ Ends(p)
               \/ CoolsDown \/ ProviderTurns \/ Restart

BreakerSpec == BreakerInit /\ [][BreakerNext]_breakerVars

\* Properties go on asking for pushes, a push that runs ends, and time passes.
BreakerFairness ==
  /\ \A p \in Pushes : WF_breakerVars(Begin(p)) /\ WF_breakerVars(Ends(p))
  /\ WF_breakerVars(CoolsDown)

BreakerFairSpec == BreakerSpec /\ BreakerFairness

-----------------------------------------------------------------------------
(* Properties *)

\* The type invariant: the probe is one of the pushes that run.
BreakerTypeOK ==
  /\ failures \in 0..Threshold
  /\ state \in {"closed", "open", "half_open"}
  /\ place \in {"free", "taken", "lost"}
  /\ running \subseteq Pushes /\ probe \subseteq running
  /\ probes \in Nat

\* While the breaker is open at most one push goes through per cooldown, whatever
\* outcomes of calls begun before it opened still come in (limiter.ts: "half-open
\* probe after the cooldown").
OneProbePerCooldown == state # "closed" => probes <= 1

\* The probe's place is taken only while its push runs, unless it ended silently.
ProbeHasOwner == place = "taken" => probe # {}

\* Once the provider stays up and no probe ends silently, the breaker does not
\* refuse for ever: it is closed again and again.
ClosesAgain == <>[](provider = "up" /\ place # "lost") => []<>(state = "closed")

\* An outage is over for the pushes some time after it is over at the provider: the
\* breaker's "half-open probe on a timer" (spec 05, 5.4.4) finds out.
OutageEnds == <>[](provider = "up") => []<>(state = "closed")
=============================================================================
