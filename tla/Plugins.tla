------------------------------ MODULE Plugins ------------------------------
(***************************************************************************)
(* Domain events to one plugin of an organization (docs/specs/12, 12.7;     *)
(* deliverPluginEvents in packages/jobs/src/platform.ts): a cursor over the *)
(* published outbox, a delivery per event, retries, and a breaker.  The job *)
(* runs every thirty seconds and may overtake itself: it calls the plugin   *)
(* between two transactions and writes what it read before the call.        *)
(***************************************************************************)
EXTENDS Integers, FiniteSets

CONSTANTS LastEvent,     \* the events, numbered as they occurred
          Couriers,      \* the runs of the job
          Rosters,       \* bounds: which runs may overlap, and over how many events
          MaxDeliveries, \* maxAttempts of one event
          BreaksAt,      \* breakerThreshold: failures in a row that open the breaker
          MaxHalts       \* bound: runs that stop half way, and retries asked for by hand

ASSUME PluginBounds ==
  /\ LastEvent \in Nat /\ {MaxDeliveries, BreaksAt} \subseteq Nat \ {0}
  /\ Rosters \subseteq [runs : SUBSET Couriers, events : 1..LastEvent]

VARIABLES
  published, \* the events the outbox has published; not always as they occurred
  cursor,    \* the last event the plugin's cursor passed
  delivery,  \* plugin_delivery of each event: its state and its attempts
  plugin,    \* enabled, the failures in a row, the breaker
  courier,   \* of each run: the deliveries it selected, the one it is making, what it read
  halts,
  roster     \* which of Rosters this behaviour has

pluginVars == <<published, cursor, delivery, plugin, courier, halts, roster>>

Events == 1..LastEvent

NoCourier == [batch |-> {}, event |-> 0, attempts |-> 0, failures |-> 0]

PluginInit ==
  /\ published = {} /\ cursor = 0
  /\ delivery = [e \in Events |-> [state |-> "none", attempts |-> 0]]
  /\ plugin = [enabled |-> TRUE, failures |-> 0, open |-> FALSE]
  /\ courier = [c \in Couriers |-> NoCourier]
  /\ halts = 0 /\ roster \in Rosters

\* An event is published by the dispatcher; one may be overtaken by a later one.
Publishes(e) ==
  /\ e \notin published /\ e <= roster.events /\ published' = published \cup {e}
  /\ UNCHANGED <<cursor, delivery, plugin, courier, halts, roster>>

\* eventsAfterCursor.
eventsAfterCursor == {e \in published : e > cursor}

\* A delivery for every event after the cursor, which moves to the last of them.
Queues ==
  /\ plugin.enabled /\ eventsAfterCursor # {}
  /\ delivery' = [e \in Events |->
       IF e \in eventsAfterCursor /\ delivery[e].state = "none"
       THEN [delivery[e] EXCEPT !.state = "pending"] ELSE delivery[e]]
  /\ cursor' = CHOOSE e \in eventsAfterCursor : \A f \in eventsAfterCursor : f <= e
  /\ UNCHANGED <<published, plugin, courier, halts, roster>>

\* Mutant of due: a delivery that failed is not due again.
dueOnce(e) == delivery[e].state = "pending"

\* What dueDeliveries looks for, some time after the last attempt.
due(e) == delivery[e].state \in {"pending", "failed"}

\* dueDeliveries: a run selects them while the breaker is closed, with their attempts.
dueDeliveries(c) ==
  /\ c \in roster.runs /\ courier[c] = NoCourier /\ plugin.enabled /\ ~plugin.open
  /\ \E e \in Events : due(e)
  /\ courier' = [courier EXCEPT ![c].batch =
       {[event |-> e, attempts |-> delivery[e].attempts] : e \in {f \in Events : due(f)}}]
  /\ UNCHANGED <<published, cursor, delivery, plugin, halts, roster>>

\* Counters, as far as they are ever compared.
oneMore(n, most) == IF n < most THEN n + 1 ELSE n

\* deliverOne reads the plugin and calls it, the whole batch through, although the breaker
\* opens or the plugin is switched off on the way ...
Takes(c) ==
  /\ courier[c].event = 0
  /\ \E d \in courier[c].batch :
       courier' = [courier EXCEPT ![c] =
         [batch |-> @.batch \ {d}, event |-> d.event, attempts |-> d.attempts,
          failures |-> plugin.failures]]
  /\ UNCHANGED <<published, cursor, delivery, plugin, halts, roster>>

stateAfter(c, ok) ==
  IF ok THEN "delivered"
  ELSE IF courier[c].attempts + 1 >= MaxDeliveries THEN "dead" ELSE "failed"

\* ... and writes how it went, over whatever another run wrote since: the state and the
\* breaker from what it read, the counters from what is there.
MarksDelivery(c, ok) ==
  /\ courier[c].event # 0
  /\ LET e == courier[c].event
     IN delivery' = [delivery EXCEPT ![e] =
          [state |-> stateAfter(c, ok), attempts |-> oneMore(@.attempts, MaxDeliveries)]]
  /\ plugin' = IF ok THEN [plugin EXCEPT !.failures = 0, !.open = FALSE]
               ELSE [plugin EXCEPT !.failures = oneMore(@, BreaksAt),
                                   !.open = courier[c].failures + 1 >= BreaksAt]
  /\ courier' = [courier EXCEPT ![c] = [NoCourier EXCEPT !.batch = courier[c].batch]]
  /\ UNCHANGED <<published, cursor, halts, roster>>

\* The worker stops between the call and the write.
CourierStops(c) ==
  /\ courier[c].event # 0 /\ halts < MaxHalts /\ halts' = halts + 1
  /\ courier' = [courier EXCEPT ![c] = NoCourier]
  /\ UNCHANGED <<published, cursor, delivery, plugin, roster>>

CoolsOff ==
  /\ plugin.open /\ plugin' = [plugin EXCEPT !.open = FALSE]
  /\ UNCHANGED <<published, cursor, delivery, courier, halts, roster>>

\* setPluginEnabled.
SwitchesPlugin ==
  /\ plugin' = IF plugin.enabled THEN [plugin EXCEPT !.enabled = FALSE]
               ELSE [enabled |-> TRUE, failures |-> 0, open |-> FALSE]
  /\ UNCHANGED <<published, cursor, delivery, courier, halts, roster>>

\* retryDeliveries: what was given up is pending again.
Retries ==
  /\ \E e \in Events : delivery[e].state \in {"failed", "dead"}
  /\ halts < MaxHalts /\ halts' = halts + 1
  /\ delivery' = [e \in Events |->
       IF delivery[e].state \in {"failed", "dead"} THEN [delivery[e] EXCEPT !.state = "pending"]
       ELSE delivery[e]]
  /\ UNCHANGED <<published, cursor, plugin, courier, roster>>

Couries(c) == dueDeliveries(c) \/ Takes(c) \/ \E ok \in BOOLEAN : MarksDelivery(c, ok)

PluginNext ==
  \/ \E e \in Events : Publishes(e)
  \/ \E c \in Couriers : Couries(c) \/ CourierStops(c)
  \/ Queues \/ CoolsOff \/ SwitchesPlugin \/ Retries

PluginSpec == PluginInit /\ [][PluginNext]_pluginVars

\* The job runs every thirty seconds, a call ends within its timeout, and time passes.
PluginFairness ==
  /\ \A c \in Couriers : WF_pluginVars(Couries(c))
  /\ WF_pluginVars(CoolsOff)

PluginFairSpec == PluginSpec /\ PluginFairness

-----------------------------------------------------------------------------
(* Properties *)

PluginTypeOK ==
  /\ published \subseteq Events /\ cursor \in published \cup {0}
  /\ \A e \in Events :
       /\ delivery[e].state \in {"none", "pending", "failed", "delivered", "dead"}
       /\ delivery[e].attempts \in 0..MaxDeliveries
       /\ delivery[e].state # "none" => e \in published /\ e <= cursor
  /\ plugin.failures \in 0..BreaksAt

\* While the plugin stays enabled every delivery that is queued is made or given up, though
\* the breaker opens, a run overtakes another and writes over it, or stops half way.
DeliveriesSettle ==
  \A e \in Events :
    (delivery[e].state \in {"pending", "failed"} /\ []plugin.enabled)
      ~> (delivery[e].state \in {"delivered", "dead"})
=============================================================================
