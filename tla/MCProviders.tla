---------------------------- MODULE MCProviders ----------------------------
(***************************************************************************)
(* The components that talk to providers, for TLC: a property's setup, the  *)
(* rate limiter and the circuit breaker of its calls, a channel connection, *)
(* booking requests, the messages of a thread, a booking's instalments, and *)
(* a plugin's deliveries.  As in MCHouse one run explores them one at a     *)
(* time; only the component that runs is treated fairly.                    *)
(***************************************************************************)
EXTENDS Provisioning, RateLimiter, ChannelConnection, BookingRequests, Messaging, PushBreaker,
        Instalments, Plugins

CONSTANTS r1, r2

\* One run that may fail twice, with an edit and an added plan; or two that overlap.
OneOrTwoRuns == {[runs |-> {r1}, faults |-> 2, edits |-> 1, adds |-> 1],
                 [runs |-> {r1, r2}, faults |-> 0, edits |-> 0, adds |-> 0]}

\* One run of the plugin job over two events; or two that overlap, over one.
TwoEventsOrTwoRuns == {[runs |-> {r1}, events |-> 2], [runs |-> {r1, r2}, events |-> 1]}

VARIABLE component

Components == {"setup", "limiter", "channel", "requests", "messaging", "breaker",
               "instalments", "plugins"}

ProvidersInit ==
  /\ component \in Components
  /\ ProvInit /\ LimInit /\ ChanInit /\ RequestInit /\ MessagingInit /\ BreakerInit
  /\ InstInit /\ PluginInit
  /\ (component # "setup"   => Cardinality(crew) = 1)
  /\ (component # "plugins" => roster.events = 1)
  /\ (component # "limiter" => quota = "ample")
  /\ (component # "breaker" => provider = "up")

ProvidersNext ==
  /\ UNCHANGED component
  /\ IF component = "setup"       THEN ProvNext      ELSE UNCHANGED provVars
  /\ IF component = "limiter"     THEN LimNext       ELSE UNCHANGED limVars
  /\ IF component = "channel"     THEN ChanNext      ELSE UNCHANGED chanVars
  /\ IF component = "requests"    THEN RequestNext   ELSE UNCHANGED requestVars
  /\ IF component = "messaging"   THEN MessagingNext ELSE UNCHANGED messagingVars
  /\ IF component = "breaker"     THEN BreakerNext   ELSE UNCHANGED breakerVars
  /\ IF component = "instalments" THEN InstNext      ELSE UNCHANGED instVars
  /\ IF component = "plugins"     THEN PluginNext    ELSE UNCHANGED pluginVars

providersVars == <<component, provVars, limVars, chanVars, requestVars, messagingVars,
                   breakerVars, instVars, pluginVars>>

\* Each component's fairness, while it is the one that runs.
ProvidersFairness ==
  /\ \A r \in {r1, r2} : WF_provVars(component = "setup" /\ r \in crew /\ RunStep(r))
  /\ WF_provVars(component = "setup" /\ Push) /\ WF_provVars(component = "setup" /\ MarkLive)
  /\ \A c \in Callers : /\ WF_limVars(component = "limiter" /\ Acquire(c))
                         /\ SF_limVars(component = "limiter" /\ Reports(c))
  /\ WF_limVars(component = "limiter" /\ Tick)
  /\ WF_chanVars(component = "channel" /\ Polls)
  /\ \A t \in Tabs : WF_chanVars(component = "channel" /\ Works(t))
  /\ \A h \in {"activate", "deactivate", "disconnect"} :
       WF_chanVars(component = "channel" /\ Loses(h))
  /\ \A s \in FeedSyncs : WF_requestVars(component = "requests" /\ SyncsRequests(s))
  /\ \A w \in Deliverers : WF_messagingVars(component = "messaging" /\ Delivers(w))
  /\ \A p \in Pushes : /\ WF_breakerVars(component = "breaker" /\ Begin(p))
                        /\ WF_breakerVars(component = "breaker" /\ Ends(p))
  /\ WF_breakerVars(component = "breaker" /\ CoolsDown)
  /\ \A w \in Runs : WF_instVars(component = "instalments" /\ Collects(w))
  /\ \A c \in Couriers : WF_pluginVars(component = "plugins" /\ Couries(c))
  /\ WF_pluginVars(component = "plugins" /\ CoolsOff)

ProvidersSpec == ProvidersInit /\ [][ProvidersNext]_providersVars /\ ProvidersFairness

\* The type invariants of the components, and what ties their histories together: the
\* breaker's probe to its push, payments to charges, and calls to the last throttle.
ProvidersTypeOK ==
  /\ ProvTypeOK /\ LimTypeOK /\ ChanTypeOK /\ RequestTypeOK /\ MessagingTypeOK
  /\ BreakerTypeOK /\ InstTypeOK /\ PluginTypeOK
  /\ ProbeHasOwner /\ PaymentIsReal /\ NoBurstAfterThrottle
=============================================================================
