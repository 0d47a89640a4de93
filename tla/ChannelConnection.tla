------------------------- MODULE ChannelConnection -------------------------
(***************************************************************************)
(* One connection of a property to a sales channel: the actions of the     *)
(* console (packages/jobs/src/channels.ts), the health poll, and the       *)
(* webhooks in which the channel manager tells of changes                  *)
(* (packages/jobs/src/worker/webhook-ingest.ts).  An action and the poll   *)
(* read the row, call the provider, and write the row from what they read; *)
(* nothing keeps another from writing it in between.  The connection is    *)
(* not one of the shared Airbnb account.                                   *)
(***************************************************************************)
EXTENDS Integers, FiniteSets

CONSTANTS Tabs,             \* open pages of the console, each with one action at a time
          MaxActions,       \* bound: actions begun
          MaxProviderTurns  \* bound: changes made at the provider by others

VARIABLES conn,     \* the row of channel_connection
          remote,   \* the provider's channel: held or not, active, gaps in its mapping
          tab,      \* per tab: the action, where it is, and the row it read
          poll,     \* the same for the health poll, with the provider's answer
          hooks,    \* webhooks on their way
          actions, turns

chanVars == <<conn, remote, tab, poll, hooks, actions, turns>>

States == {"mapped", "active", "paused", "error"}
Free == [op |-> "none", at |-> "start", seen |-> {}]
Waiting == [at |-> "idle", seen |-> {}, answer |-> "none"]

\* The wizard has saved the connection and its mappings; the provider has no channel.
ChanInit ==
  /\ conn = [state |-> "mapped", isActive |-> FALSE, ready |-> TRUE, linked |-> FALSE,
             archived |-> FALSE]
  /\ remote = [held |-> FALSE, active |-> FALSE, gaps |-> FALSE]
  /\ tab = [t \in Tabs |-> Free]
  /\ poll = Waiting /\ hooks = {}
  /\ actions = MaxActions /\ turns = MaxProviderTurns

\* TRANSITIONS, as far as a connection with saved mappings goes; a state from which an
\* event leads nowhere has no pair.
transitions ==
  [activated        |-> {<<"mapped", "active">>},
   paused           |-> {<<"active", "paused">>, <<"error", "paused">>},
   resumed          |-> {<<"paused", "active">>},
   recovered        |-> {<<"error", "active">>},
   provider_error   |-> {<<"active", "error">>, <<"error", "error">>},
   readiness_failed |-> {<<"mapped", "mapped">>, <<"active", "error">>, <<"error", "error">>}]

allowed(s, event) == \E s2 \in States : <<s, s2>> \in transitions[event]

\* The state after the event, or `otherwise' when the event leads nowhere.
transition(s, event, otherwise) ==
  IF allowed(s, event) THEN CHOOSE s2 \in States : <<s, s2>> \in transitions[event]
  ELSE otherwise

-----------------------------------------------------------------------------
(* The actions of the console, each in one transaction that commits at its end *)

\* The row is read.  A pause or a resume that its state does not allow is refused.
Chooses(t, op) ==
  /\ tab[t] = Free /\ actions > 0 /\ actions' = actions - 1
  /\ ~conn.archived
  /\ op = "pause" => allowed(conn.state, "paused")
  /\ op = "resume" => allowed(conn.state, "resumed")
  /\ tab' = [tab EXCEPT ![t] = [op |-> op, at |-> "start", seen |-> {conn}]]
  /\ UNCHANGED <<conn, remote, poll, hooks, turns>>

At(t, op, at) == tab[t].op = op /\ tab[t].at = at
seenBy(t) == CHOOSE c \in tab[t].seen : TRUE
Goes(t, at) == tab' = [tab EXCEPT ![t].at = at]

\* The provider's channel is switched; it tells us of that in a webhook.
setChannelActive(on) ==
  /\ remote' = [remote EXCEPT !.active = on]
  /\ hooks' = hooks \cup {IF on THEN "activate" ELSE "deactivate"}

\* activateConnection: the channel is created unless the row read has one.
CreatesChannel(t) ==
  /\ At(t, "activate", "start")
  /\ remote' = IF seenBy(t).linked THEN remote ELSE [remote EXCEPT !.held = TRUE, !.active = FALSE]
  /\ Goes(t, "readiness")
  /\ UNCHANGED <<conn, poll, hooks, actions, turns>>

\* ... the readiness is read; a channel that is not ready ends the activation.
ReadsReadiness(t) ==
  /\ At(t, "activate", "readiness") /\ remote.held
  /\ Goes(t, IF remote.gaps THEN "unready" ELSE "ready")
  /\ UNCHANGED <<conn, remote, poll, hooks, actions, turns>>

\* ... the channel is switched on; a pause or a resume switches it too.
Switches(t) ==
  /\ At(t, "activate", "ready") \/ (tab[t].op \in {"pause", "resume"} /\ tab[t].at = "start")
  /\ IF tab[t].op = "activate" \/ seenBy(t).linked
     THEN remote.held /\ setChannelActive(tab[t].op # "pause")
     ELSE UNCHANGED <<remote, hooks>>
  /\ Goes(t, "switched")
  /\ UNCHANGED <<conn, poll, actions, turns>>

\* removeConnection: off, then deleted; a channel that is gone already is as good.
SwitchesOff(t) ==
  /\ At(t, "remove", "start")
  /\ IF seenBy(t).linked /\ remote.held THEN setChannelActive(FALSE) /\ Goes(t, "off")
     ELSE UNCHANGED <<remote, hooks>> /\ Goes(t, "switched")
  /\ UNCHANGED <<conn, poll, actions, turns>>

Deletes(t) ==
  /\ At(t, "remove", "off")
  /\ remote' = [remote EXCEPT !.held = FALSE, !.active = FALSE]
  /\ Goes(t, "switched")
  /\ UNCHANGED <<conn, poll, hooks, actions, turns>>

\* What the action writes, over whatever the row has become.
written(t) ==
  LET s == seenBy(t).state
  IN CASE At(t, "activate", "unready") -> [conn EXCEPT !.ready = FALSE, !.linked = TRUE]
       [] At(t, "activate", "switched") ->
            [conn EXCEPT !.state = transition(s, "activated", "active"), !.isActive = TRUE,
                         !.ready = TRUE, !.linked = TRUE]
       [] At(t, "pause", "switched") ->
            [conn EXCEPT !.state = transition(s, "paused", s), !.isActive = FALSE]
       [] At(t, "resume", "switched") ->
            [conn EXCEPT !.state = transition(s, "resumed", s), !.isActive = TRUE]
       [] OTHER -> [conn EXCEPT !.isActive = FALSE, !.archived = TRUE]

Commits(t) ==
  /\ tab[t].at \in {"unready", "switched"}
  /\ conn' = written(t)
  /\ tab' = [tab EXCEPT ![t] = Free]
  /\ UNCHANGED <<remote, poll, hooks, actions, turns>>

\* The server dies or the provider fails: nothing is committed, what was done at the
\* provider is done.  (An activation that fails keeps the id of the channel it made.)
Breaks(t) ==
  /\ tab[t] # Free
  /\ \/ UNCHANGED conn
     \/ /\ At(t, "activate", "readiness") \/ At(t, "activate", "ready")
        /\ conn' = [conn EXCEPT !.linked = TRUE]
  /\ tab' = [tab EXCEPT ![t] = Free]
  /\ UNCHANGED <<remote, poll, hooks, actions, turns>>

-----------------------------------------------------------------------------
(* The health poll *)

\* pollChannelHealth takes the connections that are active or in error.
polled == conn.linked /\ ~conn.archived /\ conn.state \in {"active", "error"}

Lists ==
  /\ poll.at = "idle" /\ polled
  /\ poll' = [at |-> "listed", seen |-> {conn}, answer |-> "none"]
  /\ UNCHANGED <<conn, remote, tab, hooks, actions, turns>>

\* Mutant of answerOf: that the channel is switched off is no gap.
answerOfIssues == IF ~remote.held THEN "gone" ELSE IF remote.gaps THEN "gaps" ELSE "ready"

\* checkReadiness: a channel that is switched off counts as a gap.
answerOf == IF ~remote.held THEN "gone"
            ELSE IF remote.gaps \/ ~remote.active THEN "gaps" ELSE "ready"

Asks ==
  /\ poll.at = "listed"
  /\ poll' = [poll EXCEPT !.at = "answered", !.answer = answerOf]
  /\ UNCHANGED <<conn, remote, tab, hooks, actions, turns>>

\* What the poll writes: a gap that is new, or a channel that is gone, is an error; a
\* channel in error that is ready is active again.
polledRow(seen) ==
  CASE poll.answer = "gone" ->
         [conn EXCEPT !.state = transition(seen.state, "provider_error", conn.state),
                      !.isActive = FALSE, !.ready = FALSE]
    [] poll.answer = "gaps" /\ seen.ready ->
         [conn EXCEPT !.state = transition(seen.state, "readiness_failed", conn.state),
                      !.ready = FALSE]
    [] poll.answer = "ready" /\ seen.state = "error" ->
         [conn EXCEPT !.state = transition(seen.state, "recovered", conn.state), !.ready = TRUE]
    [] OTHER -> [conn EXCEPT !.ready = (poll.answer = "ready")]

Stores ==
  /\ poll.at = "answered"
  /\ \E seen \in poll.seen : conn' = polledRow(seen)
  /\ poll' = Waiting
  /\ UNCHANGED <<remote, tab, hooks, actions, turns>>

-----------------------------------------------------------------------------
(* The webhooks *)

\* recordChannelStateEvent: the row after hook h.  A deactivation of a connection that
\* is not active here is the echo of our own; others are the provider's doing.
hookedRow(h) ==
  CASE h = "deactivate" /\ ~conn.isActive /\ conn.state # "active" -> conn
    [] h \in {"deactivate", "disconnect"} ->
         [conn EXCEPT !.isActive = FALSE,
                      !.state = transition(conn.state, "provider_error", conn.state)]
    [] h = "activate" /\ ~conn.isActive ->
         [conn EXCEPT !.isActive = TRUE,
                      !.state = transition(conn.state,
                                  IF conn.state = "paused" THEN "resumed" ELSE "recovered",
                                  conn.state)]
    [] OTHER -> conn

\* A webhook comes in: late, before or after another, or again.
Hook(h) ==
  /\ h \in hooks
  /\ hooks' \in {hooks, hooks \ {h}}
  /\ conn' = IF conn.linked /\ ~conn.archived THEN hookedRow(h) ELSE conn
  /\ UNCHANGED <<remote, tab, poll, actions, turns>>

\* A webhook is lost, or was the last of its kind.
Loses(h) ==
  /\ h \in hooks /\ hooks' = hooks \ {h}
  /\ UNCHANGED <<conn, remote, tab, poll, actions, turns>>

\* At the provider: somebody switches the channel, the channel disconnects itself, its
\* mapping loses a room or finds it again, an inactive channel is deleted.
ChannelTurns ==
  /\ remote.held /\ turns > 0 /\ turns' = turns - 1
  /\ \/ setChannelActive(~remote.active)
     \/ remote' = [remote EXCEPT !.active = FALSE] /\ hooks' = hooks \cup {"disconnect"}
     \/ remote' = [remote EXCEPT !.gaps = ~@] /\ UNCHANGED hooks
     \/ ~remote.active /\ remote' = [remote EXCEPT !.held = FALSE] /\ UNCHANGED hooks
  /\ UNCHANGED <<conn, tab, poll, actions>>

-----------------------------------------------------------------------------
Works(t) == CreatesChannel(t) \/ ReadsReadiness(t) \/ Switches(t) \/ SwitchesOff(t)
            \/ Deletes(t) \/ Commits(t) \/ Breaks(t)

Polls == Lists \/ Asks \/ Stores

ChanNext ==
  \/ \E t \in Tabs : \/ Works(t)
                    \/ \E op \in {"activate", "pause", "resume", "remove"} : Chooses(t, op)
  \/ Polls
  \/ \E h \in hooks : Hook(h) \/ Loses(h)
  \/ ChannelTurns

ChanSpec == ChanInit /\ [][ChanNext]_chanVars

\* The poll is run every five minutes, an action ends, and a webhook does not come in
\* again for ever.
ChanFairness ==
  /\ WF_chanVars(Polls)
  /\ \A t \in Tabs : WF_chanVars(Works(t))
  /\ \A h \in {"activate", "deactivate", "disconnect"} : WF_chanVars(Loses(h))

ChanFairSpec == ChanSpec /\ ChanFairness

-----------------------------------------------------------------------------
(* Properties *)

ChanTypeOK ==
  /\ conn.state \in States /\ {conn.isActive, conn.ready, conn.linked, conn.archived} \subseteq BOOLEAN
  /\ \A t \in Tabs : Cardinality(tab[t].seen) <= 1
  /\ remote.active => remote.held

\* A connection the console shows as active and ready is switched on at the provider,
\* and one that is on there, without gaps, is not shown in error, or the health poll
\* finds out, though webhooks are lost, late or repeated and the console, the poll and
\* the provider change it at once.
ShownIsServed ==
  /\ <>[](conn.state = "active" /\ conn.ready /\ ~conn.archived => remote.active)
  /\ <>[](remote.active /\ ~remote.gaps) => <>[](conn.state # "error" \/ conn.archived)
=============================================================================
