---------------------------- MODULE Provisioning ----------------------------
(***************************************************************************)
(* The setup of a property at the channel manager                          *)
(* (packages/jobs/src/provisioning.ts): a row that holds the step, runs    *)
(* that take it from step to step, and the push after which the property   *)
(* is live.  Every object a step needs is ensured: the provider lists what *)
(* it has by natural key, and creates the object when the list lacks it.   *)
(* The sweep starts a run every 30 s for a setup that is not finished, a   *)
(* failed job is retried, and the queue works on two jobs at a time: runs  *)
(* of one property may overlap.                                            *)
(*                                                                         *)
(* The property has one room type, the plans it was created with and plans *)
(* the user adds.  A lane, the room type or a plan, has pending cells or   *)
(* has none; a provider id is recorded for it or is not.                   *)
(***************************************************************************)
EXTENDS Integers, FiniteSets, Sequences, SequencesExt

CONSTANTS Crews,        \* who and what a behaviour has: its runs, and bounds on its faults
                        \* (calls that fail, workers that die), its edits, and
                        \* the plans added
          Plans,        \* the plans the property is created with
          AddedPlans,   \* the plans derived from them that may be added
          MaxAttempts   \* attempts after which the sweep leaves a setup alone

ASSUME AttemptsPositive == MaxAttempts \in Nat \ {0}
ASSUME CrewsAreFinite == \A c \in Crews : IsFiniteSet(c.runs)

VARIABLES step, attempts,   \* property_provisioning
          propertyState,    \* draft, syncing or live
          plans,            \* the plans of the property
          ids,              \* the lanes with a provider id
          objects,          \* how many of each object the provider holds
          run,              \* the runs
          pending,          \* the lanes with pending cells
          queued, checking, \* a push is queued; a push is done, but for its last step
          crew,             \* the runs
          faults, edits, adds  \* faults, edits or resyncs, and added plans, still to come

saved == <<step, attempts>>
bounds == <<crew, faults, edits, adds>>
provVars == <<saved, propertyState, plans, ids, objects, run, pending, queued, checking, bounds>>

STEPS == <<"group", "property", "room_types", "rate_plans", "policies", "webhook", "seed",
           "initial_push", "live">>

AllPlans == Plans \cup AddedPlans
Objects == {"group", "property", "room", "webhook"} \cup AllPlans
Lanes == {"room"} \cup AllPlans

nextStep(s) == STEPS[Min({Len(STEPS), 1 + CHOOSE i \in DOMAIN STEPS : STEPS[i] = s})]
IsPast(s) == s \in {"policies", "webhook", "seed", "initial_push", "live"}

Idle == [at |-> "idle", step |-> "live", tries |-> 0, todo |-> {}, making |-> {}, read |-> {}]

ProvInit ==
  /\ step = "group" /\ attempts = 0
  /\ propertyState = "draft"
  /\ plans = Plans /\ ids = {}
  /\ objects = [o \in Objects |-> 0]
  /\ \E c \in Crews : /\ crew = c.runs
                     /\ faults = c.faults /\ edits = c.edits /\ adds = c.adds
  /\ run = [r \in crew |-> Idle]
  /\ pending = {"room"} \cup Plans
  /\ queued = FALSE /\ checking = FALSE

-----------------------------------------------------------------------------
(* A run *)

\* The objects step s ensures: those that have no id yet.
needs(s, known) ==
  CASE s \in {"group", "property", "webhook"} -> {s}
    [] s = "room_types" -> {"room"} \ known
    [] s = "rate_plans" -> plans \ known
    [] OTHER -> {}

\* The lanes whose ids are recorded with step s.
records(s) == CASE s = "room_types" -> {"room"} [] s = "rate_plans" -> plans [] OTHER -> {}

\* A run at the beginning of step s: the property has just been read.  (A plan
\* that is added after the step before is saved and before the property is read
\* counts as added before that step is saved.)
enter(s, tries, known) ==
  IF s = "live" THEN Idle
  ELSE [at |-> "ensure", step |-> s, tries |-> tries, todo |-> needs(s, known),
        making |-> {}, read |-> records(s)]

\* Mutant of sweeps: a setup that failed is left alone.
sweepsFresh == step # "live" /\ attempts = 0

\* propertiesToProvision: the sweep's condition.
sweeps == step # "live" /\ attempts < MaxAttempts

\* The sweep's job, or a failed one that is retried, loads the row and begins.
StartRun(r) ==
  /\ \/ run[r].at = "idle" /\ sweeps
     \/ run[r].at = "retry"
  /\ run' = [run EXCEPT ![r] = enter(step, attempts, ids)]
  /\ UNCHANGED <<saved, propertyState, plans, ids, objects, pending, queued, checking, bounds>>

\* Mutant of found: room types are created without a look at the list.
foundButRooms(o) == objects[o] > 0 /\ o # "room"

\* findExisting: the provider's list has the object.
found(o) == objects[o] > 0

\* Parents before children.
turn(r) == IF run[r].todo \cap Plans # {} THEN run[r].todo \cap Plans ELSE run[r].todo

\* ensure*, the list: an object that is listed is done, another is to be created.
List(r) ==
  /\ run[r].at = "ensure" /\ run[r].making = {}
  /\ \E o \in turn(r) :
       run' = [run EXCEPT ![r] = [run[r] EXCEPT !.todo = @ \ {o},
                                                !.making = IF found(o) THEN {} ELSE {o}]]
  /\ UNCHANGED <<saved, propertyState, plans, ids, objects, pending, queued, checking, bounds>>

\* The provider refuses a second plan of a title; other titles may recur.
accepts(o) == o \in AllPlans => objects[o] = 0

\* ensure*, the call that creates.
Create(r) ==
  /\ \E o \in run[r].making :
       /\ accepts(o)
       /\ objects' = [objects EXCEPT ![o] = @ + 1]
       /\ run' = [run EXCEPT ![r].making = {}]
  /\ UNCHANGED <<saved, propertyState, plans, ids, pending, queued, checking, bounds>>

\* advance: the step after, with no attempts.
advance(r) == [step |-> nextStep(run[r].step), attempts |-> 0]

\* The step's work is done.  The seed step wants a pending cell.
done(r) ==
  \/ /\ run[r].at = "ensure" /\ run[r].todo = {} /\ run[r].making = {}
     /\ run[r].step # "initial_push"
     /\ run[r].step = "seed" => pending # {}
  \/ run[r].at = "pushed"

\* save: the ids and the step after, in one transaction; the run goes on with that
\* step, whatever the row said in between.
Save(r) ==
  /\ done(r)
  /\ step' = advance(r).step /\ attempts' = advance(r).attempts
  /\ ids' = ids \cup run[r].read
  /\ run' = [run EXCEPT ![r] = enter(step', attempts', ids')]
  /\ UNCHANGED <<propertyState, plans, objects, pending, queued, checking, bounds>>

\* The initial push: every cell is pending again and a push is queued, before the
\* step is saved.  A live property stays live.
InitialPush(r) ==
  /\ run[r].at = "ensure" /\ run[r].step = "initial_push"
  /\ propertyState' = IF propertyState = "live" THEN "live" ELSE "syncing"
  /\ pending' = {"room"} \cup plans
  /\ queued' = TRUE
  /\ run' = [run EXCEPT ![r].at = "pushed"]
  /\ UNCHANGED <<saved, plans, ids, objects, checking, bounds>>

\* The step throws: a call failed, its answer was lost after the object was created,
\* the provider refused a title, or no cell is pending at the seed step.
Throws(r) ==
  \/ /\ run[r].at = "ensure" /\ run[r].todo \cup run[r].making # {}
     /\ faults > 0 /\ faults' = faults - 1
     /\ UNCHANGED objects
  \/ /\ faults > 0 /\ faults' = faults - 1
     /\ \E o \in run[r].making : accepts(o) /\ objects' = [objects EXCEPT ![o] = @ + 1]
  \/ /\ \E o \in run[r].making : ~accepts(o)
     /\ UNCHANGED <<objects, faults>>
  \/ /\ run[r].at = "ensure" /\ run[r].step = "seed" /\ pending = {}
     /\ UNCHANGED <<objects, faults>>

\* fail: the run's step, with one attempt more than the run began it with, replaces
\* the row.  Whether the queue retries the job, or gives it up, is left open.
Fail(r) ==
  /\ Throws(r)
  /\ step' = run[r].step
  /\ attempts' = Min({MaxAttempts, run[r].tries + 1})
  /\ \E at \in {"retry", "idle"} : run' = [run EXCEPT ![r] = [Idle EXCEPT !.at = at]]
  /\ UNCHANGED <<propertyState, plans, ids, pending, queued, checking, crew, edits, adds>>

\* The worker dies: what the run had not saved is gone.
Crash(r) ==
  /\ run[r] # Idle
  /\ faults > 0 /\ faults' = faults - 1
  /\ run' = [run EXCEPT ![r] = Idle]
  /\ UNCHANGED <<saved, propertyState, plans, ids, objects, pending, queued, checking, crew,
                 edits, adds>>

-----------------------------------------------------------------------------
(* The push and the user *)

\* ari.push: the cells of lanes the provider knows are accepted; those of a plan
\* without an id are held back, or refused while no plan has one.
Push ==
  /\ queued /\ queued' = FALSE
  /\ pending' = pending \ ids
  /\ checking' = TRUE
  /\ UNCHANGED <<saved, propertyState, plans, ids, objects, run, bounds>>

\* Mutant of allPushed: plans the provider does not know are not waited for.
allPushedKnown == pending \cap ids = {}

\* pendingCellCount is zero.
allPushed == pending = {}

\* markLiveIfSynced, in a transaction of its own after the push.
MarkLive ==
  /\ checking /\ checking' = FALSE
  /\ IF propertyState = "syncing" /\ allPushed
     THEN /\ propertyState' = "live"
          /\ step' = "live"
          /\ attempts' = IF step = "live" THEN attempts ELSE 0
     ELSE UNCHANGED <<propertyState, saved>>
  /\ UNCHANGED <<plans, ids, objects, run, pending, queued, bounds>>

\* reopenProvisioningForPlans: a finished setup goes back to the rate plans when one
\* of them, all, has no id.
reopen(all) ==
  IF step = "live" /\ all \ ids # {}
  THEN step' = "rate_plans" /\ attempts' = 0
  ELSE UNCHANGED saved

\* createDerivedPlanAction: the plan and its cells.
AddPlan(p) ==
  /\ p \in AddedPlans \ plans
  /\ adds > 0 /\ adds' = adds - 1
  /\ plans' = plans \cup {p}
  /\ pending' = pending \cup {p}
  /\ reopen(plans')
  /\ queued' = TRUE
  /\ UNCHANGED <<propertyState, ids, objects, run, checking, crew, faults, edits>>

\* An edit of the calendar of one lane.
EditCell(l) ==
  /\ l \in {"room"} \cup plans
  /\ edits > 0 /\ edits' = edits - 1
  /\ pending' = pending \cup {l}
  /\ queued' = TRUE
  /\ UNCHANGED <<saved, propertyState, plans, ids, objects, run, checking, crew, faults, adds>>

\* forceResyncAction.
ForceResync ==
  /\ edits > 0 /\ edits' = edits - 1
  /\ reopen(plans)
  /\ pending' = {"room"} \cup plans
  /\ queued' = TRUE
  /\ UNCHANGED <<propertyState, plans, ids, objects, run, checking, crew, faults, adds>>

-----------------------------------------------------------------------------
RunStep(r) == StartRun(r) \/ List(r) \/ Create(r) \/ Save(r) \/ InitialPush(r) \/ Fail(r)

ProvNext ==
  \/ \E r \in crew : RunStep(r) \/ Crash(r)
  \/ Push \/ MarkLive
  \/ \E p \in AddedPlans : AddPlan(p)
  \/ \E l \in Lanes : EditCell(l)
  \/ ForceResync

ProvSpec == ProvInit /\ [][ProvNext]_provVars

\* The sweep is repeated, the queue runs its jobs, and pushes are delivered.
ProvFairness ==
  /\ \A r \in UNION {c.runs : c \in Crews} : WF_provVars(r \in crew /\ RunStep(r))
  /\ WF_provVars(Push) /\ WF_provVars(MarkLive)

ProvFairSpec == ProvSpec /\ ProvFairness

-----------------------------------------------------------------------------
(* Properties *)

ProvTypeOK ==
  /\ step \in ToSet(STEPS) /\ attempts \in 0..MaxAttempts
  /\ propertyState \in {"draft", "syncing", "live"}
  /\ plans \subseteq AllPlans /\ ids \subseteq {"room"} \cup plans
  /\ pending \subseteq {"room"} \cup plans
  /\ \A r \in crew : run[r].making \cup run[r].todo \subseteq Objects

\* Retries, lost answers and restarts duplicate nothing at the provider: no object is
\* held twice if runs do not overlap, and no plan even if they do (PROV-1, PROV-3).
NothingTwice ==
  \A o \in Objects : objects[o] > 1 => o \notin AllPlans /\ Cardinality(crew) > 1

\* A property becomes live when every plan it has is at the provider and every cell of
\* it has been pushed, whatever was edited or added during its setup.
LiveIsComplete ==
  [][propertyState # "live" /\ propertyState' = "live"
       => /\ pending' = {}
          /\ \A p \in plans' : p \in ids' /\ objects'[p] > 0]_provVars

\* A plan the setup has gone past.
overlooked == IF IsPast(step) THEN plans \ ids ELSE {}

\* A push of an edit has emptied the calendar before the seed step.
emptied == step = "seed" /\ pending = {}

\* A setup that has begun ends, through failures and restarts, unless a plan was
\* overlooked or the calendar emptied, if runs do not overlap (a run that overlaps
\* another puts back the step the other has left).
SetUpEnds ==
  (/\ Cardinality(crew) = 1
   /\ <>(\E r \in crew : run[r] # Idle)
   /\ <>[](overlooked = {} /\ ~emptied))
  => <>(propertyState = "live")
=============================================================================
