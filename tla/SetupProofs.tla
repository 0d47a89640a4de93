---------------------------- MODULE SetupProofs ----------------------------
(***************************************************************************)
(* Proofs about the setup of a property at the channel manager, for any     *)
(* plans, runs and faults, about the bucket its calls take tokens from, for *)
(* any rates, burst and callers, about the circuit breaker, for any number  *)
(* of pushes and any threshold, and about a channel connection, for any     *)
(* tabs.  Last, what is proved of each component holds where they run as in *)
(* MCProviders.                                                             *)
(***************************************************************************)
EXTENDS MCProviders, DeliveryProofs

(* The setup: the invariant *)

Steps == ToSet(STEPS)
Known == {"room"} \cup plans

Run == [at : {"idle", "retry", "ensure", "pushed"}, step : Steps, tries : 0..MaxAttempts,
        todo : SUBSET Objects, making : SUBSET Objects, read : SUBSET Lanes]

\* The variables' types; lanes are those of the plans there are.
ProvTyped ==
  /\ step \in Steps /\ attempts \in 0..MaxAttempts
  /\ propertyState \in {"draft", "syncing", "live"}
  /\ plans \subseteq AllPlans /\ ids \subseteq Known /\ pending \subseteq Known
  /\ objects \in [Objects -> Nat] /\ run \in [crew -> Run]
  /\ IsFiniteSet(crew)

LEMMA StepsAreSteps ==
  /\ Steps = {"group", "property", "room_types", "rate_plans", "policies", "webhook", "seed",
              "initial_push", "live"}
  /\ \A s \in Steps : nextStep(s) \in Steps
  <1>1. /\ Len(STEPS) = 9 /\ DOMAIN STEPS = 1..9
        /\ Steps = {STEPS[i] : i \in 1..9}
    BY DEF STEPS, Steps, ToSet
  <1>2. Steps = {"group", "property", "room_types", "rate_plans", "policies", "webhook", "seed",
                 "initial_push", "live"}
    <2>1. \A i \in 1..9 : i = 1 \/ i = 2 \/ i = 3 \/ i = 4 \/ i = 5 \/ i = 6 \/ i = 7 \/ i = 8 \/ i = 9
      OBVIOUS
    <2> QED
      BY <1>1, <2>1 DEF STEPS
  <1>3. ASSUME NEW s \in Steps PROVE nextStep(s) \in Steps
    <2> DEFINE i == CHOOSE i \in DOMAIN STEPS : STEPS[i] = s
    <2>1. i \in 1..9
      BY <1>1
    <2>2. Min({9, 1 + i}) \in 1..9
      BY <2>1 DEF Min
    <2> QED
      BY <1>1, <2>2 DEF nextStep
  <1> QED
    BY <1>2, <1>3

\* What a run has read it will save: each lane is known, still to do, or at the provider.
RunEnsures(job, lanes, there) ==
  /\ job.at = "ensure" => \A l \in job.read :
                            l \in lanes \cup job.todo \cup job.making \/ there[l] > 0
  /\ job.at = "pushed" => job.read = {}
  /\ job.at = "ensure" /\ job.step = "initial_push" => job.read = {}
  /\ \A o, q \in job.making : o = q

\* What is known is at the provider; what a run is about to save will be; a syncing
\* property waits for the plans that are not known.
SetUpFollows ==
  /\ \A l \in ids : objects[l] > 0
  /\ \A r \in crew : RunEnsures(run[r], ids, objects) /\ run[r].read \subseteq Known
  /\ propertyState = "syncing" => plans \ ids \subseteq pending

\* A plan is held once, and so is everything if there is one run, which creates only
\* what is not there.
HeldOnce ==
  /\ \A o \in AllPlans : objects[o] <= 1
  /\ (\A r, s \in crew : r = s) =>
       \A o \in Objects : /\ objects[o] <= 1
                          /\ \A r \in crew : o \in run[r].making => objects[o] = 0

ProvInv == ProvTyped /\ SetUpFollows /\ HeldOnce

-----------------------------------------------------------------------------

\* An idle run has nothing to do.
LEMMA IdleEnsures ==
  ASSUME NEW at \in {"idle", "retry"}
  PROVE  /\ [Idle EXCEPT !.at = at] \in Run
         /\ [Idle EXCEPT !.at = at].making = {} /\ [Idle EXCEPT !.at = at].read = {}
         /\ \A lanes, there : RunEnsures([Idle EXCEPT !.at = at], lanes, there)
         /\ [Idle EXCEPT !.at = "idle"] = Idle
  <1> DEFINE d == [Idle EXCEPT !.at = at]
  <1>1. Idle = [Idle EXCEPT !.at = "idle"]
    BY DEF Idle
  <1>2. d = [at |-> at, step |-> "live", tries |-> 0, todo |-> {}, making |-> {}, read |-> {}]
    BY DEF Idle
  <1>3. d \in Run
    BY <1>2, StepsAreSteps, AttemptsPositive DEF Run
  <1>4. d.at = at /\ d.making = {} /\ d.read = {} /\ d.step = "live"
    BY <1>2
  <1> HIDE DEF d
  <1>5. \A lanes, there : RunEnsures(d, lanes, there)
    BY <1>4 DEF RunEnsures
  <1> QED
    BY <1>1, <1>3, <1>4, <1>5 DEF d

\* A run that enters a step has it all to do, but for what is known.
LEMMA EnteredRun ==
  ASSUME ProvTyped, NEW s \in Steps, NEW tries \in 0..MaxAttempts, NEW lanes
  PROVE  /\ enter(s, tries, lanes) \in Run
         /\ enter(s, tries, lanes).making = {} /\ enter(s, tries, lanes).read \subseteq Known
         /\ \A there : RunEnsures(enter(s, tries, lanes), lanes, there)
  <1>1. CASE s = "live"
    <2>1. enter(s, tries, lanes) = Idle
      BY <1>1 DEF enter
    <2>2. Idle = [Idle EXCEPT !.at = "idle"]
      BY DEF Idle
    <2>3. /\ Idle \in Run /\ Idle.making = {} /\ Idle.read = {}
          /\ \A k, there : RunEnsures(Idle, k, there)
      BY <2>2, IdleEnsures
    <2> QED
      BY <2>1, <2>3
  <1>2. CASE s # "live"
    <2> DEFINE d == [at |-> "ensure", step |-> s, tries |-> tries, todo |-> needs(s, lanes),
                     making |-> {}, read |-> records(s)]
    <2>1. enter(s, tries, lanes) = d
      BY <1>2 DEF enter
    <2>2. needs(s, lanes) \subseteq Objects
      BY DEF needs, Objects, ProvTyped
    <2>3. records(s) \subseteq Known /\ records(s) \subseteq Lanes
      BY DEF records, Known, Lanes, ProvTyped
    <2>4. \A l \in records(s) : l \in lanes \cup needs(s, lanes)
      <3>1. CASE s = "room_types"
        BY <3>1 DEF records, needs
      <3>2. CASE s = "rate_plans"
        BY <3>2 DEF records, needs
      <3>3. CASE s \notin {"room_types", "rate_plans"}
        BY <3>3 DEF records
      <3> QED
        BY <3>1, <3>2, <3>3
    <2>5. s = "initial_push" => records(s) = {}
      BY DEF records
    <2>6. d \in Run
      BY <2>2, <2>3 DEF Run
    <2>7. \A there : RunEnsures(d, lanes, there)
      BY <2>4, <2>5 DEF RunEnsures
    <2> QED
      BY <2>1, <2>3, <2>6, <2>7
  <1> QED
    BY <1>1, <1>2

\* What a run has read stays ensured as more becomes known and is created.
LEMMA EnsuresStays ==
  ASSUME NEW job \in Run, NEW lanes, NEW lanes2, NEW there \in [Objects -> Nat],
         NEW there2 \in [Objects -> Nat], lanes \subseteq lanes2,
         \A o \in Objects : there2[o] >= there[o], RunEnsures(job, lanes, there)
  PROVE  RunEnsures(job, lanes2, there2)
  <1>1. job.read \subseteq Objects
    BY DEF Run, Lanes, Objects
  <1>2. \A l \in job.read : there[l] > 0 => there2[l] > 0
    BY <1>1
  <1> QED
    BY <1>2 DEF RunEnsures

\* What is asked of a run's step, for the invariant to stay.
LEMMA RunStepKeeps ==
  ASSUME ProvInv, NEW r \in crew, NEW d \in Run, run' = [run EXCEPT ![r] = d],
         crew' = crew, plans' = plans, step' \in Steps, attempts' \in 0..MaxAttempts,
         propertyState' \in {"draft", "syncing", "live"},
         ids \subseteq ids', ids' \subseteq Known, pending' \subseteq Known,
         objects' \in [Objects -> Nat], \A o \in Objects : objects'[o] >= objects[o],
         \A l \in ids' : objects'[l] > 0,
         RunEnsures(d, ids', objects'), d.read \subseteq Known,
         propertyState' = "syncing" => plans \ ids' \subseteq pending',
         \A o \in AllPlans : objects'[o] <= 1,
         (\A q, s \in crew : q = s) =>
           \A o \in Objects : objects'[o] <= 1 /\ (o \in d.making => objects'[o] = 0)
  PROVE  ProvInv'
  <1>1. /\ run' \in [crew -> Run] /\ run'[r] = d
        /\ \A q \in crew \ {r} : run'[q] = run[q]
    BY DEF ProvInv, ProvTyped
  <1>2. Known' = Known
    BY DEF Known
  <1>3. ProvTyped'
    BY <1>1, <1>2 DEF ProvInv, ProvTyped
  <1>4. ASSUME NEW q \in crew
        PROVE  RunEnsures(run'[q], ids', objects') /\ run'[q].read \subseteq Known
    <2>1. CASE q = r
      BY <1>1, <2>1
    <2>2. CASE q # r
      <3>1. /\ run'[q] = run[q] /\ run[q] \in Run /\ run[q].read \subseteq Known
            /\ RunEnsures(run[q], ids, objects) /\ objects \in [Objects -> Nat]
        BY <1>1, <2>2 DEF ProvInv, ProvTyped, SetUpFollows
      <3> QED
        BY <3>1, EnsuresStays
    <2> QED
      BY <2>1, <2>2
  <1>5. SetUpFollows'
    BY <1>2, <1>4 DEF SetUpFollows
  <1>6. HeldOnce'
    <2>1. ASSUME \A q, s \in crew : q = s, NEW o \in Objects
          PROVE  /\ objects'[o] <= 1
                 /\ \A q \in crew : o \in run'[q].making => objects'[o] = 0
      <3>1. \A q \in crew : run'[q] = d
        BY <1>1, <2>1
      <3> QED
        BY <2>1, <3>1
    <2> QED
      BY <2>1 DEF HeldOnce
  <1> QED
    BY <1>3, <1>5, <1>6 DEF ProvInv

\* Creating an object that a run is making, and that the provider accepts.
LEMMA CreatesOne ==
  ASSUME ProvInv, NEW r \in crew, NEW o \in run[r].making, accepts(o),
         objects' = [objects EXCEPT ![o] = @ + 1]
  PROVE  /\ o \in Objects /\ objects' \in [Objects -> Nat]
         /\ objects'[o] > 0 /\ \A q \in Objects : objects'[q] >= objects[q]
         /\ \A l \in ids : objects'[l] > 0
         /\ \A p \in AllPlans : objects'[p] <= 1
         /\ (\A q, s \in crew : q = s) => \A q \in Objects : objects'[q] <= 1
  <1>1. /\ o \in Objects /\ objects \in [Objects -> Nat] /\ ids \subseteq Objects
        /\ AllPlans \subseteq Objects
    BY DEF ProvInv, ProvTyped, Run, Objects, Known
  <1>2. /\ objects' \in [Objects -> Nat] /\ objects'[o] = objects[o] + 1
        /\ \A q \in Objects \ {o} : objects'[q] = objects[q]
    BY <1>1
  <1>3. \A q \in Objects : objects'[q] >= objects[q]
    BY <1>1, <1>2
  <1>4. \A l \in ids : objects'[l] > 0
    BY <1>1, <1>2, <1>3 DEF ProvInv, SetUpFollows
  <1>5. \A p \in AllPlans : objects'[p] <= 1
    BY <1>1, <1>2 DEF ProvInv, HeldOnce, accepts
  <1>6. (\A q, s \in crew : q = s) => \A q \in Objects : objects'[q] <= 1
    BY <1>1, <1>2 DEF ProvInv, HeldOnce
  <1> QED
    BY <1>1, <1>2, <1>3, <1>4, <1>5, <1>6

-----------------------------------------------------------------------------

\* The facts of the state a run's step leaves alone.
LEMMA SetUpStands ==
  ASSUME ProvInv
  PROVE  /\ step \in Steps /\ attempts \in 0..MaxAttempts
         /\ propertyState \in {"draft", "syncing", "live"}
         /\ ids \subseteq Known /\ pending \subseteq Known
         /\ objects \in [Objects -> Nat] /\ \A o \in Objects : objects[o] >= objects[o]
         /\ \A l \in ids : objects[l] > 0
         /\ propertyState = "syncing" => plans \ ids \subseteq pending
         /\ \A o \in AllPlans : objects[o] <= 1
         /\ (\A q, s \in crew : q = s) => \A o \in Objects : objects[o] <= 1
  BY DEF ProvInv, ProvTyped, SetUpFollows, HeldOnce

\* A run begins with what the row says.
LEMMA StartKeepsInv ==
  ASSUME ProvInv, NEW r \in crew, StartRun(r)
  PROVE  ProvInv'
  <1> DEFINE d == enter(step, attempts, ids)
  <1>1. /\ run' = [run EXCEPT ![r] = d]
        /\ UNCHANGED <<step, attempts, propertyState, plans, ids, objects, pending, crew>>
    BY DEF StartRun, saved, bounds
  <1>2. /\ d \in Run /\ d.making = {} /\ d.read \subseteq Known
        /\ RunEnsures(d, ids, objects)
    BY SetUpStands, EnteredRun DEF ProvInv
  <1> HIDE DEF d
  <1> QED
    BY <1>1, <1>2, SetUpStands, RunStepKeeps

\* The list tells a run whether an object is there, or is to be created.
LEMMA ListKeepsInv ==
  ASSUME ProvInv, NEW r \in crew, List(r)
  PROVE  ProvInv'
  <1>1. PICK o \in turn(r) :
          run' = [run EXCEPT ![r] = [run[r] EXCEPT !.todo = @ \ {o},
                                                   !.making = IF found(o) THEN {} ELSE {o}]]
    BY DEF List
  <1>2. /\ run[r].making = {} /\ run[r].at = "ensure"
        /\ UNCHANGED <<step, attempts, propertyState, plans, ids, objects, pending, crew>>
    BY DEF List, saved, bounds
  <1>3. /\ run[r] \in Run /\ run[r].read \subseteq Known /\ RunEnsures(run[r], ids, objects)
        /\ o \in run[r].todo /\ o \in Objects
    BY DEF ProvInv, ProvTyped, SetUpFollows, turn, Run
  <1> DEFINE making == IF found(o) THEN {} ELSE {o}
             d == [run[r] EXCEPT !.todo = @ \ {o}, !.making = making]
  <1>4. making \in SUBSET Objects /\ \A q \in making : q = o /\ objects[o] = 0
    BY <1>3, SetUpStands DEF found
  <1>5. o \in making \/ objects[o] > 0
    BY DEF found
  <1> HIDE DEF making
  <1>6. /\ d \in Run /\ d.todo = run[r].todo \ {o} /\ d.making = making
        /\ d.read = run[r].read /\ d.at = run[r].at /\ d.step = run[r].step
    BY <1>3, <1>4 DEF Run
  <1>7. run' = [run EXCEPT ![r] = d]
    BY <1>1 DEF making
  <1> HIDE DEF d
  <1>8. RunEnsures(d, ids, objects)
    BY <1>2, <1>3, <1>4, <1>5, <1>6 DEF RunEnsures
  <1>9. \A q \in d.making : objects[q] = 0
    BY <1>4, <1>6
  <1> QED
    BY <1>2, <1>3, <1>6, <1>7, <1>8, <1>9, SetUpStands, RunStepKeeps

\* The object a run makes is created, once.
LEMMA CreateKeepsInv ==
  ASSUME ProvInv, NEW r \in crew, Create(r)
  PROVE  ProvInv'
  <1> DEFINE d == [run[r] EXCEPT !.making = {}]
  <1>1. PICK o \in run[r].making :
          accepts(o) /\ objects' = [objects EXCEPT ![o] = @ + 1] /\ run' = [run EXCEPT ![r] = d]
    BY DEF Create
  <1>2. UNCHANGED <<step, attempts, propertyState, plans, ids, pending, crew>>
    BY DEF Create, saved, bounds
  <1>3. run[r] \in Run /\ run[r].read \subseteq Known /\ RunEnsures(run[r], ids, objects)
    BY DEF ProvInv, ProvTyped, SetUpFollows
  <1>4. /\ d \in Run /\ d.making = {} /\ d.todo = run[r].todo
        /\ d.read = run[r].read /\ d.at = run[r].at /\ d.step = run[r].step
    BY <1>3 DEF Run
  <1> HIDE DEF d
  <1>5. /\ o \in Objects /\ objects' \in [Objects -> Nat]
        /\ objects'[o] > 0 /\ \A q \in Objects : objects'[q] >= objects[q]
        /\ \A l \in ids : objects'[l] > 0
        /\ \A p \in AllPlans : objects'[p] <= 1
        /\ (\A q, s \in crew : q = s) => \A q \in Objects : objects'[q] <= 1
    BY <1>1, CreatesOne
  <1>6. RunEnsures(run[r], ids, objects')
    BY <1>3, <1>5, SetUpStands, EnsuresStays
  <1>7. RunEnsures(d, ids, objects')
    BY <1>4, <1>5, <1>6 DEF RunEnsures
  <1> QED
    BY <1>1, <1>2, <1>3, <1>4, <1>5, <1>7, SetUpStands, RunStepKeeps

\* The lanes the step ensured are saved, and the run enters the step after it.
LEMMA SaveKeepsInv ==
  ASSUME ProvInv, NEW r \in crew, Save(r)
  PROVE  ProvInv'
  <1>1. /\ run[r] \in Run /\ run[r].read \subseteq Known /\ RunEnsures(run[r], ids, objects)
        /\ done(r)
        /\ UNCHANGED <<propertyState, plans, objects, pending, crew>>
    BY DEF ProvInv, ProvTyped, SetUpFollows, Save, bounds
  <1>2. \A l \in run[r].read : l \in ids \/ objects[l] > 0
    BY <1>1 DEF done, RunEnsures
  <1>3. step' = nextStep(run[r].step) /\ attempts' = 0 /\ ids' = ids \cup run[r].read
    BY DEF Save, advance
  <1>4. step' \in Steps /\ attempts' \in 0..MaxAttempts
    BY <1>1, <1>3, StepsAreSteps, AttemptsPositive DEF Run
  <1> DEFINE d == enter(step', attempts', ids')
  <1>5. run' = [run EXCEPT ![r] = d]
    BY DEF Save
  <1>6. /\ d \in Run /\ d.making = {} /\ d.read \subseteq Known
        /\ RunEnsures(d, ids', objects)
    BY <1>4, EnteredRun DEF ProvInv
  <1> HIDE DEF d
  <1>7. ids \subseteq ids' /\ ids' \subseteq Known /\ \A l \in ids' : objects[l] > 0
    BY <1>1, <1>2, <1>3, SetUpStands
  <1>8. propertyState' = "syncing" => plans \ ids' \subseteq pending'
    BY <1>1, <1>3, SetUpStands
  <1> QED
    BY <1>1, <1>4, <1>5, <1>6, <1>7, <1>8, SetUpStands, RunStepKeeps

\* Every cell is pending again, and the property waits for them.
LEMMA InitialPushKeepsInv ==
  ASSUME ProvInv, NEW r \in crew, InitialPush(r)
  PROVE  ProvInv'
  <1> DEFINE d == [run[r] EXCEPT !.at = "pushed"]
  <1>1. /\ run[r] \in Run /\ run[r].read \subseteq Known /\ RunEnsures(run[r], ids, objects)
        /\ \A o \in run[r].making :
             (\A q, s \in crew : q = s) => objects[o] = 0
    BY DEF ProvInv, ProvTyped, SetUpFollows, HeldOnce, Run
  <1>2. /\ run[r].at = "ensure" /\ run[r].step = "initial_push"
        /\ run' = [run EXCEPT ![r] = d]
        /\ pending' = Known
        /\ propertyState' = IF propertyState = "live" THEN "live" ELSE "syncing"
        /\ UNCHANGED <<step, attempts, plans, ids, objects, crew>>
    BY DEF InitialPush, saved, bounds, Known
  <1>3. /\ d \in Run /\ d.at = "pushed" /\ d.making = run[r].making /\ d.read = run[r].read
    BY <1>1 DEF Run
  <1> HIDE DEF d
  <1>4. RunEnsures(d, ids, objects)
    BY <1>1, <1>2, <1>3 DEF RunEnsures
  <1>5. plans \ ids \subseteq Known
    BY DEF Known
  <1> QED
    BY <1>1, <1>2, <1>3, <1>4, <1>5, SetUpStands, RunStepKeeps

\* A step that throws may have created its object; the run is over.
LEMMA FailKeepsInv ==
  ASSUME ProvInv, NEW r \in crew, Fail(r)
  PROVE  ProvInv'
  <1>1. PICK at \in {"retry", "idle"} : run' = [run EXCEPT ![r] = [Idle EXCEPT !.at = at]]
    BY DEF Fail
  <1>2. /\ run[r] \in Run /\ Throws(r)
        /\ UNCHANGED <<propertyState, plans, ids, pending, crew>>
    BY DEF Fail, ProvInv, ProvTyped
  <1>3. step' \in Steps /\ attempts' \in 0..MaxAttempts
    BY <1>2, AttemptsPositive DEF Fail, Run, Min
  <1> DEFINE d == [Idle EXCEPT !.at = at]
  <1>4. d \in Run /\ d.making = {} /\ d.read = {} /\ RunEnsures(d, ids, objects')
    BY IdleEnsures
  <1> HIDE DEF d
  <1>5. CASE UNCHANGED objects
    BY <1>1, <1>2, <1>3, <1>4, <1>5, SetUpStands, RunStepKeeps DEF d
  <1>6. CASE \E o \in run[r].making : accepts(o) /\ objects' = [objects EXCEPT ![o] = @ + 1]
    <2>1. PICK o \in run[r].making : accepts(o) /\ objects' = [objects EXCEPT ![o] = @ + 1]
      BY <1>6
    <2>2. /\ objects' \in [Objects -> Nat] /\ \A q \in Objects : objects'[q] >= objects[q]
          /\ \A l \in ids : objects'[l] > 0
          /\ \A p \in AllPlans : objects'[p] <= 1
          /\ (\A q, s \in crew : q = s) => \A q \in Objects : objects'[q] <= 1
      BY <2>1, CreatesOne
    <2>3. run' = [run EXCEPT ![r] = d]
      BY <1>1 DEF d
    <2> QED
      BY <1>2, <1>3, <1>4, <2>2, <2>3, SetUpStands, RunStepKeeps
  <1> QED
    BY <1>2, <1>5, <1>6 DEF Throws

\* What a worker that dies had not saved is gone.
LEMMA CrashKeepsInv ==
  ASSUME ProvInv, NEW r \in crew, Crash(r)
  PROVE  ProvInv'
  <1>1. /\ run' = [run EXCEPT ![r] = Idle]
        /\ UNCHANGED <<step, attempts, propertyState, plans, ids, objects, pending, crew>>
    BY DEF Crash, saved
  <1>2. Idle \in Run /\ Idle.making = {} /\ Idle.read = {} /\ RunEnsures(Idle, ids, objects)
    BY IdleEnsures
  <1> QED
    BY <1>1, <1>2, SetUpStands, RunStepKeeps

-----------------------------------------------------------------------------

\* A step of the push or the user, which leaves the runs and the provider alone.
LEMMA OthersKeep ==
  ASSUME ProvInv, UNCHANGED <<run, crew, ids, objects>>,
         plans \subseteq plans', plans' \subseteq AllPlans,
         step' \in Steps, attempts' \in 0..MaxAttempts,
         propertyState' \in {"draft", "syncing", "live"}, pending' \subseteq Known',
         propertyState' = "syncing" => plans' \ ids \subseteq pending'
  PROVE  ProvInv'
  <1>1. Known \subseteq Known'
    BY DEF Known
  <1>2. ProvTyped'
    BY <1>1 DEF ProvInv, ProvTyped
  <1>3. SetUpFollows'
    BY <1>1 DEF ProvInv, SetUpFollows
  <1>4. HeldOnce'
    BY DEF ProvInv, HeldOnce
  <1> QED
    BY <1>2, <1>3, <1>4 DEF ProvInv

\* A finished setup may go back to the plans.
LEMMA ReopenTyped ==
  ASSUME ProvInv, NEW all, reopen(all)
  PROVE  step' \in Steps /\ attempts' \in 0..MaxAttempts
  BY StepsAreSteps, AttemptsPositive DEF reopen, ProvInv, ProvTyped, saved

\* The push, the last step of a setup, the added plan and the edits keep the invariant.
LEMMA OthersKeepInv ==
  ASSUME ProvInv,
         \/ Push \/ MarkLive \/ ForceResync
         \/ \E p \in AddedPlans : AddPlan(p)
         \/ \E l \in Lanes : EditCell(l)
  PROVE  ProvInv'
  <1>1. /\ plans \subseteq AllPlans /\ pending \subseteq Known
        /\ propertyState = "syncing" => plans \ ids \subseteq pending
        /\ propertyState \in {"draft", "syncing", "live"}
        /\ step \in Steps /\ attempts \in 0..MaxAttempts
    BY DEF ProvInv, ProvTyped, SetUpFollows
  <1>2. CASE Push
    <2>1. /\ UNCHANGED <<step, attempts, propertyState, plans, ids, objects, run, crew>>
          /\ pending' = pending \ ids
      BY <1>2 DEF Push, saved, bounds
    <2> QED
      BY <1>1, <2>1, OthersKeep DEF Known
  <1>3. CASE MarkLive
    <2>1. /\ UNCHANGED <<plans, ids, objects, run, pending, crew>>
          /\ step' \in Steps /\ attempts' \in 0..MaxAttempts
          /\ propertyState' \in {propertyState, "live"}
      BY <1>1, <1>3, StepsAreSteps, AttemptsPositive DEF MarkLive, bounds, saved
    <2> QED
      BY <1>1, <2>1, OthersKeep DEF Known
  <1>4. CASE ForceResync
    <2>1. /\ UNCHANGED <<propertyState, plans, ids, objects, run, crew>>
          /\ pending' = Known /\ reopen(plans)
      BY <1>4 DEF ForceResync, Known
    <2>2. step' \in Steps /\ attempts' \in 0..MaxAttempts
      BY <2>1, ReopenTyped
    <2> QED
      BY <1>1, <2>1, <2>2, OthersKeep DEF Known
  <1>5. ASSUME NEW p \in AddedPlans, AddPlan(p) PROVE ProvInv'
    <2>1. /\ UNCHANGED <<propertyState, ids, objects, run, crew>>
          /\ plans' = plans \cup {p} /\ pending' = pending \cup {p}
          /\ \E all : reopen(all)
      BY <1>5 DEF AddPlan
    <2>2. step' \in Steps /\ attempts' \in 0..MaxAttempts
      BY <2>1, ReopenTyped
    <2> QED
      BY <1>1, <2>1, <2>2, OthersKeep DEF Known, AllPlans
  <1>6. ASSUME NEW l \in Lanes, EditCell(l) PROVE ProvInv'
    <2>1. /\ UNCHANGED <<step, attempts, propertyState, plans, ids, objects, run, crew>>
          /\ pending' = pending \cup {l} /\ l \in Known
      BY <1>6 DEF EditCell, Known, saved
    <2> QED
      BY <1>1, <2>1, OthersKeep DEF Known
  <1> QED
    BY <1>2, <1>3, <1>4, <1>5, <1>6

\* Nothing is known, nothing is held, and no run has begun.
LEMMA ProvInitInv == ProvInit => ProvInv
  <1> SUFFICES ASSUME ProvInit PROVE ProvInv
    OBVIOUS
  <1>1. /\ Idle \in Run /\ Idle.making = {} /\ Idle.read = {}
        /\ \A lanes, there : RunEnsures(Idle, lanes, there)
    BY IdleEnsures
  <1>2. \A r \in crew : run[r] = Idle
    BY DEF ProvInit
  <1>3. IsFiniteSet(crew)
    BY CrewsAreFinite DEF ProvInit
  <1>4. ProvTyped
    <2>1. step \in Steps /\ attempts \in 0..MaxAttempts
      BY StepsAreSteps, AttemptsPositive DEF ProvInit
    <2>2. run \in [crew -> Run]
      BY <1>1 DEF ProvInit
    <2> QED
      BY <1>3, <2>1, <2>2 DEF ProvInit, ProvTyped, Known, AllPlans
  <1>5. SetUpFollows
    BY <1>1, <1>2 DEF ProvInit, SetUpFollows
  <1>6. HeldOnce
    BY <1>1, <1>2 DEF ProvInit, HeldOnce, Objects
  <1> QED
    BY <1>4, <1>5, <1>6 DEF ProvInv

\* Every step of the runs, the push and the user keeps the invariant.
LEMMA ProvStepInv == ProvInv /\ [ProvNext]_provVars => ProvInv'
  <1> SUFFICES ASSUME ProvInv, [ProvNext]_provVars PROVE ProvInv'
    OBVIOUS
  <1>1. ASSUME NEW r \in crew, RunStep(r) \/ Crash(r) PROVE ProvInv'
    BY <1>1, StartKeepsInv, ListKeepsInv, CreateKeepsInv, SaveKeepsInv, InitialPushKeepsInv,
       FailKeepsInv, CrashKeepsInv DEF RunStep
  <1>2. CASE UNCHANGED provVars
    BY <1>2 DEF provVars, saved, bounds, ProvInv, ProvTyped, SetUpFollows, HeldOnce, Known
  <1> QED
    BY <1>1, <1>2, OthersKeepInv DEF ProvNext

\* The invariant holds throughout.
LEMMA ProvInvariant == ProvSpec => []ProvInv
  BY ProvInitInv, ProvStepInv, PTL DEF ProvSpec

\* The setup's state has the types it is meant to have.
THEOREM ProvTypeCorrect == ProvSpec => []ProvTypeOK
  <1>1. ProvInv => ProvTypeOK
    BY DEF ProvInv, ProvTyped, Run, Steps, Known, ProvTypeOK
  <1> QED
    BY <1>1, ProvInvariant, PTL

\* Whatever fails, answers late or is retried, nothing is made twice at the provider if
\* runs do not overlap, and no plan even if they do.
THEOREM SetUpMakesOnce == ProvSpec => []NothingTwice
  <1>1. ProvInv => NothingTwice
    <2> SUFFICES ASSUME ProvInv, NEW o \in Objects, objects[o] > 1
                 PROVE  o \notin AllPlans /\ Cardinality(crew) > 1
      BY DEF NothingTwice
    <2>1. objects[o] \in Nat /\ IsFiniteSet(crew)
      BY DEF ProvInv, ProvTyped
    <2>2. o \notin AllPlans
      BY <2>1 DEF ProvInv, HeldOnce
    <2>3. PICK r \in crew, s \in crew : r # s
      BY <2>1 DEF ProvInv, HeldOnce
    <2>4. Cardinality({r} \cup {s}) = 2
      <3>1. IsFiniteSet({r}) /\ Cardinality({r}) = 1 /\ s \notin {r}
        BY <2>3, FS_Singleton
      <3> DEFINE one == {r}
      <3> HIDE DEF one
      <3>2. IsFiniteSet(one) /\ Cardinality(one) = 1 /\ s \notin one
        BY <3>1 DEF one
      <3>3. Cardinality(one \cup {s}) = Cardinality(one) + 1
        BY <3>2, FS_AddElement
      <3> QED
        BY <3>2, <3>3 DEF one
    <2>5. Cardinality({r} \cup {s}) <= Cardinality(crew)
      BY <2>1, FS_Subset
    <2>6. Cardinality(crew) \in Nat
      BY <2>1, FS_CardinalityType
    <2> QED
      BY <2>2, <2>4, <2>5, <2>6
  <1> QED
    BY <1>1, ProvInvariant, PTL

\* A property goes live only with every plan it has at the provider and every cell
\* pushed, whatever was edited or added during its setup and however runs overlapped.
THEOREM GoesLiveWhole == ProvSpec => LiveIsComplete
  <1> DEFINE Whole == propertyState # "live" /\ propertyState' = "live"
                        => /\ pending' = {}
                           /\ \A p \in plans' : p \in ids' /\ objects'[p] > 0
  <1>1. ProvInv /\ [ProvNext]_provVars => [Whole]_provVars
    <2> SUFFICES ASSUME ProvInv, ProvNext, propertyState # "live", propertyState' = "live"
                 PROVE  pending' = {} /\ \A p \in plans' : p \in ids' /\ objects'[p] > 0
      BY Zenon
    <2>1. MarkLive
      <3>1. ASSUME NEW r \in crew, RunStep(r) \/ Crash(r) PROVE FALSE
        BY <3>1 DEF RunStep, StartRun, List, Create, Save, InitialPush, Fail, Crash
      <3>2. ASSUME NEW p \in AddedPlans, AddPlan(p) PROVE FALSE
        BY <3>2 DEF AddPlan
      <3>3. ASSUME NEW l \in Lanes, EditCell(l) PROVE FALSE
        BY <3>3 DEF EditCell
      <3>4. CASE Push \/ ForceResync
        BY <3>4 DEF Push, ForceResync
      <3> QED
        BY <3>1, <3>2, <3>3, <3>4 DEF ProvNext
    <2>2. /\ propertyState = "syncing" /\ pending = {}
          /\ UNCHANGED <<plans, ids, objects, pending>>
      BY <2>1 DEF MarkLive, allPushed
    <2>3. \A p \in plans : p \in ids /\ objects[p] > 0
      BY <2>2 DEF ProvInv, SetUpFollows
    <2> QED
      BY <2>2, <2>3
  <1> HIDE DEF Whole
  <1>2. ProvSpec => [][Whole]_provVars
    BY <1>1, ProvInvariant, PTL DEF ProvSpec
  <1> QED
    BY <1>2 DEF Whole, LiveIsComplete

-----------------------------------------------------------------------------
(* The rate limiter: the invariant *)

Sleeper == [at : {"idle", "asleep", "calling"}, ticks : Nat]

LimTyped ==
  /\ tokens \in 0..Full /\ rate \in MinRate..Parts
  /\ elapsed \in 0..LongIdle /\ successes \in 0..RecoverAfter
  /\ caller \in [Callers -> Sleeper]
  /\ throttle \in [ticks : 0..Window, calls : Nat]

\* Since a throttle, what the bucket holds, what it is owed and what was taken from it
\* is no more than the base rate has refilled.
Refilled(level, owed, at, mark) ==
  mark.ticks < Window => level + owed * at + mark.calls * Parts <= mark.ticks * Parts

LimInv == LimTyped /\ Refilled(tokens, elapsed, rate, throttle)

-----------------------------------------------------------------------------

\* The smaller and the larger of two numbers.
LEMMA OfTwo ==
  ASSUME NEW a \in Int, NEW b \in Int
  PROVE  /\ Min({a, b}) = IF a <= b THEN a ELSE b
         /\ Max({a, b}) = IF a >= b THEN a ELSE b
  BY DEF Min, Max

\* More of what is not negative is not less.
LEMMA TimesGrows ==
  ASSUME NEW a \in Nat, NEW b \in Nat, NEW c \in Nat, a <= b
  PROVE  a * c <= b * c
  OBVIOUS

LEMMA TimesTyped == ASSUME NEW a \in Nat, NEW b \in Nat PROVE a * b \in Nat
  OBVIOUS

LEMMA ZeroTimes == ASSUME NEW a \in Nat PROVE 0 * a = 0
  OBVIOUS

\* A bucket refills no further than its burst.
LEMMA RefilledTyped ==
  ASSUME LimTyped
  PROVE  /\ refilled \in 0..Full /\ refilled <= tokens + elapsed * rate
         /\ Full \in Nat /\ rate \in Nat \ {0} /\ elapsed * rate \in Nat
  <1>1. /\ Full \in Nat /\ tokens \in Nat /\ elapsed \in Nat /\ rate \in Nat \ {0}
        /\ tokens <= Full
    <2>1. Full \in Nat
      BY LimiterPositive DEF Full
    <2> QED
      BY <2>1, LimiterPositive DEF LimTyped, LongIdle
  <1>2. elapsed * rate \in Nat
    BY <1>1
  <1>3. refilled = IF Full <= tokens + elapsed * rate THEN Full ELSE tokens + elapsed * rate
    BY <1>1, <1>2, OfTwo DEF refilled
  <1> QED
    BY <1>1, <1>2, <1>3

\* A caller takes a whole token, or sleeps until there is one.
LEMMA AcquireKeepsInv ==
  ASSUME LimInv, NEW c \in Callers, Acquire(c)
  PROVE  LimInv'
  <1>1. /\ refilled \in 0..Full /\ refilled <= tokens + elapsed * rate
        /\ Full \in Nat /\ rate \in Nat \ {0} /\ elapsed * rate \in Nat
    BY RefilledTyped DEF LimInv
  <1>2. /\ tokens \in Nat /\ rate \in MinRate..Parts /\ successes \in 0..RecoverAfter
        /\ caller \in [Callers -> Sleeper] /\ throttle \in [ticks : 0..Window, calls : Nat]
    BY <1>1 DEF LimInv, LimTyped
  <1>3. elapsed' = 0 /\ UNCHANGED <<rate, successes>> /\ 0 \in 0..LongIdle
    BY <1>1 DEF Acquire, LongIdle
  <1>4. elapsed' * rate' = 0
    BY <1>1, <1>3
  <1>5. CASE refilled >= Parts
    <2>1. /\ tokens' = refilled - Parts
          /\ caller' = [caller EXCEPT ![c] = calling]
          /\ throttle' = [throttle EXCEPT !.calls = IF throttle.ticks < Window THEN @ + 1 ELSE @]
      BY <1>5 DEF Acquire
    <2>2. calling \in Sleeper
      BY DEF calling, Sleeper
    <2>3. caller' \in [Callers -> Sleeper]
      BY <1>2, <2>1, <2>2
    <2>4. /\ throttle' \in [ticks : 0..Window, calls : Nat] /\ throttle'.ticks = throttle.ticks
          /\ throttle'.calls = IF throttle.ticks < Window THEN throttle.calls + 1
                                                          ELSE throttle.calls
      BY <1>2, <2>1
    <2>5. tokens' \in 0..Full
      BY <1>1, <1>5, <2>1, LimiterPositive
    <2>6. LimTyped'
      BY <1>2, <1>3, <2>3, <2>4, <2>5 DEF LimTyped, Full, LongIdle
    <2>7. ASSUME throttle'.ticks < Window
          PROVE  tokens' + elapsed' * rate' + throttle'.calls * Parts <= throttle'.ticks * Parts
      <3>1. tokens + elapsed * rate + throttle.calls * Parts <= throttle.ticks * Parts
        BY <2>4, <2>7 DEF LimInv, Refilled
      <3>2. throttle'.calls * Parts = throttle.calls * Parts + Parts
        BY <1>2, <2>4, <2>7, LimiterPositive
      <3>3. throttle.calls * Parts \in Nat /\ throttle.ticks * Parts \in Nat
        BY <1>2, LimiterPositive
      <3> QED
        BY <1>1, <1>2, <1>4, <2>1, <2>4, <3>1, <3>2, <3>3, LimiterPositive
    <2> QED
      BY <2>6, <2>7 DEF LimInv, Refilled
  <1>6. CASE ~(refilled >= Parts)
    <2>1. /\ tokens' = refilled /\ caller' = [caller EXCEPT ![c] = asleep(waitTicks)]
          /\ throttle' = throttle
      BY <1>6 DEF Acquire
    <2>2. waitTicks \in Nat
      <3>1. Parts - refilled + rate - 1 \in Nat
        BY <1>1, <1>6, LimiterPositive
      <3> QED
        BY <1>1, <3>1 DEF waitTicks
    <2>3. caller' \in [Callers -> Sleeper]
      <3>1. asleep(waitTicks) \in Sleeper
        BY <2>2 DEF asleep, Sleeper
      <3> QED
        BY <1>2, <2>1, <3>1
    <2>4. LimTyped'
      BY <1>1, <1>2, <1>3, <2>1, <2>3 DEF LimTyped, Full, LongIdle
    <2>5. ASSUME throttle'.ticks < Window
          PROVE  tokens' + elapsed' * rate' + throttle'.calls * Parts <= throttle'.ticks * Parts
      <3>1. tokens + elapsed * rate + throttle.calls * Parts <= throttle.ticks * Parts
        BY <2>1, <2>5 DEF LimInv, Refilled
      <3>2. throttle.calls * Parts \in Nat /\ throttle.ticks * Parts \in Nat
        BY <1>2, LimiterPositive
      <3> QED
        BY <1>1, <1>2, <1>4, <2>1, <3>1, <3>2
    <2> QED
      BY <2>4, <2>5 DEF LimInv, Refilled
  <1> QED
    BY <1>5, <1>6

\* A caller's sleep or call ends.
LEMMA CallerRests ==
  ASSUME LimTyped, NEW c \in Callers
  PROVE  [caller EXCEPT ![c] = idle] \in [Callers -> Sleeper]
  BY DEF LimTyped, idle, Sleeper

\* A success is counted, and may raise the rate, but not over the base.
LEMMA SucceedsKeepsInv ==
  ASSUME LimInv, NEW c \in Callers, Succeeds(c)
  PROVE  LimInv'
  <1>1. /\ refilled \in 0..Full /\ refilled <= tokens + elapsed * rate
        /\ Full \in Nat /\ rate \in Nat \ {0} /\ elapsed * rate \in Nat
    BY RefilledTyped DEF LimInv
  <1>2. /\ tokens \in Nat /\ rate \in MinRate..Parts /\ successes \in 0..RecoverAfter
        /\ throttle \in [ticks : 0..Window, calls : Nat]
    BY <1>1 DEF LimInv, LimTyped
  <1>3. /\ tokens' = refilled /\ elapsed' = 0 /\ throttle' = throttle
        /\ caller' = [caller EXCEPT ![c] = idle]
    BY DEF Succeeds
  <1>4. rate' \in MinRate..Parts /\ successes' \in 0..RecoverAfter
    <2>1. CASE raises
      <3>1. rate' = IF Parts <= 2 * rate THEN Parts ELSE 2 * rate
        BY <1>1, <2>1, LimiterPositive, OfTwo DEF Succeeds
      <3> QED
        BY <1>1, <1>2, <2>1, <3>1, LimiterPositive DEF Succeeds
    <2>2. CASE ~raises
      <3>1. successes' = IF RecoverAfter <= successes + 1 THEN RecoverAfter ELSE successes + 1
        BY <1>2, <2>2, LimiterPositive, OfTwo DEF Succeeds
      <3> QED
        BY <1>2, <2>2, <3>1, LimiterPositive DEF Succeeds
    <2> QED
      BY <2>1, <2>2
  <1>5. caller' \in [Callers -> Sleeper]
    BY <1>3, CallerRests DEF LimInv
  <1>6. LimTyped'
    BY <1>1, <1>2, <1>3, <1>4, <1>5 DEF LimTyped, Full, LongIdle
  <1>7. elapsed' * rate' = 0
    <2>1. rate' \in Nat
      BY <1>4, LimiterPositive
    <2>2. 0 * rate' = 0
      BY <2>1, ZeroTimes
    <2> QED
      BY <1>3, <2>2
  <1>8. ASSUME throttle'.ticks < Window
        PROVE  tokens' + elapsed' * rate' + throttle'.calls * Parts <= throttle'.ticks * Parts
    <2>1. tokens + elapsed * rate + throttle.calls * Parts <= throttle.ticks * Parts
      BY <1>3, <1>8 DEF LimInv, Refilled
    <2>2. throttle.calls * Parts \in Nat /\ throttle.ticks * Parts \in Nat
      BY <1>2, LimiterPositive
    <2> QED
      BY <1>1, <1>2, <1>3, <1>7, <2>1, <2>2
  <1> QED
    BY <1>6, <1>8 DEF LimInv, Refilled

\* A throttle empties the bucket and lowers the rate, but not under the floor.
LEMMA ThrottledKeepsInv ==
  ASSUME LimInv, NEW c \in Callers, Throttled(c)
  PROVE  LimInv'
  <1>1. /\ tokens' = 0 /\ elapsed' = 0 /\ successes' = 0
        /\ rate' = Max({MinRate, rate \div 2})
        /\ throttle' = [ticks |-> 0, calls |-> 0]
        /\ caller' = [caller EXCEPT ![c] = idle]
    BY DEF Throttled, lowered
  <1>2. rate \in MinRate..Parts /\ rate \div 2 \in Int /\ rate \div 2 <= rate
    BY LimiterPositive DEF LimInv, LimTyped
  <1>3. rate' = IF MinRate >= rate \div 2 THEN MinRate ELSE rate \div 2
    <2> DEFINE half == rate \div 2
    <2>1. half \in Int /\ MinRate \in Int /\ rate' = Max({MinRate, half})
      BY <1>1, <1>2, LimiterPositive
    <2> HIDE DEF half
    <2>2. rate' = IF MinRate >= half THEN MinRate ELSE half
      BY <2>1, OfTwo
    <2> QED
      BY <2>2 DEF half
  <1>4. rate' \in MinRate..Parts
    BY <1>2, <1>3, LimiterPositive
  <1>5. caller' \in [Callers -> Sleeper] /\ Full \in Nat
    BY <1>1, CallerRests, RefilledTyped DEF LimInv
  <1>6. throttle' \in [ticks : 0..Window, calls : Nat]
    BY <1>1, LimiterPositive
  <1>7. LimTyped'
    BY <1>1, <1>4, <1>5, <1>6, LimiterPositive DEF LimTyped, Full, LongIdle
  <1>8. tokens' + elapsed' * rate' + throttle'.calls * Parts <= throttle'.ticks * Parts
    BY <1>1, <1>4, LimiterPositive
  <1> QED
    BY <1>7, <1>8 DEF LimInv, Refilled

\* A tick owes the bucket no more than the base rate.
LEMMA TickKeepsInv ==
  ASSUME LimInv, Tick
  PROVE  LimInv'
  <1>1. /\ rate \in MinRate..Parts /\ rate \in Nat /\ elapsed \in 0..Full /\ Full \in Nat
        /\ tokens \in 0..Full /\ throttle \in [ticks : 0..Window, calls : Nat]
        /\ caller \in [Callers -> Sleeper]
    BY RefilledTyped DEF LimInv, LimTyped, LongIdle
  <1>2. /\ UNCHANGED <<tokens, rate, successes>>
        /\ elapsed' = IF Full <= elapsed + 1 THEN Full ELSE elapsed + 1
    <2> DEFINE more == elapsed + 1
    <2>1. elapsed' = Min({Full, more}) /\ UNCHANGED <<tokens, rate, successes>>
      BY DEF Tick, LongIdle
    <2>2. Full \in Int /\ more \in Int
      BY <1>1
    <2> HIDE DEF more
    <2>3. elapsed' = IF Full <= more THEN Full ELSE more
      BY <2>1, <2>2, OfTwo
    <2> QED
      BY <2>1, <2>3 DEF more
  <1>3. /\ elapsed' \in 0..Full /\ elapsed' <= elapsed + 1
        /\ elapsed' \in Nat /\ elapsed \in Nat /\ elapsed + 1 \in Nat
    BY <1>1, <1>2
  <1>4. caller' \in [Callers -> Sleeper]
    <2>1. ASSUME NEW c \in Callers PROVE [caller[c] EXCEPT !.ticks = Max({0, @ - 1})] \in Sleeper
      <3>1. caller[c] \in Sleeper /\ caller[c].ticks \in Nat
        BY <1>1 DEF Sleeper
      <3>2. Max({0, caller[c].ticks - 1}) \in Nat
        <4> DEFINE less == caller[c].ticks - 1
        <4>1. less \in Int /\ (less < 0 \/ less \in Nat)
          BY <3>1
        <4> HIDE DEF less
        <4>2. Max({0, less}) = IF 0 >= less THEN 0 ELSE less
          BY <4>1, OfTwo
        <4> QED
          BY <4>1, <4>2 DEF less
      <3> HIDE DEF Max
      <3> QED
        BY <3>1, <3>2 DEF Sleeper
    <2> QED
      BY <2>1 DEF Tick
  <1>5. CASE throttle.ticks + 1 < Window
    <2>1. throttle' = [throttle EXCEPT !.ticks = @ + 1]
      BY <1>5 DEF Tick
    <2>2. /\ throttle' \in [ticks : 0..Window, calls : Nat]
          /\ throttle'.ticks = throttle.ticks + 1 /\ throttle'.calls = throttle.calls
      BY <1>1, <1>5, <2>1, LimiterPositive
    <2>3. LimTyped'
      BY <1>1, <1>2, <1>3, <1>4, <2>2 DEF LimInv, LimTyped, Full, LongIdle
    <2>4. tokens + elapsed * rate + throttle.calls * Parts <= throttle.ticks * Parts
      BY <1>1, <1>5, LimiterPositive DEF LimInv, Refilled
    <2>5. elapsed' * rate <= elapsed * rate + Parts
      <3>1. elapsed' * rate <= (elapsed + 1) * rate
        BY <1>1, <1>3, TimesGrows
      <3>2. (elapsed + 1) * rate = elapsed * rate + rate
        BY <1>1
      <3>3. elapsed' * rate \in Nat /\ elapsed * rate \in Nat
        BY <1>1, <1>3, TimesTyped
      <3> QED
        BY <1>1, <3>1, <3>2, <3>3, LimiterPositive
    <2>6. throttle'.ticks * Parts = throttle.ticks * Parts + Parts
      BY <1>1, <2>2, LimiterPositive
    <2>7. /\ elapsed' * rate \in Nat /\ elapsed * rate \in Nat
          /\ throttle.calls * Parts \in Nat /\ throttle.ticks * Parts \in Nat
      <3>1. /\ throttle.calls \in Nat /\ throttle.ticks \in Nat /\ Parts \in Nat
            /\ elapsed' \in Nat /\ elapsed \in Nat /\ rate \in Nat
        BY <1>1, <1>3, LimiterPositive
      <3>2. elapsed' * rate \in Nat /\ elapsed * rate \in Nat
        BY <3>1, TimesTyped
      <3> QED
        BY <3>1, <3>2, TimesTyped
    <2>8. tokens' + elapsed' * rate' + throttle'.calls * Parts <= throttle'.ticks * Parts
      BY <1>1, <1>2, <2>2, <2>4, <2>5, <2>6, <2>7, LimiterPositive
    <2> QED
      BY <2>3, <2>8 DEF LimInv, Refilled
  <1>6. CASE ~(throttle.ticks + 1 < Window)
    <2>1. throttle' = [ticks |-> Window, calls |-> 0]
      BY <1>6 DEF Tick
    <2>2. LimTyped'
      BY <1>1, <1>2, <1>3, <1>4, <2>1, LimiterPositive DEF LimInv, LimTyped, Full, LongIdle
    <2> QED
      BY <2>1, <2>2, LimiterPositive DEF LimInv, Refilled
  <1> QED
    BY <1>5, <1>6

\* A new worker has a full bucket, the base rate, and no throttle to remember.
LEMMA LimStarts ==
  ASSUME tokens' = Full, rate' = Parts, elapsed' = 0, successes' = 0,
         caller' = [c \in Callers |-> idle], throttle' = [ticks |-> Window, calls |-> 0]
  PROVE  LimInv'
  <1>1. Full \in Nat /\ idle \in Sleeper
    BY LimiterPositive DEF Full, idle, Sleeper
  <1>2. LimTyped'
    BY <1>1, LimiterPositive DEF LimTyped, Full, LongIdle
  <1> QED
    BY <1>2, LimiterPositive DEF LimInv, Refilled

LEMMA LimInitInv == LimInit => LimInv
  <1> SUFFICES ASSUME LimInit PROVE LimInv
    OBVIOUS
  <1>1. Full \in Nat /\ idle \in Sleeper
    BY LimiterPositive DEF Full, idle, Sleeper
  <1>2. LimTyped
    BY <1>1, LimiterPositive DEF LimInit, LimTyped, Full, LongIdle
  <1> QED
    BY <1>2, LimiterPositive DEF LimInit, LimInv, Refilled

\* Every step of the callers, of time and of the worker keeps the invariant.
LEMMA LimStepInv == LimInv /\ [LimNext]_limVars => LimInv'
  <1> SUFFICES ASSUME LimInv, [LimNext]_limVars PROVE LimInv'
    OBVIOUS
  <1>1. ASSUME NEW c \in Callers, Acquire(c) \/ Reports(c) PROVE LimInv'
    BY <1>1, AcquireKeepsInv, SucceedsKeepsInv, ThrottledKeepsInv DEF Reports
  <1>2. ASSUME NEW c \in Callers, Fails(c) PROVE LimInv'
    <2>1. UNCHANGED <<tokens, rate, elapsed, successes, throttle>>
      BY <1>2 DEF Fails, bucket
    <2>2. caller' \in [Callers -> Sleeper]
      BY <1>2, CallerRests DEF Fails, LimInv
    <2> QED
      BY <2>1, <2>2 DEF LimInv, LimTyped, Refilled, Full, LongIdle
  <1>3. CASE Tick
    BY <1>3, TickKeepsInv
  <1>4. CASE QuotaTurns \/ UNCHANGED limVars
    BY <1>4 DEF QuotaTurns, limVars, bucket, LimInv, LimTyped, Refilled, Full, LongIdle
  <1>5. CASE LimRestart
    BY <1>5, LimStarts DEF LimRestart
  <1> QED
    BY <1>1, <1>2, <1>3, <1>4, <1>5 DEF LimNext

\* The invariant holds throughout.
LEMMA LimInvariant == LimSpec => []LimInv
  BY LimInitInv, LimStepInv, PTL DEF LimSpec

\* The bucket has the types it is meant to have: never more than its burst, a rate
\* between the floor and the base.
THEOREM LimTypeCorrect == LimSpec => []LimTypeOK
  <1>1. LimInv => LimTypeOK
    BY DEF LimInv, LimTyped, Sleeper, LimTypeOK
  <1> QED
    BY <1>1, LimInvariant, PTL

\* After a throttle no more calls begin than the base rate has refilled since, however
\* many callers wait and whatever the rate recovers to.
THEOREM ThrottleEndsTheBurst == LimSpec => []NoBurstAfterThrottle
  <1>1. LimInv => NoBurstAfterThrottle
    <2> SUFFICES ASSUME LimInv, throttle.ticks < Window PROVE throttle.calls <= throttle.ticks
      BY DEF NoBurstAfterThrottle
    <2>1. /\ tokens \in Nat /\ elapsed * rate \in Nat
          /\ throttle.calls \in Nat /\ throttle.ticks \in Nat /\ Parts \in Nat /\ Parts > 0
      BY RefilledTyped, LimiterPositive DEF LimInv, LimTyped
    <2>2. tokens + elapsed * rate + throttle.calls * Parts <= throttle.ticks * Parts
      BY DEF LimInv, Refilled
    <2>3. throttle.calls * Parts \in Nat /\ throttle.ticks * Parts \in Nat
      BY <2>1, TimesTyped
    <2>4. throttle.calls * Parts <= throttle.ticks * Parts
      BY <2>1, <2>2, <2>3
    <2>5. CASE throttle.calls > throttle.ticks
      <3>1. throttle.ticks + 1 <= throttle.calls /\ throttle.ticks + 1 \in Nat
        BY <2>1, <2>5
      <3>2. (throttle.ticks + 1) * Parts <= throttle.calls * Parts
        BY <2>1, <3>1, TimesGrows
      <3>3. (throttle.ticks + 1) * Parts = throttle.ticks * Parts + Parts
        BY <2>1
      <3> QED
        BY <2>1, <2>3, <2>4, <3>2, <3>3
    <2> QED
      BY <2>1, <2>5
  <1> QED
    BY <1>1, LimInvariant, PTL

-----------------------------------------------------------------------------
(* The rate limiter: what any stretch of time sees *)

\* What a bucket holds when asked.
filled(level, owed, at) == Min({Full, level + owed * at})

\* Over a stretch, what is still held and what was taken came from the buckets it had,
\* each full at best, and from what the base rate refilled.
Covered(level, span) ==
  /\ span \in [ticks : Nat, calls : Nat, buckets : Nat \ {0}]
  /\ level + span.calls * Parts <= span.buckets * Full + span.ticks * Parts

Counted == Covered(filled(tokens, elapsed, rate), stretch)

\* What a bucket holds is no more than its burst.
LEMMA FilledTyped ==
  ASSUME NEW level \in 0..Full, NEW owed \in Nat, NEW at \in Nat
  PROVE  /\ Full \in Nat /\ owed * at \in Nat
         /\ filled(level, owed, at) = IF Full <= level + owed * at THEN Full ELSE level + owed * at
         /\ filled(level, owed, at) \in 0..Full
  <1>1. Full \in Nat /\ owed * at \in Nat
    BY LimiterPositive DEF Full
  <1> DEFINE sum == level + owed * at
  <1>2. sum \in Nat
    BY <1>1
  <1>3. filled(level, owed, at) = Min({Full, sum})
    BY DEF filled
  <1> HIDE DEF sum
  <1>4. Min({Full, sum}) = IF Full <= sum THEN Full ELSE sum
    BY <1>1, <1>2, OfTwo
  <1>5. filled(level, owed, at) \in 0..Full
    BY <1>1, <1>2, <1>3, <1>4
  <1> QED
    BY <1>1, <1>3, <1>4, <1>5 DEF sum

\* A bucket that was just asked holds what it has.
LEMMA FilledNow ==
  ASSUME NEW level \in 0..Full, NEW at \in Nat
  PROVE  filled(level, 0, at) = level
  <1>1. 0 * at = 0 /\ Full \in Nat
    BY ZeroTimes, LimiterPositive DEF Full
  <1>2. filled(level, 0, at) = IF Full <= level + 0 * at THEN Full ELSE level + 0 * at
    BY FilledTyped
  <1> QED
    BY <1>1, <1>2

\* Holding less leaves a stretch covered.
LEMMA LessIsCovered ==
  ASSUME NEW level \in Nat, NEW left \in Nat, left <= level, NEW span, Covered(level, span)
  PROVE  Covered(left, span)
  <1>1. /\ span \in [ticks : Nat, calls : Nat, buckets : Nat \ {0}]
        /\ span.calls * Parts \in Nat /\ span.ticks * Parts \in Nat /\ span.buckets * Full \in Nat
    BY LimiterPositive DEF Covered, Full
  <1> QED
    BY <1>1 DEF Covered

\* A call is covered by the token it takes.
LEMMA CallIsCovered ==
  ASSUME NEW level \in Nat, level >= Parts, NEW span, Covered(level, span)
  PROVE  Covered(level - Parts, [span EXCEPT !.calls = @ + 1])
  <1> DEFINE next == [span EXCEPT !.calls = @ + 1]
  <1>1. /\ span \in [ticks : Nat, calls : Nat, buckets : Nat \ {0}] /\ Parts \in Nat
        /\ span.calls * Parts \in Nat /\ span.ticks * Parts \in Nat /\ span.buckets * Full \in Nat
    BY LimiterPositive DEF Covered, Full
  <1>2. /\ next \in [ticks : Nat, calls : Nat, buckets : Nat \ {0}]
        /\ next.calls = span.calls + 1 /\ next.ticks = span.ticks /\ next.buckets = span.buckets
    BY <1>1
  <1> HIDE DEF next
  <1>3. next.calls * Parts = span.calls * Parts + Parts
    BY <1>1, <1>2
  <1>4. level + span.calls * Parts <= span.buckets * Full + span.ticks * Parts
    BY DEF Covered
  <1>5. (level - Parts) + next.calls * Parts <= next.buckets * Full + next.ticks * Parts
    BY <1>1, <1>2, <1>3, <1>4
  <1>6. Covered(level - Parts, next)
    BY <1>2, <1>5 DEF Covered
  <1> QED
    BY <1>6 DEF next

\* A tick covers what it refills.
LEMMA TickIsCovered ==
  ASSUME NEW level \in Nat, NEW more \in Nat, more <= level + Parts, NEW span, Covered(level, span)
  PROVE  Covered(more, [span EXCEPT !.ticks = @ + 1])
  <1> DEFINE next == [span EXCEPT !.ticks = @ + 1]
  <1>1. /\ span \in [ticks : Nat, calls : Nat, buckets : Nat \ {0}] /\ Parts \in Nat
        /\ span.calls * Parts \in Nat /\ span.ticks * Parts \in Nat /\ span.buckets * Full \in Nat
    BY LimiterPositive DEF Covered, Full
  <1>2. /\ next \in [ticks : Nat, calls : Nat, buckets : Nat \ {0}]
        /\ next.ticks = span.ticks + 1 /\ next.calls = span.calls /\ next.buckets = span.buckets
    BY <1>1
  <1> HIDE DEF next
  <1>3. next.ticks * Parts = span.ticks * Parts + Parts
    BY <1>1, <1>2
  <1>4. level + span.calls * Parts <= span.buckets * Full + span.ticks * Parts
    BY DEF Covered
  <1>5. more + next.calls * Parts <= next.buckets * Full + next.ticks * Parts
    BY <1>1, <1>2, <1>3, <1>4
  <1>6. Covered(more, next)
    BY <1>2, <1>5 DEF Covered
  <1> QED
    BY <1>6 DEF next

\* A new bucket covers what it holds.
LEMMA BucketIsCovered ==
  ASSUME NEW level \in Nat, NEW span, Covered(level, span)
  PROVE  Covered(Full, [span EXCEPT !.buckets = @ + 1])
  <1> DEFINE next == [span EXCEPT !.buckets = @ + 1]
  <1>1. /\ span \in [ticks : Nat, calls : Nat, buckets : Nat \ {0}] /\ Full \in Nat
        /\ span.calls * Parts \in Nat /\ span.ticks * Parts \in Nat /\ span.buckets * Full \in Nat
    BY LimiterPositive DEF Covered, Full
  <1>2. /\ next \in [ticks : Nat, calls : Nat, buckets : Nat \ {0}]
        /\ next.buckets = span.buckets + 1 /\ next.ticks = span.ticks /\ next.calls = span.calls
    BY <1>1
  <1> HIDE DEF next
  <1>3. next.buckets * Full = span.buckets * Full + Full
    BY <1>1, <1>2
  <1>4. level + span.calls * Parts <= span.buckets * Full + span.ticks * Parts
    BY DEF Covered
  <1>5. Full + next.calls * Parts <= next.buckets * Full + next.ticks * Parts
    BY <1>1, <1>2, <1>3, <1>4
  <1>6. Covered(Full, next)
    BY <1>2, <1>5 DEF Covered
  <1> QED
    BY <1>6 DEF next

\* A stretch that begins now has what the bucket holds.
LEMMA NewIsCovered ==
  ASSUME NEW level \in 0..Full
  PROVE  Covered(level, newStretch)
  <1>1. Full \in Nat /\ Parts \in Nat
    BY LimiterPositive DEF Full
  <1>2. 0 * Parts = 0 /\ 1 * Full = Full
    BY <1>1
  <1> QED
    BY <1>1, <1>2 DEF Covered, newStretch

\* Asking the bucket, and taking from it, keeps the stretch covered.
LEMMA AskKeepsCounted ==
  ASSUME LimInv, LimInv', Counted, elapsed' = 0, Covered(tokens', stretch')
  PROVE  Counted'
  <1>1. tokens' \in 0..Full /\ rate' \in Nat
    BY RefilledTyped, LimiterPositive DEF LimInv, LimTyped, Full
  <1>2. filled(tokens', 0, rate') = tokens'
    BY <1>1, FilledNow
  <1>3. Covered(filled(tokens', elapsed', rate'), stretch')
    BY <1>2
  <1> QED
    BY <1>3 DEF Counted, filled, Covered, Full

LEMMA AcquireKeepsCounted ==
  ASSUME LimInv, LimInv', Counted, NEW c \in Callers, Acquire(c)
  PROVE  Counted'
  <1>1. refilled \in Nat /\ elapsed' = 0
    BY RefilledTyped DEF LimInv, Acquire
  <1>2. Covered(refilled, stretch)
    BY DEF Counted, filled, refilled
  <1>3. Covered(tokens', stretch')
    <2>1. CASE refilled >= Parts
      <3>1. /\ tokens' = refilled - Parts
            /\ stretch' = [stretch EXCEPT !.calls = @ + 1]
        BY <2>1 DEF Acquire
      <3> QED
        BY <1>1, <1>2, <2>1, <3>1, CallIsCovered
    <2>2. CASE ~(refilled >= Parts)
      BY <1>2, <2>2 DEF Acquire
    <2> QED
      BY <2>1, <2>2
  <1> QED
    BY <1>1, <1>3, AskKeepsCounted

LEMMA ReportKeepsCounted ==
  ASSUME LimInv, LimInv', Counted, NEW c \in Callers, Reports(c)
  PROVE  Counted'
  <1>1. refilled \in Nat
    BY RefilledTyped DEF LimInv
  <1>2. Covered(refilled, stretch)
    BY DEF Counted, filled, refilled
  <1>3. /\ elapsed' = 0 /\ stretch' = stretch
        /\ tokens' = refilled \/ tokens' = 0
    BY DEF Reports, Succeeds, Throttled, lowered
  <1>4. Covered(0, stretch)
    BY <1>1, <1>2, LessIsCovered
  <1>5. Covered(tokens', stretch')
    BY <1>2, <1>3, <1>4
  <1> QED
    BY <1>3, <1>5, AskKeepsCounted

\* A tick owes the bucket no more than the base rate.
LEMMA TickKeepsCounted ==
  ASSUME LimInv, LimInv', Counted, Tick
  PROVE  Counted'
  <1>1. /\ rate \in Nat /\ rate <= Parts /\ elapsed \in Nat /\ Full \in Nat /\ Parts \in Nat
        /\ tokens \in 0..Full
    BY RefilledTyped, LimiterPositive DEF LimInv, LimTyped, LongIdle
  <1>2. /\ UNCHANGED <<tokens, rate>>
        /\ elapsed' \in Nat /\ elapsed + 1 \in Nat /\ elapsed' <= elapsed + 1
    <2> DEFINE more == elapsed + 1
    <2>1. elapsed' = Min({Full, more}) /\ UNCHANGED <<tokens, rate>>
      BY DEF Tick, LongIdle
    <2>2. more \in Nat
      BY <1>1
    <2> HIDE DEF more
    <2>3. elapsed' = IF Full <= more THEN Full ELSE more
      BY <1>1, <2>1, <2>2, OfTwo
    <2>4. elapsed' \in Nat /\ elapsed' <= more
      BY <1>1, <2>2, <2>3
    <2> QED
      BY <2>1, <2>2, <2>4 DEF more
  <1> DEFINE level == filled(tokens, elapsed, rate)
             more == filled(tokens, elapsed', rate)
  <1>3. /\ elapsed * rate \in Nat /\ elapsed' * rate \in Nat
        /\ elapsed' * rate <= elapsed * rate + Parts
    <2>1. elapsed * rate \in Nat /\ elapsed' * rate \in Nat
      BY <1>1, <1>2, TimesTyped
    <2>2. elapsed' * rate <= (elapsed + 1) * rate
      BY <1>1, <1>2, TimesGrows
    <2>3. (elapsed + 1) * rate = elapsed * rate + rate
      BY <1>1
    <2> QED
      BY <1>1, <2>1, <2>2, <2>3
  <1>4. level \in 0..Full /\ more \in 0..Full /\ more <= level + Parts
    <2>1. /\ level = IF Full <= tokens + elapsed * rate THEN Full ELSE tokens + elapsed * rate
          /\ level \in 0..Full
      BY <1>1, FilledTyped
    <2>2. /\ more = IF Full <= tokens + elapsed' * rate THEN Full ELSE tokens + elapsed' * rate
          /\ more \in 0..Full
      BY <1>1, <1>2, FilledTyped
    <2> HIDE DEF level, more
    <2> QED
      BY <1>1, <1>3, <2>1, <2>2
  <1>5. Covered(level, stretch)
    BY DEF Counted
  <1> HIDE DEF level, more
  <1>6. Covered(more, stretch')
    <2>1. CASE stretch' = newStretch
      BY <1>4, <2>1, NewIsCovered
    <2>2. CASE stretch' = [stretch EXCEPT !.ticks = @ + 1]
      <3>1. level \in Nat /\ more \in Nat
        BY <1>1, <1>4
      <3> QED
        BY <1>4, <1>5, <2>2, <3>1, TickIsCovered
    <2> QED
      BY <2>1, <2>2 DEF Tick
  <1>7. Covered(filled(tokens', elapsed', rate'), stretch')
    BY <1>2, <1>6 DEF more
  <1> QED
    BY <1>7 DEF Counted, filled, Covered, Full

LEMMA RestartKeepsCounted ==
  ASSUME LimInv, LimInv', Counted, LimRestart
  PROVE  Counted'
  <1>1. filled(tokens, elapsed, rate) \in Nat /\ Covered(filled(tokens, elapsed, rate), stretch)
    BY RefilledTyped DEF LimInv, Counted, filled, refilled
  <1>2. Covered(Full, [stretch EXCEPT !.buckets = @ + 1])
    BY <1>1, BucketIsCovered
  <1>3. /\ elapsed' = 0 /\ tokens' = Full
        /\ stretch' = [stretch EXCEPT !.buckets = @ + 1]
    BY DEF LimRestart
  <1> QED
    BY <1>2, <1>3, AskKeepsCounted

LEMMA CountedInvariant == LimSpec => []Counted
  <1>1. LimInit => Counted
    <2> SUFFICES ASSUME LimInit PROVE Counted
      OBVIOUS
    <2>1. LimInv
      BY LimInitInv
    <2>2. refilled \in 0..Full
      BY <2>1, RefilledTyped DEF LimInv
    <2>3. Covered(refilled, newStretch)
      BY <2>2, NewIsCovered
    <2> QED
      BY <2>3 DEF LimInit, Counted, filled, refilled
  <1>2. LimInv /\ LimInv' /\ Counted /\ [LimNext]_limVars => Counted'
    <2> SUFFICES ASSUME LimInv, LimInv', Counted, [LimNext]_limVars PROVE Counted'
      OBVIOUS
    <2>1. ASSUME NEW c \in Callers, Acquire(c) \/ Reports(c) PROVE Counted'
      BY <2>1, AcquireKeepsCounted, ReportKeepsCounted
    <2>2. CASE Tick
      BY <2>2, TickKeepsCounted
    <2>3. CASE LimRestart
      BY <2>3, RestartKeepsCounted
    <2>4. ASSUME UNCHANGED <<tokens, rate, elapsed, stretch>> PROVE Counted'
      BY <2>4 DEF Counted, filled, Covered, Full
    <2>5. CASE QuotaTurns \/ UNCHANGED limVars
      BY <2>4, <2>5 DEF QuotaTurns, limVars, bucket
    <2>6. ASSUME NEW c \in Callers, Fails(c) PROVE Counted'
      BY <2>4, <2>6 DEF Fails, bucket
    <2> QED
      BY <2>1, <2>2, <2>3, <2>5, <2>6 DEF LimNext
  <1> QED
    BY <1>1, <1>2, LimInvariant, PTL DEF LimSpec

\* Any stretch of time sees at most a burst more calls than the base rate refills in it,
\* and a burst more for each restart of the worker, whatever the callers, the throttles
\* and the rate do.
THEOREM CallsAreBounded == LimSpec => []CallsBounded
  <1>1. LimInv /\ Counted => CallsBounded
    <2> SUFFICES ASSUME LimInv, Counted PROVE CallsBounded
      OBVIOUS
    <2> DEFINE most == Burst * stretch.buckets + stretch.ticks
    <2>1. /\ stretch \in [ticks : Nat, calls : Nat, buckets : Nat \ {0}]
          /\ filled(tokens, elapsed, rate) \in Nat
          /\ filled(tokens, elapsed, rate) + stretch.calls * Parts
               <= stretch.buckets * Full + stretch.ticks * Parts
      BY RefilledTyped DEF LimInv, Counted, Covered, filled, refilled
    <2>2. /\ Parts \in Nat /\ Parts > 0 /\ Burst \in Nat /\ stretch.calls \in Nat
          /\ stretch.ticks \in Nat /\ stretch.buckets \in Nat /\ most \in Nat
      BY <2>1, LimiterPositive
    <2>3. stretch.buckets * Full + stretch.ticks * Parts = most * Parts
      BY <2>2 DEF Full
    <2>4. most * Parts \in Nat /\ stretch.calls * Parts \in Nat
      BY <2>2, TimesTyped
    <2>5. stretch.calls * Parts <= most * Parts
      BY <2>1, <2>3, <2>4
    <2>6. stretch.calls <= most
      <3> HIDE DEF most
      <3> SUFFICES ASSUME stretch.calls > most PROVE FALSE
        BY <2>2
      <3>1. most + 1 <= stretch.calls /\ most + 1 \in Nat
        BY <2>2
      <3>2. (most + 1) * Parts <= stretch.calls * Parts
        BY <2>2, <3>1, TimesGrows
      <3>3. (most + 1) * Parts = most * Parts + Parts
        BY <2>2
      <3> QED
        BY <2>2, <2>4, <2>5, <3>2, <3>3
    <2> QED
      BY <2>6 DEF CallsBounded
  <1> QED
    BY <1>1, LimInvariant, CountedInvariant, PTL

-----------------------------------------------------------------------------
(* The circuit breaker *)

\* The inductive invariant.  Since the breaker last opened, a push was let through
\* only if the probe's place is taken; the place outlives its push only silently.
BreakerInv ==
  /\ BreakerTypeOK
  /\ OneProbePerCooldown
  /\ ProbeHasOwner
  /\ state # "closed" /\ place = "free" => probes = 0
  /\ failures = Threshold => state # "closed"

\* A closed breaker satisfies it.
LEMMA InitBreaker == BreakerInit => BreakerInv
  BY ThresholdPositive DEF BreakerInit, BreakerInv, BreakerTypeOK, OneProbePerCooldown, ProbeHasOwner

\* Every step keeps it.
LEMMA StepBreaker == BreakerInv /\ [BreakerNext]_breakerVars => BreakerInv'
  <1> SUFFICES ASSUME BreakerInv, [BreakerNext]_breakerVars PROVE BreakerInv'
    OBVIOUS
  <1> USE ThresholdPositive DEF BreakerInv, BreakerTypeOK, OneProbePerCooldown, ProbeHasOwner, breaker
  <1>1. ASSUME NEW p \in Pushes, Begin(p) PROVE BreakerInv'
    BY <1>1 DEF Begin, mayProbe
  <1>2. ASSUME NEW p \in Pushes, Answered(p) PROVE BreakerInv'
    BY <1>2 DEF Answered, onSuccess, End
  <1>3. ASSUME NEW p \in Pushes, Failed(p) PROVE BreakerInv'
    BY <1>3 DEF Failed, onFailure, End
  <1>4. ASSUME NEW p \in Pushes, EndsSilently(p) PROVE BreakerInv'
    BY <1>4 DEF EndsSilently, End
  <1>5. CASE CoolsDown
    BY <1>5 DEF CoolsDown
  <1>6. CASE ProviderTurns
    BY <1>6 DEF ProviderTurns
  <1>7. CASE Restart
    BY <1>7 DEF Restart
  <1>8. CASE UNCHANGED breakerVars
    BY <1>8 DEF breakerVars
  <1> QED
    BY <1>1, <1>2, <1>3, <1>4, <1>5, <1>6, <1>7, <1>8 DEF BreakerNext, Ends

\* However many pushes were under way when the breaker opened, and in whatever order
\* their outcomes come in, one push at most goes through per cooldown.
THEOREM OneProbe == BreakerSpec => []OneProbePerCooldown
  <1>1. BreakerInv => OneProbePerCooldown
    BY DEF BreakerInv
  <1> QED
    BY <1>1, InitBreaker, StepBreaker, PTL DEF BreakerSpec

\* The probe's place is held by a running push until a silent end loses it.
THEOREM ProbeIsOwned == BreakerSpec => []ProbeHasOwner
  <1>1. BreakerInv => ProbeHasOwner
    BY DEF BreakerInv
  <1> QED
    BY <1>1, InitBreaker, StepBreaker, PTL DEF BreakerSpec

-----------------------------------------------------------------------------
(* A channel connection *)

Rows == [state : States, isActive : BOOLEAN, ready : BOOLEAN, linked : BOOLEAN, archived : BOOLEAN]

Places == {"start", "readiness", "unready", "ready", "off", "switched"}

\* An action of a tab: none, or one that read a row.
Actions == [op : {"none", "activate", "pause", "resume", "remove"}, at : Places,
            seen : {{}} \cup {{c} : c \in Rows}]

\* Whatever the provider, the poll, the tabs and the webhooks do, the row is a row, an action
\* under way has read one, and a channel that is switched on is there.
ChanInv ==
  /\ conn \in Rows
  /\ tab \in [Tabs -> Actions] /\ \A t \in Tabs : tab[t] # Free => tab[t].seen # {}
  /\ poll.seen \subseteq Rows
  /\ remote \in [held : BOOLEAN, active : BOOLEAN, gaps : BOOLEAN]
  /\ remote.active => remote.held

\* Where an event leads is a state.
LEMMA TransitionIsState ==
  ASSUME NEW s, NEW event, NEW otherwise \in States
  PROVE  transition(s, event, otherwise) \in States
  <1>1. CASE allowed(s, event)
    <2> DEFINE P(s2) == <<s, s2>> \in transitions[event]
    <2>1. \E s2 \in States : P(s2)
      BY <1>1 DEF allowed
    <2>2. transition(s, event, otherwise) = CHOOSE s2 \in States : P(s2)
      BY <1>1 DEF transition
    <2> HIDE DEF P
    <2>3. (CHOOSE s2 \in States : P(s2)) \in States
      BY <2>1
    <2> QED
      BY <2>2, <2>3
  <1>2. CASE ~allowed(s, event)
    BY <1>2 DEF transition
  <1> QED
    BY <1>1, <1>2

\* The row an action read.
LEMMA SeenIsRow ==
  ASSUME ChanInv, NEW t \in Tabs, tab[t] # Free
  PROVE  seenBy(t) \in Rows
  <1>1. tab[t].seen \in {{}} \cup {{c} : c \in Rows} /\ tab[t].seen # {}
    BY DEF ChanInv, Actions
  <1>2. PICK c \in Rows : tab[t].seen = {c}
    BY <1>1
  <1> QED
    BY <1>2 DEF seenBy

\* The rows that an action, the poll and a webhook write.
LEMMA CommitsRow ==
  ASSUME ChanInv, NEW t \in Tabs, tab[t] # Free
  PROVE  written(t) \in Rows
  <1> DEFINE s == seenBy(t).state
             activated == transition(s, "activated", "active")
             paused == transition(s, "paused", s)
             resumed == transition(s, "resumed", s)
  <1>1. s \in States /\ "active" \in States
    BY SeenIsRow DEF Rows, States
  <1>2. activated \in States /\ paused \in States /\ resumed \in States
    <2> HIDE DEF s
    <2> QED
      BY <1>1, TransitionIsState
  <1>3. conn \in Rows
    BY DEF ChanInv
  <1>4. written(t) \in {[conn EXCEPT !.ready = FALSE, !.linked = TRUE],
                        [conn EXCEPT !.state = activated, !.isActive = TRUE, !.ready = TRUE,
                                     !.linked = TRUE],
                        [conn EXCEPT !.state = paused, !.isActive = FALSE],
                        [conn EXCEPT !.state = resumed, !.isActive = TRUE],
                        [conn EXCEPT !.isActive = FALSE, !.archived = TRUE]}
    <2> HIDE DEF activated, paused, resumed
    <2> QED
      BY DEF written, activated, paused, resumed, s
  <1> HIDE DEF activated, paused, resumed
  <1> QED
    <2>1. /\ [conn EXCEPT !.ready = FALSE, !.linked = TRUE] \in Rows
          /\ [conn EXCEPT !.state = activated, !.isActive = TRUE, !.ready = TRUE,
                          !.linked = TRUE] \in Rows
          /\ [conn EXCEPT !.state = paused, !.isActive = FALSE] \in Rows
          /\ [conn EXCEPT !.state = resumed, !.isActive = TRUE] \in Rows
          /\ [conn EXCEPT !.isActive = FALSE, !.archived = TRUE] \in Rows
      BY <1>2, <1>3 DEF Rows
    <2> QED
      BY <1>4, <2>1

LEMMA PolledRow ==
  ASSUME ChanInv, NEW seen \in Rows
  PROVE  polledRow(seen) \in Rows
  <1> DEFINE lost == transition(seen.state, "provider_error", conn.state)
             unready == transition(seen.state, "readiness_failed", conn.state)
             back == transition(seen.state, "recovered", conn.state)
             isReady == poll.answer = "ready"
  <1>1. conn \in Rows /\ conn.state \in States
    BY DEF ChanInv, Rows
  <1>2. lost \in States /\ unready \in States /\ back \in States
    BY <1>1, TransitionIsState
  <1>3. isReady \in BOOLEAN
    OBVIOUS
  <1>4. polledRow(seen) \in {[conn EXCEPT !.state = lost, !.isActive = FALSE, !.ready = FALSE],
                             [conn EXCEPT !.state = unready, !.ready = FALSE],
                             [conn EXCEPT !.state = back, !.ready = TRUE],
                             [conn EXCEPT !.ready = isReady]}
    <2> HIDE DEF lost, unready, back
    <2> QED
      BY DEF polledRow, lost, unready, back
  <1> HIDE DEF lost, unready, back, isReady
  <1> QED
    <2>1. /\ [conn EXCEPT !.state = lost, !.isActive = FALSE, !.ready = FALSE] \in Rows
          /\ [conn EXCEPT !.state = unready, !.ready = FALSE] \in Rows
          /\ [conn EXCEPT !.state = back, !.ready = TRUE] \in Rows
          /\ [conn EXCEPT !.ready = isReady] \in Rows
      BY <1>1, <1>2, <1>3 DEF Rows
    <2> QED
      BY <1>4, <2>1

LEMMA HookedRow ==
  ASSUME ChanInv, NEW h
  PROVE  hookedRow(h) \in Rows
  <1> DEFINE lost == transition(conn.state, "provider_error", conn.state)
             event == IF conn.state = "paused" THEN "resumed" ELSE "recovered"
             back == transition(conn.state, event, conn.state)
  <1>1. conn \in Rows /\ conn.state \in States
    BY DEF ChanInv, Rows
  <1>2. lost \in States /\ back \in States
    BY <1>1, TransitionIsState
  <1>3. hookedRow(h) \in {conn, [conn EXCEPT !.isActive = FALSE, !.state = lost],
                          [conn EXCEPT !.isActive = TRUE, !.state = back]}
    <2> HIDE DEF lost, back
    <2> QED
      BY DEF hookedRow, lost, back, event
  <1> HIDE DEF lost, back
  <1> QED
    <2>1. /\ [conn EXCEPT !.isActive = FALSE, !.state = lost] \in Rows
          /\ [conn EXCEPT !.isActive = TRUE, !.state = back] \in Rows
      BY <1>1, <1>2 DEF Rows
    <2> QED
      BY <1>1, <1>3, <2>1

\* A tab that begins, goes on or ends an action.
LEMMA TabMoves ==
  ASSUME ChanInv, NEW t \in Tabs, NEW a \in Actions,
         a # Free => a.seen # {}, tab' = [tab EXCEPT ![t] = a]
  PROVE  tab' \in [Tabs -> Actions] /\ \A u \in Tabs : tab'[u] # Free => tab'[u].seen # {}
  BY DEF ChanInv

LEMMA TabGoes ==
  ASSUME ChanInv, NEW t \in Tabs, NEW at \in Places, tab[t] # Free, Goes(t, at)
  PROVE  tab' \in [Tabs -> Actions] /\ \A u \in Tabs : tab'[u] # Free => tab'[u].seen # {}
  <1> DEFINE a == [tab[t] EXCEPT !.at = at]
  <1>1. tab[t] \in Actions /\ tab[t].seen # {}
    BY DEF ChanInv
  <1>2. a \in Actions /\ a.seen # {}
    BY <1>1 DEF Actions
  <1>3. tab' = [tab EXCEPT ![t] = a]
    BY DEF Goes
  <1> HIDE DEF a
  <1> QED
    BY <1>2, <1>3, TabMoves

LEMMA FreeIsAction == Free \in Actions
  BY DEF Free, Actions, Places

LEMMA InitChan == ChanInit => ChanInv
  <1> SUFFICES ASSUME ChanInit PROVE ChanInv
    OBVIOUS
  <1>1. conn \in Rows /\ poll.seen \subseteq Rows
    BY DEF ChanInit, Rows, States, Waiting
  <1>2. tab \in [Tabs -> Actions] /\ \A t \in Tabs : tab[t] = Free
    BY FreeIsAction DEF ChanInit
  <1> QED
    BY <1>1, <1>2 DEF ChanInit, ChanInv

LEMMA StepChan == ChanInv /\ [ChanNext]_chanVars => ChanInv'
  <1> SUFFICES ASSUME ChanInv, [ChanNext]_chanVars PROVE ChanInv'
    OBVIOUS
  <1> DEFINE TabsKept == /\ tab' \in [Tabs -> Actions]
                         /\ \A u \in Tabs : tab'[u] # Free => tab'[u].seen # {}
             RemoteKept == /\ remote' \in [held : BOOLEAN, active : BOOLEAN, gaps : BOOLEAN]
                           /\ remote'.active => remote'.held
  <1>0. /\ conn \in Rows /\ poll.seen \subseteq Rows
        /\ tab \in [Tabs -> Actions] /\ \A t \in Tabs : tab[t] # Free => tab[t].seen # {}
        /\ remote \in [held : BOOLEAN, active : BOOLEAN, gaps : BOOLEAN]
        /\ remote.active => remote.held
    BY DEF ChanInv
  <1>a. tab' = tab => TabsKept
    BY <1>0
  <1>b. remote' = remote => RemoteKept
    BY <1>0
  <1>c. SUFFICES conn' \in Rows /\ poll'.seen \subseteq Rows /\ TabsKept /\ RemoteKept
    BY DEF ChanInv
  <1> DEFINE Goal == conn' \in Rows /\ poll'.seen \subseteq Rows /\ TabsKept /\ RemoteKept
  <1> HIDE DEF TabsKept
  <1>1. ASSUME NEW t \in Tabs, NEW op \in {"activate", "pause", "resume", "remove"}, Chooses(t, op)
        PROVE  Goal
    <2> DEFINE a == [op |-> op, at |-> "start", seen |-> {conn}]
    <2>1. a \in Actions /\ a.seen # {} /\ tab' = [tab EXCEPT ![t] = a]
      BY <1>0, <1>1 DEF Chooses, Actions, Places
    <2> HIDE DEF a
    <2>2. TabsKept
      BY <2>1, TabMoves DEF TabsKept
    <2> QED
      BY <1>0, <1>1, <1>b, <2>2 DEF Chooses
  <1>2. ASSUME NEW t \in Tabs, \/ CreatesChannel(t) \/ ReadsReadiness(t) \/ Switches(t)
                               \/ SwitchesOff(t) \/ Deletes(t)
        PROVE  Goal
    <2>1. tab[t] # Free
      <3>1. tab[t].op \in {"activate", "pause", "resume", "remove"}
        BY <1>2 DEF CreatesChannel, ReadsReadiness, Switches, SwitchesOff, Deletes, At
      <3>2. Free.op = "none"
        BY DEF Free
      <3> QED
        BY <3>1, <3>2
    <2>2. \E at \in Places : Goes(t, at)
      BY <1>2 DEF CreatesChannel, ReadsReadiness, Switches, SwitchesOff, Deletes, Places
    <2>3. TabsKept
      BY <2>1, <2>2, TabGoes DEF TabsKept
    <2>4. UNCHANGED <<conn, poll>>
      BY <1>2 DEF CreatesChannel, ReadsReadiness, Switches, SwitchesOff, Deletes
    <2>5. RemoteKept
      <3>1. CASE CreatesChannel(t)
        BY <1>0, <3>1 DEF CreatesChannel
      <3>2. CASE ReadsReadiness(t)
        BY <1>b, <3>2 DEF ReadsReadiness
      <3>3. CASE Switches(t)
        <4>1. \/ remote' = remote
              \/ remote.held /\ \E on \in BOOLEAN : remote' = [remote EXCEPT !.active = on]
          BY <3>3 DEF Switches, setChannelActive
        <4> QED
          BY <1>0, <4>1
      <3>4. CASE SwitchesOff(t)
        <4>1. remote' = remote \/ remote' = [remote EXCEPT !.active = FALSE]
          BY <3>4 DEF SwitchesOff, setChannelActive
        <4> QED
          BY <1>0, <4>1
      <3>5. CASE Deletes(t)
        BY <1>0, <3>5 DEF Deletes
      <3> QED
        BY <1>2, <3>1, <3>2, <3>3, <3>4, <3>5
    <2> QED
      BY <1>0, <2>3, <2>4, <2>5
  <1>3. ASSUME NEW t \in Tabs, Commits(t) \/ Breaks(t) PROVE Goal
    <2>1. tab[t] # Free
      BY <1>3 DEF Commits, Breaks, Free
    <2>2. TabsKept
      <3>1. tab' = [tab EXCEPT ![t] = Free]
        BY <1>3 DEF Commits, Breaks
      <3> QED
        BY <3>1, FreeIsAction, TabMoves DEF TabsKept
    <2>3. conn' \in Rows
      <3>1. conn' \in {conn, written(t), [conn EXCEPT !.linked = TRUE]}
        BY <1>3 DEF Commits, Breaks
      <3>2. written(t) \in Rows
        BY <2>1, CommitsRow
      <3> QED
        BY <1>0, <3>1, <3>2 DEF Rows
    <2>4. UNCHANGED <<remote, poll>>
      BY <1>3 DEF Commits, Breaks
    <2> QED
      BY <1>0, <1>b, <2>2, <2>3, <2>4
  <1>4. CASE Polls
    <2>1. UNCHANGED <<tab, remote>>
      BY <1>4 DEF Polls, Lists, Asks, Stores
    <2>2. conn' \in Rows /\ poll'.seen \subseteq Rows
      <3>1. CASE Lists
        BY <1>0, <3>1 DEF Lists
      <3>2. CASE Asks
        <4>1. conn' = conn /\ poll'.seen = poll.seen
          BY <3>2 DEF Asks
        <4> QED
          BY <1>0, <4>1
      <3>3. CASE Stores
        <4>1. PICK seen \in poll.seen : conn' = polledRow(seen)
          BY <3>3 DEF Stores
        <4>2. conn' \in Rows
          BY <1>0, <4>1, PolledRow
        <4> QED
          BY <3>3, <4>2 DEF Stores, Waiting
      <3> QED
        BY <1>4, <3>1, <3>2, <3>3 DEF Polls
    <2> QED
      BY <1>a, <1>b, <2>1, <2>2
  <1>5. ASSUME NEW h \in hooks, Hook(h) \/ Loses(h) PROVE Goal
    <2>1. UNCHANGED <<tab, remote, poll>> /\ conn' \in {conn, hookedRow(h)}
      BY <1>5 DEF Hook, Loses
    <2>2. hookedRow(h) \in Rows
      BY HookedRow
    <2> QED
      BY <1>0, <1>a, <1>b, <2>1, <2>2
  <1>6. CASE ChannelTurns
    <2>1. UNCHANGED <<conn, tab, poll>>
      BY <1>6 DEF ChannelTurns
    <2>2. RemoteKept
      <3>1. /\ remote.held
            /\ \/ \E on \in BOOLEAN : remote' = [remote EXCEPT !.active = on]
               \/ remote' = [remote EXCEPT !.gaps = ~remote.gaps]
               \/ ~remote.active /\ remote' = [remote EXCEPT !.held = FALSE]
        BY <1>0, <1>6 DEF ChannelTurns, setChannelActive
      <3> QED
        BY <1>0, <3>1
    <2> QED
      BY <1>0, <1>a, <2>1, <2>2
  <1>7. CASE UNCHANGED chanVars
    BY <1>0, <1>7, <1>a, <1>b DEF chanVars
  <1> QED
    BY <1>1, <1>2, <1>3, <1>4, <1>5, <1>6, <1>7 DEF ChanNext, Works

\* ChanTypeOK holds of every behaviour: whatever a tab, the poll, a webhook and the provider
\* write over each other, the connection's row keeps a state of the machine, and a channel
\* that is active is one the provider holds.
THEOREM ChanTypeCorrect == ChanSpec => []ChanTypeOK
  <1>1. ChanInv => ChanTypeOK
    <2> SUFFICES ASSUME ChanInv PROVE ChanTypeOK
      OBVIOUS
    <2>1. \A t \in Tabs : Cardinality(tab[t].seen) <= 1
      <3> SUFFICES ASSUME NEW t \in Tabs PROVE Cardinality(tab[t].seen) <= 1
        OBVIOUS
      <3>1. tab[t].seen \in {{}} \cup {{c} : c \in Rows}
        BY DEF ChanInv, Actions
      <3> DEFINE S == tab[t].seen
      <3>2. S = {} \/ \E c : S = {c}
        BY <3>1
      <3> HIDE DEF S
      <3>3. Cardinality(S) <= 1
        <4>1. CASE S = {}
          BY <4>1, FS_EmptySet
        <4>2. ASSUME NEW c, S = {c} PROVE Cardinality(S) = 1
          BY <4>2, FS_Singleton
        <4> QED
          BY <3>2, <4>1, <4>2
      <3> QED
        BY <3>3 DEF S
    <2> QED
      BY <2>1 DEF ChanInv, ChanTypeOK, Rows
  <1> QED
    BY <1>1, InitChan, StepChan, PTL DEF ChanSpec

-----------------------------------------------------------------------------
(* The components together *)

\* MCProviders runs each component as its own specification says: one of them makes its
\* steps, and the others stay as they begin.
THEOREM ProvidersRunEach ==
  ProvidersSpec => /\ ProvSpec /\ LimSpec /\ ChanSpec /\ RequestSpec /\ MessagingSpec
                   /\ BreakerSpec /\ InstSpec /\ PluginSpec
  <1>1. ProvidersInit => /\ ProvInit /\ LimInit /\ ChanInit /\ RequestInit /\ MessagingInit
                         /\ BreakerInit /\ InstInit /\ PluginInit
    BY DEF ProvidersInit
  <1>2. ASSUME [ProvidersNext]_providersVars
        PROVE  /\ [ProvNext]_provVars /\ [LimNext]_limVars /\ [ChanNext]_chanVars
               /\ [RequestNext]_requestVars /\ [MessagingNext]_messagingVars
               /\ [BreakerNext]_breakerVars /\ [InstNext]_instVars /\ [PluginNext]_pluginVars
    BY <1>2 DEF ProvidersNext, providersVars
  <1> QED
    BY <1>1, <1>2, PTL DEF ProvidersSpec, ProvSpec, LimSpec, ChanSpec, RequestSpec,
       MessagingSpec, BreakerSpec, InstSpec, PluginSpec

\* ProvidersTypeOK holds of every behaviour of the components together.
THEOREM ProvidersTypeCorrect == ProvidersSpec => []ProvidersTypeOK
  <1>1. BreakerInv => BreakerTypeOK
    BY DEF BreakerInv
  <1>2. BreakerSpec => []BreakerTypeOK
    BY <1>1, InitBreaker, StepBreaker, PTL DEF BreakerSpec
  <1>3. /\ ProvTypeOK /\ LimTypeOK /\ ChanTypeOK /\ RequestTypeOK /\ MessagingTypeOK
        /\ BreakerTypeOK /\ InstTypeOK /\ PluginTypeOK
        /\ ProbeHasOwner /\ PaymentIsReal /\ NoBurstAfterThrottle
        => ProvidersTypeOK
    BY DEF ProvidersTypeOK
  <1> QED
    BY <1>2, <1>3, ProvidersRunEach, ProvTypeCorrect, LimTypeCorrect, ChanTypeCorrect,
       RequestTypeCorrect, MessagingTypeCorrect, InstTypeCorrect, PluginTypeCorrect,
       ProbeIsOwned, FolioShowsWhatWasTaken, ThrottleEndsTheBurst, PTL
=============================================================================
