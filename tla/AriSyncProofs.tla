--------------------------- MODULE AriSyncProofs ---------------------------
(***************************************************************************)
(* Proofs about the ARI sync engine, for every calendar, every set of jobs *)
(* and every bound: the type invariant, that a synced cell was accepted at  *)
(* its current version, that pushes do not overlap while leases hold, and   *)
(* that the engine implements its promise (AriPromise).                     *)
(*                                                                         *)
(* The batch builder is never expanded: what the proofs use of a chunk is   *)
(* only that the cells its entries decide are among those the job loaded.   *)
(***************************************************************************)
EXTENDS AriSync, AriBatchProofs, FiniteSetTheorems, TLAPS

\* The variables of the jobs that are not in TypeOK are functions on the jobs.
Shape ==
  /\ todo = [j \in Jobs |-> todo[j]]
  /\ answer = [j \in Jobs |-> answer[j]]

Typed == TypeOK /\ Shape

USE DEF Verifiers

-----------------------------------------------------------------------------
(* Types *)

\* The initial state is typed.
LEMMA InitTyped == Init => Typed
  <1> SUFFICES ASSUME Init PROVE Typed
    OBVIOUS
  <1>1. \A c \in Cells : desired[c] \in CellValues(c)
    BY DEF Init, CellValues
  <1>2. desired \in [Cells -> UNION {CellValues(c) : c \in Cells}]
    BY <1>1 DEF Init
  <1>3. state \in [Cells -> SyncStates] /\ accepted \in [Cells -> BOOLEAN] /\ queued \in Nat
    <2>1. CASE LiveProperty
      BY <2>1 DEF LiveProperty, SyncStates
    <2>2. CASE NewProperty
      BY <2>2 DEF NewProperty, SyncStates
    <2> QED
      BY <2>1, <2>2 DEF Init
  <1> QED
    BY <1>1, <1>2, <1>3
    DEF Init, Typed, TypeOK, Shape, NoVersion, NoAnswer, AnswerKinds, Steps

\* Queuing a push keeps the types of the queue.
LEMMA QueueTyped ==
  ASSUME queued \in Nat, keyTaken \in BOOLEAN, queueAriPush
  PROVE  queued' \in Nat /\ keyTaken' \in BOOLEAN
  <1>1. CASE keyTaken
    BY <1>1 DEF queueAriPush, trigVars
  <1>2. CASE ~keyTaken
    BY <1>2 DEF queueAriPush
  <1> QED
    BY <1>1, <1>2

\* Every step keeps the types.
LEMMA StepTyped == Typed /\ [Next]_vars => Typed'
  <1> SUFFICES ASSUME Typed, [Next]_vars PROVE Typed'
    OBVIOUS
  <1> USE DEF Typed, TypeOK, Shape, cellVars, provVars, trigVars, jobVars, bounds
  <1>1. ASSUME NEW c \in Cells, NEW S \in SUBSET FieldsOf[c[1]], NEW vals \in [S -> Values],
               Edit(c, vals)
        PROVE  Typed'
    <2>1. desired' \in [Cells -> UNION {CellValues(d) : d \in Cells}]
          /\ \A d \in Cells : desired'[d] \in CellValues(d)
      <3>1. desired' = [desired EXCEPT ![c] =
                          [f \in DOMAIN @ |-> IF f \in DOMAIN vals THEN vals[f] ELSE @[f]]]
        BY <1>1 DEF Edit
      <3> DEFINE new == [f \in DOMAIN desired[c] |->
                           IF f \in DOMAIN vals THEN vals[f] ELSE desired[c][f]]
      <3>2. new \in CellValues(c)
        <4>1. desired[c] \in [FieldsOf[c[1]] -> Values]
          BY DEF CellValues
        <4> QED
          BY <4>1 DEF CellValues
      <3>3. desired' = [desired EXCEPT ![c] = new]
        BY <3>1
      <3> HIDE DEF new
      <3>4. \A d \in Cells : desired'[d] = IF d = c THEN new ELSE desired[d]
        BY <3>3
      <3>5. \A d \in Cells : desired'[d] \in CellValues(d)
        BY <3>2, <3>4
      <3> QED
        BY <3>3, <3>5
    <2>2. queued' \in Nat /\ keyTaken' \in BOOLEAN
      BY <1>1, QueueTyped DEF Edit, repend
    <2> QED
      BY <1>1, <2>1, <2>2 DEF Edit, repend, SyncStates
  <1>2. CASE ForceResync
    <2>2. queued' \in Nat /\ keyTaken' \in BOOLEAN
      BY <1>2, QueueTyped DEF ForceResync, repend
    <2> QED
      BY <1>2, <2>2 DEF ForceResync, repend, SyncStates
  <1>3. CASE Clock
    <2>1. CASE NextBucket
      BY <2>1 DEF NextBucket
    <2>2. CASE DailyPush
      BY <2>2, QueueTyped DEF DailyPush
    <2>3. CASE NextDay
      BY <2>3 DEF NextDay
    <2> QED
      BY <1>3, <2>1, <2>2, <2>3 DEF Clock
  <1>4. ASSUME NEW j \in Jobs, Start(j) PROVE Typed'
    BY <1>4 DEF Start, acquire, Steps
  <1>5. ASSUME NEW j \in Jobs, Load(j) PROVE Typed'
    BY <1>5 DEF Load, Steps
  <1>6. ASSUME NEW j \in Jobs, DropPast(j) PROVE Typed'
    BY <1>6 DEF DropPast, applyOutcomes, Steps, SyncStates
  <1>7. ASSUME NEW j \in Jobs, MarkInFlight(j) PROVE Typed'
    BY <1>7 DEF MarkInFlight, Steps, SyncStates
  <1>8. ASSUME NEW j \in Jobs, Call(j) PROVE Typed'
    <2>1. CASE CallAccepted(j)
      <3>1. accepted' \in [Cells -> BOOLEAN]
        BY <2>1 DEF CallAccepted
      <3>2. /\ \A k \in Jobs : answer'[k].kind \in AnswerKinds
            /\ answer' = [k \in Jobs |-> answer'[k]]
        <4>1. PICK r, m : answer' = [answer EXCEPT ![j] = [kind |-> "result", rejected |-> r,
                                                           missed |-> m]]
          BY <2>1 DEF CallAccepted
        <4> QED
          BY <4>1 DEF AnswerKinds
      <3> QED
        BY <2>1, <3>1, <3>2 DEF CallAccepted, Steps
    <2>2. CASE CallTimesOut(j)
      BY <2>2 DEF CallTimesOut, Steps, AnswerKinds, Refusals, NoAnswer
    <2>3. ASSUME NEW k \in Refusals, CallRefused(j, k) PROVE Typed'
      BY <2>3 DEF CallRefused, Steps, AnswerKinds, NoAnswer
    <2> QED
      BY <1>8, <2>1, <2>2, <2>3 DEF Call
  <1>9. ASSUME NEW j \in Jobs, Handle(j) PROVE Typed'
    <2>1. CASE HandleResult(j)
      <3>1. queued' \in Nat
        BY <2>1 DEF HandleResult
      <3> QED
        BY <2>1, <3>1 DEF HandleResult, applyOutcomes, AfterChunk, Steps, SyncStates, AnswerKinds, NoAnswer
    <2>2. CASE HandleInvalid(j)
      BY <2>2 DEF HandleInvalid, applyOutcomes, AfterChunk, Steps, SyncStates, AnswerKinds, NoAnswer
    <2>3. CASE HandleRevert(j)
      <3>1. queued' \in Nat
        BY <2>3 DEF HandleRevert
      <3> QED
        BY <2>3, <3>1 DEF HandleRevert, applyOutcomes, Steps, SyncStates, AnswerKinds, NoAnswer
    <2>4. CASE HandleError(j)
      <3>1. queued' \in Nat
        BY <2>4 DEF HandleError
      <3> QED
        BY <2>4, <3>1 DEF HandleError, Steps, AnswerKinds, NoAnswer
    <2> QED
      BY <1>9, <2>1, <2>2, <2>3, <2>4 DEF Handle
  <1>10. ASSUME NEW j \in Jobs, SkipVerify(j) PROVE Typed'
    BY <1>10 DEF SkipVerify, Steps
  <1>11. ASSUME NEW j \in Jobs, Release(j) PROVE Typed'
    BY <1>11 DEF Release, Steps, NoVersion
  <1>12. ASSUME NEW j \in Jobs, Crash(j) PROVE Typed'
    <2>1. queued' \in Nat
      BY <1>12 DEF Crash
    <2> QED
      BY <1>12, <2>1 DEF Crash, Fault, Steps, NoVersion, AnswerKinds, NoAnswer
  <1>13. ASSUME NEW v \in Verifiers, Verify(v) PROVE Typed'
    <2>1. CASE ReadBack(v)
      BY <2>1 DEF ReadBack, Steps
    <2>2. CASE Compare(v)
      <3>1. InScope(v) \subseteq Cells
        BY DEF InScope
      <3> QED
        BY <2>2, <3>1 DEF Compare, AfterVerify, Steps
    <2>3. CASE MarkConflicted(v)
      BY <2>3 DEF MarkConflicted, AfterVerify, Steps, SyncStates
    <2> QED
      BY <1>13, <2>1, <2>2, <2>3 DEF Verify
  <1>14. CASE DelayedArrives
    BY <1>14 DEF DelayedArrives
  <1>15. CASE LeaseLapses
    BY <1>15 DEF LeaseLapses
  <1>16. CASE UNCHANGED vars
    BY <1>16 DEF vars
  <1> QED
    BY <1>1, <1>2, <1>3, <1>4, <1>5, <1>6, <1>7, <1>8, <1>9, <1>10, <1>11, <1>12, <1>13, <1>14,
       <1>15, <1>16
    DEF Next, Local, Push

\* Type correctness of the engine: versions, states, leases, program counters and
\* what the jobs remember keep their types in every behaviour.
THEOREM TypeCorrect == Spec => []TypeOK
  <1>1. Typed => TypeOK
    BY DEF Typed
  <1> QED
    BY <1>1, InitTyped, StepTyped, PTL DEF Spec

-----------------------------------------------------------------------------
(* A synced cell was accepted at its current version *)

\* The cells whose outcome is "synced" when a job handles a result.
Taken(j) ==
  Decided(j, Head(todo[j]), DOMAIN Head(todo[j]) \ (answer[j].rejected \cup answer[j].missed))

\* No job knows a version that is still to come.
VersionsKnown == \A j \in Jobs, c \in Cells : versionOf[j][c] <= version[c]

\* While a result waits to be handled, the channel manager has accepted every cell
\* the result will mark as synced, unless it was edited since.
ResultIsAccepted ==
  \A j \in Jobs : pc[j] = "answered" /\ answer[j].kind = "result"
                    => \A c \in Taken(j) \cap Current(j) : accepted[c]

\* The inductive invariant.
AcceptedInv == Typed /\ VersionsKnown /\ ResultIsAccepted /\ SyncedIsAccepted

\* What a result decides, and what is current, are cells.
LEMMA TakenIsCells == \A j \in Jobs : Taken(j) \subseteq Cells /\ Current(j) \subseteq Cells
  BY DEF Taken, Decided, cellsOf, Loaded, Current

\* A step that leaves what a job loaded, sends and was answered, and takes no
\* acceptance back, keeps its result accepted.
LEMMA ResultKept ==
  ASSUME Typed, VersionsKnown, ResultIsAccepted, Typed', NEW j \in Jobs,
         pc'[j] = "answered" => pc[j] = "answered",
         versionOf'[j] = versionOf[j], todo'[j] = todo[j], answer'[j] = answer[j],
         \A c \in Cells : accepted'[c] \/ (version'[c] > version[c]) \/ ~accepted[c],
         \A c \in Cells : version'[c] >= version[c]
  PROVE  pc'[j] = "answered" /\ answer'[j].kind = "result"
            => \A c \in Taken(j)' \cap Current(j)' : accepted'[c]
  <1> SUFFICES ASSUME pc'[j] = "answered", answer'[j].kind = "result",
                      NEW c \in Taken(j)', c \in Current(j)'
               PROVE  accepted'[c]
    OBVIOUS
  <1>1. Taken(j)' = Taken(j)
    BY DEF Taken, Decided, cellsOf, Loaded
  <1>2. c \in Cells /\ version'[c] = versionOf[j][c] /\ versionOf[j][c] # 0
    BY DEF Current, Loaded
  <1>3. version'[c] = version[c]
    <2>1. version[c] \in Nat /\ version'[c] \in Nat /\ versionOf[j][c] \in Nat
      BY <1>2 DEF Typed, TypeOK
    <2>2. versionOf[j][c] <= version[c] /\ version'[c] >= version[c]
      BY <1>2 DEF VersionsKnown
    <2> QED
      BY <1>2, <2>1, <2>2
  <1>4. c \in Current(j)
    BY <1>2, <1>3 DEF Current, Loaded
  <1>5. accepted[c]
    BY <1>1, <1>4 DEF ResultIsAccepted
  <1> QED
    BY <1>2, <1>3, <1>5 DEF Typed, TypeOK

\* A live property is accepted, a new one is not synced; no result waits.
LEMMA InitAccepted == Init => AcceptedInv
  <1> SUFFICES ASSUME Init PROVE AcceptedInv
    OBVIOUS
  <1>1. Typed
    BY InitTyped
  <1>2. VersionsKnown
    BY DEF Init, VersionsKnown, NoVersion
  <1>3. ResultIsAccepted
    BY DEF Init, ResultIsAccepted
  <1>4. SyncedIsAccepted
    <2>1. CASE LiveProperty
      BY <2>1 DEF LiveProperty, SyncedIsAccepted
    <2>2. CASE NewProperty
      BY <2>2 DEF NewProperty, SyncedIsAccepted
    <2> QED
      BY <2>1, <2>2 DEF Init
  <1> QED
    BY <1>1, <1>2, <1>3, <1>4 DEF AcceptedInv

\* Every step keeps the versions a job knows behind the cells' own.
LEMMA StepVersions == Typed /\ Typed' /\ VersionsKnown /\ [Next]_vars => VersionsKnown'
  <1> SUFFICES ASSUME Typed, Typed', VersionsKnown, [Next]_vars,
                      NEW k \in Jobs, NEW d \in Cells
               PROVE  versionOf'[k][d] <= version'[d]
    BY DEF VersionsKnown
  <1> USE DEF Typed, TypeOK, Shape, cellVars, provVars, trigVars, jobVars, bounds, VersionsKnown
  <1>1. ASSUME NEW c \in Cells, NEW vals, Edit(c, vals) PROVE versionOf'[k][d] <= version'[d]
    BY <1>1 DEF Edit, repend
  <1>2. CASE ForceResync
    BY <1>2 DEF ForceResync, repend
  <1>3. CASE UNCHANGED <<version, versionOf>>
    BY <1>3
  <1>4. ASSUME NEW j \in Jobs, Load(j) PROVE versionOf'[k][d] <= version'[d]
    BY <1>4 DEF Load
  <1>5. ASSUME NEW j \in Jobs, DropPast(j) PROVE versionOf'[k][d] <= version'[d]
    BY <1>5 DEF DropPast, applyOutcomes
  <1>6. ASSUME NEW j \in Jobs, Release(j) \/ Crash(j) PROVE versionOf'[k][d] <= version'[d]
    <2>1. versionOf' = [versionOf EXCEPT ![j] = NoVersion] /\ version' = version
      BY <1>6 DEF Release, Crash
    <2>2. CASE k = j
      <3>1. versionOf'[k][d] = 0
        BY <2>1, <2>2 DEF NoVersion
      <3> QED
        BY <3>1, <2>1
    <2>3. CASE k # j
      BY <2>1, <2>3
    <2> QED
      BY <2>2, <2>3
  <1>7. ASSUME NEW j \in Jobs, Call(j) \/ Handle(j) PROVE UNCHANGED <<version, versionOf>>
    BY <1>7 DEF Call, CallAccepted, CallTimesOut, CallRefused, Handle, HandleResult, HandleInvalid,
                HandleRevert, HandleError, applyOutcomes
  <1>8. ASSUME NEW j \in Jobs, Start(j) \/ MarkInFlight(j) \/ SkipVerify(j)
        PROVE  UNCHANGED <<version, versionOf>>
    BY <1>8 DEF Start, acquire, MarkInFlight, SkipVerify
  <1>9. ASSUME NEW v \in Verifiers, Verify(v) PROVE UNCHANGED <<version, versionOf>>
    BY <1>9 DEF Verify, ReadBack, Compare, MarkConflicted
  <1>10. CASE Clock \/ DelayedArrives \/ LeaseLapses \/ UNCHANGED vars
    <2>1. UNCHANGED <<version, versionOf>>
      BY <1>10 DEF Clock, NextBucket, DailyPush, NextDay, DelayedArrives, LeaseLapses, vars
    <2> QED
      BY <2>1, <1>3
  <1> QED
    BY <1>1, <1>2, <1>3, <1>4, <1>5, <1>6, <1>7, <1>8, <1>9, <1>10 DEF Next, Local, Push

\* What a call that is answered with a result does, apart from the mirror.
LEMMA AcceptedCall ==
  ASSUME NEW j \in Jobs, CallAccepted(j)
  PROVE  /\ UNCHANGED <<version, state, versionOf, todo>>
         /\ pc' = [pc EXCEPT ![j] = "answered"]
         /\ \E r, m :
              /\ answer' = [answer EXCEPT ![j] =
                              [kind |-> "result", rejected |-> r, missed |-> m]]
              /\ accepted' = [c \in Cells |->
                   accepted[c] \/ c \in Decided(j, Head(todo[j]), DOMAIN Head(todo[j]) \ (r \cup m))
                                          \cap Current(j)]
  <1>1. UNCHANGED <<version, state, versionOf, todo>> /\ pc' = [pc EXCEPT ![j] = "answered"]
    BY DEF CallAccepted, cellVars
  <1>2. PICK r, m \in SUBSET DOMAIN Head(todo[j]) :
          /\ answer' = [answer EXCEPT ![j] = [kind |-> "result", rejected |-> r, missed |-> m]]
          /\ accepted' = [c \in Cells |->
               accepted[c] \/ c \in Decided(j, Head(todo[j]), DOMAIN Head(todo[j]) \ (r \cup m))
                                      \cap Current(j)]
    BY Zenon DEF CallAccepted
  <1> QED
    BY <1>1, <1>2

\* Only an edit takes an acceptance back: it makes a new version and the cell is not
\* synced.  Versions only grow.
LEMMA StepMonotone ==
  ASSUME Typed, Typed', [Next]_vars, NEW c \in Cells
  PROVE  /\ version'[c] >= version[c]
         /\ \/ accepted'[c] \/ ~accepted[c]
            \/ version'[c] > version[c] /\ state'[c] # "synced"
  <1> DEFINE Goal == /\ version'[c] >= version[c]
                     /\ \/ accepted'[c] \/ ~accepted[c]
                        \/ version'[c] > version[c] /\ state'[c] # "synced"
  <1> USE DEF Typed, TypeOK, cellVars, provVars, trigVars, jobVars, bounds
  <1>1. CASE UNCHANGED <<version, accepted>>
    BY <1>1
  <1>2. ASSUME NEW e \in Cells, NEW vals, Edit(e, vals) PROVE Goal
    <2>1. CASE c = e
      BY <1>2, <2>1 DEF Edit, repend
    <2>2. CASE c # e
      BY <1>2, <2>2 DEF Edit, repend
    <2> QED
      BY <2>1, <2>2
  <1>3. CASE ForceResync
    BY <1>3 DEF ForceResync, repend
  <1>4. ASSUME NEW j \in Jobs, CallAccepted(j) PROVE Goal
    <2>1. PICK S : accepted' = [d \in Cells |-> accepted[d] \/ d \in S]
      BY <1>4, AcceptedCall
    <2> QED
      BY <1>4, <2>1, AcceptedCall
  <1>5. ASSUME NEW j \in Jobs,
               Start(j) \/ Load(j) \/ DropPast(j) \/ MarkInFlight(j) \/ CallTimesOut(j)
                 \/ (\E k \in Refusals : CallRefused(j, k))
                 \/ Handle(j) \/ SkipVerify(j) \/ Release(j) \/ Crash(j)
        PROVE  UNCHANGED <<version, accepted>>
    BY <1>5 DEF Start, acquire, Load, DropPast, MarkInFlight, CallTimesOut, CallRefused, Handle, HandleResult,
       HandleInvalid, HandleRevert, HandleError, applyOutcomes, SkipVerify, Release, Crash
  <1>6. ASSUME NEW v \in Verifiers, Verify(v) PROVE UNCHANGED <<version, accepted>>
    BY <1>6 DEF Verify, ReadBack, Compare, MarkConflicted
  <1>7. CASE Clock \/ DelayedArrives \/ LeaseLapses \/ UNCHANGED vars
    <2>1. UNCHANGED <<version, accepted>>
      BY <1>7 DEF Clock, NextBucket, DailyPush, NextDay, DelayedArrives, LeaseLapses, vars
    <2> QED
      BY <2>1, <1>1
  <1> QED
    BY <1>1, <1>2, <1>3, <1>4, <1>5, <1>6, <1>7 DEF Next, Local, Push, Call

\* A job that waits with a result either waited with the same one before the step,
\* or the step is the call that was answered.
Waits(k) ==
  \/ pc'[k] # "answered" \/ answer'[k].kind # "result"
  \/ pc[k] = "answered" /\ versionOf'[k] = versionOf[k] /\ todo'[k] = todo[k]
     /\ answer'[k] = answer[k]
  \/ CallAccepted(k)

\* Only a call that is answered makes a result wait.
LEMMA StepWaits ==
  ASSUME Typed, [Next]_vars, NEW k \in Jobs
  PROVE  Waits(k)
  <1> USE DEF Typed, TypeOK, Shape, cellVars, provVars, trigVars, jobVars, bounds, Waits
  <1>1. CASE UNCHANGED jobVars
    BY <1>1
  <1>2. ASSUME NEW c \in Cells, NEW vals, Edit(c, vals) PROVE UNCHANGED jobVars
    BY <1>2 DEF Edit, repend
  <1>3. CASE ForceResync \/ Clock \/ DelayedArrives \/ LeaseLapses \/ UNCHANGED vars
    <2>1. UNCHANGED jobVars
      BY <1>3 DEF ForceResync, Clock, NextBucket, DailyPush, NextDay, DelayedArrives, LeaseLapses, vars
    <2> QED
      BY <2>1, <1>1
  <1>4. ASSUME NEW j \in Jobs, Start(j) \/ Load(j) \/ MarkInFlight(j) PROVE Waits(k)
    BY <1>4 DEF Start, acquire, Load, MarkInFlight
  <1>5. ASSUME NEW j \in Jobs, DropPast(j) \/ SkipVerify(j) \/ Release(j) PROVE Waits(k)
    BY <1>5 DEF DropPast, SkipVerify, Release
  <1>6. ASSUME NEW j \in Jobs, CallAccepted(j) PROVE Waits(k)
    <2>1. CASE j = k
      BY <1>6, <2>1
    <2>2. CASE j # k
      BY <1>6, <2>2, AcceptedCall
    <2> QED
      BY <2>1, <2>2
  <1>7. ASSUME NEW j \in Jobs, CallTimesOut(j) PROVE Waits(k)
    BY <1>7 DEF CallTimesOut, NoAnswer
  <1>8. ASSUME NEW j \in Jobs, NEW r \in Refusals, CallRefused(j, r) PROVE Waits(k)
    BY <1>8 DEF CallRefused, NoAnswer, Refusals
  <1>9. ASSUME NEW j \in Jobs, HandleResult(j) \/ HandleInvalid(j) PROVE Waits(k)
    BY <1>9 DEF HandleResult, HandleInvalid, AfterChunk
  <1>10. ASSUME NEW j \in Jobs, HandleRevert(j) \/ HandleError(j) PROVE Waits(k)
    BY <1>10 DEF HandleRevert, HandleError
  <1>11. ASSUME NEW j \in Jobs, Crash(j) PROVE Waits(k)
    BY <1>11 DEF Crash
  <1>12. ASSUME NEW v \in Verifiers, Verify(v) PROVE Waits(k)
    BY <1>12 DEF Verify, ReadBack, Compare, MarkConflicted, AfterVerify
  <1> QED
    BY <1>1, <1>2, <1>3, <1>4, <1>5, <1>6, <1>7, <1>8, <1>9, <1>10, <1>11, <1>12
    DEF Next, Local, Push, Call, Handle

\* Every step keeps the results that wait accepted.
LEMMA StepResult ==
  ASSUME AcceptedInv, Typed', [Next]_vars
  PROVE  ResultIsAccepted'
  <1> SUFFICES ASSUME NEW k \in Jobs, pc'[k] = "answered", answer'[k].kind = "result",
                      NEW c \in Taken(k)', c \in Current(k)'
               PROVE  accepted'[c]
    BY DEF ResultIsAccepted
  <1> USE DEF AcceptedInv
  <1>1. CASE CallAccepted(k)
    <2>1. PICK r, m :
            /\ answer' = [answer EXCEPT ![k] = [kind |-> "result", rejected |-> r, missed |-> m]]
            /\ accepted' = [d \in Cells |->
                 accepted[d] \/ d \in Decided(k, Head(todo[k]), DOMAIN Head(todo[k]) \ (r \cup m))
                                        \cap Current(k)]
      BY <1>1, AcceptedCall
    <2>2. answer'[k].rejected = r /\ answer'[k].missed = m
      BY <2>1 DEF Typed, Shape
    <2>3. UNCHANGED <<version, versionOf, todo>>
      BY <1>1, AcceptedCall
    <2>4. Taken(k)' = Decided(k, Head(todo[k]), DOMAIN Head(todo[k]) \ (r \cup m))
      BY <2>2, <2>3 DEF Taken, Decided, cellsOf, Loaded
    <2>5. Current(k)' = Current(k)
      BY <2>3 DEF Current, Loaded
    <2> QED
      BY <2>1, <2>4, <2>5 DEF Current, Loaded
  <1>2. CASE pc[k] = "answered" /\ versionOf'[k] = versionOf[k] /\ todo'[k] = todo[k]
             /\ answer'[k] = answer[k]
    <2>1. \A d \in Cells : /\ accepted'[d] \/ version'[d] > version[d] \/ ~accepted[d]
                           /\ version'[d] >= version[d]
      BY StepMonotone
    <2> QED
      BY <1>2, <2>1, ResultKept
  <1> QED
    BY <1>1, <1>2, StepWaits DEF Waits

\* applyOutcomes shows as synced only what was synced before or is current and listed.
LEMMA OutcomesSync ==
  ASSUME NEW j, NEW S, NEW R, NEW F, applyOutcomes(j, S, R, F), NEW c \in Cells,
         state'[c] = "synced"
  PROVE  state[c] = "synced" \/ c \in S \cap Current(j)
  BY DEF applyOutcomes

\* A cell becomes synced only by the result of a call.
LEMMA StepSynced ==
  ASSUME AcceptedInv, [Next]_vars, NEW c \in Cells, state'[c] = "synced"
  PROVE  \/ state[c] = "synced"
         \/ \E j \in Jobs : HandleResult(j) /\ c \in Taken(j) \cap Current(j)
  <1> DEFINE Goal == \/ state[c] = "synced"
                     \/ \E j \in Jobs : HandleResult(j) /\ c \in Taken(j) \cap Current(j)
  <1> USE DEF AcceptedInv, Typed, TypeOK, cellVars
  <1>1. CASE UNCHANGED state
    BY <1>1
  <1>2. ASSUME NEW e \in Cells, NEW vals, Edit(e, vals) PROVE Goal
    BY <1>2 DEF Edit, repend
  <1>3. CASE ForceResync
    BY <1>3 DEF ForceResync, repend
  <1>4. ASSUME NEW j \in Jobs, DropPast(j) PROVE Goal
    BY <1>4, OutcomesSync DEF DropPast
  <1>5. ASSUME NEW j \in Jobs, MarkInFlight(j) PROVE Goal
    BY <1>5 DEF MarkInFlight
  <1>6. ASSUME NEW j \in Jobs, HandleResult(j) PROVE Goal
    BY <1>6, OutcomesSync DEF HandleResult, Taken
  <1>7. ASSUME NEW j \in Jobs, HandleInvalid(j) \/ HandleRevert(j) PROVE Goal
    BY <1>7, OutcomesSync DEF HandleInvalid, HandleRevert
  <1>8. ASSUME NEW v \in Verifiers, MarkConflicted(v) PROVE Goal
    BY <1>8 DEF MarkConflicted
  <1>9. ASSUME NEW j \in Jobs,
               Start(j) \/ Load(j) \/ CallTimesOut(j) \/ (\E k \in Refusals : CallRefused(j, k))
                 \/ HandleError(j) \/ SkipVerify(j) \/ Release(j) \/ Crash(j)
        PROVE  UNCHANGED state
    BY <1>9 DEF Start, acquire, Load, CallTimesOut, CallRefused, HandleError, SkipVerify, Release, Crash
  <1>10. ASSUME NEW j \in Jobs, CallAccepted(j) PROVE UNCHANGED state
    BY <1>10, AcceptedCall
  <1>11. ASSUME NEW v \in Verifiers, ReadBack(v) \/ Compare(v) PROVE UNCHANGED state
    BY <1>11 DEF ReadBack, Compare
  <1>12. CASE Clock \/ DelayedArrives \/ LeaseLapses \/ UNCHANGED vars
    <2>1. UNCHANGED state
      BY <1>12 DEF Clock, NextBucket, DailyPush, NextDay, DelayedArrives, LeaseLapses, vars
    <2> QED
      BY <2>1, <1>1
  <1> QED
    BY <1>1, <1>2, <1>3, <1>4, <1>5, <1>6, <1>7, <1>8, <1>9, <1>10, <1>11, <1>12
    DEF Next, Local, Push, Call, Handle, Verify

\* AcceptedInv is inductive.
LEMMA StepAccepted == AcceptedInv /\ [Next]_vars => AcceptedInv'
  <1> SUFFICES ASSUME AcceptedInv, [Next]_vars PROVE AcceptedInv'
    OBVIOUS
  <1>1. Typed' /\ VersionsKnown'
    BY StepTyped, StepVersions DEF AcceptedInv
  <1>2. ResultIsAccepted'
    BY <1>1, StepResult
  <1>3. ASSUME NEW c \in Cells, state'[c] = "synced" PROVE accepted'[c]
    <2>1. CASE state[c] = "synced"
      BY <1>1, <1>3, <2>1, StepMonotone DEF AcceptedInv, SyncedIsAccepted
    <2>2. ASSUME NEW j \in Jobs, HandleResult(j), c \in Taken(j) \cap Current(j)
          PROVE  accepted'[c]
      BY <2>2 DEF HandleResult, AcceptedInv, ResultIsAccepted
    <2> QED
      BY <1>3, <2>1, <2>2, StepSynced
  <1> QED
    BY <1>1, <1>2, <1>3 DEF AcceptedInv, SyncedIsAccepted

\* In every behaviour of the engine, whatever edits, overlapping pushes, late or lost
\* answers, crashes and lapsed leases come between, a cell is synced only when the
\* channel manager accepted its current version.
THEOREM SyncedCellsAreAccepted == Spec => []SyncedIsAccepted
  <1>1. AcceptedInv => SyncedIsAccepted
    BY DEF AcceptedInv
  <1> QED
    BY <1>1, InitAccepted, StepAccepted, PTL DEF Spec

-----------------------------------------------------------------------------
(* Pushes do not overlap while leases hold *)

\* A running job holds the lease.
RunningHolds == \A j \in Jobs : Running(j) => lease = j

\* Start takes the lease, and only the holder gives it back while none lapses.
LEMMA StepHolds ==
  ASSUME LeaseMayLapse = FALSE, Typed, RunningHolds, [Next]_vars
  PROVE  RunningHolds'
  <1> USE NamesDiffer DEF Typed, TypeOK, jobVars, RunningHolds, Running
  <1>1. CASE UNCHANGED <<pc, lease>>
    BY <1>1
  <1>2. ASSUME NEW c \in Cells, NEW vals, Edit(c, vals) PROVE UNCHANGED <<pc, lease>>
    BY <1>2 DEF Edit, repend
  <1>3. CASE ForceResync \/ Clock \/ DelayedArrives \/ UNCHANGED vars
    <2>1. UNCHANGED <<pc, lease>>
      BY <1>3 DEF ForceResync, Clock, NextBucket, DailyPush, NextDay, DelayedArrives, vars
    <2> QED
      BY <2>1, <1>1
  <1>4. ASSUME NEW j \in Jobs, Start(j) PROVE RunningHolds'
    BY <1>4 DEF Start, acquire
  <1>5. ASSUME NEW j \in Jobs,
               Load(j) \/ DropPast(j) \/ MarkInFlight(j) \/ CallTimesOut(j)
                 \/ (\E k \in Refusals : CallRefused(j, k)) \/ SkipVerify(j)
        PROVE  RunningHolds'
    BY <1>5 DEF Load, DropPast, MarkInFlight, CallTimesOut, CallRefused, SkipVerify
  <1>6. ASSUME NEW j \in Jobs, CallAccepted(j) PROVE RunningHolds'
    <2>1. pc[j] = "call" /\ pc' = [pc EXCEPT ![j] = "answered"] /\ lease' = lease
      BY <1>6 DEF CallAccepted
    <2> QED
      BY <2>1
  <1>7. ASSUME NEW j \in Jobs, Handle(j) PROVE RunningHolds'
    BY <1>7 DEF Handle, HandleResult, HandleInvalid, HandleRevert, HandleError, AfterChunk
  <1>8. ASSUME NEW j \in Jobs, Release(j) PROVE RunningHolds'
    BY <1>8 DEF Release
  <1>9. ASSUME NEW j \in Jobs, Crash(j) PROVE RunningHolds'
    BY <1>9 DEF Crash
  <1>10. ASSUME NEW v \in Verifiers, Verify(v) PROVE RunningHolds'
    <2>1. lease' = lease /\ (\A j \in Jobs : j # v => pc'[j] = pc[j])
      BY <1>10 DEF Verify, ReadBack, Compare, MarkConflicted
    <2>2. v \in Jobs => pc[v] # "idle"
      BY <1>10 DEF Verify, ReadBack, Compare, MarkConflicted
    <2> QED
      BY <2>1, <2>2
  <1>11. CASE LeaseLapses
    BY <1>11 DEF LeaseLapses
  <1> QED
    BY <1>1, <1>2, <1>3, <1>4, <1>5, <1>6, <1>7, <1>8, <1>9, <1>10, <1>11
    DEF Next, Local, Push, Call

\* The one that holds the lease is the only one that can be running.
LEMMA OneHolder == RunningHolds => OnePush
  <1> SUFFICES ASSUME RunningHolds PROVE OnePush
    OBVIOUS
  <1> DEFINE R == {j \in Jobs : Running(j)}
  <1>1. R \subseteq {lease}
    BY DEF RunningHolds
  <1>2. IsFiniteSet({lease}) /\ Cardinality({lease}) = 1
    BY FS_Singleton
  <1>3. IsFiniteSet(R) /\ Cardinality(R) <= 1
    BY <1>1, <1>2, FS_Subset
  <1> QED
    BY <1>3 DEF OnePush, Busy

\* While no lease lapses under a running push, at most one push of the property runs,
\* also when workers die holding the lease and their jobs are handed out again.
THEOREM PushesDoNotOverlap ==
  ASSUME LeaseMayLapse = FALSE
  PROVE  Spec => []OnePush
  <1> DEFINE Inv == Typed /\ RunningHolds
  <1>1. Init => Inv
    <2>1. Init => RunningHolds
      BY DEF Init, RunningHolds, Running, Verifiers
    <2> QED
      BY <2>1, InitTyped
  <1>2. Inv /\ [Next]_vars => Inv'
    BY StepTyped, StepHolds
  <1>3. Inv => OnePush
    BY OneHolder
  <1> QED
    BY <1>1, <1>2, <1>3, PTL DEF Spec

-----------------------------------------------------------------------------
(* The engine implements its promise *)

\* The initial states are the promise's.
LEMMA InitPromise == Init => Promise!Init
  <1> SUFFICES ASSUME Init PROVE Promise!Init
    OBVIOUS
  <1>1. AcceptedInv
    BY InitAccepted
  <1> QED
    BY <1>1 DEF AcceptedInv, Typed, TypeOK, SyncedIsAccepted, Promise!Init

\* Every step maps to a step of the promise or leaves it as it is.
LEMMA StepPromise == AcceptedInv /\ AcceptedInv' /\ [Next]_vars => [Promise!Next]_(Promise!vars)
  <1> SUFFICES ASSUME AcceptedInv, AcceptedInv', [Next]_vars PROVE [Promise!Next]_(Promise!vars)
    OBVIOUS
  <1> DEFINE live == [c \in Cells |-> state[c] = "synced"]
  <1> USE DEF AcceptedInv, Typed, TypeOK
  <1> DEFINE Goal == (\E C \in SUBSET Cells : Promise!Edit(C) \/ Promise!Accept(C)) \/ Promise!Judge
  <1>1. ASSUME NEW e \in Cells, NEW vals, Edit(e, vals) PROVE Goal
    <2>1. Promise!Edit({e})
      BY <1>1 DEF Edit, repend, Promise!Edit
    <2> QED
      BY <2>1
  <1>2. ASSUME ForceResync PROVE Goal
    <2>1. PICK stale \in SUBSET Cells : stale = {c \in Cells : state[c] # "pending" \/ refused[c]}
      OBVIOUS
    <2>2. /\ version' = [c \in Cells |-> IF c \in stale THEN version[c] + 1 ELSE version[c]]
          /\ accepted' = [c \in Cells |-> accepted[c] /\ c \notin stale]
          /\ \A c \in Cells : state'[c] = "pending"
      BY <1>2, <2>1 DEF ForceResync, repend
    <2>3. Promise!Edit(stale)
      BY <2>1, <2>2 DEF Promise!Edit
    <2> QED
      BY <2>3
  <1>3. ASSUME NEW j \in Jobs, CallAccepted(j) PROVE Goal
    <2>1. PICK S : accepted' = [c \in Cells |-> accepted[c] \/ c \in S]
      BY <1>3, AcceptedCall
    <2>2. version' = version /\ state' = state
      BY <1>3, AcceptedCall
    <2>3. Promise!Accept(S \cap Cells)
      BY <2>1, <2>2 DEF Promise!Accept
    <2> QED
      BY <2>3
  <1>4. ASSUME UNCHANGED <<version, accepted>> PROVE Goal
    BY <1>4 DEF Promise!Judge, SyncedIsAccepted
  <1> HIDE DEF Goal
  <1>5. ASSUME NEW j \in Jobs,
               Start(j) \/ Load(j) \/ DropPast(j) \/ MarkInFlight(j) \/ CallTimesOut(j)
                 \/ (\E k \in Refusals : CallRefused(j, k))
                 \/ Handle(j) \/ SkipVerify(j) \/ Release(j) \/ Crash(j)
        PROVE  Goal
    <2>1. UNCHANGED <<version, accepted>>
      BY <1>5 DEF Start, acquire, Load, DropPast, MarkInFlight, CallTimesOut, CallRefused, Handle,
         HandleResult, HandleInvalid, HandleRevert, HandleError, applyOutcomes, SkipVerify, Release,
         Crash, cellVars
    <2> QED
      BY <2>1, <1>4
  <1>6. ASSUME NEW v \in Verifiers, Verify(v) PROVE Goal
    <2>1. UNCHANGED <<version, accepted>>
      BY <1>6 DEF Verify, ReadBack, Compare, MarkConflicted, cellVars
    <2> QED
      BY <2>1, <1>4
  <1>7. ASSUME Clock \/ DelayedArrives \/ LeaseLapses \/ UNCHANGED vars PROVE Goal
    <2>1. UNCHANGED <<version, accepted>>
      BY <1>7 DEF Clock, NextBucket, DailyPush, NextDay, DelayedArrives, LeaseLapses, vars, cellVars
    <2> QED
      BY <2>1, <1>4
  <1>8. Goal
    BY <1>1, <1>2, <1>3, <1>5, <1>6, <1>7 DEF Next, Local, Push, Call
  <1> QED
    BY <1>8 DEF Promise!Next, Goal

\* The detailed engine implements what it promises about every cell.
THEOREM EngineImplementsPromise == Spec => ImplementsPromise
  <1> QED
    BY InitAccepted, StepAccepted, InitPromise, StepPromise, PTL DEF Spec, Promise!Spec, ImplementsPromise

-----------------------------------------------------------------------------
(* What is shown as synced is held *)

\* What the channel manager holds are functions, of fields of the lane at most.
HeldShape(h) ==
  /\ h = [c \in Cells |-> h[c]]
  /\ \A c \in Cells : /\ DOMAIN h[c] \subseteq FieldsOf[c[1]]
                      /\ h[c] = [f \in DOMAIN h[c] |-> h[c][f]]

\* A job that has nothing loaded has nothing to send.
IdleSendsNothing ==
  \A j \in Jobs : /\ todo[j] \in Seq(Chunks)
                  /\ pc[j] \in {"idle", "load"} => todo[j] = <<>>

\* No cell is in two chunks of a list.
ChunksApart(chunks) ==
  \A k, m \in DOMAIN chunks : \A c \in Cells :
    CoveredBy(chunks[k], c) /\ CoveredBy(chunks[m], c) => k = m

\* The entries of a list would give a current cell its desired values.
Desires(j, chunks) ==
  \A k \in DOMAIN chunks : \A c \in Current(j) : \A i \in DOMAIN chunks[k] :
    LastCovers(chunks[k], i, c) => chunks[k][i].vals = desired[c]

\* What a job has still to send is not shown as synced, no cell is sent twice, and a cell
\* nobody edited since it was loaded is sent as it is desired.
SendsTheDesired ==
  \A j \in Jobs :
    /\ \A k \in DOMAIN todo[j], c \in Cells : CoveredBy(todo[j][k], c) => state[c] # "synced"
    /\ ChunksApart(todo[j])
    /\ Desires(j, todo[j])

\* While a result waits to be handled, what it will mark as synced is held, unless it was
\* edited since.
ResultIsHeld ==
  \A j \in Jobs : pc[j] = "answered" /\ answer[j].kind = "result"
                    => \A c \in Taken(j) \cap Current(j) : held[c] = desired[c]

\* The inductive invariant.
HeldInv ==
  /\ Typed /\ VersionsKnown /\ RunningHolds
  /\ HeldShape(held) /\ delayed = {}
  /\ IdleSendsNothing /\ SendsTheDesired /\ ResultIsHeld /\ SyncedIsHeld

\* The conjuncts of HeldInv that are about what jobs send and what is held.
HeldRest == /\ HeldShape(held) /\ delayed = {}
            /\ IdleSendsNothing /\ SendsTheDesired /\ ResultIsHeld /\ SyncedIsHeld

\* What BuildsWhole says of a chunk.
LEMMA ChunkFacts ==
  ASSUME BuildsWhole, NEW es \in Chunks
  PROVE  /\ DOMAIN es \subseteq Nat
         /\ \A c \in Cells : \A i \in DOMAIN es :
              Covers(es[i], c) => es[i].vals \in CellValues(c)
         /\ \A c \in Cells : CoveredBy(es, c) => \E i \in DOMAIN es : LastCovers(es, i, c)
  <1>1. PICK b \in Batches : es \in ToSet(ChunksOf[b])
    BY DEF Chunks
  <1>2. PICK k \in DOMAIN ChunksOf[b] : es = ChunksOf[b][k]
    BY <1>1 DEF ToSet
  <1> QED
    BY <1>2 DEF BuildsWhole

\* The last entry that covers a cell is the one that decides it.
LEMMA LastDecides ==
  ASSUME BuildsWhole, NEW es \in Chunks, NEW c \in Cells, CoveredBy(es, c)
  PROVE  /\ DecidingEntry(es, c) \in DOMAIN es
         /\ LastCovers(es, DecidingEntry(es, c), c)
         /\ \A i \in DOMAIN es : LastCovers(es, i, c) => i = DecidingEntry(es, c)
  <1> DEFINE S == {i \in DOMAIN es : Covers(es[i], c)}
  <1>1. DOMAIN es \subseteq Nat /\ \E i \in DOMAIN es : LastCovers(es, i, c)
    BY ChunkFacts
  <1>2. \E x \in S : \A y \in S : x >= y
    BY <1>1 DEF LastCovers
  <1>3. Max(S) \in S /\ \A y \in S : Max(S) >= y
    BY <1>2 DEF Max
  <1>4. DecidingEntry(es, c) = Max(S)
    BY DEF DecidingEntry
  <1>5. DecidingEntry(es, c) \in S /\ \A y \in S : y <= DecidingEntry(es, c)
    BY <1>1, <1>3, <1>4
  <1> QED
    BY <1>1, <1>5 DEF LastCovers

\* What the channel manager holds once it took some entries of a chunk: what it held where
\* they cover nothing, and the values of the deciding entry where it took that one.
LEMMA ChunkApplied ==
  ASSUME BuildsWhole, NEW es \in Chunks, NEW h, HeldShape(h), NEW taken \in SUBSET DOMAIN es
  PROVE  /\ HeldShape(applyTaken(h, es, taken))
         /\ \A c \in Cells : ~CoveredBy(es, c) => applyTaken(h, es, taken)[c] = h[c]
         /\ \A c \in Cells : CoveredBy(es, c) /\ DecidingEntry(es, c) \in taken
              => applyTaken(h, es, taken)[c] = es[DecidingEntry(es, c)].vals
  <1> DEFINE writers(c, fld) == {i \in taken : Covers(es[i], c) /\ fld \in DOMAIN es[i].vals}
             written(c) == {fld \in Fields : writers(c, fld) # {}}
             new(c) == [fld \in DOMAIN h[c] \cup written(c) |->
                          IF fld \in written(c) THEN es[Max(writers(c, fld))].vals[fld]
                          ELSE h[c][fld]]
  <1>1. DOMAIN h = Cells
    BY DEF HeldShape
  <1>2. applyTaken(h, es, taken) = [c \in Cells |-> new(c)]
    BY <1>1 DEF applyTaken
  <1>3. ASSUME NEW c \in Cells PROVE written(c) \subseteq FieldsOf[c[1]]
    BY ChunkFacts DEF CellValues
  <1>4. HeldShape(applyTaken(h, es, taken))
    <2>1. \A c \in Cells : /\ DOMAIN new(c) = DOMAIN h[c] \cup written(c)
                           /\ new(c) = [f \in DOMAIN new(c) |-> new(c)[f]]
      OBVIOUS
    <2>2. \A c \in Cells : applyTaken(h, es, taken)[c] = new(c)
      BY <1>2
    <2>3. \A c \in Cells : DOMAIN new(c) \subseteq FieldsOf[c[1]]
      BY <1>3, <2>1 DEF HeldShape
    <2> HIDE DEF new
    <2> QED
      BY <1>2, <2>1, <2>2, <2>3 DEF HeldShape
  <1>5. ASSUME NEW c \in Cells, ~CoveredBy(es, c) PROVE applyTaken(h, es, taken)[c] = h[c]
    <2>1. written(c) = {}
      BY <1>5 DEF CoveredBy
    <2>2. new(c) = [fld \in DOMAIN h[c] |-> h[c][fld]]
      BY <2>1
    <2>3. h[c] = [fld \in DOMAIN h[c] |-> h[c][fld]]
      BY DEF HeldShape
    <2>4. applyTaken(h, es, taken)[c] = new(c)
      BY <1>2
    <2> HIDE DEF new
    <2> QED
      BY <2>2, <2>3, <2>4
  <1>6. ASSUME NEW c \in Cells, CoveredBy(es, c), DecidingEntry(es, c) \in taken
        PROVE  applyTaken(h, es, taken)[c] = es[DecidingEntry(es, c)].vals
    <2> DEFINE d == DecidingEntry(es, c)
    <2>1. d \in DOMAIN es /\ LastCovers(es, d, c) /\ d \in taken
      BY <1>6, LastDecides
    <2> HIDE DEF d
    <2>2. es[d].vals \in [FieldsOf[c[1]] -> Values]
      BY <2>1, ChunkFacts DEF CellValues, LastCovers
    <2>3. c[1] \in Lanes
      BY DEF Cells
    <2>4. ASSUME NEW fld \in FieldsOf[c[1]]
          PROVE  fld \in Fields /\ d \in writers(c, fld) /\ \A i \in writers(c, fld) : i <= d
      BY <2>1, <2>2, <2>3, FieldsListed DEF LastCovers
    <2>5. ASSUME NEW fld \in FieldsOf[c[1]] PROVE Max(writers(c, fld)) = d
      <3>1. DOMAIN es \subseteq Nat
        BY ChunkFacts
      <3>2. \A i \in writers(c, fld) : i \in Nat /\ i <= d
        BY <2>4, <3>1
      <3>3. d \in Nat /\ d \in writers(c, fld)
        BY <2>1, <2>4, <3>1
      <3> HIDE DEF writers
      <3>4. \A x \in writers(c, fld) : (\A y \in writers(c, fld) : x >= y) => x = d
        BY <3>2, <3>3
      <3>5. \A y \in writers(c, fld) : d >= y
        BY <3>2, <3>3
      <3> QED
        BY <3>3, <3>4, <3>5 DEF Max
    <2>6. written(c) = FieldsOf[c[1]]
      BY <1>3, <2>4
    <2>7. DOMAIN h[c] \cup written(c) = FieldsOf[c[1]]
      BY <2>6 DEF HeldShape
    <2> HIDE DEF written, writers
    <2>8. new(c) = [fld \in FieldsOf[c[1]] |-> es[d].vals[fld]]
      BY <2>5, <2>6, <2>7
    <2>9. new(c) = es[d].vals
      BY <2>2, <2>8
    <2> QED
      BY <1>2, <2>9 DEF d
  <1> QED
    BY <1>4, <1>5, <1>6

\* A list that goes on: the same, its rest, or nothing.
Rest(new, old) == new = old \/ new = <<>> \/ (old # <<>> /\ new = Tail(old))

\* The rest of a list has chunks of the list, at other places.
LEMMA RestFacts ==
  ASSUME NEW old \in Seq(Chunks), NEW new, Rest(new, old)
  PROVE  /\ new \in Seq(Chunks)
         /\ \E by \in {0, 1} : \A k \in DOMAIN new : k + by \in DOMAIN old /\ new[k] = old[k + by]
  <1>1. CASE new = old
    <2>1. \A k \in DOMAIN new : k + 0 \in DOMAIN old /\ new[k] = old[k + 0]
      BY <1>1
    <2> QED
      BY <1>1, <2>1
  <1>2. CASE new = <<>>
    BY <1>2
  <1>3. CASE old # <<>> /\ new = Tail(old)
    <2>1. new \in Seq(Chunks) /\ \A k \in DOMAIN new : k + 1 \in DOMAIN old /\ new[k] = old[k + 1]
      BY <1>3
    <2> QED
      BY <2>1
  <1> QED
    BY <1>1, <1>2, <1>3 DEF Rest

\* A cell that is current after a step was current before it and is desired as it was.
LEMMA StillCurrent ==
  ASSUME Typed, Typed', VersionsKnown, NEW j \in Jobs, NEW c \in Current(j)',
         \A d \in Cells : versionOf'[j][d] \in {0, versionOf[j][d]},
         \A d \in Cells : version'[d] >= version[d],
         \A d \in Cells : desired'[d] = desired[d] \/ version'[d] > version[d]
  PROVE  c \in Current(j) /\ desired'[c] = desired[c]
  <1>1. c \in Cells /\ version'[c] = versionOf'[j][c] /\ versionOf'[j][c] # 0
    BY DEF Current, Loaded
  <1>2. versionOf'[j][c] = versionOf[j][c]
    BY <1>1
  <1>3. version[c] \in Nat /\ version'[c] \in Nat /\ versionOf[j][c] <= version[c]
    BY <1>1 DEF Typed, TypeOK, VersionsKnown
  <1>4. version'[c] >= version[c]
    BY <1>1
  <1>5. version'[c] = version[c]
    BY <1>1, <1>2, <1>3, <1>4
  <1> QED
    BY <1>1, <1>2, <1>3, <1>5 DEF Current, Loaded

\* A step that changes nothing at the channel manager, goes on with what the jobs send, and
\* shows as synced only what is held and no longer sent.
LEMMA HeldKept ==
  ASSUME HeldInv, Typed', UNCHANGED provVars,
         \A j \in Jobs : Rest(todo'[j], todo[j]),
         \A j \in Jobs : pc'[j] \in {"idle", "load"} => todo'[j] = <<>>,
         \A j \in Jobs : pc'[j] = "answered" =>
           pc[j] = "answered" /\ answer'[j] = answer[j] /\ todo'[j] = todo[j]
             /\ versionOf'[j] = versionOf[j],
         \A j \in Jobs : \A c \in Cells : versionOf'[j][c] \in {0, versionOf[j][c]},
         \A c \in Cells : version'[c] >= version[c],
         \A c \in Cells : desired'[c] = desired[c] \/ (version'[c] > version[c] /\ state'[c] # "synced"),
         \A c \in Cells : state'[c] = "synced" =>
           \/ state[c] = "synced"
           \/ /\ held[c] = desired[c]
              /\ \A j \in Jobs : \A k \in DOMAIN todo'[j] : ~CoveredBy(todo'[j][k], c)
  PROVE  HeldRest'
  <1> USE DEF HeldInv
  <1>1. HeldShape(held)' /\ (delayed = {})'
    BY DEF HeldShape, provVars
  <1>2. \A j \in Jobs : todo'[j] \in Seq(Chunks)
    BY RestFacts DEF IdleSendsNothing
  <1>3. IdleSendsNothing'
    BY <1>2 DEF IdleSendsNothing
  <1>4. ASSUME NEW j \in Jobs
        PROVE  /\ \A k \in DOMAIN todo'[j], c \in Cells :
                    CoveredBy(todo'[j][k], c) => state'[c] # "synced"
               /\ ChunksApart(todo'[j])
               /\ Desires(j, todo[j])'
    <2> DEFINE old == todo[j]
               new == todo'[j]
    <2>0. old \in Seq(Chunks) /\ Rest(new, old)
      BY DEF IdleSendsNothing
    <2> HIDE DEF old, new
    <2>9. \E by \in {0, 1} : \A k \in DOMAIN new : k + by \in DOMAIN old /\ new[k] = old[k + by]
      BY <2>0, RestFacts
    <2> USE DEF old, new
    <2>1. PICK by \in {0, 1} :
            \A k \in DOMAIN todo'[j] : k + by \in DOMAIN todo[j] /\ todo'[j][k] = todo[j][k + by]
      BY <2>9
    <2>2. /\ \A k \in DOMAIN todo[j], c \in Cells : CoveredBy(todo[j][k], c) => state[c] # "synced"
          /\ ChunksApart(todo[j])
          /\ Desires(j, todo[j])
      BY DEF SendsTheDesired
    <2>3. \A k \in DOMAIN todo'[j], c \in Cells : CoveredBy(todo'[j][k], c) => state'[c] # "synced"
      BY <2>1, <2>2
    <2>4. ChunksApart(todo'[j])
      <3> SUFFICES ASSUME NEW k \in DOMAIN todo'[j], NEW m \in DOMAIN todo'[j], NEW c \in Cells,
                          CoveredBy(todo'[j][k], c), CoveredBy(todo'[j][m], c)
                   PROVE  k = m
        BY DEF ChunksApart
      <3>1. k + by = m + by
        BY <2>1, <2>2 DEF ChunksApart
      <3>2. k \in Nat /\ m \in Nat
        BY <1>2
      <3> QED
        BY <3>1, <3>2
    <2>5. ASSUME NEW k \in DOMAIN todo'[j], NEW c \in Current(j)', NEW i \in DOMAIN todo'[j][k],
                 LastCovers(todo'[j][k], i, c)
          PROVE  todo'[j][k][i].vals = desired'[c]
      <3>1. c \in Current(j) /\ desired'[c] = desired[c]
        BY StillCurrent
      <3>2. k + by \in DOMAIN todo[j] /\ todo'[j][k] = todo[j][k + by]
        BY <2>1
      <3> QED
        BY <2>2, <2>5, <3>1, <3>2 DEF Desires
    <2>6. Desires(j, todo[j])'
      BY <2>5 DEF Desires
    <2> QED
      BY <2>3, <2>4, <2>6
  <1>5. SendsTheDesired'
    BY <1>4 DEF SendsTheDesired
  <1>6. ResultIsHeld'
    <2> SUFFICES ASSUME NEW j \in Jobs, pc'[j] = "answered", answer'[j].kind = "result",
                        NEW c \in Taken(j)', c \in Current(j)'
                 PROVE  held'[c] = desired'[c]
      BY DEF ResultIsHeld
    <2>1. /\ pc[j] = "answered" /\ answer'[j] = answer[j] /\ todo'[j] = todo[j]
          /\ versionOf'[j] = versionOf[j]
      OBVIOUS
    <2>2. Taken(j)' = Taken(j)
      BY <2>1 DEF Taken, Decided, cellsOf, Loaded
    <2>3. c \in Current(j) /\ desired'[c] = desired[c]
      BY StillCurrent
    <2> QED
      BY <2>1, <2>2, <2>3 DEF ResultIsHeld, provVars
  <1>7. SyncedIsHeld'
    <2> SUFFICES ASSUME NEW c \in Cells, state'[c] = "synced" PROVE held'[c] = desired'[c]
      BY DEF SyncedIsHeld
    <2>1. desired'[c] = desired[c]
      OBVIOUS
    <2> QED
      BY <2>1 DEF SyncedIsHeld, provVars
  <1> QED
    BY <1>1, <1>3, <1>5, <1>6, <1>7 DEF HeldRest

\* Loading takes the values that are desired now, of cells that are not synced.
LEMMA LoadHeld ==
  ASSUME BuildsWhole, HeldInv, Typed', NEW j \in Jobs, Load(j)
  PROVE  HeldRest'
  <1> USE DEF HeldInv
  <1> DEFINE past == {c \in Pending : c[2] < dayOf[j]}
             b == [c \in Pending \ past |-> desired[c]]
             chunks == ChunksOf[b]
  <1>1. /\ UNCHANGED <<cellVars, provVars, answer>> /\ pc[j] = "load"
        /\ pc'[j] \notin {"idle", "load", "answered"} /\ \A i \in Jobs \ {j} : pc'[i] = pc[i]
        /\ todo' = [todo EXCEPT ![j] = chunks]
        /\ versionOf' = [versionOf EXCEPT ![j] =
                           [c \in Cells |-> IF c \in Pending THEN version[c] ELSE 0]]
    BY DEF Load, Typed, TypeOK
  <1>2. b \in Batches
    <2>1. Pending \ past \in SUBSET Cells
      BY DEF Pending
    <2>2. \A c \in Pending \ past : desired[c] \in CellValues(c)
      BY <2>1 DEF Typed, TypeOK
    <2>3. b \in [Pending \ past -> UNION {CellValues(c) : c \in Pending \ past}]
      BY <2>2
    <2>4. \A c \in Pending \ past : b[c] \in CellValues(c)
      BY <2>2
    <2> HIDE DEF past, b
    <2> DEFINE S == Pending \ past
    <2>5. b \in {g \in [S -> UNION {CellValues(c) : c \in S}] : \A c \in S : g[c] \in CellValues(c)}
      BY <2>3, <2>4
    <2>6. S \in SUBSET Cells
      BY <2>1
    <2> HIDE DEF S
    <2> QED
      BY <2>5, <2>6 DEF Batches
  <1>3. /\ todo'[j] = chunks /\ \A i \in Jobs \ {j} : todo'[i] = todo[i]
    BY <1>1 DEF Typed, Shape
  <1>4. /\ \A c \in Cells : versionOf'[j][c] = IF c \in Pending THEN version[c] ELSE 0
        /\ \A i \in Jobs \ {j} : versionOf'[i] = versionOf[i]
    BY <1>1 DEF Typed, TypeOK
  <1>5. DOMAIN b = Pending \ past /\ \A c \in DOMAIN b : b[c] = desired[c] /\ state[c] # "synced"
    BY DEF Pending, PENDING_STATES
  <1> HIDE DEF b, past
  <1>6. /\ chunks \in Seq(Chunks)
        /\ \A k \in DOMAIN chunks, c \in Cells : CoveredBy(chunks[k], c) =>
             /\ c \in DOMAIN b
             /\ \E i \in DOMAIN chunks[k] : LastCovers(chunks[k], i, c) /\ chunks[k][i].vals = b[c]
             /\ \A m \in DOMAIN chunks : CoveredBy(chunks[m], c) => m = k
    BY <1>2 DEF BuildsWhole
  <1>7. \A k \in DOMAIN chunks : chunks[k] \in Chunks
    BY <1>6
  <1> HIDE DEF chunks
  <1>8. ChunksApart(chunks)
    BY <1>6 DEF ChunksApart
  <1>9. ASSUME NEW k \in DOMAIN chunks, NEW c \in Cells, NEW i \in DOMAIN chunks[k],
               LastCovers(chunks[k], i, c)
        PROVE  chunks[k][i].vals = desired[c]
    <2>1. CoveredBy(chunks[k], c)
      BY <1>9 DEF CoveredBy, LastCovers
    <2>2. PICK m \in DOMAIN chunks[k] : LastCovers(chunks[k], m, c) /\ chunks[k][m].vals = b[c]
      BY <1>6, <2>1
    <2>3. m = i
      BY <1>7, <1>9, <2>1, <2>2, LastDecides
    <2> QED
      BY <1>5, <1>6, <2>1, <2>2, <2>3
  <1>10. SendsTheDesired'
    <2> SUFFICES ASSUME NEW i \in Jobs
                 PROVE  /\ \A k \in DOMAIN todo'[i], c \in Cells :
                             CoveredBy(todo'[i][k], c) => state'[c] # "synced"
                        /\ ChunksApart(todo'[i])
                        /\ Desires(i, todo[i])'
      BY DEF SendsTheDesired
    <2>1. CASE i = j
      <3>1. Desires(j, todo[j])'
        BY <1>1, <1>3, <1>9, TakenIsCells DEF Desires, Current, Loaded, cellVars
      <3> QED
        BY <1>1, <1>3, <1>5, <1>6, <1>8, <2>1, <3>1 DEF cellVars
    <2>2. CASE i # j
      <3>1. todo'[i] = todo[i] /\ versionOf'[i] = versionOf[i]
        BY <1>3, <1>4, <2>2
      <3>2. Current(i)' = Current(i)
        BY <1>1, <3>1 DEF Current, Loaded, cellVars
      <3>3. UNCHANGED <<state, desired>>
        BY <1>1 DEF cellVars
      <3> QED
        BY <3>1, <3>2, <3>3 DEF SendsTheDesired, Desires
    <2> QED
      BY <2>1, <2>2
  <1>11. IdleSendsNothing'
    BY <1>1, <1>3, <1>6 DEF IdleSendsNothing
  <1>12. ResultIsHeld'
    <2> SUFFICES ASSUME NEW i \in Jobs, pc'[i] = "answered", answer'[i].kind = "result",
                        NEW c \in Taken(i)', c \in Current(i)'
                 PROVE  held'[c] = desired'[c]
      BY DEF ResultIsHeld
    <2>1. i # j /\ todo'[i] = todo[i] /\ versionOf'[i] = versionOf[i]
      BY <1>1, <1>3, <1>4
    <2>2. Taken(i)' = Taken(i) /\ Current(i)' = Current(i)
      BY <1>1, <2>1 DEF Taken, Decided, cellsOf, Loaded, Current, cellVars
    <2> QED
      BY <1>1, <2>1, <2>2 DEF ResultIsHeld, provVars, cellVars
  <1>13. HeldShape(held)' /\ (delayed = {})' /\ SyncedIsHeld'
    BY <1>1 DEF provVars, cellVars, HeldShape, SyncedIsHeld
  <1> QED
    BY <1>10, <1>11, <1>12, <1>13 DEF HeldRest

\* A call changes what is held only where the job's chunk covers, which is not shown as synced;
\* where the deciding entry is taken the desired value is held.
LEMMA CallHeld ==
  ASSUME BuildsWhole, HeldInv, Typed', NEW j \in Jobs, pc[j] = "call", todo[j] # <<>>,
         NEW taken \in SUBSET DOMAIN Head(todo[j]), NEW a,
         held' = applyTaken(held, Head(todo[j]), taken),
         pc' = [pc EXCEPT ![j] = "answered"], answer' = [answer EXCEPT ![j] = a],
         a.kind = "result" => taken = DOMAIN Head(todo[j]) \ (a.rejected \cup a.missed),
         UNCHANGED <<cellVars, delayed, versionOf, todo>>
  PROVE  HeldRest'
  <1> USE DEF HeldInv
  <1> DEFINE es == Head(todo[j])
  <1>1. todo[j] \in Seq(Chunks) /\ Len(todo[j]) >= 1 /\ es = todo[j][1] /\ 1 \in DOMAIN todo[j]
    BY DEF IdleSendsNothing
  <1>2. es \in Chunks
    BY <1>1
  <1> HIDE DEF es
  <1>3. held' = applyTaken(held, es, taken) /\ taken \in SUBSET DOMAIN es
    BY DEF es
  <1>4. /\ HeldShape(held')
        /\ \A c \in Cells : ~CoveredBy(es, c) => held'[c] = held[c]
        /\ \A c \in Cells : CoveredBy(es, c) /\ DecidingEntry(es, c) \in taken
             => held'[c] = es[DecidingEntry(es, c)].vals
    BY <1>2, <1>3, ChunkApplied
  <1>5. HeldShape(held)' /\ (delayed = {})'
    BY <1>4 DEF HeldShape
  <1>6. pc'[j] = "answered" /\ answer'[j] = a
        /\ \A i \in Jobs \ {j} : pc'[i] = pc[i] /\ pc[i] = "idle"
    BY DEF Typed, TypeOK, Shape, RunningHolds, Running
  <1>7. IdleSendsNothing'
    BY <1>6 DEF IdleSendsNothing
  <1>8. \A i \in Jobs : Current(i)' = Current(i)
    BY DEF Current, Loaded, cellVars
  <1>9. SendsTheDesired'
    BY <1>8 DEF SendsTheDesired, Desires, cellVars
  <1>10. SyncedIsHeld'
    <2> SUFFICES ASSUME NEW c \in Cells, state'[c] = "synced" PROVE held'[c] = desired'[c]
      BY DEF SyncedIsHeld
    <2>1. state[c] = "synced" /\ desired' = desired
      BY DEF cellVars
    <2>2. ~CoveredBy(es, c)
      BY <1>1, <2>1 DEF SendsTheDesired
    <2> QED
      BY <1>4, <2>1, <2>2 DEF SyncedIsHeld
  <1>11. ResultIsHeld'
    <2> SUFFICES ASSUME NEW i \in Jobs, pc'[i] = "answered", answer'[i].kind = "result",
                        NEW c \in Taken(i)', c \in Current(i)'
                 PROVE  held'[c] = desired'[c]
      BY DEF ResultIsHeld
    <2>1. i = j
      BY <1>6
    <2>2. c \in Current(j) /\ c \in Cells /\ desired' = desired
      BY <1>8, <2>1, TakenIsCells DEF cellVars
    <2>3. Taken(j)' = Decided(j, es, taken)
      BY <1>6, <2>1 DEF Taken, Decided, cellsOf, Loaded, es
    <2>4. CoveredBy(es, c) /\ DecidingEntry(es, c) \in taken
      BY <2>1, <2>3 DEF Decided, cellsOf, CoveredBy
    <2>5. DecidingEntry(es, c) \in DOMAIN es /\ LastCovers(es, DecidingEntry(es, c), c)
      BY <1>2, <2>2, <2>4, LastDecides
    <2>6. es[DecidingEntry(es, c)].vals = desired[c]
      BY <1>1, <2>2, <2>5 DEF SendsTheDesired, Desires
    <2> QED
      BY <1>4, <2>2, <2>4, <2>6
  <1> QED
    BY <1>5, <1>7, <1>9, <1>10, <1>11 DEF HeldRest

\* The outcomes of a result are shown as synced where they are held, and nothing of the rest
\* of the job's list covers them.
LEMMA ResultHeld ==
  ASSUME BuildsWhole, HeldInv, Typed', NEW j \in Jobs, HandleResult(j), NEW c \in Cells,
         state'[c] = "synced"
  PROVE  \/ state[c] = "synced"
         \/ /\ held[c] = desired[c]
            /\ \A i \in Jobs : \A k \in DOMAIN todo'[i] : ~CoveredBy(todo'[i][k], c)
  <1> USE DEF HeldInv
  <1>1. state[c] = "synced" \/ c \in Taken(j) \cap Current(j)
    BY OutcomesSync DEF HandleResult, Taken
  <1> SUFFICES ASSUME c \in Taken(j) \cap Current(j)
               PROVE  /\ held[c] = desired[c]
                      /\ \A i \in Jobs : \A k \in DOMAIN todo'[i] : ~CoveredBy(todo'[i][k], c)
    BY <1>1
  <1>2. pc[j] = "answered" /\ answer[j].kind = "result" /\ todo' = [todo EXCEPT ![j] = Tail(@)]
    BY DEF HandleResult
  <1>3. held[c] = desired[c]
    BY <1>2 DEF ResultIsHeld
  <1>4. todo[j] \in Seq(Chunks)
    BY DEF IdleSendsNothing
  <1>5. CoveredBy(Head(todo[j]), c)
    BY DEF Taken, Decided, cellsOf, CoveredBy
  <1>6. ASSUME NEW i \in Jobs, NEW k \in DOMAIN todo'[i], CoveredBy(todo'[i][k], c) PROVE FALSE
    <2>1. CASE i # j
      <3>1. pc[i] = "idle" /\ todo'[i] = todo[i]
        BY <1>2, <2>1 DEF RunningHolds, Running, Typed, Shape
      <3> QED
        BY <1>6, <3>1 DEF IdleSendsNothing
    <2>2. CASE i = j
      <3>1. todo'[j] = Tail(todo[j])
        BY <1>2 DEF Typed, Shape
      <3>2. CASE todo[j] = <<>>
        <4>1. Tail(todo[j]) = <<>>
          BY <3>2
        <4> QED
          BY <2>2, <3>1, <4>1
      <3>3. CASE todo[j] # <<>>
        <4>1. k \in Nat /\ k >= 1 /\ k + 1 \in DOMAIN todo[j] /\ todo'[j][k] = todo[j][k + 1]
          BY <1>4, <2>2, <3>1, <3>3
        <4>2. 1 \in DOMAIN todo[j] /\ Head(todo[j]) = todo[j][1]
          BY <1>4, <3>3
        <4>3. k + 1 = 1
          BY <1>5, <1>6, <2>2, <4>1, <4>2 DEF SendsTheDesired, ChunksApart
        <4> QED
          BY <4>1, <4>3
      <3> QED
        BY <3>2, <3>3
    <2> QED
      BY <2>1, <2>2
  <1> QED
    BY <1>3, <1>6

\* Every step keeps what the jobs send and what is held in order.
LEMMA StepHeld ==
  ASSUME BuildsWhole, MayDelay = FALSE, HeldInv, Typed', [Next]_vars
  PROVE  HeldRest'
  <1> USE DEF HeldInv, Typed, TypeOK, Shape, cellVars, provVars, trigVars, jobVars, bounds
  <1>0. \A j \in Jobs : Rest(todo[j], todo[j]) /\ Rest(<<>>, todo[j])
    BY DEF Rest
  <1>1. ASSUME NEW e \in Cells, NEW vals, Edit(e, vals) PROVE HeldRest'
    <2>1. \A c \in Cells : /\ version'[c] >= version[c]
                           /\ c # e => desired'[c] = desired[c] /\ state'[c] = state[c]
                           /\ c = e => version'[c] > version[c] /\ state'[c] # "synced"
      BY <1>1 DEF Edit, repend
    <2>2. UNCHANGED <<jobVars, provVars>>
      BY <1>1 DEF Edit
    <2> QED
      BY <1>0, <2>1, <2>2, HeldKept DEF IdleSendsNothing
  <1>2. CASE ForceResync
    <2>1. \A c \in Cells : version'[c] >= version[c] /\ state'[c] # "synced"
      BY <1>2 DEF ForceResync, repend
    <2>2. UNCHANGED <<jobVars, provVars, desired>>
      BY <1>2 DEF ForceResync
    <2> QED
      BY <1>0, <2>1, <2>2, HeldKept DEF IdleSendsNothing
  <1>3. ASSUME UNCHANGED <<cellVars, provVars, jobVars>> PROVE HeldRest'
    BY <1>0, <1>3, HeldKept DEF IdleSendsNothing
  <1>4. CASE Clock \/ LeaseLapses \/ UNCHANGED vars
    <2>1. UNCHANGED <<cellVars, provVars, jobVars>>
      BY <1>4 DEF Clock, NextBucket, DailyPush, NextDay, LeaseLapses, vars
    <2> QED
      BY <2>1, <1>3
  <1>5. ASSUME NEW j \in Jobs, Load(j) PROVE HeldRest'
    BY <1>5, LoadHeld
  <1>6. ASSUME NEW j \in Jobs, Start(j) \/ SkipVerify(j) \/ MarkInFlight(j) PROVE HeldRest'
    <2>1. UNCHANGED <<version, desired, provVars, versionOf, todo, answer>>
      BY <1>6 DEF Start, acquire, SkipVerify, MarkInFlight
    <2>2. /\ pc[j] \notin {"load"} /\ pc'[j] # "answered" /\ \A i \in Jobs \ {j} : pc'[i] = pc[i]
          /\ pc'[j] \in {"idle", "load"} => pc[j] = "idle"
      BY <1>6 DEF Start, acquire, SkipVerify, MarkInFlight
    <2>3. \A c \in Cells : state'[c] = "synced" => state[c] = "synced"
      BY <1>6 DEF Start, acquire, SkipVerify, MarkInFlight
    <2> QED
      BY <1>0, <2>1, <2>2, <2>3, HeldKept DEF IdleSendsNothing
  <1>7. ASSUME NEW j \in Jobs, DropPast(j) PROVE HeldRest'
    <2>1. UNCHANGED <<version, desired, provVars, todo, answer>>
      BY <1>7 DEF DropPast, applyOutcomes
    <2>2. \A i \in Jobs : \A c \in Cells : versionOf'[i][c] \in {0, versionOf[i][c]}
      BY <1>7 DEF DropPast
    <2>3. /\ pc'[j] \in {"release", "mark"} /\ \A i \in Jobs \ {j} : pc'[i] = pc[i]
          /\ \A i \in Jobs \ {j} : versionOf'[i] = versionOf[i]
      BY <1>7 DEF DropPast
    <2>4. \A c \in Cells : state'[c] = "synced" => state[c] = "synced"
      BY <1>7, OutcomesSync DEF DropPast
    <2> QED
      BY <1>0, <2>1, <2>2, <2>3, <2>4, HeldKept DEF IdleSendsNothing
  <1>8. ASSUME NEW j \in Jobs, CallAccepted(j) PROVE HeldRest'
    <2> DEFINE es == Head(todo[j])
    <2>1. PICK r, m \in SUBSET DOMAIN es :
            /\ held' = applyTaken(held, es, DOMAIN es \ (r \cup m))
            /\ answer' = [answer EXCEPT ![j] = [kind |-> "result", rejected |-> r, missed |-> m]]
      BY <1>8 DEF CallAccepted
    <2>2. /\ pc[j] = "call" /\ todo[j] # <<>> /\ pc' = [pc EXCEPT ![j] = "answered"]
          /\ UNCHANGED <<cellVars, delayed, versionOf, todo>>
      BY <1>8 DEF CallAccepted
    <2>3. DOMAIN es \ (r \cup m) \in SUBSET DOMAIN es
      OBVIOUS
    <2> QED
      BY <2>1, <2>2, <2>3, CallHeld
  <1>9. ASSUME NEW j \in Jobs, CallTimesOut(j) PROVE HeldRest'
    <2> DEFINE es == Head(todo[j])
    <2>1. held' = applyTaken(held, es, DOMAIN es) /\ UNCHANGED delayed
      BY <1>9 DEF CallTimesOut, applyEntries
    <2>2. /\ pc[j] = "call" /\ todo[j] # <<>> /\ pc' = [pc EXCEPT ![j] = "answered"]
          /\ answer' = [answer EXCEPT ![j] = [NoAnswer EXCEPT !.kind = "transient"]]
          /\ UNCHANGED <<cellVars, versionOf, todo>>
      BY <1>9 DEF CallTimesOut
    <2>3. [NoAnswer EXCEPT !.kind = "transient"].kind # "result"
      BY DEF NoAnswer
    <2>4. DOMAIN es \in SUBSET DOMAIN es
      OBVIOUS
    <2> QED
      BY <2>1, <2>2, <2>3, <2>4, CallHeld
  <1>10. ASSUME NEW j \in Jobs, NEW k \in Refusals, CallRefused(j, k) PROVE HeldRest'
    <2> DEFINE a == [NoAnswer EXCEPT !.kind = k]
    <2>1. /\ UNCHANGED <<cellVars, provVars, versionOf, todo>> /\ pc[j] = "call"
          /\ pc'[j] = "answered" /\ \A i \in Jobs \ {j} : pc'[i] = pc[i]
          /\ answer' = [answer EXCEPT ![j] = a]
      BY <1>10 DEF CallRefused
    <2>2. a.kind # "result"
      BY DEF NoAnswer, Refusals
    <2>3. answer'[j] = a /\ \A i \in Jobs \ {j} : answer'[i] = answer[i]
      BY <2>1
    <2>4. HeldShape(held)' /\ (delayed = {})' /\ SyncedIsHeld'
      BY <2>1 DEF HeldShape, SyncedIsHeld
    <2>5. \A i \in Jobs : Current(i)' = Current(i)
      BY <2>1 DEF Current, Loaded
    <2>6. SendsTheDesired' /\ IdleSendsNothing'
      BY <2>1, <2>5 DEF SendsTheDesired, Desires, IdleSendsNothing
    <2>7. ResultIsHeld'
      <3> SUFFICES ASSUME NEW i \in Jobs, pc'[i] = "answered", answer'[i].kind = "result"
                   PROVE  \A c \in Taken(i)' \cap Current(i)' : held'[c] = desired'[c]
        BY DEF ResultIsHeld
      <3>1. i # j /\ pc[i] = "answered" /\ answer'[i] = answer[i]
        BY <2>1, <2>2, <2>3
      <3>2. Taken(i)' = Taken(i)
        BY <2>1, <3>1 DEF Taken, Decided, cellsOf, Loaded
      <3> QED
        BY <2>1, <2>5, <3>1, <3>2 DEF ResultIsHeld
    <2> QED
      BY <2>4, <2>6, <2>7 DEF HeldRest
  <1>11. ASSUME NEW j \in Jobs, HandleResult(j) \/ HandleInvalid(j) PROVE HeldRest'
    <2>1. UNCHANGED <<version, desired, provVars, versionOf>>
      BY <1>11 DEF HandleResult, HandleInvalid, applyOutcomes
    <2>2. pc[j] = "answered" /\ todo' = [todo EXCEPT ![j] = Tail(@)]
          /\ answer' = [answer EXCEPT ![j] = NoAnswer]
      BY <1>11 DEF HandleResult, HandleInvalid
    <2>3. pc'[j] \in {"release", "verify", "call"} /\ \A i \in Jobs \ {j} : pc'[i] = pc[i]
      BY <1>11 DEF HandleResult, HandleInvalid, AfterChunk
    <2>4. todo'[j] = Tail(todo[j]) /\ \A i \in Jobs \ {j} : todo'[i] = todo[i] /\ answer'[i] = answer[i]
      BY <2>2
    <2>5. \A i \in Jobs : Rest(todo'[i], todo[i])
      <3>1. todo[j] \in Seq(Chunks)
        BY DEF IdleSendsNothing
      <3>2. todo[j] = <<>> => Tail(todo[j]) = <<>>
        OBVIOUS
      <3> QED
        BY <1>0, <2>4, <3>1, <3>2 DEF Rest
    <2>6. ASSUME NEW c \in Cells, state'[c] = "synced"
          PROVE  \/ state[c] = "synced"
                 \/ /\ held[c] = desired[c]
                    /\ \A i \in Jobs : \A k \in DOMAIN todo'[i] : ~CoveredBy(todo'[i][k], c)
      <3>1. CASE HandleResult(j)
        BY <2>6, <3>1, ResultHeld
      <3>2. CASE HandleInvalid(j)
        BY <2>6, <3>2, OutcomesSync DEF HandleInvalid
      <3> QED
        BY <1>11, <3>1, <3>2
    <2>7. \A c \in Cells : version'[c] >= version[c] /\ desired'[c] = desired[c]
      BY <2>1
    <2>8. \A i \in Jobs : \A c \in Cells : versionOf'[i][c] \in {0, versionOf[i][c]}
      BY <2>1
    <2>9. \A i \in Jobs : pc'[i] \in {"idle", "load"} => todo'[i] = <<>>
      BY <2>3, <2>4 DEF IdleSendsNothing
    <2>10. \A i \in Jobs : pc'[i] = "answered" =>
             pc[i] = "answered" /\ answer'[i] = answer[i] /\ todo'[i] = todo[i]
               /\ versionOf'[i] = versionOf[i]
      BY <2>1, <2>3, <2>4
    <2> QED
      BY <2>1, <2>5, <2>6, <2>7, <2>8, <2>9, <2>10, HeldKept
  <1>12. ASSUME NEW j \in Jobs, HandleRevert(j) \/ HandleError(j) PROVE HeldRest'
    <2>1. UNCHANGED <<version, desired, provVars, versionOf, todo>>
      BY <1>12 DEF HandleRevert, HandleError, applyOutcomes
    <2>2. /\ pc[j] = "answered" /\ pc'[j] = "release"
          /\ \A i \in Jobs \ {j} : pc'[i] = pc[i] /\ answer'[i] = answer[i]
      BY <1>12 DEF HandleRevert, HandleError
    <2>3. \A c \in Cells : state'[c] = "synced" => state[c] = "synced"
      BY <1>12, OutcomesSync DEF HandleRevert, HandleError
    <2>4. /\ \A c \in Cells : version'[c] >= version[c] /\ desired'[c] = desired[c]
          /\ \A i \in Jobs : \A c \in Cells : versionOf'[i][c] \in {0, versionOf[i][c]}
      BY <2>1
    <2>5. \A i \in Jobs : Rest(todo'[i], todo[i])
      BY <1>0, <2>1
    <2>6. \A i \in Jobs : pc'[i] \in {"idle", "load"} => todo'[i] = <<>>
      BY <2>1, <2>2 DEF IdleSendsNothing
    <2>7. \A i \in Jobs : pc'[i] = "answered" =>
            pc[i] = "answered" /\ answer'[i] = answer[i] /\ todo'[i] = todo[i]
              /\ versionOf'[i] = versionOf[i]
      BY <2>1, <2>2
    <2> QED
      BY <2>1, <2>3, <2>4, <2>5, <2>6, <2>7, HeldKept
  <1>13. ASSUME NEW j \in Jobs, Release(j) \/ Crash(j) PROVE HeldRest'
    <2>1. UNCHANGED <<cellVars, provVars>> /\ todo' = [todo EXCEPT ![j] = <<>>]
          /\ versionOf' = [versionOf EXCEPT ![j] = NoVersion] /\ pc' = [pc EXCEPT ![j] = "idle"]
      BY <1>13 DEF Release, Crash
    <2>2. /\ pc'[j] = "idle" /\ todo'[j] = <<>> /\ versionOf'[j] = NoVersion
          /\ \A i \in Jobs \ {j} : /\ pc'[i] = pc[i] /\ todo'[i] = todo[i]
                                   /\ versionOf'[i] = versionOf[i]
      BY <2>1
    <2>3. \A i \in Jobs \ {j} : answer'[i] = answer[i]
      BY <1>13 DEF Release, Crash
    <2>4. \A i \in Jobs : \A c \in Cells : versionOf'[i][c] \in {0, versionOf[i][c]}
      <3> SUFFICES ASSUME NEW i \in Jobs, NEW c \in Cells
                   PROVE  versionOf'[i][c] \in {0, versionOf[i][c]}
        OBVIOUS
      <3>1. CASE i = j
        <4>1. NoVersion[c] = 0
          BY DEF NoVersion
        <4> QED
          BY <2>2, <3>1, <4>1
      <3>2. CASE i # j
        BY <2>2, <3>2
      <3> QED
        BY <3>1, <3>2
    <2>5. \A i \in Jobs : Rest(todo'[i], todo[i])
      BY <1>0, <2>2
    <2>6. \A i \in Jobs : pc'[i] \in {"idle", "load"} => todo'[i] = <<>>
      BY <2>2 DEF IdleSendsNothing
    <2>7. \A i \in Jobs : pc'[i] = "answered" =>
            pc[i] = "answered" /\ answer'[i] = answer[i] /\ todo'[i] = todo[i]
              /\ versionOf'[i] = versionOf[i]
      BY <2>2, <2>3
    <2>8. \A c \in Cells : version'[c] >= version[c] /\ desired'[c] = desired[c] /\ state'[c] = state[c]
      BY <2>1
    <2> QED
      BY <2>1, <2>4, <2>5, <2>6, <2>7, <2>8, HeldKept
  <1>14. ASSUME NEW v \in Verifiers, Verify(v) PROVE HeldRest'
    <2>1. UNCHANGED <<version, desired, provVars, versionOf, todo, answer>>
      BY <1>14 DEF Verify, ReadBack, Compare, MarkConflicted
    <2>2. \A c \in Cells : state'[c] = "synced" => state[c] = "synced"
      <3>1. CASE ReadBack(v) \/ Compare(v)
        BY <3>1 DEF ReadBack, Compare
      <3>2. CASE MarkConflicted(v)
        BY <3>2 DEF MarkConflicted
      <3> QED
        BY <1>14, <3>1, <3>2 DEF Verify
    <2>3. \A i \in Jobs : /\ pc'[i] = "answered" => pc[i] = "answered"
                          /\ pc'[i] \in {"idle", "load"} => pc'[i] = pc[i]
      BY <1>14, NamesDiffer DEF Verify, ReadBack, Compare, MarkConflicted, AfterVerify
    <2> QED
      BY <1>0, <2>1, <2>2, <2>3, HeldKept DEF IdleSendsNothing
  <1>15. CASE DelayedArrives
    BY <1>15 DEF DelayedArrives
  <1> QED
    BY <1>1, <1>2, <1>4, <1>5, <1>6, <1>7, <1>8, <1>9, <1>10, <1>11, <1>12, <1>13, <1>14, <1>15
    DEF Next, Local, Push, Call, Handle

-----------------------------------------------------------------------------
(* The batch builder, when a lane has one field and a batch fits into one call *)

\* The part of a batch that is about some lanes.
PartOf(b, lanes) == [c \in {x \in DOMAIN b : x[1] \in lanes} |-> b[c]]

\* The entries give each cell of b in these lanes its values, and cover no other cell.
GivesWhole(es, b, lanes) ==
  /\ DOMAIN es \subseteq Nat
  /\ \A c \in Cells :
       /\ \A i \in DOMAIN es : Covers(es[i], c) => es[i].vals \in CellValues(c)
       /\ CoveredBy(es, c) =>
            /\ c \in DOMAIN b /\ c[1] \in lanes
            /\ \E i \in DOMAIN es : LastCovers(es, i, c) /\ es[i].vals = b[c]

\* What is pushed of some lanes is a batch too, and a calendar.
LEMMA PartIsBatch ==
  ASSUME OneFieldLanes, NEW b \in Batches, NEW lanes
  PROVE  /\ PartOf(b, lanes) \in Batches /\ PartOf(b, lanes) \in Calendars(Values)
         /\ \A c \in DOMAIN PartOf(b, lanes) : c \in DOMAIN b /\ c[1] \in lanes /\ c \in Cells
         /\ \A c \in DOMAIN PartOf(b, lanes) : PartOf(b, lanes)[c] = b[c]
         /\ \A c \in DOMAIN b : b[c] \in CellValues(c)
  <1> DEFINE p == PartOf(b, lanes)
             T == {x \in DOMAIN b : x[1] \in lanes}
  <1>1. DOMAIN b \in SUBSET Cells /\ \A c \in DOMAIN b : b[c] \in CellValues(c)
    BY DEF Batches
  <1>2. T \in SUBSET Cells /\ DOMAIN p = T /\ p = [c \in T |-> p[c]] /\ \A c \in T : p[c] = b[c]
    BY <1>1 DEF PartOf
  <1> HIDE DEF p
  <1>3. \A c \in T : p[c] \in CellValues(c)
    BY <1>1, <1>2
  <1>4. p \in [T -> UNION {CellValues(c) : c \in T}]
    BY <1>2, <1>3
  <1>5. \A c \in T : CellValues(c) \subseteq SomeFields(Values)
    <2> SUFFICES ASSUME NEW c \in T PROVE CellValues(c) \subseteq SomeFields(Values)
      OBVIOUS
    <2>1. c[1] \in Lanes
      BY <1>2 DEF Cells
    <2>2. FieldsOf[c[1]] \in (SUBSET Fields) \ {{}}
      BY <2>1 DEF OneFieldLanes
    <2> QED
      BY <2>2 DEF CellValues, SomeFields
  <1>6. p \in Batches
    <2> HIDE DEF T
    <2> DEFINE Of(S) == {q \in [S -> UNION {CellValues(c) : c \in S}] :
                           \A c \in S : q[c] \in CellValues(c)}
    <2>1. p \in Of(T)
      BY <1>3, <1>4
    <2> HIDE DEF Of
    <2>2. p \in UNION {Of(S) : S \in SUBSET Cells}
      BY <1>2, <2>1
    <2> QED
      BY <2>2 DEF Of, Batches
  <1>7. p \in Calendars(Values)
    <2>1. p \in [T -> SomeFields(Values)]
      BY <1>2, <1>3, <1>5
    <2> QED
      BY <1>2, <2>1 DEF Calendars, Cells
  <1> QED
    BY <1>1, <1>2, <1>6, <1>7 DEF p

\* The entries built for some lanes.
LEMMA PartIsWhole ==
  ASSUME OneFieldLanes, NEW b \in Batches, NEW lanes
  PROVE  GivesWhole(BatchEntries(PartOf(b, lanes)), b, lanes)
  <1> DEFINE p == PartOf(b, lanes)
             es == BatchEntries(p)
  <1>1. /\ p \in Calendars(Values)
        /\ \A c \in DOMAIN p : c \in DOMAIN b /\ c[1] \in lanes /\ c \in Cells /\ p[c] = b[c]
        /\ \A c \in DOMAIN b : b[c] \in CellValues(c)
    BY PartIsBatch
  <1> HIDE DEF p
  <1>2. WritesCells(es, Values, p)
    BY <1>1, BatchWrites
  <1> HIDE DEF es
  <1>3. es \in Seq(BatchStrokes(Values)) /\ Len(es) \in Nat /\ DOMAIN es = 1..Len(es)
    BY <1>2 DEF WritesCells
  <1>4. ASSUME NEW c \in Cells, NEW i \in DOMAIN es, Covers(es[i], c)
        PROVE  /\ c \in DOMAIN p /\ es[i].vals \in CellValues(c)
               /\ \A g \in FieldsOf[c[1]] : es[i] \in Sets(Values, c, g)
    <2> DEFINE vals == es[i].vals
    <2>1. es[i] \in BatchStrokes(Values)
      BY <1>3
    <2>2. vals \in SomeFields(Values)
      BY <2>1 DEF BatchStrokes
    <2>3. PICK F \in (SUBSET Fields) \ {{}} : vals \in [F -> Values]
      BY <2>2 DEF SomeFields
    <2>4. \A g \in F : es[i] \in Sets(Values, c, g)
      BY <1>4, <2>1, <2>3 DEF Sets
    <2>5. \A g \in F : c \in DOMAIN p /\ g \in DOMAIN p[c]
      <3> SUFFICES ASSUME NEW g \in F PROVE c \in DOMAIN p /\ g \in DOMAIN p[c]
        OBVIOUS
      <3>1. Hits(es, Sets(Values, c, g)) <=> (c \in DOMAIN p /\ g \in DOMAIN p[c])
        BY <1>2 DEF WritesCells, Cells
      <3> QED
        BY <2>4, <3>1 DEF Hits
    <2>6. c \in DOMAIN p
      BY <2>5
    <2>7. DOMAIN p[c] = FieldsOf[c[1]]
      BY <1>1, <2>6 DEF CellValues
    <2>8. \E fld \in Fields : FieldsOf[c[1]] = {fld}
      BY DEF OneFieldLanes, Cells
    <2>9. F = FieldsOf[c[1]]
      BY <2>5, <2>7, <2>8
    <2> QED
      BY <2>3, <2>4, <2>6, <2>9 DEF CellValues
  <1>5. ASSUME NEW c \in Cells, CoveredBy(es, c)
        PROVE  \E i \in DOMAIN es : LastCovers(es, i, c) /\ es[i].vals = b[c]
    <2> DEFINE S == {i \in DOMAIN es : Covers(es[i], c)}
               i == Max(S)
    <2>1. S \in SUBSET (0..Len(es)) /\ S # {}
      BY <1>3, <1>5 DEF CoveredBy
    <2>2. i \in S /\ \A k \in S : k <= i
      <3> HIDE DEF S
      <3> QED
        BY <1>3, <2>1, MinMax
    <2> HIDE DEF i
    <2>3. LastCovers(es, i, c) /\ i \in DOMAIN es /\ Covers(es[i], c)
      BY <2>2 DEF LastCovers
    <2>4. PICK g \in Fields : FieldsOf[c[1]] = {g}
      BY DEF OneFieldLanes, Cells
    <2> DEFINE G == Sets(Values, c, g)
    <2>5. c \in DOMAIN p /\ es[i].vals \in CellValues(c) /\ es[i] \in G
      BY <1>4, <2>3, <2>4
    <2>6. ASSUME NEW k \in DOMAIN es, k > i PROVE es[k] \notin G
      <3>1. ~ (k <= i)
        BY <1>3, <2>3, <2>6
      <3>2. k \notin S
        BY <2>2, <3>1
      <3> QED
        BY <3>2 DEF Sets
    <2>7. Right(es, G, SetsTo(Values, g, p[c][g]))
      BY <1>2 DEF WritesCells, Cells
    <2>8. es[i] \in SetsTo(Values, g, p[c][g])
      BY <2>3, <2>5, <2>6, <2>7 DEF Right
    <2>9. es[i].vals[g] = b[c][g] /\ b[c] \in CellValues(c)
      BY <1>1, <2>5, <2>8 DEF SetsTo
    <2> DEFINE v == es[i].vals
               w == b[c]
    <2>10. v \in [{g} -> Values] /\ w \in [{g} -> Values] /\ v[g] = w[g]
      BY <2>4, <2>5, <2>9 DEF CellValues
    <2> HIDE DEF v, w
    <2>11. v = w
      BY <2>10
    <2> QED
      BY <2>3, <2>11 DEF v, w
  <1>6. \A c \in Cells : CoveredBy(es, c) => c \in DOMAIN b /\ c[1] \in lanes
    BY <1>1, <1>4 DEF CoveredBy
  <1>7. DOMAIN es \subseteq Nat
    BY <1>3
  <1>8. GivesWhole(es, b, lanes)
    BY <1>4, <1>5, <1>6, <1>7 DEF GivesWhole
  <1> QED
    BY <1>8 DEF es, p

\* Two lists of at most one member each, joined.
LEMMA AtMostTwo ==
  ASSUME NEW Y, NEW s \in Seq(Y), NEW t \in Seq(Y), Len(s) <= 1, Len(t) <= 1
  PROVE  /\ s \o t \in Seq(Y) /\ Len(s) \in 0..1 /\ Len(t) \in 0..1
         /\ DOMAIN (s \o t) = 1..(Len(s) + Len(t))
         /\ DOMAIN s = 1..Len(s) /\ DOMAIN t = 1..Len(t)
         /\ \A k \in DOMAIN s : (s \o t)[k] = s[k]
         /\ \A k \in DOMAIN t : (s \o t)[Len(s) + k] = t[k]
  <1> DEFINE a == Len(s)
             d == Len(t)
             u == s \o t
  <1>1. a \in Nat /\ a <= 1 /\ DOMAIN s = 1..a
    OBVIOUS
  <1>2. d \in Nat /\ d <= 1 /\ DOMAIN t = 1..d
    OBVIOUS
  <1>3. u \in Seq(Y) /\ DOMAIN u = 1..(a + d)
    OBVIOUS
  <1>4. \A k \in 1..a : u[k] = s[k]
    OBVIOUS
  <1>5. \A k \in 1..d : u[a + k] = t[k]
    OBVIOUS
  <1> HIDE DEF u, a, d
  <1>6. \A k \in DOMAIN s : u[k] = s[k]
    BY <1>1, <1>4
  <1>7. \A k \in DOMAIN t : u[a + k] = t[k]
    BY <1>2, <1>5
  <1>8. a \in 0..1 /\ d \in 0..1
    BY <1>1, <1>2
  <1> QED
    BY <1>1, <1>2, <1>3, <1>6, <1>7, <1>8 DEF u, a, d

\* The batch builder is then whole.
LEMMA WholeBuilder ==
  ASSUME OneFieldLanes, CallsHoldBatches
  PROVE  BuildsWhole
  <1> DEFINE Whole(b, us) ==
               /\ us \in Seq(Chunks)
               /\ \A k \in DOMAIN us :
                    LET entries == us[k]
                    IN  /\ DOMAIN entries \subseteq Nat
                        /\ \A c \in Cells :
                             /\ \A i \in DOMAIN entries :
                                  Covers(entries[i], c) => entries[i].vals \in CellValues(c)
                             /\ CoveredBy(entries, c) =>
                                  /\ c \in DOMAIN b
                                  /\ \E i \in DOMAIN entries :
                                       LastCovers(entries, i, c) /\ entries[i].vals = b[c]
                                  /\ \A m \in DOMAIN us : CoveredBy(us[m], c) => m = k
  <1> SUFFICES ASSUME NEW b \in Batches PROVE Whole(b, ChunksOf[b])
    BY DEF BuildsWhole
  <1> DEFINE Of(lanes) == buildBatch(PartOf(b, lanes), MaxEntries)
             Rates == Lanes \ AvailLanes
             s == Of(AvailLanes)
             t == Of(Rates)
             X == BatchStrokes(Values)
  <1>1. ChunksOf[b] = s \o t
    <2> DEFINE All(x) == buildBatch(PartOf(x, AvailLanes), MaxEntries)
                           \o buildBatch(PartOf(x, Rates), MaxEntries)
    <2>1. BatchChunks = {<<x, All(x)>> : x \in Batches}
      BY DEF BatchChunks, PartOf
    <2>2. All(b) = s \o t
      OBVIOUS
    <2> HIDE DEF s, t, All
    <2>3. /\ <<b, s \o t>> \in BatchChunks
          /\ \A p \in BatchChunks : p[1] = b => p[2] = s \o t
      BY <2>1, <2>2
    <2>4. ChunksOf[b] = (CHOOSE p \in BatchChunks : p[1] = b)[2]
      BY DEF ChunksOf
    <2> QED
      BY <2>3, <2>4
  <1>2. ASSUME NEW lanes
        PROVE  /\ Of(lanes) \in Seq(Seq(X)) /\ Len(Of(lanes)) <= 1
               /\ \A k \in DOMAIN Of(lanes) : GivesWhole(Of(lanes)[k], b, lanes)
    <2> DEFINE es == BatchEntries(PartOf(b, lanes))
    <2>1. PartOf(b, lanes) \in Batches /\ PartOf(b, lanes) \in Calendars(Values)
      BY PartIsBatch
    <2>2. Len(es) <= MaxEntries
      BY <2>1 DEF CallsHoldBatches
    <2>3. WritesCells(es, Values, PartOf(b, lanes))
      BY <2>1, BatchWrites
    <2>4. es \in Seq(X)
      BY <2>3 DEF WritesCells
    <2>5. Of(lanes) = chunk(es, MaxEntries)
      BY DEF buildBatch
    <2>6. GivesWhole(es, b, lanes)
      BY PartIsWhole
    <2> HIDE DEF es, X, Of
    <2>7. /\ Of(lanes) \in Seq(Seq(X)) /\ Len(Of(lanes)) <= 1
          /\ \A k \in DOMAIN Of(lanes) : Of(lanes)[k] = es
      BY <2>2, <2>4, <2>5, OneChunk, CallsTakeSome
    <2> QED
      BY <2>6, <2>7
  <1>3. /\ s \in Seq(Seq(X)) /\ Len(s) <= 1 /\ \A k \in DOMAIN s : GivesWhole(s[k], b, AvailLanes)
        /\ t \in Seq(Seq(X)) /\ Len(t) <= 1 /\ \A k \in DOMAIN t : GivesWhole(t[k], b, Rates)
    BY <1>2
  <1> DEFINE u == s \o t
             Y == Seq(X)
  <1> HIDE DEF Of, s, t, X, Rates
  <1>4. /\ u \in Seq(Y) /\ Len(s) \in 0..1 /\ Len(t) \in 0..1
        /\ DOMAIN u = 1..(Len(s) + Len(t))
        /\ DOMAIN s = 1..Len(s) /\ DOMAIN t = 1..Len(t)
        /\ \A k \in DOMAIN s : u[k] = s[k]
        /\ \A k \in DOMAIN t : u[Len(s) + k] = t[k]
    <2>1. s \in Seq(Y) /\ t \in Seq(Y) /\ Len(s) <= 1 /\ Len(t) <= 1
      BY <1>3
    <2> HIDE DEF Y, u
    <2> QED
      BY <2>1, AtMostTwo DEF u
  <1>5. \A k \in DOMAIN u : \/ k = 1 /\ Len(s) = 1 /\ u[k] = s[1] /\ 1 \in DOMAIN s
                            \/ k = Len(s) + 1 /\ Len(t) = 1 /\ u[k] = t[1] /\ 1 \in DOMAIN t
    <2> SUFFICES ASSUME NEW k \in DOMAIN u
                 PROVE  \/ k = 1 /\ Len(s) = 1 /\ u[k] = s[1] /\ 1 \in DOMAIN s
                        \/ k = Len(s) + 1 /\ Len(t) = 1 /\ u[k] = t[1] /\ 1 \in DOMAIN t
      OBVIOUS
    <2> DEFINE a == Len(s)
               d == Len(t)
    <2>1. a \in 0..1 /\ d \in 0..1 /\ k \in 1..(a + d) /\ DOMAIN s = 1..a /\ DOMAIN t = 1..d
      BY <1>4
    <2> HIDE DEF a, d, u
    <2>2. CASE k <= a
      <3>1. k = 1 /\ a = 1 /\ 1 \in DOMAIN s
        BY <2>1, <2>2
      <3> QED
        BY <1>4, <3>1 DEF a
    <2>3. CASE ~(k <= a)
      <3>1. k = a + 1 /\ d = 1 /\ 1 \in DOMAIN t
        BY <2>1, <2>3
      <3>2. u[a + 1] = t[1]
        BY <1>4, <3>1 DEF a
      <3> QED
        BY <3>1, <3>2 DEF a, d
    <2> QED
      BY <2>2, <2>3
  <1> HIDE DEF u
  <1>6. \A k \in DOMAIN u : \/ k = 1 /\ Len(s) = 1 /\ GivesWhole(u[k], b, AvailLanes)
                            \/ k = Len(s) + 1 /\ GivesWhole(u[k], b, Rates)
    BY <1>3, <1>5
  <1>7. u \in Seq(Chunks)
    <2>1. ChunksOf[b] = u
      BY <1>1 DEF u
    <2>2. \A k \in DOMAIN u : u[k] \in Chunks
      BY <2>1 DEF Chunks, ToSet
    <2> HIDE DEF Y
    <2> QED
      BY <1>4, <2>2
  <1>8. ASSUME NEW k \in DOMAIN u, NEW m \in DOMAIN u, NEW c \in Cells,
               CoveredBy(u[k], c), CoveredBy(u[m], c)
        PROVE  m = k
    BY <1>6, <1>8 DEF GivesWhole, Rates
  <1>9. \A k \in DOMAIN u : GivesWhole(u[k], b, AvailLanes) \/ GivesWhole(u[k], b, Rates)
    BY <1>6
  <1>10. ASSUME NEW k \in DOMAIN u
         PROVE  /\ DOMAIN u[k] \subseteq Nat
                /\ \A c \in Cells :
                     /\ \A i \in DOMAIN u[k] : Covers(u[k][i], c) => u[k][i].vals \in CellValues(c)
                     /\ CoveredBy(u[k], c) =>
                          /\ c \in DOMAIN b
                          /\ \E i \in DOMAIN u[k] : LastCovers(u[k], i, c) /\ u[k][i].vals = b[c]
    BY <1>9 DEF GivesWhole
  <1>11. Whole(b, u)
    BY <1>7, <1>8, <1>10
  <1> HIDE DEF Whole
  <1> QED
    BY <1>1, <1>11 DEF u

\* While no lease lapses under a running push and no request is applied after its caller gave
\* up, what is shown as synced is what the channel manager sells, for every order of edits,
\* pushes, refusals, timeouts, crashes and verifications, when a lane has one field and what
\* is pushed fits into one call.
THEOREM SyncedCellsAreHeld ==
  ASSUME LeaseMayLapse = FALSE, MayDelay = FALSE, OneFieldLanes, CallsHoldBatches
  PROVE  Spec => []SyncedIsHeld
  <1>1. Init => HeldInv
    <2> SUFFICES ASSUME Init PROVE HeldInv
      OBVIOUS
    <2>1. Typed /\ VersionsKnown
      BY InitAccepted DEF AcceptedInv
    <2>2. RunningHolds /\ delayed = {} /\ ResultIsHeld
      BY DEF Init, RunningHolds, Running, Verifiers, ResultIsHeld
    <2>3. HeldShape(desired) /\ HeldShape([c \in Cells |-> NoValues])
      BY DEF Init, HeldShape, NoValues
    <2>4. HeldShape(held)
      BY <2>3 DEF Init, LiveProperty, NewProperty
    <2>5. SyncedIsHeld
      BY DEF Init, LiveProperty, NewProperty, SyncedIsHeld
    <2>6. \A j \in Jobs : todo[j] = <<>>
      BY DEF Init
    <2>7. IdleSendsNothing
      <3>1. <<>> \in Seq(Chunks)
        OBVIOUS
      <3> QED
        BY <2>6, <3>1 DEF IdleSendsNothing
    <2>8. SendsTheDesired
      BY <2>6 DEF SendsTheDesired, ChunksApart, Desires
    <2> QED
      BY <2>1, <2>2, <2>4, <2>5, <2>7, <2>8 DEF HeldInv
  <1>2. HeldInv /\ [Next]_vars => HeldInv'
    <2> SUFFICES ASSUME HeldInv, [Next]_vars PROVE HeldInv'
      OBVIOUS
    <2>1. Typed' /\ VersionsKnown' /\ RunningHolds'
      BY StepTyped, StepVersions, StepHolds DEF HeldInv
    <2>2. HeldRest'
      BY <2>1, WholeBuilder, StepHeld
    <2> QED
      BY <2>1, <2>2 DEF HeldInv, HeldRest
  <1>3. HeldInv => SyncedIsHeld
    BY DEF HeldInv
  <1> QED
    BY <1>1, <1>2, <1>3, PTL DEF Spec
=============================================================================
