----------------------------- MODULE Operations -----------------------------
(***************************************************************************)
(* Turnover tasks and access credentials of a property with one unit, as    *)
(* they follow its bookings: replanOperations (packages/jobs/src/           *)
(* operations.ts), the consumer of booking.revision_applied; the console's  *)
(* replan, task moves, and credentials it issues and revokes.               *)
(*                                                                         *)
(* Each is one transaction of several unlocked reads and then writes, so    *)
(* the reads are steps of their own.  The console's transactions run one at *)
(* a time, under the audit lock (ConsoleTransactions); the queue's overlap, *)
(* since it has as many consumers as WORKER_CONCURRENCY says.               *)
(*                                                                         *)
(* Left out: the window and the bookings of a task (a change of those alone *)
(* changes no state), notifications and escalations, mid-stay cleans (no    *)
(* caller configures them), and the lock: its only provider keeps no state. *)
(***************************************************************************)
EXTENDS Integers, FiniteSets

CONSTANTS Stays,           \* the bookings there may be
          DirectStays,     \* those of them made on the booking page; the others are an OTA's
          StayDates,       \* the dates one may have: records of arrival and departure
          Consumers,       \* workers that may consume booking.revision_applied at once
          Console,         \* the console's transaction
          MaxStayChanges,  \* bound: revisions
          MaxConsole       \* bound: console transactions

ASSUME StaysAssumption ==
  /\ DirectStays \subseteq Stays
  /\ \A d \in StayDates : d.arrival < d.departure
ASSUME OperationsBounds == Console \notin Consumers /\ {MaxStayChanges, MaxConsole} \subseteq Nat

TaskKeys   == {d.departure : d \in StayDates} \X {"departure", "changeover"}
TaskStates == {"none", "planned", "assigned", "accepted", "on_site", "done", "inspected",
               "cancelled"}

NoDates == [arrival |-> 0, departure |-> 0]
NoEvent == [n |-> 0, stay |-> {}, status |-> "", moved |-> FALSE, to |-> NoDates]
Rest    == [at |-> "rest", event |-> NoEvent, plan |-> {}, create |-> {}, cancel |-> {},
            active |-> {}, dates |-> NoDates, key |-> {}, to |-> "none"]

VARIABLES
  stays,        \* booking: its status ("none" before its first revision) and its dates
  owed,         \* booking.revision_applied: events no consumer has committed
  tasks,        \* turnover_task: the state of the row of each key; "none" if there is none
  credentials,  \* access_credential: the rows not revoked, with the dates of their window,
                \* who issued them, and who the one each goes back to by reissues
  work,         \* of each consumer and of the console: the transaction it is in
  overlapped,   \* history: the stays whose codes two consumers mended at once
  stayChanges, consoleRuns

opsVars == <<stays, owed, tasks, credentials, work, overlapped, stayChanges, consoleRuns>>

OpsInit ==
  /\ stays = [s \in Stays |-> [status |-> "none", dates |-> NoDates]]
  /\ owed = {} /\ credentials = {} /\ overlapped = {}
  /\ tasks = [k \in TaskKeys |-> "none"]
  /\ work = [p \in Consumers \cup {Console} |-> Rest]
  /\ stayChanges = 0 /\ consoleRuns = 0

code(s, dates, by, root) == [stay |-> s, dates |-> dates, by |-> by, root |-> root]

-----------------------------------------------------------------------------
(* Bookings *)

\* applyOne, applyDirectRevision: the booking and its event, in one transaction.  finalize
\* also issues a code with a new booking; the feed does not.
Revises(s, status, dates) ==
  /\ stayChanges < MaxStayChanges
  /\ stayChanges' = stayChanges + 1
  /\ status = "new" <=> stays[s].status = "none"
  /\ stays' = [stays EXCEPT ![s] = [status |-> status, dates |-> dates]]
  /\ owed' = owed \cup {[n |-> stayChanges + 1, stay |-> {s},
                         status |-> IF status = stays[s].status THEN "" ELSE status,
                         moved |-> stays[s].status # "none" /\ dates # stays[s].dates,
                         to |-> dates]}
  /\ credentials' = IF status = "new" /\ s \in DirectStays
                    THEN credentials \cup {code(s, dates, "engine", "engine")}
                    ELSE credentials
  /\ UNCHANGED <<tasks, work, overlapped, consoleRuns>>

-----------------------------------------------------------------------------
(* Replanning *)

activeStays == {s \in Stays : stays[s].status \notin {"none", "cancelled"}}

\* planTurnovers: a clean on every day somebody leaves; a changeover if somebody arrives.
planTurnovers ==
  {<<stays[s].dates.departure,
     IF \E a \in activeStays : stays[a].dates.arrival = stays[s].dates.departure
     THEN "changeover" ELSE "departure">> : s \in activeStays}

openStates == {"planned", "assigned", "accepted", "on_site"}

\* reconcileTasks: what is created is neither open nor finished; it may be cancelled.
toCreate(plan) == {k \in plan : tasks[k] \in {"none", "cancelled"}}
toCancel(plan) == {k \in TaskKeys : tasks[k] \in openStates} \ plan

\* The writes of replan: an insert that meets a row of its key (unit, date, type), a
\* cancelled one too, does nothing; a cancellation asks for no state.
replanned(create, cancel) ==
  [k \in TaskKeys |-> IF k \in create /\ tasks[k] = "none" THEN "planned"
                     ELSE IF k \in cancel THEN "cancelled" ELSE tasks[k]]

\* A consumer takes an event and claims it: another one that takes the same waits for
\* the claim.  Then it reads the property's stays.
TakesRevision(w, e) ==
  /\ work[w].at = "rest" /\ \A v \in Consumers : work[v].event # e
  /\ work' = [work EXCEPT ![w] = [Rest EXCEPT !.at = "tasks", !.event = e,
                                              !.plan = planTurnovers]]
  /\ UNCHANGED <<stays, owed, tasks, credentials, overlapped, stayChanges, consoleRuns>>

ConsoleBegins ==
  /\ work[Console].at = "rest" /\ consoleRuns < MaxConsole
  /\ consoleRuns' = consoleRuns + 1

\* replanFor, after a unit was assigned.
DeskReplans ==
  /\ ConsoleBegins
  /\ work' = [work EXCEPT ![Console] = [Rest EXCEPT !.at = "tasks", !.plan = planTurnovers]]
  /\ UNCHANGED <<stays, owed, tasks, credentials, overlapped, stayChanges>>

\* existingTasks, reconciled with the plan.
ReadsTasks(p) ==
  /\ work[p].at = "tasks"
  /\ work' = [work EXCEPT ![p] =
                [work[p] EXCEPT !.plan = {},
                                !.create = toCreate(work[p].plan),
                                !.cancel = toCancel(work[p].plan),
                                !.at = IF p = Console THEN "replan" ELSE "codes"]]
  /\ UNCHANGED <<stays, owed, tasks, credentials, overlapped, stayChanges, consoleRuns>>

\* activeCredentials of the event's booking.
ReadsCodes(w) ==
  /\ work[w].at = "codes"
  /\ work' = [work EXCEPT ![w] =
                [work[w] EXCEPT !.active = {c \in credentials : c.stay \in work[w].event.stay},
                                !.at = "replan"]]
  /\ UNCHANGED <<stays, owed, tasks, credentials, overlapped, stayChanges, consoleRuns>>

\* credentialActionForDiff.
credentialActionForDiff(e, hasCredential) ==
  IF ~hasCredential THEN "none"
  ELSE IF e.status = "cancelled" THEN "revoke" ELSE IF e.moved THEN "reissue" ELSE "none"

action(p) == credentialActionForDiff(work[p].event, work[p].active # {})

\* A revoked row is locked until the transaction ends; who revokes it too waits for that.
unlocked(p, codes) ==
  \A v \in Consumers \ {p} : work[v].at = "reissue" => work[v].active \cap codes = {}

\* Mutant of bookedDates: the dates the event moved to.
movedDates(s, e) == e.to

\* The dates the booking has now.
bookedDates(s, e) == stays[s].dates

\* Before it reissues: the codes it read are revoked, and the booking's dates are read.
ReadsDates(w) ==
  /\ work[w].at = "replan" /\ action(w) = "reissue" /\ unlocked(w, work[w].active)
  /\ \E s \in work[w].event.stay :
       work' = [work EXCEPT ![w] = [work[w] EXCEPT !.dates = bookedDates(s, work[w].event),
                                                   !.at = "reissue"]]
  /\ UNCHANGED <<stays, owed, tasks, credentials, overlapped, stayChanges, consoleRuns>>

\* What is issued instead of a code.
reissued(c, dates) == code(c.stay, dates, "inv14", c.root)

\* Two events whose consumers must not overlap: both mend codes, and one of them reissues.
tangle(e, f) ==
  LET do(g) == credentialActionForDiff(g, TRUE)
  IN  do(e) # "none" /\ do(f) # "none" /\ "reissue" \in {do(e), do(f)}

\* The stays of the event of p whose codes somebody else has read and is about to mend.
mendedTwice(p) ==
  {s \in work[p].event.stay :
     \E v \in Consumers \ {p} : /\ work[v].at \in {"replan", "reissue"}
                               /\ s \in work[v].event.stay
                               /\ tangle(work[p].event, work[v].event)}

\* The end of the transaction; the event is consumed with it.
Replans(p) ==
  LET active == work[p].active
  IN  /\ \/ work[p].at = "replan" /\ action(p) # "reissue" /\ unlocked(p, active)
         \/ work[p].at = "reissue"
      /\ tasks' = replanned(work[p].create, work[p].cancel)
      /\ credentials' = CASE action(p) = "none"    -> credentials
                           [] action(p) = "revoke"  -> credentials \ active
                           [] action(p) = "reissue" ->
                                (credentials \ active)
                                  \cup {reissued(c, work[p].dates) : c \in active}
      /\ owed' = owed \ {work[p].event}
      /\ overlapped' = overlapped \cup mendedTwice(p)
      /\ work' = [work EXCEPT ![p] = Rest]
      /\ UNCHANGED <<stays, stayChanges, consoleRuns>>

\* It fails: everything is rolled back, and the event is delivered again some time.
RollsBackOps(p) ==
  /\ work[p].at # "rest"
  /\ work' = [work EXCEPT ![p] = Rest]
  /\ UNCHANGED <<stays, owed, tasks, credentials, overlapped, stayChanges, consoleRuns>>

-----------------------------------------------------------------------------
(* The console *)

TRANSITIONS ==
  [none      |-> {},
   planned   |-> {"assigned", "cancelled"},
   assigned  |-> {"accepted", "planned", "assigned", "cancelled"},
   accepted  |-> {"on_site", "assigned", "cancelled"},
   on_site   |-> {"done", "cancelled"},
   done      |-> {"inspected", "on_site"},
   inspected |-> {},
   cancelled |-> {}]

\* assign, setState: the state is read, the move is allowed, and then it is written.
LooksAtTask(k, to) ==
  /\ ConsoleBegins
  /\ to \in TRANSITIONS[tasks[k]]
  /\ work' = [work EXCEPT ![Console] = [Rest EXCEPT !.at = "move", !.key = {k}, !.to = to]]
  /\ UNCHANGED <<stays, owed, tasks, credentials, overlapped, stayChanges>>

MovesTask ==
  /\ work[Console].at = "move"
  /\ tasks' = [k \in TaskKeys |-> IF k \in work[Console].key THEN work[Console].to ELSE tasks[k]]
  /\ work' = [work EXCEPT ![Console] = Rest]
  /\ UNCHANGED <<stays, owed, credentials, overlapped, stayChanges, consoleRuns>>

\* issueCredentialAction: the booking's dates are read, of whatever status; then a code
\* is issued for them.
ReadsStay(s) ==
  /\ ConsoleBegins
  /\ stays[s].status # "none"
  /\ work' = [work EXCEPT ![Console] =
                [Rest EXCEPT !.at = "issue",
                             !.active = {code(s, stays[s].dates, "desk", "desk")}]]
  /\ UNCHANGED <<stays, owed, tasks, credentials, overlapped, stayChanges>>

DeskIssues ==
  /\ work[Console].at = "issue"
  /\ credentials' = credentials \cup work[Console].active
  /\ work' = [work EXCEPT ![Console] = Rest]
  /\ UNCHANGED <<stays, owed, tasks, overlapped, stayChanges, consoleRuns>>

\* revokeCredentialAction.
DeskRevokes(c) ==
  /\ ConsoleBegins /\ unlocked(Console, {c})
  /\ credentials' = credentials \ {c}
  /\ UNCHANGED <<stays, owed, tasks, work, overlapped, stayChanges>>

-----------------------------------------------------------------------------
OpsNext ==
  \/ \E s \in Stays, d \in StayDates, status \in {"new", "modified", "cancelled"} :
       Revises(s, status, d)
  \/ \E w \in Consumers : (\E e \in owed : TakesRevision(w, e)) \/ ReadsCodes(w) \/ ReadsDates(w)
  \/ \E p \in Consumers \cup {Console} : ReadsTasks(p) \/ Replans(p) \/ RollsBackOps(p)
  \/ DeskReplans \/ MovesTask \/ DeskIssues
  \/ \E k \in TaskKeys : \E to \in TRANSITIONS[tasks[k]] : LooksAtTask(k, to)
  \/ \E s \in Stays : ReadsStay(s)
  \/ \E c \in credentials : DeskRevokes(c)

OpsSpec == OpsInit /\ [][OpsNext]_opsVars

-----------------------------------------------------------------------------
(* Properties *)

OpsTypeOK ==
  /\ \A s \in Stays : /\ stays[s].status \in {"none", "new", "modified", "cancelled"}
                      /\ stays[s].dates \in StayDates \cup {NoDates}
  /\ tasks \in [TaskKeys -> TaskStates]
  /\ credentials \subseteq [stay : Stays, dates : StayDates, by : {"engine", "desk", "inv14"},
                            root : {"engine", "desk"}]
  /\ \A p \in Consumers \cup {Console} :
       work[p].at \in {"rest", "tasks", "codes", "replan", "reissue", "move", "issue"}
  /\ overlapped \subseteq Stays
  /\ stayChanges \in 0..MaxStayChanges /\ consoleRuns \in 0..MaxConsole

\* INV-14: once the revisions of a stay are consumed, in whatever order, however often they
\* were tried and by however many consumers, no code is left for dates it no longer has, nor
\* for a cancelled stay; apart from one the desk issued after that, which knows no status,
\* and from the stays two consumers tangled: a code one reissues is none the other has read.
CodesFollowStays ==
  \A c \in credentials : (\A e \in owed : c.stay \notin e.stay) /\ c.stay \notin overlapped =>
    /\ c.by # "desk" => c.dates = stays[c.stay].dates
    /\ c.root # "desk" => stays[c.stay].status # "cancelled"

\* OPS-1: once every revision is consumed, each day the unit is left has its task, though
\* the console replans from stays it read earlier: an obsolete plan takes no row away.
\* (It may be a cancelled one, which nothing brings back: see README.md.)
DeparturesAreTasked == owed = {} => \A k \in planTurnovers : tasks[k] # "none"
=============================================================================
