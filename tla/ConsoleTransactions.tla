------------------------ MODULE ConsoleTransactions ------------------------
(***************************************************************************)
(* The console's transactions (withPermission in                            *)
(* apps/web/src/server/with-permission.ts) and the one that removes a       *)
(* member: the permission is decided first, then the audit entry is         *)
(* appended under the organization's advisory lock, which is held until the *)
(* transaction ends, and only then does the handler read and write.  The    *)
(* lock is what keeps the handlers of one organization apart.               *)
(***************************************************************************)
EXTENDS Integers, Sequences, FiniteSets

CONSTANTS Members,    \* who may have a grant in the organization
          MaxAudited  \* bound: entries of the audit log

ASSUME ConsoleBounds == MaxAudited \in Nat

\* An organization begins with an owner.
ASSUME SomebodyOwns == Members # {}

VARIABLES
  owners,    \* who holds an org_owner grant that is not revoked
  desk,      \* of each member: the transaction under way
  auditLog,  \* the committed entries: number, and whose hash they were chained to
  auditLock  \* the members whose transactions hold the advisory lock

consoleVars == <<owners, desk, auditLog, auditLock>>

NoDesk == [at |-> "idle", target |-> {}, entry |-> 0]

ConsoleInit ==
  /\ owners = Members
  /\ desk = [m \in Members |-> NoDesk]
  /\ auditLog = <<>> /\ auditLock = {}

\* revokeMember: the grants of the session's user are read and evaluated.  They are not
\* read again.
Permits(m, g) ==
  /\ desk[m].at = "idle" /\ m \in owners /\ g \in owners
  /\ desk' = [desk EXCEPT ![m] = [at |-> "permitted", target |-> {g}, entry |-> 0]]
  /\ UNCHANGED <<owners, auditLog, auditLock>>

lockIsFree == auditLock = {}

\* append: the lock, the last entry, the new one.
AppendsEntry(m) ==
  /\ desk[m].at = "permitted" /\ lockIsFree /\ Len(auditLog) < MaxAudited
  /\ auditLock' = auditLock \cup {m}
  /\ desk' = [desk EXCEPT ![m] = [at |-> "appended", target |-> @.target,
                                 entry |-> Len(auditLog) + 1]]
  /\ UNCHANGED <<owners, auditLog>>

\* Mutant of mayRevoke: the grant being removed is counted as well.
mayRevokeLast(m, g) == g \in owners /\ g # m

\* revokeGrant: somebody else must remain an owner (RBAC-4), and nobody removes his own
\* last grant (RBAC-5).
mayRevoke(m, g) == g \in owners /\ g # m /\ owners \ {g} # {}

Ends(m) ==
  /\ auditLock' = auditLock \ {m}
  /\ desk' = [desk EXCEPT ![m] = NoDesk]

\* The handler counts the owners that would remain, and goes on or refuses: the entry is
\* rolled back with it.
Counts(m) ==
  /\ desk[m].at = "appended"
  /\ IF \A g \in desk[m].target : mayRevoke(m, g)
     THEN desk' = [desk EXCEPT ![m].at = "counted"] /\ UNCHANGED auditLock
     ELSE Ends(m)
  /\ UNCHANGED <<owners, auditLog>>

\* It revokes and commits; two entries of one number do not fit the log's unique index.
Commits(m) ==
  /\ desk[m].at = "counted"
  /\ IF desk[m].entry = Len(auditLog) + 1
     THEN /\ owners' = owners \ desk[m].target
          /\ auditLog' = Append(auditLog, [seq |-> desk[m].entry, prev |-> desk[m].entry - 1])
     ELSE UNCHANGED <<owners, auditLog>>
  /\ Ends(m)

\* Any other failure rolls everything back.
RollsBack(m) ==
  /\ desk[m].at # "idle"
  /\ Ends(m)
  /\ UNCHANGED <<owners, auditLog>>

\* An owner's invitation is accepted (acceptInvitation): the entry comes last, in the
\* same transaction, under the lock.
Accepts(m) ==
  /\ m \notin owners /\ desk[m].at = "idle" /\ lockIsFree /\ Len(auditLog) < MaxAudited
  /\ owners' = owners \cup {m}
  /\ auditLog' = Append(auditLog, [seq |-> Len(auditLog) + 1, prev |-> Len(auditLog)])
  /\ UNCHANGED <<desk, auditLock>>

ConsoleNext ==
  \E m \in Members :
    \/ \E g \in Members : Permits(m, g)
    \/ AppendsEntry(m) \/ Counts(m) \/ Commits(m) \/ RollsBack(m) \/ Accepts(m)

ConsoleSpec == ConsoleInit /\ [][ConsoleNext]_consoleVars

-----------------------------------------------------------------------------
(* Properties *)

ConsoleTypeOK ==
  /\ owners \subseteq Members /\ auditLock \subseteq Members
  /\ \A m \in Members :
       /\ desk[m].at \in {"idle", "permitted", "appended", "counted"}
       /\ desk[m].target \subseteq Members
  /\ auditLog \in Seq([seq : Nat, prev : Nat]) /\ Len(auditLog) <= MaxAudited

\* RBAC-4: an organization keeps an owner, whoever removes whom at the same time, though
\* a transaction may still remove others after its own user was removed.
AnOwnerRemains == owners # {}

\* The chain has no gap and no fork, and nobody's transaction is thrown away because
\* another one appended in between: the entry it wrote is the next one when it commits.
EntryIsNext ==
  /\ \A i \in DOMAIN auditLog : auditLog[i] = [seq |-> i, prev |-> i - 1]
  /\ \A m \in Members : desk[m].at \in {"appended", "counted"} =>
                           desk[m].entry = Len(auditLog) + 1
=============================================================================
