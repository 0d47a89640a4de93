--------------------------- MODULE ConsoleProofs ---------------------------
(***************************************************************************)
(* Proofs about what the console does in audited transactions: who owns an  *)
(* organization, for any members and length of the audit log, and the edits *)
(* of a calendar cell, for any editors, edits and operations.  Both rest on *)
(* the advisory lock of the audit log: who has appended is alone until the  *)
(* transaction ends.  Then the batches that are built from a calendar; and  *)
(* last, what is proved of each component holds where they run as in        *)
(* MCHouse.                                                                 *)
(***************************************************************************)
EXTENDS MCHouse, LedgerProofs, StayProofs, AriBatchProofs

AuditEntries == [seq : Nat, prev : Nat]

Desks == [at : {"idle", "permitted", "appended", "counted"},
          target : SUBSET Members, entry : Nat]

\* The transactions of a member that have appended their entry and not ended.
inside(m) == desk[m].at \in {"appended", "counted"}

\* The variables' types.
ConsoleTyped ==
  /\ owners \subseteq Members /\ auditLock \subseteq Members
  /\ desk \in [Members -> Desks]
  /\ auditLog \in Seq(AuditEntries) /\ Len(auditLog) <= MaxAudited

\* Who is inside has the lock for himself, and wrote the entry that is still the next.
AloneInside ==
  \A m \in Members : inside(m) => /\ auditLock = {m}
                                  /\ desk[m].entry = Len(auditLog) + 1
                                  /\ Len(auditLog) < MaxAudited

\* A transaction removes one member, and what it counted is still so when it commits.
CountStands ==
  \A m \in Members :
    /\ inside(m) => \E g \in Members : desk[m].target = {g}
    /\ desk[m].at = "permitted" => \E g \in Members : desk[m].target = {g}
    /\ desk[m].at = "counted" => \A g \in desk[m].target : mayRevoke(m, g)

\* The log's entries are numbered one by one, each chained to the one before.
LogIsChained == \A i \in DOMAIN auditLog : auditLog[i] = [seq |-> i, prev |-> i - 1]

ConsoleInv ==
  ConsoleTyped /\ AloneInside /\ CountStands /\ LogIsChained /\ AnOwnerRemains

-----------------------------------------------------------------------------

\* A member's transaction ends: nobody else's is disturbed.
LEMMA EndsTyped ==
  ASSUME ConsoleTyped, NEW m \in Members, Ends(m)
  PROVE  /\ desk' \in [Members -> Desks] /\ auditLock' \subseteq Members
         /\ desk'[m] = NoDesk /\ \A k \in Members \ {m} : desk'[k] = desk[k]
  <1>1. NoDesk \in Desks
    BY DEF NoDesk, Desks
  <1> QED
    BY <1>1 DEF ConsoleTyped, Ends

\* A member's desk becomes another: nobody else's does.
LEMMA DeskBecomes ==
  ASSUME ConsoleTyped, NEW m \in Members, NEW d \in Desks, desk' = [desk EXCEPT ![m] = d]
  PROVE  /\ desk' \in [Members -> Desks] /\ desk'[m] = d
         /\ \A k \in Members \ {m} : desk'[k] = desk[k]
  BY DEF ConsoleTyped

\* A chained log that gets its next entry is chained.
LEMMA ChainGrows ==
  ASSUME ConsoleTyped, LogIsChained, Len(auditLog) < MaxAudited,
         auditLog' = Append(auditLog, [seq |-> Len(auditLog) + 1, prev |-> Len(auditLog)])
  PROVE  /\ auditLog' \in Seq(AuditEntries) /\ Len(auditLog') <= MaxAudited
         /\ Len(auditLog') = Len(auditLog) + 1 /\ LogIsChained'
  <1> DEFINE new == [seq |-> Len(auditLog) + 1, prev |-> Len(auditLog)]
  <1>1. /\ auditLog \in Seq(AuditEntries) /\ Len(auditLog) \in Nat /\ MaxAudited \in Nat
        /\ new \in AuditEntries
    BY ConsoleBounds DEF ConsoleTyped, AuditEntries
  <1>2. /\ auditLog' \in Seq(AuditEntries) /\ Len(auditLog') = Len(auditLog) + 1
        /\ \A i \in 1 .. Len(auditLog) : auditLog'[i] = auditLog[i]
        /\ auditLog'[Len(auditLog) + 1] = new
    BY <1>1
  <1>3. ASSUME NEW i \in DOMAIN auditLog' PROVE auditLog'[i] = [seq |-> i, prev |-> i - 1]
    <2>1. i \in 1 .. Len(auditLog) + 1 /\ DOMAIN auditLog = 1 .. Len(auditLog)
      BY <1>1, <1>2
    <2>2. CASE i = Len(auditLog) + 1
      BY <1>1, <1>2, <2>2
    <2>3. CASE i \in 1 .. Len(auditLog)
      BY <1>2, <2>1, <2>3 DEF LogIsChained
    <2> QED
      BY <1>1, <2>1, <2>2, <2>3
  <1> QED
    BY <1>1, <1>2, <1>3 DEF LogIsChained

-----------------------------------------------------------------------------
(* The invariant *)

\* Everybody is an owner and nobody is at a desk.
LEMMA ConsoleInitInv == ConsoleInit => ConsoleInv
  <1> SUFFICES ASSUME ConsoleInit PROVE ConsoleInv
    OBVIOUS
  <1>1. NoDesk \in Desks /\ NoDesk.at = "idle"
    BY DEF NoDesk, Desks
  <1>2. ConsoleTyped
    BY <1>1, ConsoleBounds DEF ConsoleInit, ConsoleTyped
  <1>3. AloneInside /\ CountStands
    BY <1>1 DEF ConsoleInit, AloneInside, CountStands, inside
  <1>4. LogIsChained /\ AnOwnerRemains
    BY SomebodyOwns DEF ConsoleInit, LogIsChained, AnOwnerRemains
  <1> QED
    BY <1>2, <1>3, <1>4 DEF ConsoleInv

\* A permission is decided without the lock and disturbs nobody who has it.
LEMMA PermitsInv ==
  ASSUME ConsoleInv, NEW m \in Members, NEW g \in Members, Permits(m, g)
  PROVE  ConsoleInv'
  <1> USE DEF ConsoleInv
  <1> DEFINE d == [at |-> "permitted", target |-> {g}, entry |-> 0]
  <1>a. d \in Desks
    BY DEF Desks
  <1>b. desk' = [desk EXCEPT ![m] = d] /\ UNCHANGED <<owners, auditLog, auditLock>>
    BY DEF Permits
  <1>1. /\ desk'[m] = d /\ desk' \in [Members -> Desks]
        /\ \A k \in Members \ {m} : desk'[k] = desk[k]
        /\ UNCHANGED <<owners, auditLog, auditLock>>
    BY <1>a, <1>b, DeskBecomes
  <1>2. ConsoleTyped'
    BY <1>1 DEF ConsoleTyped
  <1>3. AloneInside' /\ CountStands'
    BY <1>1 DEF AloneInside, CountStands, inside, mayRevoke
  <1>4. LogIsChained' /\ AnOwnerRemains'
    BY <1>1 DEF LogIsChained, AnOwnerRemains
  <1> QED
    BY <1>2, <1>3, <1>4

\* Whoever appends finds the lock free, so nobody is inside.
LEMMA AppendsInv ==
  ASSUME ConsoleInv, NEW m \in Members, AppendsEntry(m)
  PROVE  ConsoleInv'
  <1> USE DEF ConsoleInv
  <1> DEFINE d == [at |-> "appended", target |-> desk[m].target, entry |-> Len(auditLog) + 1]
  <1>t. desk[m] \in Desks /\ Len(auditLog) \in Nat
    BY DEF ConsoleTyped
  <1>a. d \in Desks
    BY <1>t DEF Desks
  <1>b. /\ desk' = [desk EXCEPT ![m] = d]
        /\ desk[m].at = "permitted" /\ auditLock = {} /\ auditLock' = {m}
        /\ UNCHANGED <<owners, auditLog>> /\ Len(auditLog) < MaxAudited
    BY DEF AppendsEntry, lockIsFree
  <1>1. /\ desk'[m] = d /\ desk' \in [Members -> Desks]
        /\ \A k \in Members \ {m} : desk'[k] = desk[k]
        /\ desk[m].at = "permitted" /\ auditLock = {} /\ auditLock' = {m}
        /\ UNCHANGED <<owners, auditLog>> /\ Len(auditLog) < MaxAudited
    BY <1>a, <1>b, DeskBecomes
  <1>2. ConsoleTyped'
    BY <1>1 DEF ConsoleTyped
  <1>3. \A k \in Members : ~inside(k)
    BY <1>1 DEF AloneInside
  <1>4. AloneInside' /\ CountStands'
    <2>1. \A k \in Members \ {m} : ~inside(k)' /\ desk'[k].at # "counted"
      BY <1>1, <1>3 DEF inside
    <2>2. desk'[m].at = "appended" /\ desk'[m].entry = Len(auditLog) + 1
          /\ desk'[m].target = desk[m].target
      BY <1>1
    <2> QED
      BY <1>1, <2>1, <2>2 DEF AloneInside, CountStands, inside
  <1>5. LogIsChained' /\ AnOwnerRemains'
    BY <1>1 DEF LogIsChained, AnOwnerRemains
  <1> QED
    BY <1>2, <1>4, <1>5

\* A transaction that ends without an effect leaves the others as they were.
LEMMA LeavesInv ==
  ASSUME ConsoleInv, NEW m \in Members, Ends(m), UNCHANGED <<owners, auditLog>>
  PROVE  ConsoleInv'
  <1> USE DEF ConsoleInv
  <1>1. /\ desk' \in [Members -> Desks] /\ auditLock' \subseteq Members
        /\ desk'[m] = NoDesk /\ \A k \in Members \ {m} : desk'[k] = desk[k]
        /\ auditLock' = auditLock \ {m}
    BY EndsTyped DEF Ends
  <1>2. ConsoleTyped'
    BY <1>1 DEF ConsoleTyped
  <1>3. AloneInside' /\ CountStands'
    BY <1>1 DEF AloneInside, CountStands, inside, NoDesk, mayRevoke
  <1>4. LogIsChained' /\ AnOwnerRemains'
    BY DEF LogIsChained, AnOwnerRemains
  <1> QED
    BY <1>2, <1>3, <1>4

\* The count is taken inside.
LEMMA CountsInv ==
  ASSUME ConsoleInv, NEW m \in Members, Counts(m)
  PROVE  ConsoleInv'
  <1>1. CASE ~ \A g \in desk[m].target : mayRevoke(m, g)
    BY <1>1, LeavesInv DEF Counts
  <1>2. CASE \A g \in desk[m].target : mayRevoke(m, g)
    <2> USE DEF ConsoleInv
    <2> DEFINE d == [desk[m] EXCEPT !.at = "counted"]
    <2>1. /\ desk' = [desk EXCEPT ![m] = d] /\ desk[m].at = "appended"
          /\ UNCHANGED <<owners, auditLog, auditLock>>
      BY <1>2 DEF Counts
    <2>a. desk[m] \in Desks
      BY DEF ConsoleTyped
    <2>b. d \in Desks /\ d.at = "counted" /\ d.target = desk[m].target /\ d.entry = desk[m].entry
      BY <2>a DEF Desks
    <2>2. /\ desk' \in [Members -> Desks] /\ desk'[m] = d
          /\ \A k \in Members \ {m} : desk'[k] = desk[k]
      BY <2>1, <2>b, DeskBecomes
    <2>3. /\ \A k \in Members \ {m} : desk'[k] = desk[k]
          /\ desk'[m].at = "counted" /\ desk'[m].target = desk[m].target
          /\ desk'[m].entry = desk[m].entry
      BY <2>2, <2>b
    <2>4. ConsoleTyped' /\ LogIsChained' /\ AnOwnerRemains'
      BY <2>1, <2>2 DEF ConsoleTyped, LogIsChained, AnOwnerRemains
    <2>5. AloneInside' /\ CountStands'
      BY <1>2, <2>1, <2>3 DEF AloneInside, CountStands, inside, mayRevoke
    <2> QED
      BY <2>4, <2>5
  <1> QED
    BY <1>1, <1>2

\* What a transaction commits is what it counted: another owner is left.
LEMMA CommitsInv ==
  ASSUME ConsoleInv, NEW m \in Members, Commits(m)
  PROVE  ConsoleInv'
  <1> USE DEF ConsoleInv
  <1>1. PICK g \in Members : desk[m].target = {g}
    BY DEF Commits, CountStands, inside
  <1>2. mayRevoke(m, g) /\ desk[m].entry = Len(auditLog) + 1 /\ auditLock = {m}
    BY <1>1 DEF Commits, CountStands, AloneInside, inside
  <1>3. /\ owners' = owners \ {g} /\ owners' # {}
        /\ auditLog' = Append(auditLog, [seq |-> Len(auditLog) + 1, prev |-> Len(auditLog)])
        /\ Ends(m)
    <2>1. Len(auditLog) \in Nat
      BY DEF ConsoleTyped
    <2>2. desk[m].entry - 1 = Len(auditLog)
      BY <1>2, <2>1
    <2> QED
      BY <1>1, <1>2, <2>2 DEF Commits, mayRevoke
  <1>4. /\ desk' \in [Members -> Desks] /\ auditLock' \subseteq Members
        /\ desk'[m] = NoDesk /\ \A k \in Members \ {m} : desk'[k] = desk[k]
        /\ auditLock' = {}
    BY <1>2, <1>3, EndsTyped DEF Ends
  <1>5. Len(auditLog) < MaxAudited
    BY DEF Commits, AloneInside, inside
  <1>6. /\ auditLog' \in Seq(AuditEntries) /\ Len(auditLog') <= MaxAudited
        /\ Len(auditLog') = Len(auditLog) + 1 /\ LogIsChained'
    BY <1>3, <1>5, ChainGrows
  <1>7. ConsoleTyped' /\ AnOwnerRemains'
    BY <1>3, <1>4, <1>6 DEF ConsoleTyped, AnOwnerRemains
  <1>8. \A k \in Members : ~inside(k)'
    <2>1. \A k \in Members \ {m} : ~inside(k)
      BY <1>2 DEF AloneInside
    <2> QED
      BY <1>4, <2>1 DEF inside, NoDesk
  <1>9. AloneInside' /\ CountStands'
    BY <1>4, <1>8 DEF AloneInside, CountStands, inside, NoDesk
  <1> QED
    BY <1>6, <1>7, <1>9

\* An invitation is accepted while nobody is inside.
LEMMA AcceptsInv ==
  ASSUME ConsoleInv, NEW m \in Members, Accepts(m)
  PROVE  ConsoleInv'
  <1> USE DEF ConsoleInv
  <1>1. /\ auditLog' \in Seq(AuditEntries) /\ Len(auditLog') <= MaxAudited /\ LogIsChained'
    BY ChainGrows DEF Accepts
  <1>2. ConsoleTyped' /\ AnOwnerRemains'
    BY <1>1 DEF Accepts, ConsoleTyped, AnOwnerRemains
  <1>3. \A k \in Members : ~inside(k)
    BY DEF Accepts, lockIsFree, AloneInside
  <1>4. AloneInside' /\ CountStands'
    BY <1>3 DEF Accepts, AloneInside, CountStands, inside
  <1> QED
    BY <1>1, <1>2, <1>4

\* Every step of a console transaction preserves the invariant.
LEMMA ConsoleStepInv == ConsoleInv /\ [ConsoleNext]_consoleVars => ConsoleInv'
  <1> SUFFICES ASSUME ConsoleInv, [ConsoleNext]_consoleVars PROVE ConsoleInv'
    OBVIOUS
  <1>1. ASSUME NEW m \in Members, NEW g \in Members, Permits(m, g) PROVE ConsoleInv'
    BY <1>1, PermitsInv
  <1>2. ASSUME NEW m \in Members, AppendsEntry(m) PROVE ConsoleInv'
    BY <1>2, AppendsInv
  <1>3. ASSUME NEW m \in Members, Counts(m) PROVE ConsoleInv'
    BY <1>3, CountsInv
  <1>4. ASSUME NEW m \in Members, Commits(m) PROVE ConsoleInv'
    BY <1>4, CommitsInv
  <1>5. ASSUME NEW m \in Members, RollsBack(m) PROVE ConsoleInv'
    BY <1>5, LeavesInv DEF RollsBack
  <1>6. ASSUME NEW m \in Members, Accepts(m) PROVE ConsoleInv'
    BY <1>6, AcceptsInv
  <1>7. CASE UNCHANGED consoleVars
    BY <1>7 DEF consoleVars, ConsoleInv, ConsoleTyped, AloneInside, CountStands, inside,
                mayRevoke, LogIsChained, AnOwnerRemains
  <1> QED
    BY <1>1, <1>2, <1>3, <1>4, <1>5, <1>6, <1>7 DEF ConsoleNext

\* The invariant holds throughout.
LEMMA ConsoleInvariant == ConsoleSpec => []ConsoleInv
  BY ConsoleInitInv, ConsoleStepInv, PTL DEF ConsoleSpec

-----------------------------------------------------------------------------
(* Theorems *)

\* The state of the console's transactions has the types it is meant to have.
THEOREM ConsoleTypeCorrect == ConsoleSpec => []ConsoleTypeOK
  <1>1. ConsoleInv => ConsoleTypeOK
    BY DEF ConsoleInv, ConsoleTyped, Desks, AuditEntries, ConsoleTypeOK
  <1> QED
    BY <1>1, ConsoleInvariant, PTL

\* RBAC-4: whoever removes whom at the same time, an organization keeps an owner.
THEOREM OwnerRemains == ConsoleSpec => []AnOwnerRemains
  <1>1. ConsoleInv => AnOwnerRemains
    BY DEF ConsoleInv
  <1> QED
    BY <1>1, ConsoleInvariant, PTL

\* The audit chain has no gap and no fork, and no transaction that appended finds its
\* number taken when it commits.
THEOREM AuditChainIsWhole == ConsoleSpec => []EntryIsNext
  <1>1. ConsoleInv => EntryIsNext
    BY DEF ConsoleInv, EntryIsNext, LogIsChained, AloneInside, inside
  <1> QED
    BY <1>1, ConsoleInvariant, PTL

-----------------------------------------------------------------------------
(* The calendar: the invariant *)

EditKinds == {"edit", "bulk", "undo"}

\* Some fields of a cell, with what they are to be.
Patches == UNION {[F -> Nat] : F \in SUBSET EditFields}

LEMMA ArePatches == Edits \cup BulkEdits \subseteq Patches
  BY EditsArePatches DEF Patches

Operation == [kind : EditKinds, inverse : Patches, state : {"done", "undone"},
              over : [EditFields -> Nat], version : Nat]

Resting == [seen : Nat, at : {"rest"}]
Writing == [seen : Nat, at : EditKinds, patch : Patches, inverse : Patches, of : Nat]

\* The variables' types; the row's version counts the operations.
CalTyped ==
  /\ rateDay \in [values : [EditFields -> Nat], version : Nat]
  /\ ops \in Seq(Operation) /\ rateDay.version = Len(ops) + 1
  /\ editors \in [Editors -> Resting \cup Writing]

\* One editor at a time has written its audit entry and not committed.
OneWrites ==
  /\ auditing = {e \in Editors : editors[e].at # "rest"}
  /\ \A d, e \in auditing : d = e

\* What an author has seen is the row as it was once; what an edit goes on is the row.
SeenIsPast ==
  \A e \in Editors : /\ editors[e].seen <= rateDay.version
                     /\ editors[e].at = "edit" => editors[e].seen = rateDay.version

\* The inverse takes what it names back, and the rest has not changed, apart from the
\* fields a bulk update found absent.
inverts(kind, inverse, before, after) ==
  \A f \in EditFields :
    IF f \in DOMAIN inverse THEN inverse[f] = before[f]
    ELSE after[f] = before[f] \/ (kind = "bulk" /\ before[f] = Absent)

\* What a transaction is about to write has its inverse beside it, and an undo is of an
\* operation that is still done.
WritesAreInvertible ==
  \A e \in Editors : editors[e].at # "rest" =>
    /\ inverts(editors[e].at, editors[e].inverse, rateDay.values,
               merged(rateDay.values, editors[e].patch))
    /\ editors[e].of # 0 => /\ editors[e].of \in DOMAIN ops
                            /\ editors[e].patch = ops[editors[e].of].inverse

\* Operations are numbered by the version they made, and the last one can be taken back.
LastIsInvertible ==
  /\ \A o \in DOMAIN ops : ops[o].version = o + 1
  /\ \A o \in DOMAIN ops : o = Len(ops) =>
       inverts(ops[o].kind, ops[o].inverse, ops[o].over, rateDay.values)

CalInv == /\ CalTyped /\ OneWrites /\ SeenIsPast /\ ChildFollows
          /\ WritesAreInvertible /\ LastIsInvertible

-----------------------------------------------------------------------------
(* The calendar: what patches do *)

\* A patched cell is a cell.
LEMMA MergedTyped ==
  ASSUME NEW values \in [EditFields -> Nat], NEW patch \in Patches
  PROVE  merged(values, patch) \in [EditFields -> Nat]
  <1> SUFFICES ASSUME NEW f \in EditFields, f \in DOMAIN patch PROVE patch[f] \in Nat
    BY DEF merged
  <1> QED
    BY DEF Patches

\* Some fields of a cell are a patch.
LEMMA PickTyped ==
  ASSUME NEW values \in [EditFields -> Nat], NEW F \in SUBSET EditFields
  PROVE  pick(values, F) \in Patches
  BY DEF pick, Patches

\* The fields of a patch are fields.
LEMMA PatchFields == ASSUME NEW patch \in Patches PROVE DOMAIN patch \in SUBSET EditFields
  BY DEF Patches

\* An edit, and an undo, record all they write over.
LEMMA PickInverts ==
  ASSUME NEW values \in [EditFields -> Nat], NEW patch \in Patches, NEW kind
  PROVE  inverts(kind, pick(values, DOMAIN patch), values, merged(values, patch))
  BY DEF inverts, pick, merged

\* A bulk update records what it changes, of the fields the cell had.
LEMMA BulkInverts ==
  ASSUME NEW values \in [EditFields -> Nat], NEW after \in [EditFields -> Nat]
  PROVE  inverts("bulk", inverseValues(values, after), values,
                 merged(values, diffValues(values, after)))
  <1> DEFINE F == {f \in EditFields : after[f] # values[f] /\ values[f] # Absent}
             G == {f \in EditFields : after[f] # values[f] /\ after[f] # Absent}
  <1>1. /\ inverseValues(values, after) = [f \in F |-> values[f]]
        /\ diffValues(values, after) = [f \in G |-> after[f]]
    BY DEF inverseValues, diffValues, pick
  <1>2. merged(values, diffValues(values, after)) =
          [f \in EditFields |-> IF f \in G THEN after[f] ELSE values[f]]
    BY <1>1 DEF merged
  <1> QED
    BY <1>1, <1>2 DEF inverts

-----------------------------------------------------------------------------
(* The calendar: the steps *)

\* The first row has been seen by nobody.
LEMMA CalInitInv == CalInit => CalInv
  <1> SUFFICES ASSUME CalInit PROVE CalInv
    OBVIOUS
  <1>1. CalTyped
    <2>1. rateDay \in [values : [EditFields -> Nat], version : Nat]
      BY DEF CalInit, EditFields, Absent
    <2> QED
      BY <2>1 DEF CalInit, CalTyped, Resting
  <1>2. OneWrites /\ SeenIsPast /\ ChildFollows /\ WritesAreInvertible /\ LastIsInvertible
    BY DEF CalInit, OneWrites, SeenIsPast, ChildFollows, WritesAreInvertible, LastIsInvertible
  <1> QED
    BY <1>1, <1>2 DEF CalInv

\* An editor at rest looks at the row.
LEMMA LoadsInv ==
  ASSUME CalInv, NEW e \in Editors, Loads(e)
  PROVE  CalInv'
  <1> USE DEF CalInv
  <1> DEFINE d == [editors[e] EXCEPT !.seen = rateDay.version]
  <1>1. /\ editors' = [editors EXCEPT ![e] = d] /\ editors[e].at = "rest"
        /\ UNCHANGED <<rateDay, child, ops, auditing>>
    BY DEF Loads
  <1>2. editors[e] \in Resting /\ rateDay.version \in Nat
    BY <1>1 DEF CalTyped, Writing, EditKinds
  <1>3. d \in Resting /\ d.seen = rateDay.version /\ d.at = "rest"
    BY <1>2 DEF Resting
  <1>4. /\ editors' \in [Editors -> Resting \cup Writing] /\ editors'[e] = d
        /\ \A k \in Editors \ {e} : editors'[k] = editors[k]
    BY <1>1, <1>3 DEF CalTyped
  <1>5. CalTyped' /\ OneWrites' /\ SeenIsPast'
    BY <1>1, <1>2, <1>3, <1>4 DEF CalTyped, OneWrites, SeenIsPast
  <1>6. ChildFollows' /\ LastIsInvertible'
    BY <1>1 DEF ChildFollows, LastIsInvertible
  <1>7. WritesAreInvertible'
    BY <1>1, <1>3, <1>4 DEF WritesAreInvertible
  <1> QED
    BY <1>5, <1>6, <1>7

\* A transaction that opens finds nobody writing.
LEMMA OpensInv ==
  ASSUME CalInv, NEW e \in Editors, NEW kind \in EditKinds, NEW patch \in Patches,
         NEW inverse \in Patches, NEW of \in Nat, opens(e, kind, patch, inverse, of),
         inverts(kind, inverse, rateDay.values, merged(rateDay.values, patch)),
         kind = "edit" => editors[e].seen = rateDay.version,
         of # 0 => of \in DOMAIN ops /\ patch = ops[of].inverse
  PROVE  CalInv'
  <1> USE DEF CalInv
  <1> DEFINE d == [seen |-> editors[e].seen, at |-> kind, patch |-> patch,
                   inverse |-> inverse, of |-> of]
  <1>1. /\ editors' = [editors EXCEPT ![e] = d] /\ editors[e].at = "rest"
        /\ auditing = {} /\ auditing' = {e}
        /\ UNCHANGED <<rateDay, child, ops>>
    BY DEF opens, mayAppend
  <1>2. editors[e].seen \in Nat
    BY <1>1 DEF CalTyped, Resting, Writing
  <1>3. d \in Writing
    BY <1>2 DEF Writing
  <1>4. /\ editors' \in [Editors -> Resting \cup Writing] /\ editors'[e] = d
        /\ \A k \in Editors \ {e} : editors'[k] = editors[k]
    BY <1>1, <1>3 DEF CalTyped
  <1>5. CalTyped' /\ SeenIsPast'
    BY <1>1, <1>4 DEF CalTyped, SeenIsPast
  <1>6. OneWrites'
    <2>1. \A k \in Editors : editors[k].at = "rest"
      BY <1>1 DEF OneWrites
    <2>2. editors'[e].at # "rest"
      BY <1>4 DEF EditKinds
    <2> QED
      BY <1>1, <1>4, <2>1, <2>2 DEF OneWrites
  <1>7. ChildFollows' /\ LastIsInvertible'
    BY <1>1 DEF ChildFollows, LastIsInvertible
  <1>8. WritesAreInvertible'
    BY <1>1, <1>4 DEF WritesAreInvertible
  <1> QED
    BY <1>5, <1>6, <1>7, <1>8

\* The three transactions there are open with what takes back what they write.
LEMMA ReadsInv ==
  ASSUME CalInv, NEW e \in Editors,
         \/ \E patch \in Edits : EditReads(e, patch)
         \/ \E patch \in BulkEdits : BulkReads(e, patch)
         \/ \E o \in DOMAIN ops : UndoReads(e, o)
  PROVE  CalInv'
  <1>1. rateDay.values \in [EditFields -> Nat] /\ ops \in Seq(Operation)
    BY DEF CalInv, CalTyped
  <1>2. ASSUME NEW patch \in Edits, EditReads(e, patch) PROVE CalInv'
    <2>1. patch \in Patches /\ "edit" \in EditKinds
      BY ArePatches DEF EditKinds
    <2>2. pick(rateDay.values, DOMAIN patch) \in Patches
      BY <1>1, <2>1, PickTyped, PatchFields
    <2>3. inverts("edit", pick(rateDay.values, DOMAIN patch), rateDay.values,
                  merged(rateDay.values, patch))
      BY <1>1, <2>1, PickInverts
    <2> QED
      BY <1>2, <2>1, <2>2, <2>3, OpensInv DEF EditReads, checkCellVersions
  <1>3. ASSUME NEW patch \in BulkEdits, BulkReads(e, patch) PROVE CalInv'
    <2> DEFINE after == merged(rateDay.values, patch)
    <2>1. after \in [EditFields -> Nat] /\ "bulk" \in EditKinds
      BY <1>1, ArePatches, MergedTyped DEF EditKinds
    <2>2. /\ diffValues(rateDay.values, after) \in Patches
          /\ inverseValues(rateDay.values, after) \in Patches
      BY <1>1, <2>1, PickTyped DEF diffValues, inverseValues
    <2>3. inverts("bulk", inverseValues(rateDay.values, after), rateDay.values,
                  merged(rateDay.values, diffValues(rateDay.values, after)))
      BY <1>1, <2>1, BulkInverts
    <2>4. opens(e, "bulk", diffValues(rateDay.values, after),
                inverseValues(rateDay.values, after), 0)
      BY <1>3 DEF BulkReads
    <2> HIDE DEF after
    <2> QED
      BY <2>1, <2>2, <2>3, <2>4, OpensInv
  <1>4. ASSUME NEW o \in DOMAIN ops, UndoReads(e, o) PROVE CalInv'
    <2>a. o \in 1 .. Len(ops) /\ Len(ops) \in Nat /\ ops[o] \in Operation
      BY <1>1
    <2>1. o \in Nat /\ ops[o].inverse \in Patches /\ "undo" \in EditKinds
      BY <2>a DEF EditKinds, Operation
    <2>2. pick(rateDay.values, DOMAIN ops[o].inverse) \in Patches
      BY <1>1, <2>1, PickTyped, PatchFields
    <2>3. inverts("undo", pick(rateDay.values, DOMAIN ops[o].inverse), rateDay.values,
                  merged(rateDay.values, ops[o].inverse))
      BY <1>1, <2>1, PickInverts
    <2> QED
      BY <1>4, <2>1, <2>2, <2>3, OpensInv DEF UndoReads
  <1> QED
    BY <1>2, <1>3, <1>4

\* The operations as Writes leaves them, with the one it undoes marked.
undone(log, of) ==
  [o \in DOMAIN log |-> IF o = of THEN [log[o] EXCEPT !.state = "undone"] ELSE log[o]]

\* Marking an operation undone leaves the log a log, and the rest of it as it was.
LEMMA UndoneTyped ==
  ASSUME NEW log \in Seq(Operation), NEW of
  PROVE  /\ undone(log, of) \in Seq(Operation) /\ Len(undone(log, of)) = Len(log)
         /\ \A o \in 1 .. Len(log) : /\ undone(log, of)[o].version = log[o].version
                                     /\ o # of => undone(log, of)[o] = log[o]
  <1> DEFINE e(o) == IF o = of THEN [log[o] EXCEPT !.state = "undone"] ELSE log[o]
             marked == [o \in 1 .. Len(log) |-> e(o)]
  <1>1. Len(log) \in Nat /\ DOMAIN log = 1 .. Len(log)
    OBVIOUS
  <1>2. \A o \in 1 .. Len(log) : log[o] \in Operation
    OBVIOUS
  <1>3. \A o \in 1 .. Len(log) : /\ e(o) \in Operation /\ e(o).version = log[o].version
                                 /\ o # of => e(o) = log[o]
    BY <1>2 DEF Operation
  <1>4. undone(log, of) = marked
    BY <1>1 DEF undone
  <1> HIDE DEF e
  <1>5. marked \in Seq(Operation) /\ Len(marked) = Len(log)
    BY <1>1, <1>3, IsASeq
  <1>6. \A o \in 1 .. Len(log) : marked[o] = e(o)
    OBVIOUS
  <1> HIDE DEF marked
  <1> QED
    BY <1>3, <1>4, <1>5, <1>6

\* What a transaction writes is what it recorded the inverse of.
LEMMA WritesInv ==
  ASSUME CalInv, NEW e \in Editors, Writes(e)
  PROVE  CalInv'
  <1> USE DEF CalInv
  <1> DEFINE tx == editors[e]
             after == merged(rateDay.values, tx.patch)
             new == [kind |-> tx.at, inverse |-> tx.inverse, state |-> "done",
                     over |-> rateDay.values, version |-> rateDay.version + 1]
             d == [seen |-> rateDay.version + 1, at |-> "rest"]
  <1>1. tx \in Writing /\ auditing = {e}
    BY DEF Writes, CalTyped, Resting, OneWrites
  <1>2. /\ rateDay.values \in [EditFields -> Nat] /\ rateDay.version \in Nat
        /\ ops \in Seq(Operation) /\ Len(ops) \in Nat /\ rateDay.version = Len(ops) + 1
    BY DEF CalTyped
  <1>3. after \in [EditFields -> Nat]
    BY <1>1, <1>2, MergedTyped DEF Writing
  <1>4. new \in Operation
    BY <1>1, <1>2 DEF Operation, Writing
  <1>5. /\ rateDay' = [values |-> after, version |-> rateDay.version + 1]
        /\ child' = derived(after)
        /\ ops' = Append([o \in DOMAIN ops |->
                    IF o = tx.of THEN [ops[o] EXCEPT !.state = "undone"] ELSE ops[o]], new)
        /\ auditing' = {}
        /\ editors' = [editors EXCEPT ![e] = d]
    BY <1>1 DEF Writes
  <1> HIDE DEF tx, after, new
  <1>6. /\ ops' \in Seq(Operation) /\ Len(ops') = Len(ops) + 1 /\ ops'[Len(ops) + 1] = new
        /\ \A o \in 1 .. Len(ops) : ops'[o].version = ops[o].version
    <2> DEFINE marked == undone(ops, tx.of)
    <2>1. ops' = Append(marked, new)
      BY <1>5 DEF undone
    <2>2. /\ marked \in Seq(Operation) /\ Len(marked) = Len(ops)
          /\ \A o \in 1 .. Len(ops) : marked[o].version = ops[o].version
      BY <1>2, UndoneTyped
    <2> HIDE DEF marked
    <2> QED
      BY <1>2, <1>4, <2>1, <2>2
  <1>7. d \in Resting
    BY <1>2 DEF Resting
  <1>8. /\ editors' \in [Editors -> Resting \cup Writing] /\ editors'[e] = d
        /\ \A k \in Editors \ {e} : editors'[k] = editors[k]
    BY <1>5, <1>7 DEF CalTyped
  <1>9. \A k \in Editors \ {e} : editors[k].at = "rest" /\ editors[k].seen <= rateDay.version
    BY <1>1 DEF OneWrites, SeenIsPast
  <1>10. CalTyped'
    BY <1>2, <1>3, <1>5, <1>6, <1>8 DEF CalTyped
  <1>11. OneWrites'
    BY <1>5, <1>8, <1>9 DEF OneWrites
  <1>12. SeenIsPast'
    <2>1. editors \in [Editors -> Resting \cup Writing]
      BY DEF CalTyped
    <2>2. \A k \in Editors : editors[k].seen \in Nat
      BY <2>1 DEF Resting, Writing
    <2> QED
      BY <1>2, <1>5, <1>8, <1>9, <2>2 DEF SeenIsPast
  <1>13. ChildFollows' /\ WritesAreInvertible'
    BY <1>5, <1>8, <1>9 DEF ChildFollows, WritesAreInvertible
  <1>14. LastIsInvertible'
    <2>1. inverts(new.kind, new.inverse, new.over, after)
      BY <1>1 DEF Writes, WritesAreInvertible, tx, after, new
    <2>2. new.version = Len(ops) + 2
      BY <1>2 DEF new
    <2>3. DOMAIN ops' = 1 .. Len(ops) + 1 /\ DOMAIN ops = 1 .. Len(ops)
      BY <1>2, <1>6
    <2>4. ASSUME NEW o \in DOMAIN ops' PROVE ops'[o].version = o + 1
      <3>1. CASE o = Len(ops) + 1
        BY <1>2, <1>6, <2>2, <3>1
      <3>2. CASE o \in 1 .. Len(ops)
        BY <1>6, <2>3, <3>2 DEF LastIsInvertible
      <3> QED
        BY <1>2, <2>3, <3>1, <3>2
    <2> QED
      BY <1>5, <1>6, <2>1, <2>4 DEF LastIsInvertible
  <1> QED
    BY <1>10, <1>11, <1>12, <1>13, <1>14

\* Every step of an editor preserves the invariant.
LEMMA CalStepInv == CalInv /\ [CalNext]_calVars => CalInv'
  <1> SUFFICES ASSUME CalInv, [CalNext]_calVars PROVE CalInv'
    OBVIOUS
  <1>1. ASSUME NEW e \in Editors, Loads(e) PROVE CalInv'
    BY <1>1, LoadsInv
  <1>2. ASSUME NEW e \in Editors,
               \/ \E patch \in Edits : EditReads(e, patch)
               \/ \E patch \in BulkEdits : BulkReads(e, patch)
               \/ \E o \in DOMAIN ops : UndoReads(e, o)
        PROVE  CalInv'
    BY <1>2, ReadsInv
  <1>3. ASSUME NEW e \in Editors, Writes(e) PROVE CalInv'
    BY <1>3, WritesInv
  <1>4. CASE UNCHANGED calVars
    BY <1>4 DEF calVars, CalInv, CalTyped, OneWrites, SeenIsPast, ChildFollows,
                WritesAreInvertible, LastIsInvertible
  <1> QED
    BY <1>1, <1>2, <1>3, <1>4 DEF CalNext

\* The invariant holds throughout.
LEMMA CalInvariant == CalSpec => []CalInv
  BY CalInitInv, CalStepInv, PTL DEF CalSpec

-----------------------------------------------------------------------------
(* The calendar: theorems *)

\* The calendar's state has the types it is meant to have.
THEOREM CalTypeCorrect == CalSpec => []CalTypeOK
  <1>1. ASSUME CalInv PROVE CalTypeOK
    <2>1. /\ DOMAIN rateDay.values = EditFields /\ rateDay.version = Len(ops) + 1
          /\ auditing = {e \in Editors : editors[e].at # "rest"}
      BY <1>1 DEF CalInv, CalTyped, OneWrites
    <2>2. ASSUME NEW e \in Editors PROVE editors[e].seen \in 0 .. rateDay.version
      BY <1>1 DEF CalInv, CalTyped, SeenIsPast, Resting, Writing
    <2>3. ASSUME NEW o \in DOMAIN ops PROVE DOMAIN ops[o].inverse \subseteq EditFields
      <3>1. ops[o] \in Operation
        BY <1>1 DEF CalInv, CalTyped
      <3> QED
        BY <3>1, PatchFields DEF Operation
    <2> QED
      BY <2>1, <2>2, <2>3 DEF CalTypeOK
  <1> QED
    BY <1>1, CalInvariant, PTL

\* The derived plan is its parent's row with the surcharge, whoever edits, bulk-edits or
\* undoes.
THEOREM ChildIsDerived == CalSpec => []ChildFollows
  <1>1. CalInv => ChildFollows
    BY DEF CalInv
  <1> QED
    BY <1>1, CalInvariant, PTL

\* CAL-5: an edit replaces only the version of the cell its author had seen.
THEOREM EditReplacesTheSeen == CalSpec => NoSilentOverwrite
  <1>1. CalInv => \A e \in Editors : (editors[e].at = "edit" /\ editors'[e].at = "rest")
                                       => editors[e].seen = rateDay.version
    BY DEF CalInv, SeenIsPast
  <1> QED
    BY <1>1, CalInvariant, PTL DEF NoSilentOverwrite

\* CAL-4: undoing the last operation on the cell gives back what it had replaced.
THEOREM UndoTakesBack == CalSpec => UndoGivesBack
  <1> DEFINE A == \A o \in DOMAIN ops :
                    (/\ ops[o].state = "done" /\ ops'[o].state = "undone"
                     /\ ops[o].version = rateDay.version)
                    => \A f \in EditFields :
                         \/ rateDay'.values[f] = ops[o].over[f]
                         \/ ops[o].kind = "bulk" /\ ops[o].over[f] = Absent
  <1>1. ASSUME CalInv, [CalNext]_calVars PROVE A
    <2> SUFFICES ASSUME NEW o \in DOMAIN ops, ops[o].state = "done",
                        ops'[o].state = "undone", ops[o].version = rateDay.version
                 PROVE  \A f \in EditFields :
                          \/ rateDay'.values[f] = ops[o].over[f]
                          \/ ops[o].kind = "bulk" /\ ops[o].over[f] = Absent
      OBVIOUS
    <2>1. PICK e \in Editors : Writes(e)
      <3>1. ops' # ops
        OBVIOUS
      <3> QED
        BY <1>1, <3>1 DEF CalNext, calVars, Loads, EditReads, BulkReads, UndoReads, opens
    <2>2. /\ ops \in Seq(Operation) /\ Len(ops) \in Nat /\ o \in 1 .. Len(ops)
          /\ editors[e] \in Writing /\ rateDay.version = Len(ops) + 1
          /\ rateDay.values \in [EditFields -> Nat] /\ rateDay.version \in Nat
      BY <1>1, <2>1 DEF CalInv, CalTyped, Writes, Resting
    <2>3. o = Len(ops)
      BY <1>1, <2>2 DEF CalInv, LastIsInvertible
    <2>4. editors[e].of = o
      <3> DEFINE new == [kind |-> editors[e].at, inverse |-> editors[e].inverse,
                         state |-> "done", over |-> rateDay.values,
                         version |-> rateDay.version + 1]
      <3>1. new \in Operation
        BY <2>2 DEF Operation, Writing
      <3>2. ops' = Append([k \in DOMAIN ops |->
                     IF k = editors[e].of THEN [ops[k] EXCEPT !.state = "undone"] ELSE ops[k]],
                   new)
        BY <2>1 DEF Writes
      <3> DEFINE marked == undone(ops, editors[e].of)
      <3>3. ops' = Append(marked, new)
        BY <3>2 DEF undone
      <3>4. /\ marked \in Seq(Operation) /\ Len(marked) = Len(ops)
            /\ o # editors[e].of => marked[o] = ops[o]
        BY <2>2, UndoneTyped
      <3> HIDE DEF new, marked
      <3>5. o # editors[e].of => ops'[o] = ops[o]
        BY <2>2, <3>1, <3>3, <3>4
      <3> QED
        BY <3>5
    <2>5. /\ editors[e].patch = ops[o].inverse
          /\ rateDay'.values = merged(rateDay.values, ops[o].inverse)
      BY <1>1, <2>1, <2>2, <2>4 DEF CalInv, WritesAreInvertible, Writes
    <2>6. inverts(ops[o].kind, ops[o].inverse, ops[o].over, rateDay.values)
      BY <1>1, <2>3 DEF CalInv, LastIsInvertible
    <2> QED
      BY <2>5, <2>6 DEF inverts, merged
  <1> HIDE DEF A
  <1>2. CalSpec => [][A]_calVars
    BY <1>1, CalInvariant, PTL DEF CalSpec
  <1> QED
    BY <1>2 DEF A, UndoGivesBack

-----------------------------------------------------------------------------
(* The batches built from a calendar *)

\* The calendar holds cells, and the batch is the one built from them.
BuiltFrom ==
  /\ cells \in Calendars(BatchValues)
  /\ batch = buildBatch(cells, BatchSize) \/ (cells = <<>> /\ batch = <<>>)

\* A batch is always built from the cells there are.
LEMMA BuiltFromCells == BatchSpec => []BuiltFrom
  <1>1. BatchInit => BuiltFrom
    <2>1. <<>> \in Calendars(BatchValues)
      <3>1. <<>> = [c \in {} |-> 0] /\ {} \in SUBSET (Lanes \X Dates)
        OBVIOUS
      <3>2. [c \in {} |-> 0] \in [{} -> SomeFields(BatchValues)]
        OBVIOUS
      <3> QED
        BY <3>1, <3>2 DEF Calendars
    <2> QED
      BY <2>1 DEF BatchInit, BuiltFrom
  <1>2. BuiltFrom /\ [BatchNext]_batchVars => BuiltFrom'
    <2> SUFFICES ASSUME BuiltFrom, [BatchNext]_batchVars PROVE BuiltFrom'
      OBVIOUS
    <2>1. CASE UNCHANGED batchVars
      BY <2>1 DEF BuiltFrom, batchVars
    <2>2. ASSUME NEW c \in Lanes \X Dates, NEW v \in BatchCells, Add(c, v) PROVE BuiltFrom'
      <3> DEFINE D == DOMAIN cells
                 then == [x \in D \cup {c} |-> IF x = c THEN v ELSE cells[x]]
      <3>1. D \in SUBSET (Lanes \X Dates) /\ cells \in [D -> SomeFields(BatchValues)]
        BY DEF BuiltFrom, Calendars
      <3>2. v \in SomeFields(BatchValues)
        BY DEF BatchCells, SomeFields
      <3> HIDE DEF D
      <3>3. then \in [D \cup {c} -> SomeFields(BatchValues)] /\ D \cup {c} \in SUBSET (Lanes \X Dates)
        BY <3>1, <3>2
      <3> HIDE DEF then
      <3>4. then \in Calendars(BatchValues)
        BY <3>3 DEF Calendars
      <3>5. cells' = then /\ batch' = buildBatch(cells', BatchSize)
        BY <2>2 DEF Add, then, D
      <3> QED
        BY <3>4, <3>5 DEF BuiltFrom
    <2> QED
      BY <2>1, <2>2 DEF BatchNext
  <1> QED
    BY <1>1, <1>2, PTL DEF BatchSpec

\* What the chunks of a batch hold, in order, writes the cells the batch was built from.
LEMMA ChunksWrite ==
  ASSUME BuiltFrom
  PROVE  /\ WritesCells(Entries, BatchValues, cells)
         /\ batch \in Seq(Seq(BatchStrokes(BatchValues)))
         /\ \A k \in DOMAIN batch : Len(batch[k]) \in 1..BatchSize
  <1> DEFINE X == BatchStrokes(BatchValues)
             list == BatchEntries(cells)
  <1>1. CASE batch = buildBatch(cells, BatchSize)
    <2>1. WritesCells(list, BatchValues, cells)
      BY BatchWrites DEF BuiltFrom
    <2>2. list \in Seq(X)
      BY <2>1 DEF WritesCells
    <2>3. batch = chunk(list, BatchSize)
      BY <1>1 DEF buildBatch
    <2> HIDE DEF list, X
    <2>4. /\ batch \in Seq(Seq(X))
          /\ \A k \in DOMAIN batch : Len(batch[k]) \in 1..BatchSize
          /\ FlattenSeq(batch) = list
      BY <2>2, <2>3, Chunked, CallsTakeEntries
    <2> QED
      BY <2>1, <2>4 DEF Entries, X
  <1>2. CASE cells = <<>> /\ batch = <<>>
    <2>1. Entries = <<>> /\ Len(<<>>) = 0 /\ DOMAIN batch = {} /\ DOMAIN cells = {}
      BY <1>2 DEF Entries, FlattenSeq
    <2> HIDE DEF X
    <2>2. <<>> \in Seq(X) /\ <<>> \in Seq(Seq(X))
      OBVIOUS
    <2>3. WritesCells(Entries, BatchValues, cells)
      BY <2>1, <2>2 DEF WritesCells, Hits, Right, X
    <2> QED
      BY <1>2, <2>1, <2>2, <2>3 DEF X
  <1> QED
    BY <1>1, <1>2 DEF BuiltFrom

\* Whatever cells are to be pushed, the chunks built from them, applied in order to an empty
\* calendar, give exactly these cells back (build.ts: the fewest entries that "reproduce
\* cells exactly when applied FIFO to an empty state").
THEOREM BatchesRoundTrip == BatchSpec => []RoundTrip
  <1>1. BuiltFrom => RoundTrip
    <2> SUFFICES ASSUME BuiltFrom PROVE RoundTrip
      OBVIOUS
    <2>1. cells \in Calendars(BatchValues) /\ WritesCells(Entries, BatchValues, cells)
      BY ChunksWrite DEF BuiltFrom
    <2> DEFINE es == Entries
    <2> HIDE DEF es
    <2>2. applyEntries(Blank, es) =
            [c \in DOMAIN Blank |-> IF c \in DOMAIN cells THEN cells[c] ELSE NoValues]
      BY <2>1, WritesApplied DEF es
    <2> QED
      BY <2>2 DEF RoundTrip, es
  <1> QED
    BY <1>1, BuiltFromCells, PTL

\* No chunk is empty or larger than a call takes, and every entry is about a lane, dates and
\* fields there are.
THEOREM ChunksAreWellFormed == BatchSpec => []BatchTypeOK
  <1>1. BuiltFrom => BatchTypeOK
    <2> SUFFICES ASSUME BuiltFrom, NEW k \in DOMAIN batch
                 PROVE  /\ Len(batch[k]) \in 1..BatchSize
                        /\ \A i \in DOMAIN batch[k] :
                             LET e == batch[k][i]
                             IN  /\ e.lane \in Lanes /\ e.from \in Dates /\ e.to \in e.from..LastDate
                                 /\ e.days \subseteq AllDays
                                 /\ e.vals \in BatchCells
      BY DEF BatchTypeOK
    <2> DEFINE Y == Seq(BatchStrokes(BatchValues))
    <2>1. batch \in Seq(Y) /\ Len(batch[k]) \in 1..BatchSize
      BY ChunksWrite
    <2> HIDE DEF Y
    <2>2. batch[k] \in Y
      BY <2>1
    <2>3. ASSUME NEW i \in DOMAIN batch[k]
          PROVE  LET e == batch[k][i]
                 IN  /\ e.lane \in Lanes /\ e.from \in Dates /\ e.to \in e.from..LastDate
                     /\ e.days \subseteq AllDays
                     /\ e.vals \in BatchCells
      <3> DEFINE e == batch[k][i]
                 B == BatchStrokes(BatchValues)
      <3>1. batch[k] \in Seq(B)
        BY <2>2 DEF Y
      <3> HIDE DEF B
      <3>2. e \in B
        BY <3>1
      <3> HIDE DEF e
      <3>3. /\ e.lane \in Lanes /\ e.from \in Dates /\ e.to \in Dates /\ e.from <= e.to
            /\ e.days \subseteq AllDays /\ e.vals \in SomeFields(BatchValues)
        BY <3>2 DEF B, BatchStrokes
      <3>4. e.to \in e.from..LastDate
        BY <3>3, CalendarIsThere DEF Dates
      <3>5. e.vals \in BatchCells
        BY <3>3 DEF SomeFields, BatchCells
      <3> QED
        BY <3>3, <3>4, <3>5 DEF e
    <2> QED
      BY <2>1, <2>3
  <1> QED
    BY <1>1, BuiltFromCells, PTL

-----------------------------------------------------------------------------
(* The components together *)

\* MCHouse runs each component as its own specification says: one of them makes its steps,
\* and the others stay as they begin.
THEOREM HouseRunsEach ==
  HouseSpec => /\ DirectSpec /\ FolioSpec /\ CalSpec /\ OwnerSpec /\ BillingSpec /\ ConsoleSpec
               /\ BatchSpec /\ OpsSpec
  <1>1. HouseInit => /\ DirectInit /\ FolioInit /\ CalInit /\ OwnerInit /\ BillingInit
                     /\ ConsoleInit /\ BatchInit /\ OpsInit
    BY DEF HouseInit
  <1>2. ASSUME [HouseNext]_houseVars
        PROVE  /\ [DirectNext]_directVars /\ [FolioNext]_folioVars /\ [CalNext]_calVars
               /\ [OwnerNext]_ownerVars /\ [BillingNext]_billingVars
               /\ [ConsoleNext]_consoleVars /\ [BatchNext]_batchVars /\ [OpsNext]_opsVars
    BY <1>2 DEF HouseNext, houseVars
  <1> QED
    BY <1>1, <1>2, PTL DEF HouseSpec, DirectSpec, FolioSpec, CalSpec, OwnerSpec, BillingSpec,
       ConsoleSpec, BatchSpec, OpsSpec

\* HouseTypeOK holds of every behaviour of the components together: their types, derived
\* plans that follow their parents, invoice numbers without gaps, an audit log that is a
\* chain, and departures that have their task.
THEOREM HouseTypeCorrect == HouseSpec => []HouseTypeOK
  <1>1. /\ DirectTypeOK /\ FolioTypeOK /\ CalTypeOK /\ OwnerTypeOK /\ BillingTypeOK
        /\ ConsoleTypeOK /\ BatchTypeOK /\ OpsTypeOK
        /\ ChildFollows /\ InvoicesGapless /\ EntryIsNext /\ DeparturesAreTasked
        => HouseTypeOK
    BY DEF HouseTypeOK
  <1> QED
    BY <1>1, HouseRunsEach, DirectTypeCorrect, FolioTypeCorrect, CalTypeCorrect,
       OwnerTypeCorrect, BillingTypeCorrect, ConsoleTypeCorrect, ChunksAreWellFormed,
       OpsTypeCorrect, ChildIsDerived, NumbersAreGapless, AuditChainIsWhole,
       DeparturesHaveTasks, PTL
=============================================================================
