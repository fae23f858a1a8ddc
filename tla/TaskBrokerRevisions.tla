------------------------- MODULE TaskBrokerRevisions -------------------------
(* RevisionsIncrease for every value of the constants, as long as no client  *)
(* calls classifyTask, the one handler that commits without the task's lock, *)
(* and none addresses a task before createTask has returned it.              *)
EXTENDS TaskBrokerProofs

Serialized == (\A c \in Calls : c.kind # "classify") /\ ~EarlyReads

\* A create in flight is alone on its task, at revision 0; every other command
\* found a task that has a revision.
CallsInv == \A r \in Requests :
  /\ pc[r] # "idle" => op[r].kind # "classify"
  /\ pc[r] \notin Ended /\ op[r].kind # "create" => task[T(r)].rev > 0
  /\ pc[r] \notin Ended /\ op[r].kind = "create" =>
       /\ Committing(r)
       /\ task[T(r)].rev = 0 /\ task[T(r)].status # "absent" /\ pend[r].type = "task.created"
       /\ \A x \in Requests : Committing(x) /\ op[x].kind = "create" /\ T(x) = T(r) => x = r

\* The event being appended carries the next revision of its task.
PendInv == \A r \in Requests :
  /\ Committing(r) => /\ pend[r].rev = task[T(r)].rev + 1
                      /\ pend[r].type = "task.created" => op[r].kind = "create"
  /\ pc[r] = "appended" => durable.task[T(r)].status # "absent"

\* No event is ahead of its task, in memory or after a replay, but for the one
\* whose append has not resumed.
LedgerInv == \A i \in DOMAIN ledger :
  LET e == ledger[i] IN
  /\ e.rev > 0
  /\ e.rev <= durable.task[e.task].rev
  /\ \/ e.rev <= task[e.task].rev
     \/ \E r \in Requests : pc[r] = "appended" /\ T(r) = e.task /\ e.rev <= pend[r].rev

\* A task without events has revision 0, in memory and in the replay.
TaskInv == \A t \in Tasks :
  /\ task[t].status = "absent" => task[t].rev = 0
  /\ durable.task[t].status = "absent" => durable.task[t].rev = 0
  /\ task[t].rev > 0 => durable.task[t].status # "absent"

RevInv == SafeInv /\ CallsInv /\ PendInv /\ LedgerInv /\ TaskInv /\ RevisionsIncrease

-----------------------------------------------------------------------------
LEMMA EventType ==
  ASSUME SafeInv, NEW i \in DOMAIN ledger
  PROVE  ledger[i] \in Event
BY ElementOfSeq, LenProperties DEF SafeInv, TypeOK, LogOK

\* Two calls that append events of one task are the same call.
LEMMA OneCommit ==
  ASSUME RevInv, NEW r \in Requests, NEW x \in Requests,
         Committing(r), Committing(x), T(r) = T(x)
  PROVE  r = x
<1>1. pc[r] \notin Ended /\ pc[x] \notin Ended /\ Inside(r) /\ Inside(x)
  BY DEF Committing, Ended, Inside
<1>2. CASE op[r].kind = "create" /\ op[x].kind = "create"
  BY <1>1, <1>2 DEF RevInv, CallsInv
<1>3. CASE op[r].kind # "create" /\ op[x].kind # "create"
  <2>1. Locked(r) /\ Locked(x)
    BY <1>1, <1>3 DEF RevInv, CallsInv, Locked, Ended
  <2> QED BY <1>1, <2>1 DEF RevInv, SafeInv, LockOK, HasLock, Holds
<1>4. CASE (op[r].kind = "create") # (op[x].kind = "create")
  <2>1. task[T(r)].rev = 0 /\ task[T(r)].rev > 0
    BY <1>1, <1>4 DEF RevInv, CallsInv
  <2> QED BY <2>1
<1> QED BY <1>2, <1>3, <1>4

\* Most handler steps leave the ledger and the revisions alone; the request that
\* moves may start the append of the next revision.
KeepsRevisions(f) ==
  \A t \in Tasks : /\ f[t].rev = task[t].rev
                   /\ f[t].status = "absent" => task[t].status = "absent"
Moves(r) ==
  /\ op' = op /\ UNCHANGED log
  /\ KeepsRevisions(task')
  /\ \A x \in Requests \ {r} : pc'[x] = pc[x] /\ pend'[x] = pend[x]
  /\ pc[r] \notin Ended /\ pc[r] # "appended"
  /\ \/ pc'[r] \in Ended
     \/ /\ pc'[r] \notin Ended \cup {"appending", "appended"}
        /\ op[r].kind # "create"
     \/ /\ pc'[r] = "appending" /\ op[r].kind # "create"
        /\ pend'[r].rev = task[T(r)].rev + 1 /\ pend'[r].type # "task.created"

LEMMA MovesStep ==
  ASSUME RevInv, SafeInv', NEW r \in Requests, Moves(r)
  PROVE  RevInv'
<1>1. \A x \in Requests : T(x)' = T(x) /\ (pc[x] # "idle" => T(x) \in Tasks)
  BY DEF Moves, T, RevInv, SafeInv, TypeOK, RequestsOK, Arguments
<1>2. CallsInv'
  BY <1>1 DEF RevInv, CallsInv, Moves, KeepsRevisions, Ended, Committing
<1>3. PendInv'
  BY <1>1 DEF RevInv, PendInv, Moves, KeepsRevisions, Ended, Committing, log
<1>4. LedgerInv'
  <2> SUFFICES ASSUME NEW i \in DOMAIN ledger
               PROVE  LET e == ledger[i] IN
                      /\ e.rev > 0
                      /\ e.rev <= durable.task[e.task].rev
                      /\ \/ e.rev <= task'[e.task].rev
                         \/ \E x \in Requests : pc'[x] = "appended" /\ T(x)' = e.task /\ e.rev <= pend'[x].rev
    BY DEF LedgerInv, Moves, log
  <2>1. ledger[i].task \in Tasks
    BY EventType DEF RevInv, Event
  <2> QED BY <1>1, <2>1 DEF RevInv, LedgerInv, Moves, KeepsRevisions, Ended
<1>5. TaskInv'
  BY DEF RevInv, TaskInv, Moves, KeepsRevisions, log
<1>6. RevisionsIncrease'
  BY DEF RevInv, RevisionsIncrease, Events, Moves, log
<1> QED BY <1>2, <1>3, <1>4, <1>5, <1>6 DEF RevInv

-----------------------------------------------------------------------------
(* Each of those steps is a Moves step                                       *)

\* A handler answers, hands over to the adapter, or starts an append.
LEMMA MovesHow ==
  ASSUME SafeInv, op' = op, UNCHANGED log, KeepsRevisions(task'), NEW r \in Requests,
         pc[r] \notin Ended, pc[r] # "appended",
         \/ \E how \in Ended : Answer(r, how)
         \/ op[r].kind # "create" /\ \E type \in Types \ {"task.created"} : \E key :
              StartCommit(r, type, key) \/ CheckedCommit(r, type, key)
  PROVE  Moves(r)
<1>1. pc \in [Requests -> PCs] /\ pend \in [Requests -> Event \cup {None}]
  BY DEF SafeInv, TypeOK, RequestsOK
<1>2. CASE \E how \in Ended : Answer(r, how)
  BY <1>1, <1>2 DEF Answer, Moves
<1>3. ASSUME op[r].kind # "create", NEW type \in Types \ {"task.created"}, NEW key,
             StartCommit(r, type, key)
      PROVE  Moves(r)
  <2>1. /\ EventOf(r, type, key, task[T(r)].rev + 1).rev = task[T(r)].rev + 1
        /\ EventOf(r, type, key, task[T(r)].rev + 1).type # "task.created"
    BY DEF EventOf
  <2> QED BY <1>1, <1>3, <2>1 DEF StartCommit, Moves
<1>4. ASSUME op[r].kind # "create", NEW type \in Types \ {"task.created"}, NEW key,
             CheckedCommit(r, type, key)
      PROVE  Moves(r)
  <2>1. CASE StartCommit(r, type, key)
    BY <1>3, <1>4, <2>1
  <2>2. CASE Answer(r, "error")
    BY <1>2, <2>2 DEF Ended
  <2> QED BY <1>4, <2>1, <2>2 DEF CheckedCommit
<1> QED BY <1>2, <1>3, <1>4

LEMMA LockedMoves ==
  ASSUME SafeInv, NEW r \in Requests,
         \/ Delegate(r) \/ Evaluate(r) \/ Record(r) \/ RequestApproval(r) \/ Approve(r) \/ Reject(r)
         \/ Cancel(r) \/ Merge(r) \/ FinishDelegation(r) \/ FailDelegation(r)
  PROVE  Moves(r)
<1>1. /\ op' = op /\ UNCHANGED log /\ T(r) \in Tasks
      /\ pc[r] \in {"queued", "answered", "failed", "lateFailed"}
      /\ op[r].kind # "create" /\ pc \in [Requests -> PCs]
  <2>1. pc[r] \in {"queued", "answered", "failed", "lateFailed"}
    BY DEF Delegate, Evaluate, Record, RequestApproval, Approve, Reject, Cancel, Merge,
           FinishDelegation, FailDelegation, UnderLock
  <2>2. op[r].kind # "create"
    BY <2>1 DEF SafeInv, CallOK, Locked
  <2>3. op' = op /\ UNCHANGED log
    BY DEF Delegate, Evaluate, Record, RequestApproval, Approve, Reject, Cancel, Merge,
           FinishDelegation, FailDelegation, UnderLock
  <2> QED BY <2>1, <2>2, <2>3 DEF SafeInv, TypeOK, RequestsOK, T, Arguments
<1>2. KeepsRevisions(task')
  <2>1. CASE task' = task
    BY <2>1 DEF KeepsRevisions
  <2>2. CASE \E s \in {"running", "awaiting_approval", "cancelled", "failed"} :
               task' = [task EXCEPT ![T(r)].status = s]
    BY <1>1, <2>2 DEF KeepsRevisions, SafeInv, TypeOK, MemoryOK, Envelope
  <2>3. CASE \E q : task' = [task EXCEPT ![T(r)] = [@ EXCEPT !.status = "running", !.parts = q]]
    BY <1>1, <2>3 DEF KeepsRevisions, SafeInv, TypeOK, MemoryOK, Envelope
  <2> QED BY <2>1, <2>2, <2>3 DEF Delegate, Evaluate, Record, RequestApproval, Approve, Reject, Cancel,
                Merge, FinishDelegation, FailDelegation, Ends, memory
<1>3. \/ \E how \in Ended : Answer(r, how)
      \/ \E type \in Types \ {"task.created"} : \E key : StartCommit(r, type, key)
      \/ /\ UNCHANGED pend
         /\ \E to \in {"listing", "workspace", "merging"} : pc' = [pc EXCEPT ![r] = to]
  BY DEF Delegate, Evaluate, Record, RequestApproval, Approve, Reject, Cancel, Merge,
         FinishDelegation, FailDelegation, Ends, Ended, Types
<1>4. CASE /\ UNCHANGED pend
           /\ \E to \in {"listing", "workspace", "merging"} : pc' = [pc EXCEPT ![r] = to]
  BY <1>1, <1>2, <1>4 DEF Moves, Ended
<1> QED BY <1>1, <1>2, <1>3, <1>4, MovesHow DEF Ended

LEMMA AwaitedMoves ==
  ASSUME SafeInv, NEW r \in Requests,
         \/ MergeTurn(r) \/ AdapterEnds(r) \/ WorkspaceReady(r) \/ WorkspaceFails(r)
         \/ ProposalsListed(r) \/ MergeSucceeds(r) \/ MergeConflicts(r) \/ LedgerFails(r)
  PROVE  Moves(r)
<1>1. /\ op' = op /\ UNCHANGED log /\ T(r) \in Tasks
      /\ pc[r] \in {"mergeQueued", "submitted", "listing", "workspace", "merging", "appending"}
      /\ pc \in [Requests -> PCs]
  <2>1. pc[r] \in {"mergeQueued", "submitted", "listing", "workspace", "merging", "appending"}
    BY DEF MergeTurn, AdapterEnds, ProposalsListed, WorkspaceReady, WorkspaceFails, MergeSucceeds,
           MergeConflicts, LedgerFails
  <2>2. op' = op /\ UNCHANGED log
    BY DEF MergeTurn, AdapterEnds, ProposalsListed, WorkspaceReady, WorkspaceFails, MergeSucceeds,
           MergeConflicts, LedgerFails
  <2> QED BY <2>1, <2>2 DEF SafeInv, TypeOK, RequestsOK, T, Arguments
<1>2. KeepsRevisions(task')
  <2>1. CASE task' = task
    BY <2>1 DEF KeepsRevisions
  <2>2. CASE \E n : task' = [task EXCEPT ![T(r)].spaces = n]
    BY <1>1, <2>2 DEF KeepsRevisions, SafeInv, TypeOK, MemoryOK, Envelope
  <2>3. CASE task' = [task EXCEPT ![T(r)].status = "awaiting_approval"]
    BY <1>1, <2>3 DEF KeepsRevisions, SafeInv, TypeOK, MemoryOK, Envelope
  <2>4. CASE task' = [task EXCEPT ![T(r)] = [@ EXCEPT !.status = "completed", !.spaces = 0]]
    BY <1>1, <2>4 DEF KeepsRevisions, SafeInv, TypeOK, MemoryOK, Envelope
  <2> QED BY <2>1, <2>2, <2>3, <2>4 DEF MergeTurn, AdapterEnds, ProposalsListed, WorkspaceReady,
                WorkspaceFails, MergeSucceeds, MergeConflicts, LedgerFails, memory
<1>3. CASE MergeTurn(r) \/ AdapterEnds(r)
  <2>1. op[r].kind # "create"
    BY <1>3 DEF MergeTurn, AdapterEnds, SafeInv, CallOK
  <2> QED BY <1>1, <1>2, <1>3, <2>1 DEF MergeTurn, AdapterEnds, Moves, Ended
<1>4. CASE \/ ProposalsListed(r) \/ WorkspaceReady(r) \/ WorkspaceFails(r)
           \/ MergeSucceeds(r) \/ MergeConflicts(r)
  <2>1. op[r].kind # "create"
    BY <1>4 DEF ProposalsListed, WorkspaceReady, WorkspaceFails, MergeSucceeds, MergeConflicts, SafeInv, CallOK
  <2>2. \/ \E how \in Ended : Answer(r, how)
        \/ \E type \in Types \ {"task.created"} : \E key :
              StartCommit(r, type, key) \/ CheckedCommit(r, type, key)
    BY <1>4 DEF ProposalsListed, WorkspaceReady, WorkspaceFails, MergeSucceeds, MergeConflicts, Ended, Types
  <2> QED BY <1>1, <1>2, <2>1, <2>2, MovesHow DEF Ended
<1>5. CASE LedgerFails(r)
  <2>1. CASE Answer(r, "error")
    BY <1>1, <1>2, <2>1, MovesHow DEF Ended
  <2>2. CASE /\ pend[r].type \in {"task.proposal", "task.completed"}
             /\ pc' = [pc EXCEPT ![r] = "lateFailed"] /\ pend' = [pend EXCEPT ![r] = None]
    <3>1. op[r].kind # "create"
      BY <1>5, <2>2 DEF LedgerFails, SafeInv, CallOK, Committing, Delegating
    <3>2. pend \in [Requests -> Event \cup {None}]
      BY DEF SafeInv, TypeOK, RequestsOK
    <3> QED BY <1>1, <1>2, <1>5, <2>2, <3>1, <3>2 DEF Moves, LedgerFails, Ended
  <2> QED BY <1>5, <2>1, <2>2 DEF LedgerFails
<1> QED BY <1>3, <1>4, <1>5

-----------------------------------------------------------------------------
(* The append, and the commits that resume after it                          *)

\* Replaying an event of a known task raises the task's revision to the event's.
LEMMA ReplayRevision ==
  ASSUME NEW m \in Maps, NEW e \in Event,
         e.type = "task.created" \/ m.task[e.task].status # "absent"
  PROVE  LET n == ReplayEvent(m, e) IN
         /\ n.task[e.task].status # "absent"
         /\ n.task[e.task].rev >= e.rev
         /\ e.type # "task.created" => n.task[e.task].rev >= m.task[e.task].rev
         /\ \A u \in Tasks \ {e.task} : n.task[u] = m.task[u]
<1> DEFINE before == IF e.type = "task.created" THEN Fresh ELSE m.task[e.task]
           k == ReplayedEnvelope(before, e)
<1>1. e.task \in Tasks /\ e.rev \in Nat /\ m.task \in [Tasks -> Envelope]
  BY DEF Event, Maps
<1>2. Fresh = [status |-> "created", rev |-> 0, parts |-> {}, spaces |-> 0, label |-> None]
  BY DEF Fresh, Absent
<1>3. before.status # "absent" /\ before.rev \in Nat
  BY <1>1, <1>2 DEF Envelope
<1>4. k.status # "absent" /\ k.rev >= e.rev /\ k.rev >= before.rev
  <2> HIDE DEF before
  <2> QED BY <1>1, <1>3 DEF ReplayedEnvelope, StatusAfter
<1>5. ReplayEvent(m, e).task = [m.task EXCEPT ![e.task] = k]
  BY <1>3 DEF ReplayEvent
<1> HIDE DEF k
<1> QED BY <1>1, <1>4, <1>5

LEMMA AppendsRevision ==
  ASSUME RevInv, SafeInv', NEW r \in Requests, LedgerAppends(r)
  PROVE  RevInv'
<1> DEFINE e == pend[r]
           t == T(r)
<1>1. /\ pc[r] = "appending" /\ Committing(r) /\ Inside(r) /\ e \in Event /\ e.task = t /\ t \in Tasks
      /\ pc[r] \notin Ended
  BY DEF LedgerAppends, Committing, Inside, RevInv, SafeInv, TypeOK, RequestsOK, CallOK, Event, Ended
<1>2. /\ op' = op /\ pend' = pend /\ task' = task /\ pc' = [pc EXCEPT ![r] = "appended"]
      /\ pc \in [Requests -> PCs] /\ pend \in [Requests -> Event \cup {None}]
      /\ \A x \in Requests : T(x)' = T(x) /\ Committing(x)' = Committing(x)
  BY DEF LedgerAppends, requests, memory, T, Committing, RevInv, SafeInv, TypeOK, RequestsOK
<1>3. \A x \in Requests : pc[x] = "appended" => T(x) # t
  BY <1>1, OneCommit DEF Committing
<1>4. e.rev = task[t].rev + 1 /\ task[t].rev \in Nat
  BY <1>1 DEF RevInv, PendInv, SafeInv, TypeOK, MemoryOK, Envelope
<1>5. \A i \in DOMAIN ledger : ledger[i].task = t => /\ ledger[i].rev \in Nat /\ ledger[i].rev > 0
                                                           /\ ledger[i].rev <= task[t].rev
                                                           /\ ledger[i].rev < e.rev
  <2> TAKE i \in DOMAIN ledger
  <2>1. ledger[i].rev \in Nat
    BY EventType DEF RevInv, Event
  <2> QED BY <1>3, <1>4, <2>1 DEF RevInv, LedgerInv
<1>6. e.type = "task.created" => \A i \in DOMAIN ledger : ledger[i].task # t
  <2>1. e.type = "task.created" => task[t].rev = 0
    BY <1>1 DEF RevInv, PendInv, CallsInv
  <2> QED BY <1>4, <1>5, <2>1
<1>7. e.type = "task.created" \/ durable.task[t].status # "absent"
  <2>1. CASE op[r].kind = "create"
    BY <1>1, <2>1 DEF RevInv, CallsInv
  <2>2. CASE op[r].kind # "create"
    BY <1>1, <2>2 DEF RevInv, CallsInv, TaskInv
  <2> QED BY <2>1, <2>2
<1>8. /\ durable \in Maps /\ durable' = ReplayEvent(durable, e)
      /\ durable'.task[t].status # "absent" /\ durable'.task[t].rev >= e.rev
      /\ e.type # "task.created" => durable'.task[t].rev >= durable.task[t].rev
      /\ \A u \in Tasks \ {t} : durable'.task[u] = durable.task[u]
  <2>1. durable \in Maps /\ durable' = ReplayEvent(durable, e)
    BY DEF LedgerAppends, RevInv, SafeInv, TypeOK, LogOK
  <2> HIDE DEF e, t
  <2> QED BY <1>1, <1>7, <2>1, ReplayRevision
<1>9. /\ ledger' = Append(ledger, e) /\ DOMAIN ledger' = 1 .. Len(ledger) + 1
      /\ DOMAIN ledger = 1 .. Len(ledger) /\ Len(ledger) \in Nat
      /\ ledger'[Len(ledger) + 1] = e
      /\ \A i \in DOMAIN ledger : ledger'[i] = ledger[i]
  <2>1. ledger \in Seq(Event) /\ ledger' = Append(ledger, e)
    BY DEF LedgerAppends, RevInv, SafeInv, TypeOK, LogOK
  <2> HIDE DEF e
  <2> QED BY <1>1, <2>1, AppendProperties, LenProperties
<1> HIDE DEF e, t
<1>10. CallsInv'
  BY <1>1, <1>2 DEF RevInv, CallsInv, Ended
<1>11. PendInv'
  <2> SUFFICES ASSUME NEW x \in Requests
               PROVE  /\ Committing(x) => /\ pend[x].rev = task[T(x)].rev + 1
                                          /\ pend[x].type = "task.created" => op[x].kind = "create"
                      /\ pc'[x] = "appended" => durable'.task[T(x)].status # "absent"
    BY <1>2 DEF PendInv
  <2>1. pc'[x] = "appended" => T(x) \in Tasks /\ (x = r \/ (x # r /\ pc[x] = "appended" /\ T(x) # t))
    BY <1>1, <1>2, <1>3 DEF RevInv, SafeInv, TypeOK, RequestsOK, T, Arguments, t
  <2> QED BY <1>8, <2>1 DEF RevInv, PendInv, t
<1>12. LedgerInv'
  <2> SUFFICES ASSUME NEW i \in DOMAIN ledger'
               PROVE  LET d == ledger'[i] IN
                      /\ d.rev > 0
                      /\ d.rev <= durable'.task[d.task].rev
                      /\ \/ d.rev <= task[d.task].rev
                         \/ \E x \in Requests : pc'[x] = "appended" /\ T(x) = d.task /\ d.rev <= pend[x].rev
    BY <1>2 DEF LedgerInv
  <2>1. CASE i = Len(ledger) + 1
    <3>1. e.rev > 0 /\ e.rev <= durable'.task[t].rev /\ e.rev <= pend[r].rev /\ pc'[r] = "appended"
      <4>1. e.rev \in Nat /\ durable'.task[t].rev \in Nat
        BY <1>1 DEF SafeInv, TypeOK, LogOK, Maps, Envelope, Event
      <4> QED BY <1>2, <1>4, <1>8, <4>1 DEF e
    <3> QED BY <1>1, <1>9, <2>1, <3>1 DEF t
  <2>2. CASE i \in DOMAIN ledger
    <3>1. ledger'[i] = ledger[i] /\ ledger[i] \in Event /\ ledger[i].task \in Tasks /\ ledger[i].rev \in Nat
      BY <1>9, <2>2, EventType DEF RevInv, Event
    <3>2. ledger[i].rev <= durable'.task[ledger[i].task].rev
      <4>1. /\ ledger[i].rev <= durable.task[ledger[i].task].rev
            /\ durable.task[ledger[i].task].rev \in Nat /\ durable'.task[ledger[i].task].rev \in Nat
        BY <2>2, <3>1 DEF RevInv, LedgerInv, SafeInv, TypeOK, LogOK, Maps, Envelope
      <4>2. CASE ledger[i].task = t
        <5>1. e.type # "task.created"
          BY <1>6, <2>2, <4>2
        <5>2. durable'.task[t].rev >= durable.task[t].rev
          BY <1>8, <5>1
        <5> QED BY <3>1, <4>1, <4>2, <5>2
      <4>3. CASE ledger[i].task # t
        BY <1>8, <3>1, <4>1, <4>3
      <4> QED BY <4>2, <4>3
    <3>3. \A x \in Requests : pc[x] = "appended" => pc'[x] = "appended"
      BY <1>2
    <3> QED BY <2>2, <3>1, <3>2, <3>3 DEF RevInv, LedgerInv
  <2> QED BY <1>9, <2>1, <2>2
<1>13. TaskInv'
  BY <1>2, <1>8 DEF RevInv, TaskInv
<1>14. RevisionsIncrease'
  <2> SUFFICES ASSUME NEW i \in DOMAIN ledger', NEW j \in DOMAIN ledger', i < j,
                      ledger'[i].task = ledger'[j].task
               PROVE  ledger'[i].rev < ledger'[j].rev
    BY DEF RevisionsIncrease, Events
  <2>1. i \in DOMAIN ledger
    BY <1>9
  <2>2. CASE j \in DOMAIN ledger
    BY <1>9, <2>1, <2>2 DEF RevInv, RevisionsIncrease, Events
  <2>3. CASE j = Len(ledger) + 1
    BY <1>1, <1>5, <1>9, <2>1, <2>3
  <2> QED BY <1>9, <2>2, <2>3
<1> QED BY <1>10, <1>11, <1>12, <1>13, <1>14 DEF RevInv

\* commit resumes: the task reaches the revision of the event, and a completing
\* proposal starts the next append.
Resumes(r) ==
  LET e == pend[r] IN
  /\ op' = op /\ UNCHANGED log /\ pc[r] = "appended"
  /\ \A t \in Tasks \ {T(r)} : task'[t] = task[t]
  /\ task'[T(r)].rev = e.rev
  /\ task'[T(r)].status = "absent" => task[T(r)].status = "absent"
  /\ \A x \in Requests \ {r} : pc'[x] = pc[x] /\ pend'[x] = pend[x]
  /\ \/ pc'[r] \in Ended
     \/ pc'[r] = "submitted" /\ op[r].kind # "create"
     \/ /\ pc'[r] = "appending" /\ op[r].kind # "create"
        /\ pend'[r].rev = e.rev + 1 /\ pend'[r].type # "task.created"

LEMMA ResumesHow ==
  ASSUME RevInv, NEW r \in Requests,
         CommitReturns(r) \/ DelegationStarts(r) \/ ProposalRecorded(r)
  PROVE  Resumes(r)
<1> DEFINE e == pend[r]
           n == EventOf(r, "task.completed", None, e.rev + 1)
<1>1. /\ op' = op /\ UNCHANGED log /\ pc[r] = "appended" /\ e.task = T(r) /\ T(r) \in Tasks
      /\ pc \in [Requests -> PCs] /\ pend \in [Requests -> Event \cup {None}]
      /\ task \in [Tasks -> Envelope]
  <2>1. op' = op /\ UNCHANGED log /\ pc[r] = "appended"
    BY DEF CommitReturns, DelegationStarts, ProposalRecorded, Acknowledge
  <2> QED BY <2>1 DEF RevInv, SafeInv, CallOK, Committing, TypeOK, RequestsOK, MemoryOK, T,
                      Arguments, Ended
<1>2. e.type \in Delegating => op[r].kind # "create"
  BY <1>1 DEF RevInv, SafeInv, CallOK, Committing
<1>3. /\ \A t \in Tasks \ {T(r)} : task'[t] = task[t]
      /\ task'[T(r)].rev = e.rev
      /\ task'[T(r)].status = "absent" => task[T(r)].status = "absent"
  <2>1. CASE task' = [task EXCEPT ![e.task].rev = e.rev]
    BY <1>1, <2>1 DEF Envelope
  <2>2. CASE task' = [task EXCEPT ![e.task] = [@ EXCEPT !.rev = e.rev, !.status = "completed"]]
    BY <1>1, <2>2 DEF Envelope
  <2> QED BY <2>1, <2>2 DEF CommitReturns, DelegationStarts, ProposalRecorded
<1>4. n.rev = e.rev + 1 /\ n.type = "task.completed"
  BY DEF EventOf
<1>5. CASE CommitReturns(r) \/ DelegationStarts(r)
  BY <1>1, <1>2, <1>3, <1>5 DEF CommitReturns, DelegationStarts, Answer, Resumes, Ended, Delegating
<1>6. CASE ProposalRecorded(r)
  <2>1. op[r].kind # "create"
    BY <1>2, <1>6 DEF ProposalRecorded, Delegating
  <2>2. CASE Answer(r, "done")
    BY <1>1, <1>3, <2>2 DEF Answer, Resumes, Ended
  <2>3. CASE pend' = [pend EXCEPT ![r] = n] /\ pc' = [pc EXCEPT ![r] = "appending"]
    <3> HIDE DEF n
    <3> QED BY <1>1, <1>3, <1>4, <2>1, <2>3 DEF Resumes
  <2> QED BY <1>6, <2>2, <2>3 DEF ProposalRecorded
<1> QED BY <1>5, <1>6

LEMMA ResumesStep ==
  ASSUME RevInv, SafeInv', NEW r \in Requests, Resumes(r)
  PROVE  RevInv'
<1>1. /\ pc[r] = "appended" /\ Committing(r) /\ pc[r] \notin Ended
      /\ \A x \in Requests : T(x)' = T(x) /\ (pc[x] # "idle" => T(x) \in Tasks)
  BY DEF Resumes, Committing, T, Ended, RevInv, SafeInv, TypeOK, RequestsOK, Arguments
<1>2. /\ pend[r].rev = task[T(r)].rev + 1 /\ task[T(r)].rev \in Nat
      /\ task'[T(r)].rev = task[T(r)].rev + 1
  BY <1>1 DEF RevInv, PendInv, SafeInv, TypeOK, MemoryOK, Envelope, Resumes
<1>3. \A x \in Requests \ {r} : Committing(x) => T(x) # T(r)
  BY <1>1, OneCommit
<1>4. CallsInv'
  BY <1>1, <1>2, <1>3 DEF RevInv, CallsInv, Resumes, Ended, Committing
<1>5. PendInv'
  <2>1. ASSUME NEW x \in Requests \ {r}, Committing(x)
        PROVE  task'[T(x)] = task[T(x)] /\ pend'[x] = pend[x]
    BY <1>1, <1>3, <2>1 DEF Resumes, Committing
  <2>2. ASSUME NEW x \in Requests \ {r}
        PROVE  pc'[x] = pc[x] /\ durable' = durable /\ op' = op /\ T(x)' = T(x)
    BY <1>1 DEF Resumes, log
  <2>3. ASSUME Committing(r)'
        PROVE /\ pend'[r].rev = task'[T(r)].rev + 1 /\ pend'[r].type # "task.created"
              /\ pc'[r] # "appended"
    BY <2>3 DEF Resumes, Committing, Ended
  <2>4. pc'[r] # "appended"
    BY DEF Resumes, Ended
  <2> SUFFICES ASSUME NEW x \in Requests
               PROVE  /\ Committing(x)' => /\ pend'[x].rev = task'[T(x)].rev + 1
                                           /\ pend'[x].type = "task.created" => op'[x].kind = "create"
                      /\ pc'[x] = "appended" => durable'.task[T(x)].status # "absent"
    BY <1>1 DEF PendInv
  <2>5. CASE x = r
    BY <2>3, <2>4, <2>5
  <2>6. CASE x # r
    <3>1. Committing(x)' = Committing(x)
      BY <2>2, <2>6 DEF Committing
    <3> QED BY <2>1, <2>2, <2>6, <3>1 DEF RevInv, PendInv
  <2> QED BY <2>5, <2>6
<1>6. LedgerInv'
  <2> SUFFICES ASSUME NEW i \in DOMAIN ledger
               PROVE  LET e == ledger[i] IN
                      /\ e.rev > 0
                      /\ e.rev <= durable.task[e.task].rev
                      /\ \/ e.rev <= task'[e.task].rev
                         \/ \E x \in Requests : pc'[x] = "appended" /\ T(x)' = e.task /\ e.rev <= pend'[x].rev
    BY DEF LedgerInv, Resumes, log
  <2>1. ledger[i].task \in Tasks /\ ledger[i].rev \in Nat
    BY EventType DEF RevInv, Event
  <2>2. CASE ledger[i].task = T(r)
    <3>1. \A x \in Requests : pc[x] = "appended" /\ T(x) = T(r) => x = r
      BY <1>3 DEF Committing
    <3>2. ledger[i].rev <= task'[T(r)].rev
      BY <1>2, <2>1, <2>2, <3>1 DEF RevInv, LedgerInv
    <3> QED BY <2>2, <3>2 DEF RevInv, LedgerInv
  <2>3. CASE ledger[i].task # T(r)
    BY <1>1, <2>1, <2>3 DEF RevInv, LedgerInv, Resumes
  <2> QED BY <2>2, <2>3
<1>7. TaskInv'
  <2>1. durable.task[T(r)].status # "absent" /\ durable' = durable
    BY <1>1 DEF RevInv, PendInv, Resumes, log
  <2>2. task[T(r)].status # "absent"
    <3>1. CASE op[r].kind = "create"
      BY <1>1, <3>1 DEF RevInv, CallsInv
    <3>2. CASE op[r].kind # "create"
      <4>1. task[T(r)].rev > 0 /\ T(r) \in Tasks
        BY <1>1, <3>2 DEF RevInv, CallsInv, Ended
      <4> QED BY <4>1 DEF RevInv, TaskInv
    <3> QED BY <3>1, <3>2
  <2> SUFFICES ASSUME NEW t \in Tasks
               PROVE  /\ task'[t].status = "absent" => task'[t].rev = 0
                      /\ durable.task[t].status = "absent" => durable.task[t].rev = 0
                      /\ task'[t].rev > 0 => durable.task[t].status # "absent"
    BY <2>1 DEF TaskInv
  <2>3. CASE t = T(r)
    BY <2>1, <2>2, <2>3 DEF Resumes
  <2>4. CASE t # T(r)
    BY <2>4 DEF RevInv, TaskInv, Resumes
  <2> QED BY <2>3, <2>4
<1>8. RevisionsIncrease'
  BY DEF RevInv, RevisionsIncrease, Events, Resumes, log
<1> QED BY <1>4, <1>5, <1>6, <1>7, <1>8 DEF RevInv

-----------------------------------------------------------------------------
(* Calls                                                                     *)

\* A call that starts no append: it ends at once or waits, on a task it found
\* with a revision.
Joins(r) ==
  /\ task' = task /\ UNCHANGED log
  /\ \A x \in Requests \ {r} : op'[x] = op[x] /\ pc'[x] = pc[x] /\ pend'[x] = pend[x]
  /\ pc[r] = "idle" /\ op'[r].kind # "classify" /\ pc'[r] \notin {"appending", "appended"}
  /\ \/ pc'[r] \in Ended
     \/ op'[r].kind # "create" /\ task[op'[r].task].rev > 0

LEMMA JoinsStep ==
  ASSUME RevInv, SafeInv', NEW r \in Requests, Joins(r)
  PROVE  RevInv'
<1>1. /\ \A x \in Requests \ {r} : /\ T(x)' = T(x) /\ Committing(x)' = Committing(x)
                                   /\ op'[x] = op[x] /\ pc'[x] = pc[x] /\ pend'[x] = pend[x]
      /\ ~Committing(r)' /\ ~Committing(r) /\ T(r)' = op'[r].task
      /\ task' = task /\ UNCHANGED <<ledger, durable>>
  BY DEF Joins, T, Committing, log
<1>2. CallsInv'
  BY <1>1 DEF RevInv, CallsInv, Joins
<1>3. PendInv'
  <2> SUFFICES ASSUME NEW x \in Requests
               PROVE  /\ Committing(x)' => /\ pend'[x].rev = task[T(x)'].rev + 1
                                           /\ pend'[x].type = "task.created" => op'[x].kind = "create"
                      /\ pc'[x] = "appended" => durable.task[T(x)'].status # "absent"
    BY <1>1 DEF PendInv
  <2>1. CASE x = r
    BY <1>1, <2>1 DEF Committing
  <2>2. CASE x # r
    BY <1>1, <2>2 DEF RevInv, PendInv
  <2> QED BY <2>1, <2>2
<1>4. LedgerInv'
  <2> SUFFICES ASSUME NEW i \in DOMAIN ledger
               PROVE  LET e == ledger[i] IN
                      /\ e.rev > 0
                      /\ e.rev <= durable.task[e.task].rev
                      /\ \/ e.rev <= task[e.task].rev
                         \/ \E x \in Requests : pc'[x] = "appended" /\ T(x)' = e.task /\ e.rev <= pend'[x].rev
    BY <1>1 DEF LedgerInv
  <2>1. \A x \in Requests : pc[x] = "appended" => x # r
    BY DEF Joins
  <2> QED BY <1>1, <2>1 DEF RevInv, LedgerInv
<1>5. TaskInv' /\ RevisionsIncrease'
  BY <1>1 DEF RevInv, TaskInv, RevisionsIncrease, Events
<1> QED BY <1>2, <1>3, <1>4, <1>5 DEF RevInv

\* createTask starts the append of a new task's first event.
LEMMA CreatesStep ==
  ASSUME RevInv, SafeInv', NEW r \in Requests, NEW c \in Calls, c.task \in Tasks,
         pc[r] = "idle", CreateTask(r, c), task[c.task].status = "absent",
         \A i \in DOMAIN ledger : ledger[i].task # c.task,
         task' = [task EXCEPT ![c.task] = Fresh],
         pc' = [pc EXCEPT ![r] = "appending"],
         NEW e, pend' = [pend EXCEPT ![r] = e],
         e.rev = 1, e.type = "task.created"
  PROVE  RevInv'
<1> DEFINE t == c.task
<1>1. /\ op'[r].kind = "create" /\ op'[r].task = t /\ T(r)' = t
      /\ UNCHANGED <<ledger, durable>>
  BY DEF CreateTask, WithArgs, log, T, RevInv, SafeInv, TypeOK, RequestsOK
<1>2. /\ \A x \in Requests \ {r} : /\ T(x)' = T(x) /\ Committing(x)' = Committing(x)
                                   /\ op'[x] = op[x] /\ pc'[x] = pc[x] /\ pend'[x] = pend[x]
      /\ pc'[r] = "appending" /\ pend'[r] = e /\ Committing(r)'
  BY DEF CreateTask, T, Committing, RevInv, SafeInv, TypeOK, RequestsOK
<1>3. /\ task'[t].rev = 0 /\ task'[t].status # "absent"
      /\ \A u \in Tasks \ {t} : task'[u] = task[u]
      /\ task[t].rev = 0
  BY DEF Fresh, Absent, RevInv, SafeInv, TypeOK, MemoryOK, TaskInv
<1>4. \A x \in Requests : pc[x] \notin Ended => T(x) # t /\ T(x) \in Tasks
  <2>1. \A x \in Requests : pc[x] \notin Ended => T(x) \in Tasks
    BY DEF RevInv, SafeInv, TypeOK, RequestsOK, T, Arguments, Ended
  <2>2. \A x \in Requests : pc[x] \notin Ended => T(x) # t
    BY <1>3 DEF RevInv, CallsInv
  <2> QED BY <2>1, <2>2
<1> HIDE DEF t
<1>5. CallsInv'
  <2> SUFFICES ASSUME NEW x \in Requests
               PROVE  /\ pc'[x] # "idle" => op'[x].kind # "classify"
                      /\ pc'[x] \notin Ended /\ op'[x].kind # "create" => task'[T(x)'].rev > 0
                      /\ pc'[x] \notin Ended /\ op'[x].kind = "create" =>
                           /\ Committing(x)'
                           /\ task'[T(x)'].rev = 0 /\ task'[T(x)'].status # "absent"
                           /\ pend'[x].type = "task.created"
                           /\ \A y \in Requests : Committing(y)' /\ op'[y].kind = "create" /\ T(y)' = T(x)' => y = x
    BY DEF CallsInv
  <2>1. \A y \in Requests \ {r} : Committing(y)' => T(y)' # t
    BY <1>2, <1>4 DEF Committing, Ended
  <2>2. CASE x = r
    BY <1>1, <1>2, <1>3, <2>1, <2>2
  <2>3. CASE x # r
    <3>1. pc[x] \notin Ended => T(x) # t /\ task'[T(x)] = task[T(x)]
      BY <1>3, <1>4
    <3> QED BY <1>1, <1>2, <2>3, <3>1 DEF RevInv, CallsInv, Ended
  <2> QED BY <2>2, <2>3
<1>6. PendInv'
  <2> SUFFICES ASSUME NEW x \in Requests
               PROVE  /\ Committing(x)' => /\ pend'[x].rev = task'[T(x)'].rev + 1
                                           /\ pend'[x].type = "task.created" => op'[x].kind = "create"
                      /\ pc'[x] = "appended" => durable.task[T(x)'].status # "absent"
    BY <1>1 DEF PendInv
  <2>1. CASE x = r
    BY <1>1, <1>2, <1>3, <2>1
  <2>2. CASE x # r
    <3>1. Committing(x) => task'[T(x)] = task[T(x)]
      BY <1>3, <1>4 DEF Committing, Ended
    <3> QED BY <1>2, <2>2, <3>1 DEF RevInv, PendInv
  <2> QED BY <2>1, <2>2
<1>7. LedgerInv'
  <2> SUFFICES ASSUME NEW i \in DOMAIN ledger
               PROVE  LET d == ledger[i] IN
                      /\ d.rev > 0
                      /\ d.rev <= durable.task[d.task].rev
                      /\ \/ d.rev <= task'[d.task].rev
                         \/ \E x \in Requests : pc'[x] = "appended" /\ T(x)' = d.task /\ d.rev <= pend'[x].rev
    BY <1>1 DEF LedgerInv
  <2>1. ledger[i].task \in Tasks \ {t}
    BY EventType DEF RevInv, Event, t
  <2>2. \A x \in Requests : pc[x] = "appended" => x # r
    OBVIOUS
  <2> QED BY <1>2, <1>3, <2>1, <2>2 DEF RevInv, LedgerInv
<1>8. TaskInv'
  <2> SUFFICES ASSUME NEW u \in Tasks
               PROVE  /\ task'[u].status = "absent" => task'[u].rev = 0
                      /\ durable.task[u].status = "absent" => durable.task[u].rev = 0
                      /\ task'[u].rev > 0 => durable.task[u].status # "absent"
    BY <1>1 DEF TaskInv
  <2>1. CASE u = t
    BY <1>3, <2>1 DEF RevInv, TaskInv
  <2>2. CASE u # t
    BY <1>3, <2>2 DEF RevInv, TaskInv
  <2> QED BY <2>1, <2>2
<1>9. RevisionsIncrease'
  BY <1>1 DEF RevInv, RevisionsIncrease, Events
<1> QED BY <1>5, <1>6, <1>7, <1>8, <1>9 DEF RevInv

LEMMA InvokesRevision ==
  ASSUME Serialized, RevInv, SafeInv', NEW r \in Requests, Invoke(r)
  PROVE  RevInv'
<1>1. PICK c \in Calls : CreateTask(r, c) \/ CallLocked(r, c) \/ CallMerge(r, c) \/ CallClassify(r, c)
  BY DEF Invoke
<1>2. /\ pc[r] = "idle" /\ c.kind # "classify" /\ c.task \in Tasks
      /\ op \in [Requests -> Arguments \cup {None}] /\ pc \in [Requests -> PCs]
  BY BrokerAssumption DEF Invoke, Call, Serialized, RevInv, SafeInv, TypeOK, RequestsOK
<1>3. CASE CreateTask(r, c)
  <2> DEFINE e == [task |-> c.task, type |-> "task.created", rev |-> 1, key |-> c.key, by |-> r,
                   about |-> None, action |-> None, who |-> c.who, spaces |-> 0]
  <2>1. CASE pc' = [pc EXCEPT ![r] = "done"] /\ UNCHANGED <<task, pend>>
    BY <1>2, <1>3, <2>1, JoinsStep DEF CreateTask, Joins, WithArgs, Ended, log
  <2>2. CASE /\ task[c.task].status = "absent"
             /\ \A d \in {ledger[i] : i \in 1 .. Len(ledger)} : d.task # c.task
             /\ task' = [task EXCEPT ![c.task] = Fresh]
             /\ pend' = [pend EXCEPT ![r] = e]
             /\ pc' = [pc EXCEPT ![r] = "appending"]
    <3>1. \A i \in DOMAIN ledger : ledger[i].task # c.task
      <4>1. DOMAIN ledger = 1 .. Len(ledger)
        BY LenProperties DEF RevInv, SafeInv, TypeOK, LogOK
      <4> QED BY <2>2, <4>1
    <3>2. e.rev = 1 /\ e.type = "task.created"
      OBVIOUS
    <3> HIDE DEF e
    <3> QED BY <1>2, <1>3, <2>2, <3>1, <3>2, CreatesStep
  <2> QED BY <1>3, <2>1, <2>2 DEF CreateTask
<1>4. CASE CallLocked(r, c) \/ CallMerge(r, c)
  <2>1. task[c.task].rev > 0 /\ c.kind # "create"
    BY <1>4 DEF CallLocked, CallMerge, Visible, Serialized
  <2>2. op'[r].kind = c.kind /\ op'[r].task = c.task /\ \A x \in Requests \ {r} : op'[x] = op[x]
    <3>1. CASE \E exp \in {task[c.task].rev} \cup Expected(c) :
                 op' = [op EXCEPT ![r] = WithArgs(c, exp, None)]
      BY <1>2, <3>1 DEF WithArgs
    <3>2. CASE \E a \in approvals : \E exp \in Expected(c) :
                 op' = [op EXCEPT ![r] = WithArgs([c EXCEPT !.action = a.action], exp, a.id)]
      <4>1. /\ [c EXCEPT !.action = 0].kind = c.kind
            /\ \A a : [c EXCEPT !.action = a].kind = c.kind /\ [c EXCEPT !.action = a].task = c.task
        BY BrokerAssumption DEF Call
      <4> QED BY <1>2, <3>2, <4>1 DEF WithArgs
    <3> QED BY <1>4, <3>1, <3>2 DEF CallLocked, CallMerge
  <2>3. /\ task' = task /\ UNCHANGED log /\ pend' = pend
        /\ \E to \in {"queued", "done", "mergeQueued"} : pc' = [pc EXCEPT ![r] = to]
    BY <1>4 DEF CallLocked, CallMerge, memory
  <2>4. Joins(r)
    BY <1>2, <2>1, <2>2, <2>3 DEF Joins
  <2> QED BY <2>4, JoinsStep
<1> QED BY <1>1, <1>2, <1>3, <1>4 DEF CallClassify

-----------------------------------------------------------------------------
(* RevInv is inductive                                                       *)

LEMMA RestartRevision ==
  ASSUME RevInv, SafeInv', CrashAndRestart
  PROVE  RevInv'
<1>1. /\ \A r \in Requests : /\ pc'[r] \in Ended /\ op'[r] = op[r]
                             /\ pc'[r] = "idle" <=> pc[r] = "idle"
      /\ task' = durable.task /\ UNCHANGED <<ledger, durable>>
  BY DEF CrashAndRestart, Ended, log
<1>2. CallsInv' /\ PendInv'
  BY <1>1 DEF CallsInv, PendInv, RevInv, Committing, Ended
<1>3. LedgerInv' /\ TaskInv' /\ RevisionsIncrease'
  <2>1. \A t \in Tasks : durable.task[t].rev \in Nat
    BY DEF RevInv, SafeInv, TypeOK, LogOK, Maps, Envelope
  <2> QED BY <1>1, <2>1 DEF RevInv, LedgerInv, TaskInv, RevisionsIncrease, Events
<1> QED BY <1>2, <1>3 DEF RevInv

LEMMA RevInit == Init => RevInv
<1> SUFFICES ASSUME Init PROVE RevInv
  OBVIOUS
<1>1. SafeInv
  BY SafeInit
<1>2. CallsInv /\ PendInv /\ LedgerInv /\ RevisionsIncrease
  BY DEF Init, CallsInv, PendInv, LedgerInv, RevisionsIncrease, Events, Committing, Ended
<1>3. TaskInv
  BY DEF Init, TaskInv, EmptyMemory, Absent
<1> QED BY <1>1, <1>2, <1>3 DEF RevInv

LEMMA RevNext == Serialized /\ RevInv /\ [Next]_vars => RevInv'
<1> SUFFICES ASSUME Serialized, RevInv, [Next]_vars PROVE RevInv'
  OBVIOUS
<1>1. SafeInv'
  BY SafeNext DEF RevInv
<1>2. CASE UNCHANGED vars
  BY <1>1, <1>2 DEF vars, memory, requests, log, RevInv, CallsInv, PendInv, LedgerInv, TaskInv,
                    RevisionsIncrease, Events, Committing, T
<1>3. CASE CrashAndRestart
  BY <1>1, <1>3, RestartRevision
<1>4. ASSUME NEW r \in Requests, Invoke(r) \/ HandlerStep(r) \/ AdapterEnds(r)
      PROVE  RevInv'
  <2>1. ~ClassifyEnds(r)
    BY DEF ClassifyEnds, RevInv, CallsInv, SafeInv, CallOK
  <2>2. CASE Invoke(r)
    BY <1>1, <2>2, InvokesRevision
  <2>3. CASE LedgerAppends(r)
    BY <1>1, <2>3, AppendsRevision
  <2>4. CASE CommitReturns(r) \/ DelegationStarts(r) \/ ProposalRecorded(r)
    BY <1>1, <2>4, ResumesHow, ResumesStep
  <2>5. CASE Moves(r)
    BY <1>1, <2>5, MovesStep
  <2> QED BY <1>4, <2>1, <2>2, <2>3, <2>4, <2>5, LockedMoves, AwaitedMoves
          DEF HandlerStep, RevInv
<1> QED BY <1>2, <1>3, <1>4 DEF Next

\* No two commands are accepted at one revision of a task, whatever calls, failures
\* and restarts interleave: the events of a task carry increasing revisions.
THEOREM RevisionsAlwaysIncrease ==
  ASSUME Serialized
  PROVE  Spec => []RevisionsIncrease
<1>1. RevInv => RevisionsIncrease
  BY DEF RevInv
<1>2. RevInv /\ [Next]_vars => RevInv'
  BY RevNext
<1> QED BY RevInit, <1>1, <1>2, PTL DEF Spec
=============================================================================
