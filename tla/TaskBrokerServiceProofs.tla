---------------------- MODULE TaskBrokerServiceProofs ----------------------
(* The ledger is one the sequential service could have written, as long as   *)
(* the calls are Serialized and no handler threw after it changed memory     *)
(* (drift): the guard a command was checked against in memory still holds of *)
(* the ledger when its event is appended.                                    *)
EXTENDS TaskBrokerReplay, TaskBrokerService

\* The ledger holds the approvals the provider p needs on t.
Cleared(t, p) == \A g \in Gates(p) : <<t, g>> \in durable.approved

\* The ledger allows the event of this type that r's call asks for.
Allowed(r, type) ==
  LET t == T(r) IN
  /\ type = "task.created" => durable.task[t].status = "absent"
  /\ type = "task.delegated" => op[r].who \in Providers /\ Cleared(t, op[r].who)
  /\ type = "task.completed" => durable.task[t].status = "running"
  /\ type \in {"task.proposal", "task.failed"} => durable.task[t].status # "cancelled"
  /\ type \in {"task.merged", "task.conflict"} => <<t, "merge">> \in durable.approved
  /\ type \in {"task.approved", "task.rejected"} => \E a \in durable.approvals : a.id = op[r].target
  /\ type = "task.approval_requested" => op[r].kind = "requestApproval"

\* A handler that awaits holds what it checked before, and what it appends is
\* allowed.
GuardOK(r) ==
  /\ pc[r] = "workspace" => Cleared(T(r), op[r].who)
  /\ pc[r] = "merging" => <<T(r), "merge">> \in durable.approved
  /\ pc[r] = "appending" => Allowed(r, pend[r].type)
  /\ pc[r] # "idle" /\ op[r].kind = "delegate" => op[r].who \in Providers
GuardInv == \A r \in Requests : GuardOK(r)

\* What the replayed maps say was recorded, and a request is recorded once.
Deciding == {"task.approved", "task.rejected"}
AbsentInv == \A t \in Tasks : durable.task[t].status = "absent" => durable.task[t] = Absent
GrantsRecorded == \A g \in durable.approved : \E i \in Events :
  ledger[i].type = "task.approved" /\ ledger[i].task = g[1] /\ ledger[i].action = g[2]
AsksRecorded == \A a \in durable.approvals :
  /\ \E k \in Events : ledger[k].type = "task.approval_requested" /\ ledger[k].by = a.id
  /\ \A j \in Events : ledger[j].type \in Deciding => ledger[j].about # a.id
Past(r) == op[r].kind = "requestApproval" /\ pc[r] \in {"appended", "done", "error", "lost"}
AsksOnce == \A i \in Events : ledger[i].type = "task.approval_requested" => Past(ledger[i].by)
\* A cancelled task stays cancelled until a later event takes it up again.
CancelStands == \A i \in Events :
  /\ ledger[i].type \in {"task.cancelled", "task.rejected"}
  /\ \A k \in Events : k > i /\ ledger[k].task = ledger[i].task => ledger[k].type \notin Reopening
  => durable.task[ledger[i].task].status = "cancelled"

HistoryInv == /\ AbsentInv /\ GrantsRecorded /\ AsksRecorded /\ AsksOnce /\ CancelStands
              /\ ApprovedFirst /\ DecidedOnce /\ LateAnswersDropped
ServiceInv == ReplayInv /\ GuardInv /\ HistoryInv

-----------------------------------------------------------------------------
(* The guards: a command is checked against memory, which says of the task   *)
(* what the ledger says, and the lock keeps it so until the event is durable *)

\* Under the lock, memory of the task is what replaying the ledger yields.
LEMMA Mirror ==
  ASSUME ReplayInv, drift = {}, NEW r \in Requests, Acts(r), pc[r] \notin Ahead, NEW t \in Tasks, t = T(r)
  PROVE  Agrees(t, durable.task[t], Of(durable.approvals, t), For(durable.approved, t))
<1>1. \A x \in Requests : T(x) = t => pc[x] \notin Ahead
  BY Alone DEF Ahead, Inside, ReplayInv
<1> QED BY <1>1 DEF ReplayInv, Agreement, AgreeOK

\* A step of r that leaves the ledger alone and checks what it goes on to do.
Lawful(r) ==
  /\ op' = op /\ UNCHANGED durable /\ OthersStay(r) /\ pc[r] # "idle"
  /\ \/ pc'[r] \notin {"workspace", "merging", "appending"}
     \/ pc'[r] = "workspace" /\ Cleared(T(r), op[r].who)
     \/ pc'[r] = "merging" /\ <<T(r), "merge">> \in durable.approved
     \/ pc'[r] = "appending" /\ Allowed(r, pend'[r].type)

LEMMA LawfulStep ==
  ASSUME GuardInv, NEW r \in Requests, Lawful(r)
  PROVE  GuardInv'
<1> SUFFICES ASSUME NEW x \in Requests PROVE GuardOK(x)'
  BY DEF GuardInv
<1>1. /\ T(x)' = T(x) /\ Cleared(T(x), op[x].who)' = Cleared(T(x), op[x].who)
      /\ \A type : Allowed(x, type)' = Allowed(x, type)
  BY DEF Lawful, Allowed, Cleared, T
<1>2. CASE x = r
  BY <1>1, <1>2 DEF Lawful, GuardInv, GuardOK
<1>3. CASE x # r
  BY <1>1, <1>3 DEF Lawful, GuardInv, GuardOK, OthersStay
<1> QED BY <1>2, <1>3

\* An event's type is the one its handler started the commit with.
LEMMA CommitLawful ==
  ASSUME SafeInv, NEW r \in Requests, op' = op, UNCHANGED durable, pc[r] # "idle", NEW type, NEW key,
         Allowed(r, type), StartCommit(r, type, key)
  PROVE  Lawful(r)
<1>1. /\ pc'[r] = "appending" /\ OthersStay(r) /\ \E rev : pend'[r] = EventOf(r, type, key, rev)
  BY CommitPrepares
<1>2. pend'[r].type = type
  BY <1>1 DEF EventOf
<1> QED BY <1>1, <1>2 DEF Lawful

LEMMA AnswerLawful ==
  ASSUME SafeInv, NEW r \in Requests, op' = op, UNCHANGED durable, pc[r] # "idle",
         \E how \in {"done", "error", "submitted"} : Answer(r, how)
  PROVE  Lawful(r)
<1>1. OthersStay(r) /\ pc'[r] \in {"done", "error", "submitted"}
  BY AnswerStays
<1> QED BY <1>1 DEF Lawful

LEMMA LockedLawful ==
  ASSUME ReplayInv, GuardInv, drift = {}, NEW r \in Requests,
         \/ Delegate(r) \/ Evaluate(r) \/ Record(r) \/ RequestApproval(r) \/ Approve(r) \/ Reject(r)
         \/ Cancel(r) \/ Merge(r)
  PROVE  Lawful(r)
<1>1. /\ pc[r] = "queued" /\ Holds(r) /\ op' = op /\ UNCHANGED durable /\ pc[r] \notin Ended \cup Ahead
      /\ Acts(r) /\ SafeInv /\ pc \in [Requests -> PCs] /\ pc[r] # "idle"
  <2>1. pc[r] = "queued" /\ Holds(r) /\ op' = op /\ UNCHANGED durable
    BY DEF Delegate, Evaluate, Record, RequestApproval, Approve, Reject, Cancel, Merge, UnderLock, log
  <2> QED BY <2>1 DEF Acts, Ended, Ahead, ReplayInv, RevInv, SafeInv, TypeOK, RequestsOK
<1>2. PICK t \in Tasks : t = T(r)
  BY <1>1 DEF SafeInv, TypeOK, RequestsOK, T, Arguments, Ended
<1>3. /\ Of(durable.approvals, t) = Of(approvals, t)
      /\ \A g : <<t, g>> \in approved => <<t, g>> \in durable.approved
  <2>1. Agrees(t, durable.task[t], Of(durable.approvals, t), For(durable.approved, t))
    BY <1>1, <1>2, Mirror
  <2>2. \A g : <<t, g>>[1] = t
    OBVIOUS
  <2> QED BY <2>1, <2>2 DEF Agrees, Of, For
<1>4. CASE Ends(r, "done") \/ Ends(r, "error")
  BY <1>1, <1>4, AnswerLawful DEF Ends
<1>5. CASE \E type \in {"task.recorded", "task.cancelled"} : \E key : StartCommit(r, type, key)
  <2>1. Allowed(r, "task.recorded") /\ Allowed(r, "task.cancelled")
    BY DEF Allowed
  <2> QED BY <1>1, <1>5, <2>1, CommitLawful
<1>6. CASE Evaluate(r) \/ Record(r) \/ Cancel(r)
  <2>1. CASE pc' = [pc EXCEPT ![r] = "listing"] /\ UNCHANGED pend
    BY <1>1, <2>1 DEF Lawful, OthersStay
  <2> QED BY <1>4, <1>5, <1>6, <2>1 DEF Evaluate, Record, Cancel
<1>7. CASE RequestApproval(r)
  <2>1. Allowed(r, "task.approval_requested")
    BY <1>7 DEF Allowed, RequestApproval, UnderLock
  <2> QED BY <1>1, <1>4, <1>7, <2>1, CommitLawful DEF RequestApproval
<1>8. CASE Approve(r) \/ Reject(r)
  <2>1. CASE Decided(r) # {}
    <3>1. PICK a \in approvals : a.id = op[r].target
      BY <2>1 DEF Decided
    <3>2. a \in Of(durable.approvals, t)
      BY <1>1, <1>2, <1>3, <3>1, DecidedHere DEF Of, ReplayInv
    <3>3. Allowed(r, "task.approved") /\ Allowed(r, "task.rejected")
      BY <3>1, <3>2 DEF Allowed, Of
    <3> QED BY <1>1, <1>4, <1>8, <3>3, CommitLawful DEF Approve, Reject
  <2> QED BY <1>4, <1>8, <2>1 DEF Approve, Reject
<1>9. CASE Delegate(r)
  <2>1. CASE \A g \in Gates(op[r].who) : <<t, g>> \in approved
    <3>1. Cleared(T(r), op[r].who) /\ op[r].who \in Providers
      BY <1>1, <1>2, <1>3, <1>9, <2>1 DEF Cleared, GuardInv, GuardOK, Delegate, UnderLock
    <3>2. Allowed(r, "task.delegated")
      BY <3>1 DEF Allowed
    <3>3. CASE pc' = [pc EXCEPT ![r] = "workspace"] /\ UNCHANGED pend
      BY <1>1, <3>1, <3>3 DEF Lawful, OthersStay
    <3> QED BY <1>1, <1>4, <1>9, <3>2, <3>3, CommitLawful DEF Delegate
  <2> QED BY <1>2, <1>4, <1>9, <2>1 DEF Delegate
<1>10. CASE Merge(r)
  <2>1. CASE /\ <<t, "merge">> \in approved
             /\ pc' = [pc EXCEPT ![r] = "merging"] /\ UNCHANGED pend
    BY <1>1, <1>2, <1>3, <2>1 DEF Lawful, OthersStay
  <2> QED BY <1>2, <1>4, <1>10, <2>1 DEF Merge
<1> QED BY <1>6, <1>7, <1>8, <1>9, <1>10

LEMMA AwaitedLawful ==
  ASSUME ReplayInv, GuardInv, drift = {}, NEW r \in Requests,
         \/ MergeTurn(r) \/ AdapterEnds(r) \/ WorkspaceReady(r) \/ WorkspaceFails(r)
         \/ ProposalsListed(r) \/ MergeSucceeds(r) \/ MergeConflicts(r) \/ LedgerFails(r)
         \/ CommitReturns(r) \/ DelegationStarts(r)
  PROVE  Lawful(r)
<1>1. /\ op' = op /\ UNCHANGED durable /\ pc[r] # "idle" /\ pc \in [Requests -> PCs] /\ SafeInv
      /\ pend \in [Requests -> Event \cup {None}]
  <2>1. op' = op /\ UNCHANGED durable /\ pc[r] # "idle"
    BY DEF MergeTurn, AdapterEnds, WorkspaceReady, WorkspaceFails, ProposalsListed, MergeSucceeds,
           MergeConflicts, LedgerFails, CommitReturns, DelegationStarts, Acknowledge, log
  <2> QED BY <2>1 DEF ReplayInv, RevInv, SafeInv, TypeOK, RequestsOK
<1>2. CASE \E how \in {"done", "error", "submitted"} : Answer(r, how)
  BY <1>1, <1>2, AnswerLawful
<1>3. CASE MergeTurn(r) \/ AdapterEnds(r)
  BY <1>1, <1>3 DEF MergeTurn, AdapterEnds, Lawful, OthersStay
<1>4. CASE WorkspaceReady(r) \/ WorkspaceFails(r)
  <2>1. CASE WorkspaceReady(r)
    <3>1. op[r].kind = "delegate"
      BY <1>1, <2>1 DEF WorkspaceReady, SafeInv, CallOK
    <3>2. Allowed(r, "task.delegated")
      BY <1>1, <2>1, <3>1 DEF WorkspaceReady, GuardInv, GuardOK, Allowed
    <3> QED BY <1>1, <1>2, <2>1, <3>2, CommitLawful DEF WorkspaceReady, CheckedCommit
  <2> QED BY <1>2, <1>4, <2>1 DEF WorkspaceFails
<1>5. CASE ProposalsListed(r)
  <2>1. Allowed(r, "task.recorded")
    BY DEF Allowed
  <2> QED BY <1>1, <1>2, <1>5, <2>1, CommitLawful DEF ProposalsListed
<1>6. CASE MergeSucceeds(r) \/ MergeConflicts(r)
  <2>1. Allowed(r, "task.merged") /\ Allowed(r, "task.conflict")
    BY <1>6 DEF MergeSucceeds, MergeConflicts, GuardInv, GuardOK, Allowed
  <2> QED BY <1>1, <1>2, <1>6, <2>1, CommitLawful DEF MergeSucceeds, MergeConflicts, CheckedCommit
<1>7. CASE LedgerFails(r)
  <2>1. CASE pc' = [pc EXCEPT ![r] = "lateFailed"] /\ pend' = [pend EXCEPT ![r] = None]
    BY <1>1, <2>1 DEF Lawful, OthersStay
  <2> QED BY <1>2, <1>7, <2>1 DEF LedgerFails
<1>8. CASE CommitReturns(r) \/ DelegationStarts(r)
  BY <1>2, <1>8 DEF CommitReturns, DelegationStarts
<1> QED BY <1>3, <1>4, <1>5, <1>6, <1>7, <1>8

\* The outcome of a delegation, and the completion its proposal may lead to.
LEMMA OutcomeLawful ==
  ASSUME ReplayInv, GuardInv, drift = {}, NEW r \in Requests,
         FinishDelegation(r) \/ FailDelegation(r) \/ ProposalRecorded(r)
  PROVE  Lawful(r)
<1>1. /\ op' = op /\ UNCHANGED durable /\ pc[r] # "idle" /\ pc[r] \notin Ended \cup Ahead /\ Acts(r)
      /\ SafeInv /\ pc \in [Requests -> PCs] /\ pend \in [Requests -> Event \cup {None}]
  <2>1. /\ op' = op /\ UNCHANGED durable
        /\ \/ pc[r] = "appended"
           \/ pc[r] \in {"answered", "failed", "lateFailed"} /\ Holds(r)
    <3>1. CASE FinishDelegation(r) \/ FailDelegation(r)
      BY <3>1 DEF FinishDelegation, FailDelegation, log
    <3>2. CASE ProposalRecorded(r)
      <4>1. pc[r] = "appended" /\ Acknowledge(r)
        BY <3>2 DEF ProposalRecorded
      <4> QED BY <4>1 DEF Acknowledge, log
    <3> QED BY <3>1, <3>2
  <2> QED BY <2>1 DEF Acts, Inside, Ended, Ahead, ReplayInv, RevInv, SafeInv, TypeOK, RequestsOK
<1>2. PICK t \in Tasks : t = T(r)
  BY <1>1 DEF SafeInv, TypeOK, RequestsOK, T, Arguments, Ended
<1>3. durable.task[t].status \in {task[t].status, "running"}
      /\ (task[t].status = "running" => durable.task[t].status = "running")
  <2>1. Agrees(t, durable.task[t], Of(durable.approvals, t), For(durable.approved, t))
    BY <1>1, <1>2, Mirror
  <2> QED BY <2>1 DEF Agrees
<1>4. CASE \E how \in {"done", "error"} : Answer(r, how)
  BY <1>1, <1>4, AnswerLawful
<1>5. CASE FinishDelegation(r) \/ FailDelegation(r)
  <2>1. CASE ~Cancelled(r)
    <3>1. Allowed(r, "task.proposal") /\ Allowed(r, "task.failed")
      BY <1>2, <1>3, <2>1 DEF Allowed, Cancelled
    <3> QED BY <1>1, <1>4, <1>5, <3>1, CommitLawful DEF FinishDelegation, FailDelegation
  <2> QED BY <1>4, <1>5, <2>1 DEF FinishDelegation, FailDelegation
<1>6. CASE ProposalRecorded(r)
  <2>1. CASE /\ LastOut(t) /\ pc' = [pc EXCEPT ![r] = "appending"]
             /\ pend' = [pend EXCEPT ![r] = EventOf(r, "task.completed", None, pend[r].rev + 1)]
    <3>1. Allowed(r, "task.completed")
      BY <1>2, <1>3, <2>1 DEF Allowed, LastOut
    <3>2. pend'[r] = EventOf(r, "task.completed", None, pend[r].rev + 1)
      BY <1>1, <2>1
    <3>3. pend'[r].type = "task.completed"
      BY <3>2 DEF EventOf
    <3> QED BY <1>1, <2>1, <3>1, <3>3 DEF Lawful, OthersStay
  <2>2. pend[r].task = t
    BY <1>1, <1>2, <1>6 DEF ProposalRecorded, SafeInv, CallOK, Committing
  <2> QED BY <1>4, <1>6, <2>1, <2>2 DEF ProposalRecorded
<1> QED BY <1>5, <1>6

\* The append of r's event changes what the ledger says of r's task only, on
\* which no other call is past its checks.
LEMMA AppendsGuard ==
  ASSUME ReplayInv, GuardInv, NEW r \in Requests, LedgerAppends(r)
  PROVE  GuardInv'
<1> DEFINE e == pend[r]
<1>1. /\ pc[r] = "appending" /\ op' = op /\ pend' = pend /\ durable' = ReplayEvent(durable, e)
      /\ pc' = [pc EXCEPT ![r] = "appended"] /\ pc \in [Requests -> PCs] /\ Acts(r) /\ SafeInv
      /\ pc[r] \notin Ended
  BY DEF LedgerAppends, Acts, Inside, ReplayInv, RevInv, SafeInv, TypeOK, RequestsOK, Ended
<1>2. PICK t \in Tasks : t = T(r)
  BY <1>1 DEF SafeInv, TypeOK, RequestsOK, T, Arguments, Ended
<1>3. /\ \A u \in Tasks \ {t} : durable'.task[u] = durable.task[u]
      /\ \A u : u # t => /\ Of(durable'.approvals, u) = Of(durable.approvals, u)
                         /\ For(durable'.approved, u) = For(durable.approved, u)
  BY <1>1, <1>2, Replayed1, ReplayedMaps DEF ReplayInv
<1> SUFFICES ASSUME NEW x \in Requests PROVE GuardOK(x)'
  BY DEF GuardInv
<1>4. T(x)' = T(x) /\ op'[x] = op[x] /\ GuardOK(x)
  BY <1>1 DEF T, GuardInv
<1>5. CASE x = r
  BY <1>1, <1>4, <1>5 DEF GuardOK
<1>6. CASE x # r /\ pc[x] \notin {"workspace", "merging", "appending"}
  BY <1>1, <1>4, <1>6 DEF GuardOK
<1>7. CASE x # r /\ pc[x] \in {"workspace", "merging", "appending"}
  <2>1. PICK u \in Tasks : u = T(x)
    BY <1>1, <1>7 DEF SafeInv, TypeOK, RequestsOK, T, Arguments
  <2>2. u # t
    BY <1>1, <1>2, <1>7, <2>1, Alone DEF Inside, ReplayInv
  <2>3. /\ durable'.task[u] = durable.task[u]
        /\ \A g : <<u, g>> \in durable.approved => <<u, g>> \in durable'.approved
        /\ Of(durable'.approvals, u) = Of(durable.approvals, u)
    <3>1. \A g : <<u, g>>[1] = u
      OBVIOUS
    <3> QED BY <1>3, <2>2, <3>1 DEF For
  <2>4. \A a \in durable.approvals : a.id = op[x].target => a \in durable'.approvals
    BY <1>1, <1>7, <2>1, <2>3, DecidedHere DEF Of, ReplayInv
  <2>5. /\ Cleared(u, op[x].who) => Cleared(u, op[x].who)'
        /\ Allowed(x, pend[x].type) => Allowed(x, pend[x].type)'
    <3>1. Cleared(u, op[x].who) => Cleared(u, op[x].who)'
      BY <1>4, <2>3 DEF Cleared
    <3>2. op'[x] = op[x] /\ pend'[x] = pend[x] /\ T(x)' = u
      BY <1>1, <1>4, <2>1
    <3>3. Cleared(u, op[x].who)' <=> \A g \in Gates(op[x].who) : <<u, g>> \in durable'.approved
      BY <3>2 DEF Cleared
    <3> QED BY <2>1, <2>3, <2>4, <3>1, <3>2, <3>3 DEF Allowed, Cleared
  <2>6. pc'[x] = pc[x] /\ pend'[x] = pend[x]
    BY <1>1, <1>7
  <2> QED BY <1>4, <2>1, <2>3, <2>5, <2>6 DEF GuardOK
<1> QED BY <1>5, <1>6, <1>7

LEMMA InvokesGuard ==
  ASSUME Serialized, ReplayInv, GuardInv, drift = {}, NEW r \in Requests, Invoke(r)
  PROVE  GuardInv'
<1>1. /\ pc[r] = "idle" /\ UNCHANGED <<log, approvals, approved, drift>>
      /\ \A x \in Requests \ {r} : op'[x] = op[x] /\ pc'[x] = pc[x]
      /\ Asks(r) \/ \E t \in Tasks : Creates(r, t)
  BY InvokesHow DEF ReplayInv, RevInv
<1>2. \A x \in Requests \ {r} : pend'[x] = pend[x]
  BY <1>1 DEF Asks, Creates
<1>3. ASSUME NEW x \in Requests \ {r} PROVE GuardOK(x)'
  <2>1. /\ T(x)' = T(x) /\ op'[x] = op[x] /\ pc'[x] = pc[x] /\ pend'[x] = pend[x] /\ durable' = durable
        /\ GuardOK(x)
    BY <1>1, <1>2 DEF T, log, GuardInv
  <2>2. Cleared(T(x), op[x].who)' = Cleared(T(x), op[x].who)
        /\ Allowed(x, pend[x].type)' = Allowed(x, pend[x].type)
    BY <2>1 DEF Cleared, Allowed
  <2> QED BY <2>1, <2>2 DEF GuardOK
<1>4. op'[r].kind = "delegate" => op'[r].who \in Providers
  <2>1. PICK c \in Calls : CreateTask(r, c) \/ CallLocked(r, c) \/ CallMerge(r, c) \/ CallClassify(r, c)
    BY DEF Invoke
  <2>2. c.kind = "delegate" => c.who \in Providers
    BY BrokerAssumption DEF Call
  <2>3. op \in [Requests -> Arguments \cup {None}]
    BY DEF ReplayInv, RevInv, SafeInv, TypeOK, RequestsOK
  <2>4. CASE \E exp : op' = [op EXCEPT ![r] = WithArgs(c, exp, None)]
    BY <2>2, <2>3, <2>4 DEF WithArgs
  <2>5. CASE /\ c.kind \in {"approve", "reject"}
             /\ \E a, exp : op' = [op EXCEPT ![r] = WithArgs([c EXCEPT !.action = a.action], exp, a.id)]
    <3>1. \A a : [c EXCEPT !.action = a].kind = c.kind
      BY BrokerAssumption DEF Call
    <3> QED BY <2>3, <2>5, <3>1 DEF WithArgs
  <2> QED BY <2>1, <2>4, <2>5 DEF CreateTask, CallLocked, CallMerge, CallClassify
<1>5. CASE Asks(r)
  <2>1. GuardOK(r)'
    BY <1>4, <1>5 DEF Asks, GuardOK
  <2> QED BY <1>3, <2>1 DEF GuardInv
<1>6. ASSUME NEW t \in Tasks, Creates(r, t) PROVE GuardInv'
  <2>1. \A x \in Requests : T(x) = t => pc[x] \in Ended
    BY <1>6 DEF Creates, ReplayInv, RevInv, CallsInv, TaskInv
  <2>2. durable.task[t].status = "absent"
    <3>1. Agrees(t, durable.task[t], Of(durable.approvals, t), For(durable.approved, t))
      BY <2>1 DEF ReplayInv, Agreement, AgreeOK, Ahead, Ended
    <3> QED BY <1>6, <3>1 DEF Agrees, Creates
  <2>3. pend'[r].type = "task.created" /\ pc'[r] = "appending" /\ T(r)' = t /\ durable' = durable
    BY <1>1, <1>6 DEF Creates, T, log
  <2>4. Allowed(r, pend[r].type)'
    BY <2>2, <2>3 DEF Allowed
  <2>5. GuardOK(r)'
    BY <1>4, <2>3, <2>4 DEF GuardOK
  <2> QED BY <1>3, <2>5 DEF GuardInv
<1> QED BY <1>1, <1>5, <1>6

LEMMA GuardNext ==
  ASSUME Serialized, ReplayInv, GuardInv, drift = {}, [Next]_vars
  PROVE  GuardInv'
<1>1. CASE UNCHANGED <<op, pc, pend, durable>>
  <2> SUFFICES ASSUME NEW x \in Requests PROVE GuardOK(x)'
    BY DEF GuardInv
  <2>1. /\ T(x)' = T(x) /\ Cleared(T(x), op[x].who)' = Cleared(T(x), op[x].who)
        /\ Allowed(x, pend[x].type)' = Allowed(x, pend[x].type)
    BY <1>1 DEF Allowed, Cleared, T
  <2> QED BY <1>1, <2>1 DEF GuardInv, GuardOK
<1>2. CASE CrashAndRestart
  BY <1>2 DEF CrashAndRestart, GuardInv, GuardOK, Ended
<1>3. ASSUME NEW r \in Requests, Invoke(r) \/ HandlerStep(r) \/ AdapterEnds(r)
      PROVE  GuardInv'
  <2>1. ~ClassifyEnds(r)
    BY DEF ClassifyEnds, ReplayInv, RevInv, CallsInv, SafeInv, CallOK
  <2> QED BY <1>3, <2>1, LawfulStep, LockedLawful, AwaitedLawful, OutcomeLawful, AppendsGuard, InvokesGuard
          DEF HandlerStep
<1> QED BY <1>1, <1>2, <1>3 DEF Next, vars, requests, log

-----------------------------------------------------------------------------
(* The history: what the ledger's events say, against the replayed maps      *)

\* A call that requested an approval does not come back to request another.
LEMMA PastStays ==
  ASSUME Serialized, ReplayInv, [Next]_vars, NEW x \in Requests, Past(x)
  PROVE  Past(x)'
<1>1. CASE UNCHANGED vars
  BY <1>1 DEF vars, requests, Past
<1>2. CASE CrashAndRestart
  BY <1>2 DEF CrashAndRestart, Past, Ended
<1>3. ASSUME NEW r \in Requests, Invoke(r) PROVE Past(x)'
  BY <1>3, InvokesHow DEF Past, ReplayInv, RevInv
<1>4. ASSUME NEW r \in Requests, HandlerStep(r) \/ AdapterEnds(r) PROVE Past(x)'
  <2>1. ~ClassifyEnds(r)
    BY DEF ClassifyEnds, ReplayInv, RevInv, CallsInv, SafeInv, CallOK
  <2>2. Keeps(r)
    BY <1>4, <2>1, HandlerKeeps, AppendsKeeps DEF HandlerStep
  <2>3. CASE x # r
    BY <2>2, <2>3 DEF Keeps, OthersStay, Past
  <2>4. CASE x = r
    <3>1. pc[r] \in {"appended", "done", "error", "lost"} /\ op[r].kind = "requestApproval"
      BY <2>4 DEF Past
    <3>2. CommitReturns(r) \/ DelegationStarts(r) \/ ProposalRecorded(r)
      BY <1>4, <3>1 DEF HandlerStep, MergeTurn, Delegate, Evaluate, Record, RequestApproval, Approve,
         Reject, Cancel, Merge, UnderLock, FinishDelegation, FailDelegation, WorkspaceReady,
         WorkspaceFails, ProposalsListed, MergeSucceeds, MergeConflicts, ClassifyEnds, LedgerAppends,
         LedgerFails, AdapterEnds
    <3>3. pc[r] = "appended" /\ pend[r].type \notin {"task.delegated", "task.proposal"}
      <4>1. pc[r] = "appended"
        BY <3>2 DEF CommitReturns, DelegationStarts, ProposalRecorded
      <4> QED BY <3>1, <4>1 DEF ReplayInv, RevInv, SafeInv, CallOK, Committing, Delegating
    <3>4. CommitReturns(r)
      BY <3>2, <3>3 DEF DelegationStarts, ProposalRecorded
    <3>5. Answer(r, "done") \/ Answer(r, "error")
      BY <3>4 DEF CommitReturns
    <3>6. pc'[r] \in {"done", "error"}
      BY <3>5, AnswerStays DEF ReplayInv, RevInv
    <3> QED BY <2>2, <2>4, <3>1, <3>6 DEF Keeps, Past
  <2> QED BY <2>3, <2>4
<1> QED BY <1>1, <1>2, <1>3, <1>4 DEF Next

LEMMA HistoryStays ==
  ASSUME Serialized, ReplayInv, HistoryInv, [Next]_vars, UNCHANGED log
  PROVE  HistoryInv'
<1>1. ledger' = ledger /\ durable' = durable /\ Events' = Events
  BY DEF log, Events
<1>2. AsksOnce'
  <2>1. \A i \in Events : ledger[i].by \in Requests
    BY EventType DEF Events, Event, ReplayInv, RevInv
  <2> SUFFICES ASSUME NEW i \in Events, ledger[i].type = "task.approval_requested" PROVE Past(ledger[i].by)'
    BY <1>1 DEF AsksOnce
  <2> QED BY <1>1, <2>1, PastStays DEF AsksOnce, HistoryInv
<1>3. AbsentInv' /\ GrantsRecorded' /\ AsksRecorded' /\ CancelStands'
  BY <1>1 DEF HistoryInv, AbsentInv, GrantsRecorded, AsksRecorded, CancelStands
<1>4. ApprovedFirst' /\ DecidedOnce' /\ LateAnswersDropped'
  BY <1>1 DEF HistoryInv, ApprovedFirst, DecidedOnce, LateAnswersDropped, Required
<1> QED BY <1>2, <1>3, <1>4 DEF HistoryInv

\* The event r appends is the ledger's next, and the ledger allows it.
LEMMA Appending ==
  ASSUME ReplayInv, GuardInv, NEW r \in Requests, LedgerAppends(r)
  PROVE  LET e == pend[r] n == Len(ledger) IN
         /\ n \in Nat /\ Events = 1 .. n /\ Events' = 1 .. n + 1
         /\ ledger'[n + 1] = e /\ \A i \in 1 .. n : ledger'[i] = ledger[i] /\ ledger[i] \in Event
         /\ e \in Event /\ e.task = T(r) /\ e.by = r /\ T(r) \in Tasks
         /\ e.type = "task.created" <=> op[r].kind = "create"
         /\ e.type # "task.created" => e.about = op[r].target /\ e.action = op[r].action /\ e.who = op[r].who
         /\ pc[r] = "appending" /\ pc'[r] = "appended" /\ op' = op
         /\ Allowed(r, e.type)
         /\ durable'.task[T(r)] = ReplayedEnvelope(Before(T(r), e), e)
         /\ \A u \in Tasks \ {T(r)} : durable'.task[u] = durable.task[u]
         /\ durable'.approvals = AskedAfter(durable.approvals, e)
         /\ durable'.approved = GrantedAfter(durable.approved, e)
         /\ Before(T(r), e) \in Envelope /\ Before(T(r), e).status # "absent"
<1> DEFINE e == pend[r]
           n == Len(ledger)
<1>1. /\ pc[r] = "appending" /\ op' = op /\ ledger' = Append(ledger, e)
      /\ durable' = ReplayEvent(durable, e) /\ pc'[r] = "appended" /\ Committing(r)
  BY DEF LedgerAppends, Committing, ReplayInv, RevInv, SafeInv, TypeOK, RequestsOK
<1>2. /\ e \in Event /\ e.task = T(r) /\ T(r) \in Tasks
      /\ durable'.task[T(r)] = ReplayedEnvelope(Before(T(r), e), e)
      /\ \A u \in Tasks \ {T(r)} : durable'.task[u] = durable.task[u]
      /\ Before(T(r), e) \in Envelope /\ Before(T(r), e).status # "absent"
  BY <1>1, Replayed1 DEF ReplayInv
<1>3. /\ n \in Nat /\ DOMAIN ledger = 1 .. n /\ DOMAIN ledger' = 1 .. n + 1
      /\ ledger'[n + 1] = e /\ \A i \in 1 .. n : ledger'[i] = ledger[i]
  BY <1>1, <1>2, AppendProperties, LenProperties DEF ReplayInv, RevInv, SafeInv, TypeOK, LogOK
<1>4. \A i \in 1 .. n : ledger[i] \in Event
  BY <1>3, EventType DEF ReplayInv, RevInv
<1>5. /\ durable'.approvals = AskedAfter(durable.approvals, e)
      /\ durable'.approved = GrantedAfter(durable.approved, e)
  BY <1>1, ReplayedMaps
<1>6. e.type = "task.created" <=> op[r].kind = "create"
  BY <1>1 DEF ReplayInv, RevInv, CallsInv, PendInv, Ended
<1>7. /\ e.by = r
      /\ op[r].kind # "create" => e.about = op[r].target /\ e.action = op[r].action /\ e.who = op[r].who
  BY <1>1 DEF ReplayInv, PendIs
<1>8. Allowed(r, e.type)
  BY <1>1 DEF GuardInv, GuardOK
<1> HIDE DEF e, n
<1> QED BY <1>1, <1>2, <1>3, <1>4, <1>5, <1>6, <1>7, <1>8 DEF e, n, Events

\* What the replayed maps say stays recorded.
LEMMA MapsRecorded ==
  ASSUME ReplayInv, GuardInv, HistoryInv, NEW r \in Requests, LedgerAppends(r)
  PROVE  AbsentInv' /\ GrantsRecorded' /\ AsksRecorded'
<1> DEFINE e == pend[r]
           n == Len(ledger)
<1>1. /\ n \in Nat /\ Events = 1 .. n /\ Events' = 1 .. n + 1
      /\ ledger'[n + 1] = e /\ \A i \in 1 .. n : ledger'[i] = ledger[i]
      /\ e.by = r /\ e.task = T(r) /\ pc[r] = "appending"
      /\ durable'.task[T(r)] = ReplayedEnvelope(Before(T(r), e), e) /\ Before(T(r), e).status # "absent"
      /\ \A u \in Tasks \ {T(r)} : durable'.task[u] = durable.task[u]
      /\ durable'.approvals = AskedAfter(durable.approvals, e)
      /\ durable'.approved = GrantedAfter(durable.approved, e)
  BY Appending
<1> HIDE DEF e, n
<1>2. AbsentInv'
  <2> SUFFICES ASSUME NEW u \in Tasks, durable'.task[u].status = "absent" PROVE durable'.task[u] = Absent
    BY DEF AbsentInv
  <2>1. durable'.task[T(r)].status # "absent"
    BY <1>1 DEF ReplayedEnvelope, StatusAfter
  <2> QED BY <1>1, <2>1 DEF HistoryInv, AbsentInv
<1>3. GrantsRecorded'
  <2> SUFFICES ASSUME NEW g \in durable'.approved
               PROVE  \E i \in 1 .. n + 1 : /\ ledger'[i].type = "task.approved" /\ ledger'[i].task = g[1]
                                            /\ ledger'[i].action = g[2]
    BY <1>1 DEF GrantsRecorded
  <2>1. CASE g \in durable.approved
    <3>1. PICK i \in 1 .. n : /\ ledger[i].type = "task.approved" /\ ledger[i].task = g[1]
                              /\ ledger[i].action = g[2]
      BY <1>1, <2>1 DEF HistoryInv, GrantsRecorded
    <3> QED BY <1>1, <3>1
  <2>2. CASE e.type = "task.approved" /\ g = <<e.task, e.action>>
    <3>1. n + 1 \in 1 .. n + 1 /\ g[1] = e.task /\ g[2] = e.action
      BY <1>1, <2>2
    <3> QED BY <1>1, <2>2, <3>1
  <2> QED BY <1>1, <2>1, <2>2 DEF GrantedAfter
<1>4. AsksRecorded'
  <2> SUFFICES ASSUME NEW a \in durable'.approvals
               PROVE  /\ \E k \in 1 .. n + 1 : ledger'[k].type = "task.approval_requested" /\ ledger'[k].by = a.id
                      /\ \A j \in 1 .. n + 1 : ledger'[j].type \in Deciding => ledger'[j].about # a.id
    BY <1>1 DEF AsksRecorded
  <2>1. CASE a \in durable.approvals
    <3>1. /\ \E k \in 1 .. n : ledger[k].type = "task.approval_requested" /\ ledger[k].by = a.id
          /\ \A j \in 1 .. n : ledger[j].type \in Deciding => ledger[j].about # a.id
      BY <1>1, <2>1 DEF HistoryInv, AsksRecorded
    <3>2. e.type \in Deciding => e.about # a.id
      BY <1>1, <2>1 DEF AskedAfter, Deciding
    <3>3. \A j \in 1 .. n + 1 : j \in 1 .. n \/ j = n + 1
      BY <1>1
    <3> QED BY <1>1, <3>1, <3>2, <3>3
  <2>2. CASE e.type = "task.approval_requested" /\ a.id = r
    <3>1. ASSUME NEW j \in 1 .. n, ledger[j].type \in Deciding, ledger[j].about = r PROVE FALSE
      <4>1. PICK k \in 1 .. n : ledger[k].type = "task.approval_requested" /\ ledger[k].by = r
        BY <1>1, <3>1 DEF HistoryInv, DecidedOnce, Deciding
      <4>2. Past(r)
        BY <1>1, <4>1 DEF HistoryInv, AsksOnce
      <4> QED BY <1>1, <4>2 DEF Past
    <3>2. n + 1 \in 1 .. n + 1 /\ \A j \in 1 .. n + 1 : j \in 1 .. n \/ j = n + 1
      BY <1>1
    <3>3. e.type \notin Deciding
      BY <2>2 DEF Deciding
    <3> QED BY <1>1, <2>2, <3>1, <3>2, <3>3
  <2>3. a \in durable.approvals \/ (e.type = "task.approval_requested" /\ a.id = r)
    <3>1. [id |-> e.by, task |-> e.task, action |-> e.action].id = e.by
      OBVIOUS
    <3> QED BY <1>1, <3>1 DEF AskedAfter
  <2> QED BY <2>1, <2>2, <2>3
<1> QED BY <1>2, <1>3, <1>4

LEMMA RequestsRecorded ==
  ASSUME Serialized, ReplayInv, GuardInv, HistoryInv, [Next]_vars, NEW r \in Requests, LedgerAppends(r)
  PROVE  AsksOnce' /\ DecidedOnce'
<1> DEFINE e == pend[r]
           n == Len(ledger)
<1>1. /\ n \in Nat /\ Events = 1 .. n /\ Events' = 1 .. n + 1
      /\ ledger'[n + 1] = e /\ \A i \in 1 .. n : ledger'[i] = ledger[i] /\ ledger[i] \in Event
      /\ e.by = r /\ pc'[r] = "appended" /\ op' = op /\ Allowed(r, e.type)
      /\ e.type # "task.created" => e.about = op[r].target
  BY Appending
<1> HIDE DEF e, n
<1>2. \A j \in 1 .. n + 1 : j \in 1 .. n \/ j = n + 1
  BY <1>1
<1>3. AsksOnce'
  <2> SUFFICES ASSUME NEW i \in 1 .. n + 1, ledger'[i].type = "task.approval_requested"
               PROVE  /\ op'[ledger'[i].by].kind = "requestApproval"
                      /\ pc'[ledger'[i].by] \in {"appended", "done", "error", "lost"}
    BY <1>1 DEF AsksOnce, Past
  <2>1. CASE i \in 1 .. n
    <3>1. ledger[i].by \in Requests /\ ledger'[i] = ledger[i] /\ ledger[i].type = "task.approval_requested"
      BY <1>1, <2>1 DEF Event
    <3>2. PICK x \in Requests : x = ledger[i].by
      BY <3>1
    <3>3. Past(x)
      BY <1>1, <2>1, <3>1, <3>2 DEF HistoryInv, AsksOnce
    <3>4. Past(x)'
      BY <3>3, PastStays
    <3> QED BY <3>1, <3>2, <3>4 DEF Past
  <2>2. CASE i = n + 1
    BY <1>1, <2>2 DEF Allowed
  <2> QED BY <1>2, <2>1, <2>2
<1>4. ASSUME e.type \in Deciding
      PROVE  /\ \E k \in 1 .. n : ledger[k].type = "task.approval_requested" /\ ledger[k].by = e.about
             /\ \A j \in 1 .. n : ledger[j].type \in Deciding => ledger[j].about # e.about
  <2>1. PICK a \in durable.approvals : a.id = e.about
    BY <1>1, <1>4 DEF Allowed, Deciding
  <2> QED BY <1>1, <2>1 DEF HistoryInv, AsksRecorded
<1>5. DecidedOnce'
  <2> SUFFICES ASSUME NEW i \in 1 .. n + 1, ledger'[i].type \in Deciding
               PROVE  /\ \E k \in 1 .. n + 1 : /\ k < i /\ ledger'[k].type = "task.approval_requested"
                                               /\ ledger'[k].by = ledger'[i].about
                      /\ \A j \in 1 .. n + 1 :
                           ledger'[j].type \in Deciding /\ ledger'[j].about = ledger'[i].about => i = j
    BY <1>1 DEF DecidedOnce, Deciding
  <2>1. CASE i = n + 1
    <3>1. PICK k \in 1 .. n : ledger[k].type = "task.approval_requested" /\ ledger[k].by = e.about
      BY <1>1, <1>4, <2>1
    <3>2. k \in 1 .. n + 1 /\ k < i
      BY <1>1, <2>1
    <3> QED BY <1>1, <1>2, <1>4, <2>1, <3>1, <3>2
  <2>2. CASE i \in 1 .. n
    <3>1. /\ \E k \in 1 .. n : /\ k < i /\ ledger[k].type = "task.approval_requested"
                               /\ ledger[k].by = ledger[i].about
          /\ \A j \in 1 .. n : ledger[j].type \in Deciding /\ ledger[j].about = ledger[i].about => i = j
          /\ ledger[i].type \in Deciding
      BY <1>1, <2>2 DEF HistoryInv, DecidedOnce, Deciding
    <3>2. e.type \in Deciding => e.about # ledger[i].about
      BY <1>4, <2>2, <3>1
    <3> QED BY <1>1, <1>2, <2>2, <3>1, <3>2
  <2> QED BY <1>2, <2>1, <2>2
<1> QED BY <1>3, <1>5

\* The cancellation of a task lasts in the ledger.
LEMMA CancelsRecorded ==
  ASSUME ReplayInv, GuardInv, HistoryInv, NEW r \in Requests, LedgerAppends(r)
  PROVE  CancelStands' /\ LateAnswersDropped'
<1> DEFINE e == pend[r]
           n == Len(ledger)
           Cancels(k) == k.type \in {"task.cancelled", "task.rejected"}
<1>1. /\ n \in Nat /\ Events = 1 .. n /\ Events' = 1 .. n + 1
      /\ ledger'[n + 1] = e /\ \A i \in 1 .. n : ledger'[i] = ledger[i] /\ ledger[i] \in Event
      /\ e \in Event /\ e.task = T(r) /\ T(r) \in Tasks /\ Allowed(r, e.type)
      /\ durable'.task[T(r)] = ReplayedEnvelope(Before(T(r), e), e)
      /\ \A u \in Tasks \ {T(r)} : durable'.task[u] = durable.task[u]
  BY Appending
<1> HIDE DEF e, n
<1>2. \A j \in 1 .. n + 1 : j \in 1 .. n \/ j = n + 1
  BY <1>1
\* Cancelled so far and not taken up again: the replayed status is cancelled.
<1>3. ASSUME NEW i \in 1 .. n, Cancels(ledger[i]),
             \A k \in 1 .. n : k > i /\ ledger[k].task = ledger[i].task => ledger[k].type \notin Reopening
      PROVE  durable.task[ledger[i].task].status = "cancelled"
  BY <1>1, <1>3 DEF HistoryInv, CancelStands
<1>4. CancelStands'
  <2> SUFFICES ASSUME NEW i \in 1 .. n + 1, Cancels(ledger'[i]),
                      \A k \in 1 .. n + 1 : k > i /\ ledger'[k].task = ledger'[i].task
                                            => ledger'[k].type \notin Reopening
               PROVE  durable'.task[ledger'[i].task].status = "cancelled"
    BY <1>1 DEF CancelStands
  <2>1. CASE i = n + 1
    BY <1>1, <2>1 DEF ReplayedEnvelope, StatusAfter
  <2>2. CASE i \in 1 .. n
    <3>1. durable.task[ledger[i].task].status = "cancelled" /\ ledger[i].task \in Tasks
      <4>1. ledger'[i] = ledger[i] /\ Cancels(ledger[i]) /\ ledger[i].task \in Tasks
        BY <1>1, <2>2 DEF Event
      <4>2. \A k \in 1 .. n : k > i /\ ledger[k].task = ledger[i].task => ledger[k].type \notin Reopening
        BY <1>1, <4>1
      <4> QED BY <1>3, <2>2, <4>1, <4>2
    <3>2. CASE ledger[i].task # e.task
      BY <1>1, <2>2, <3>1, <3>2
    <3>3. CASE ledger[i].task = e.task
      <4>1. n + 1 \in 1 .. n + 1 /\ n + 1 > i
        BY <1>1, <2>2
      <4>2. e.type \notin Reopening
        BY <1>1, <2>2, <3>3, <4>1
      <4>3. e.type \notin {"task.created", "task.completed", "task.proposal", "task.failed"}
        BY <1>1, <3>1, <3>3 DEF Allowed
      <4>4. Before(T(r), e).status = "cancelled"
        BY <1>1, <3>1, <3>3, <4>3 DEF Before
      <4>5. ReplayedEnvelope(Before(T(r), e), e).status = StatusAfter(e.type, "cancelled")
        BY <4>4 DEF ReplayedEnvelope
      <4> QED BY <1>1, <2>2, <3>3, <4>2, <4>3, <4>5 DEF StatusAfter, Reopening
    <3> QED BY <3>2, <3>3
  <2> QED BY <1>2, <2>1, <2>2
<1>5. LateAnswersDropped'
  <2> SUFFICES ASSUME NEW i \in 1 .. n + 1, NEW j \in 1 .. n + 1, i < j, ledger'[i].task = ledger'[j].task,
                      Cancels(ledger'[i]),
                      ledger'[j].type \in {"task.proposal", "task.completed", "task.failed"}
               PROVE  \E k \in i .. j : ledger'[k].task = ledger'[i].task /\ ledger'[k].type \in Reopening
    BY <1>1 DEF LateAnswersDropped
  <2>1. i \in 1 .. n
    BY <1>1
  <2>2. CASE j \in 1 .. n
    <3>1. PICK k \in i .. j : ledger[k].task = ledger[i].task /\ ledger[k].type \in Reopening
      BY <1>1, <2>1, <2>2 DEF HistoryInv, LateAnswersDropped
    <3>2. k \in 1 .. n
      BY <1>1, <2>1, <2>2
    <3> QED BY <1>1, <2>1, <3>1, <3>2
  <2>3. CASE j = n + 1
    <3>1. durable.task[ledger[i].task].status # "cancelled"
      BY <1>1, <2>1, <2>3 DEF Allowed
    <3>2. PICK k \in 1 .. n : k > i /\ ledger[k].task = ledger[i].task /\ ledger[k].type \in Reopening
      BY <1>1, <1>3, <2>1, <3>1
    <3>3. k \in i .. j
      BY <1>1, <2>1, <2>3, <3>2
    <3> QED BY <1>1, <2>1, <3>2, <3>3
  <2> QED BY <1>2, <2>2, <2>3
<1> QED BY <1>4, <1>5

\* What needs an approval comes after it in the ledger.
LEMMA ApprovalsRecorded ==
  ASSUME ReplayInv, GuardInv, HistoryInv, NEW r \in Requests, LedgerAppends(r)
  PROVE  ApprovedFirst'
<1> DEFINE e == pend[r]
           n == Len(ledger)
           Needs(k) == IF k.type = "task.merged" THEN {"merge"}
                       ELSE IF k.type = "task.delegated" THEN Required(k.who) ELSE {}
<1>1. /\ n \in Nat /\ Events = 1 .. n /\ Events' = 1 .. n + 1
      /\ ledger'[n + 1] = e /\ \A i \in 1 .. n : ledger'[i] = ledger[i]
      /\ e.task = T(r) /\ Allowed(r, e.type) /\ (e.type # "task.created" => e.who = op[r].who)
  BY Appending
<1> HIDE DEF e, n
<1>2. \A j \in 1 .. n + 1 : j \in 1 .. n \/ j = n + 1
  BY <1>1
<1> SUFFICES ASSUME NEW j \in 1 .. n + 1, NEW g \in Needs(ledger'[j])
             PROVE  \E i \in 1 .. n + 1 : /\ i < j /\ ledger'[i].task = ledger'[j].task
                                          /\ ledger'[i].type = "task.approved" /\ ledger'[i].action = g
  BY <1>1 DEF ApprovedFirst, Required
<1>3. CASE j \in 1 .. n
  <2>1. PICK i \in 1 .. n : /\ i < j /\ ledger[i].task = ledger[j].task
                            /\ ledger[i].type = "task.approved" /\ ledger[i].action = g
    BY <1>1, <1>3 DEF HistoryInv, ApprovedFirst
  <2> QED BY <1>1, <1>3, <2>1
<1>4. CASE j = n + 1
  <2>1. <<T(r), g>> \in durable.approved
    <3>1. CASE e.type = "task.merged"
      BY <1>1, <1>4, <3>1 DEF Allowed
    <3>2. CASE e.type = "task.delegated"
      <4>1. g \in Required(op[r].who) /\ Cleared(T(r), op[r].who)
        BY <1>1, <1>4, <3>2 DEF Allowed
      <4>2. g \in Gates(op[r].who)
        BY <4>1 DEF Required, Gates
      <4> QED BY <4>1, <4>2 DEF Cleared
    <3> QED BY <1>1, <1>4, <3>1, <3>2
  <2>2. <<T(r), g>>[1] = T(r) /\ <<T(r), g>>[2] = g
    OBVIOUS
  <2>3. PICK i \in 1 .. n : /\ ledger[i].type = "task.approved" /\ ledger[i].task = T(r)
                            /\ ledger[i].action = g
    BY <1>1, <2>1, <2>2 DEF HistoryInv, GrantsRecorded
  <2>4. i \in 1 .. n + 1 /\ i < j
    BY <1>1, <1>4
  <2> QED BY <1>1, <1>4, <2>3, <2>4
<1> QED BY <1>2, <1>3, <1>4

-----------------------------------------------------------------------------
(* ServiceInv is inductive while no handler drifts                           *)

Undrifted == drift = {}

LEMMA ServiceInit == Init => ServiceInv
<1> SUFFICES ASSUME Init PROVE ServiceInv
  OBVIOUS
<1>1. GuardInv
  BY DEF Init, GuardInv, GuardOK
<1>2. Events = {}
  BY DEF Init, Events
<1>3. HistoryInv
  BY <1>2 DEF Init, EmptyMemory, HistoryInv, AbsentInv, GrantsRecorded, AsksRecorded, AsksOnce,
     CancelStands, ApprovedFirst, DecidedOnce, LateAnswersDropped
<1> QED BY <1>1, <1>3, ReplayInit DEF ServiceInv

\* Only the append of an event changes the ledger.
LEMMA LogOrAppends ==
  ASSUME Serialized, RevInv, [Next]_vars
  PROVE  UNCHANGED log \/ \E r \in Requests : LedgerAppends(r)
<1>1. ASSUME NEW r \in Requests, Invoke(r) PROVE UNCHANGED log
  BY <1>1, InvokesHow DEF RevInv
<1>2. ASSUME NEW r \in Requests, HandlerStep(r) \/ AdapterEnds(r), ~LedgerAppends(r) PROVE UNCHANGED log
  <2>1. ~ClassifyEnds(r)
    BY DEF ClassifyEnds, RevInv, CallsInv, SafeInv, CallOK
  <2>2. CASE CommitReturns(r) \/ DelegationStarts(r) \/ ProposalRecorded(r)
    BY <2>2, ResumesHow DEF Resumes
  <2>3. CASE ~(CommitReturns(r) \/ DelegationStarts(r) \/ ProposalRecorded(r))
    BY <1>2, <2>1, <2>3, LockedMoves, AwaitedMoves DEF HandlerStep, Moves, RevInv
  <2> QED BY <2>2, <2>3
<1> QED BY <1>1, <1>2 DEF Next, CrashAndRestart, vars

LEMMA ServiceNext == Serialized /\ Undrifted /\ ServiceInv /\ [Next]_vars => ServiceInv'
<1> SUFFICES ASSUME Serialized, drift = {}, ServiceInv, [Next]_vars PROVE HistoryInv'
  BY ReplayNext, GuardNext DEF ServiceInv, Undrifted
<1>1. CASE UNCHANGED log
  BY <1>1, HistoryStays DEF ServiceInv
<1>2. ASSUME NEW r \in Requests, LedgerAppends(r) PROVE HistoryInv'
  BY <1>2, MapsRecorded, RequestsRecorded, CancelsRecorded, ApprovalsRecorded DEF ServiceInv, HistoryInv
<1> QED BY <1>1, <1>2, LogOrAppends DEF ServiceInv, ReplayInv

\* An approval request is decided at most once, and only after it was made, as
\* long as no handler threw after it changed memory.
THEOREM DecisionsOnce ==
  ASSUME Serialized
  PROVE  Spec /\ []Undrifted => []DecidedOnce
<1>1. ServiceInv => DecidedOnce
  BY DEF ServiceInv, HistoryInv
<1>2. Undrifted /\ ServiceInv /\ [Next]_vars => ServiceInv'
  BY ServiceNext
<1> QED BY ServiceInit, <1>1, <1>2, PTL DEF Spec

\* A merge, and a submission to a paid provider, comes only after the recorded
\* approval of the user, under the same condition.
THEOREM ApprovalsFirst ==
  ASSUME Serialized
  PROVE  Spec /\ []Undrifted => []ApprovedFirst
<1>1. ServiceInv => ApprovedFirst
  BY DEF ServiceInv, HistoryInv
<1>2. Undrifted /\ ServiceInv /\ [Next]_vars => ServiceInv'
  BY ServiceNext
<1> QED BY ServiceInit, <1>1, <1>2, PTL DEF Spec

\* A provider's answer after a cancellation or a rejection is not recorded,
\* under the same condition.
THEOREM LateAnswersAlwaysDropped ==
  ASSUME Serialized
  PROVE  Spec /\ []Undrifted => []LateAnswersDropped
<1>1. ServiceInv => LateAnswersDropped
  BY DEF ServiceInv, HistoryInv
<1>2. Undrifted /\ ServiceInv /\ [Next]_vars => ServiceInv'
  BY ServiceNext
<1> QED BY ServiceInit, <1>1, <1>2, PTL DEF Spec

-----------------------------------------------------------------------------
(* Without failing I/O no handler drifts: the revision compared before an    *)
(* await is still the task's revision after it.                              *)

CheckedInv == \A r \in Requests : pc[r] \in {"workspace", "merging"} => op[r].exp = task[T(r)].rev

LEMMA CheckedNext ==
  ASSUME Serialized, RevInv, CheckedInv, [Next]_vars
  PROVE  CheckedInv'
<1> SUFFICES ASSUME NEW x \in Requests, pc'[x] \in {"workspace", "merging"}
             PROVE  op'[x].exp = task'[T(x)'].rev
  BY DEF CheckedInv, T
<1>1. CASE UNCHANGED vars
  BY <1>1 DEF vars, requests, memory, CheckedInv, T
<1>2. CASE CrashAndRestart
  BY <1>2 DEF CrashAndRestart, Ended
<1>3. ASSUME NEW r \in Requests, Invoke(r) PROVE op'[x].exp = task'[T(x)'].rev
  <2>1. /\ x # r /\ op'[x] = op[x] /\ pc'[x] = pc[x] /\ T(x)' = T(x)
        /\ Asks(r) \/ \E t \in Tasks : Creates(r, t)
    BY <1>3, InvokesHow DEF RevInv, Asks, Creates, T
  <2>2. T(x) \in Tasks
    BY <2>1 DEF RevInv, SafeInv, TypeOK, RequestsOK, T, Arguments
  <2>3. task'[T(x)].rev = task[T(x)].rev
    BY <2>1, <2>2 DEF Asks, Creates, Fresh, Absent, RevInv, TaskInv, SafeInv, TypeOK, MemoryOK
  <2> QED BY <2>1, <2>3 DEF CheckedInv
<1>4. ASSUME NEW r \in Requests, HandlerStep(r) \/ AdapterEnds(r) PROVE op'[x].exp = task'[T(x)'].rev
  <2>1. ~ClassifyEnds(r)
    BY DEF ClassifyEnds, RevInv, CallsInv, SafeInv, CallOK
  <2>2. CASE Moves(r)
    <3>1. op' = op /\ T(x)' = T(x) /\ pc[x] # "idle" /\ (x # r => pc'[x] = pc[x])
      BY <2>2 DEF Moves, Ended, T
    <3>2. task'[T(x)].rev = task[T(x)].rev
      BY <2>2, <3>1 DEF Moves, KeepsRevisions, RevInv, SafeInv, TypeOK, RequestsOK, T, Arguments
    <3>3. CASE x # r
      BY <3>1, <3>2, <3>3 DEF CheckedInv
    <3>4. CASE x = r
      <4>1. Delegate(r) \/ Merge(r)
        <5>1. pc \in [Requests -> PCs]
          BY DEF RevInv, SafeInv, TypeOK, RequestsOK
        <5>2. \A how : Answer(r, how) => pc'[r] = how
          BY AnswerStays DEF RevInv
        <5>3. \A type, key : StartCommit(r, type, key) => pc'[r] = "appending"
          BY CommitPrepares DEF RevInv
        <5> QED BY <1>4, <2>1, <3>4, <5>1, <5>2, <5>3 DEF HandlerStep, MergeTurn, Evaluate, Record,
               RequestApproval, Approve, Reject, Cancel, Ends, FinishDelegation, FailDelegation,
               WorkspaceReady, WorkspaceFails, ProposalsListed, MergeSucceeds, MergeConflicts,
               CheckedCommit, LedgerAppends, LedgerFails, CommitReturns, DelegationStarts,
               ProposalRecorded, AdapterEnds
      <4>2. op[r].exp = task[T(r)].rev
        <5>1. ~Ends(r, "done") /\ ~Ends(r, "error")
          BY <3>4, AnswerStays DEF Ends, RevInv
        <5> QED BY <4>1, <5>1 DEF Delegate, Merge
      <4> QED BY <3>1, <3>2, <3>4, <4>2
    <3> QED BY <3>3, <3>4
  <2>3. ASSUME CommitReturns(r) \/ DelegationStarts(r) \/ ProposalRecorded(r)
        PROVE  op'[x].exp = task'[T(x)'].rev
    <3>1. Resumes(r)
      BY <2>3, ResumesHow
    <3>2. /\ x # r /\ op' = op /\ pc'[x] = pc[x] /\ T(x)' = T(x) /\ Inside(x) /\ Acts(r)
      BY <3>1 DEF Resumes, Ended, Inside, Acts, T
    <3>3. T(x) \in Tasks \ {T(r)}
      BY <3>2, Alone DEF RevInv, SafeInv, TypeOK, RequestsOK, T, Arguments, Inside
    <3> QED BY <3>1, <3>2, <3>3 DEF Resumes, CheckedInv
  <2>4. CASE LedgerAppends(r)
    BY <2>4 DEF LedgerAppends, memory, CheckedInv, T, RevInv, SafeInv, TypeOK, RequestsOK
  <2> QED BY <1>4, <2>1, <2>2, <2>3, <2>4, LockedMoves, AwaitedMoves DEF HandlerStep, RevInv
<1> QED BY <1>1, <1>2, <1>3, <1>4 DEF Next

\* Without failures of the ledger the broker's memory never drifts from it: what the
\* theorems above assume of a behaviour holds of every one.
THEOREM NoFailureNoDrift ==
  ASSUME Serialized, MaxFailures = 0
  PROVE  Spec => []Undrifted
<1> DEFINE Inv == RevInv /\ CheckedInv /\ Undrifted
<1>1. Init => Inv
  BY RevInit DEF Init, CheckedInv, Undrifted
<1>2. Inv /\ [Next]_vars => Inv'
  <2> SUFFICES ASSUME Inv, [Next]_vars PROVE drift' = {}
    BY RevNext, CheckedNext DEF Undrifted
  <2>1. ~(failures < MaxFailures)
    BY DEF RevInv, SafeInv, TypeOK
  <2>2. ASSUME NEW r \in Requests, Invoke(r) PROVE drift' = drift
    BY <2>2, InvokesHow DEF RevInv
  <2>3. ASSUME NEW r \in Requests, HandlerStep(r) \/ AdapterEnds(r) PROVE drift' = drift
    <3>1. ~ClassifyEnds(r)
      BY DEF ClassifyEnds, RevInv, CallsInv, SafeInv, CallOK
    <3>2. CASE WorkspaceReady(r) \/ MergeSucceeds(r)
      <4>1. op[r].exp = task[T(r)].rev
        BY <3>2 DEF WorkspaceReady, MergeSucceeds, CheckedInv
      <4> QED BY <3>2, <4>1 DEF WorkspaceReady, MergeSucceeds, CheckedCommit, StartCommit
    <3> QED BY <2>1, <2>3, <3>1, <3>2 DEF HandlerStep, MergeTurn, Delegate, Evaluate, Record,
           RequestApproval, Approve, Reject, Cancel, Merge, Ends, FinishDelegation, FailDelegation,
           WorkspaceFails, ProposalsListed, MergeConflicts, StartCommit, LedgerAppends, LedgerFails,
           CommitReturns, DelegationStarts, ProposalRecorded, Acknowledge, AdapterEnds, faults
  <2> QED BY <2>2, <2>3 DEF Next, CrashAndRestart, vars, faults, Undrifted
<1>3. Inv => Undrifted
  OBVIOUS
<1> HIDE DEF Inv
<1> QED BY <1>1, <1>2, <1>3, PTL DEF Spec

-----------------------------------------------------------------------------
(* The ledger refines TaskService: the append of an event is one command of  *)
(* the service, every other step leaves its record alone.                    *)

\* A task's approval request is known by its id.
LEMMA AskedById ==
  ASSUME SafeInv, ApprovalsInv, NEW a \in durable.approvals, NEW b \in durable.approvals, a.id = b.id
  PROVE  a = b
<1>1. a \in Approval /\ b \in Approval
  BY DEF SafeInv, TypeOK, LogOK, Maps
<1>2. a.task = b.task /\ a.action = b.action
  BY DEF ApprovalsInv
<1> QED BY <1>1, <1>2 DEF Approval

\* The event r appends changes the recorded status, revision and team of its
\* task alone, and takes the revision one further.
LEMMA RecordsOne ==
  ASSUME ServiceInv, NEW r \in Requests, LedgerAppends(r), NEW t \in Tasks, t = T(r),
         NEW s, NEW z, s = Recorded(durable), z = Recorded(durable')
  PROVE  LET e == pend[r] k == durable.task[t] IN
         /\ Service!Records(s, z, t, StatusAfter(e.type, Before(t, e).status))
         /\ z.team = [s.team EXCEPT ![t] = IF e.type = "task.delegated" THEN k.parts \cup {e.who} ELSE k.parts]
         /\ s.phase[t] = k.status /\ s.team[t] = k.parts
         /\ s.asked = durable.approvals /\ s.granted = durable.approved
         /\ z.asked = AskedAfter(durable.approvals, e) /\ z.granted = GrantedAfter(durable.approved, e)
<1> DEFINE e == pend[r]
           k == durable.task[t]
<1>1. /\ durable'.task[t] = ReplayedEnvelope(Before(t, e), e)
      /\ \A u \in Tasks \ {t} : durable'.task[u] = durable.task[u]
      /\ durable'.approvals = AskedAfter(durable.approvals, e)
      /\ durable'.approved = GrantedAfter(durable.approved, e)
      /\ pc[r] = "appending" /\ Allowed(r, e.type) /\ SafeInv /\ RevInv /\ CountInv /\ e \in Event
  BY Appending DEF ServiceInv, ReplayInv, RevInv
<1>2. /\ durable.task \in [Tasks -> Envelope] /\ task[t].rev \in Nat /\ k.rev \in Nat
      /\ durable.task[t] \in Envelope
  BY <1>1 DEF SafeInv, TypeOK, LogOK, Maps, MemoryOK, Envelope
<1>3. e.type = "task.created" => k = Absent
  BY <1>1 DEF Allowed, ServiceInv, HistoryInv, AbsentInv
<1>4. e.rev = k.rev + 1 /\ e.rev \in Nat
  <2>1. Appended(t) = {}
    <3> SUFFICES ASSUME NEW x \in Requests, pc[x] = "appended", T(x) = t PROVE FALSE
      BY DEF Appended, On
    <3> QED BY <1>1, Alone DEF Inside, Acts
  <2>2. e.rev = task[t].rev + 1
    BY <1>1, Replayed1
  <2> QED BY <1>2, <2>1, <2>2, <1>1 DEF CountInv
<1>5. /\ durable'.task[t].status = StatusAfter(e.type, Before(t, e).status)
      /\ durable'.task[t].rev = k.rev + 1
      /\ durable'.task[t].parts = IF e.type = "task.delegated" THEN k.parts \cup {e.who} ELSE k.parts
  <2>1. Before(t, e).rev \in {0, k.rev} /\ Before(t, e).parts = k.parts
    BY <1>3 DEF Before, Fresh, Absent
  <2> QED BY <1>1, <1>2, <1>4, <2>1 DEF ReplayedEnvelope
<1> HIDE DEF e
<1>6. /\ z.revision = [s.revision EXCEPT ![t] = @ + 1]
      /\ z.phase = [s.phase EXCEPT ![t] = StatusAfter(e.type, Before(t, e).status)]
      /\ z.team = [s.team EXCEPT ![t] = IF e.type = "task.delegated" THEN k.parts \cup {e.who} ELSE k.parts]
  BY <1>1, <1>5 DEF Recorded
<1> QED BY <1>1, <1>6 DEF Service!Records, Recorded, e

LEMMA AppendIsCommand ==
  ASSUME ServiceInv, NEW r \in Requests, LedgerAppends(r)
  PROVE  Service!Next
<1>1. PICK t \in Tasks : t = T(r)
  BY Appending DEF ServiceInv
<1>2. PICK e : e = pend[r]
  OBVIOUS
<1>3. PICK s, z : s = Recorded(durable) /\ z = Recorded(durable')
  OBVIOUS
<1>4. PICK k : k = durable.task[t]
  OBVIOUS
<1>5. /\ Service!Records(s, z, t, StatusAfter(e.type, Before(t, e).status))
      /\ z.team = [s.team EXCEPT ![t] = IF e.type = "task.delegated" THEN k.parts \cup {e.who} ELSE k.parts]
      /\ s.phase[t] = k.status /\ s.team[t] = k.parts
      /\ s.asked = durable.approvals /\ s.granted = durable.approved
      /\ z.asked = AskedAfter(durable.approvals, e) /\ z.granted = GrantedAfter(durable.approved, e)
  BY <1>1, <1>2, <1>3, <1>4, RecordsOne
<1>6. /\ e \in Event /\ e.task = t /\ e.by = r /\ Allowed(r, e.type) /\ pc[r] = "appending"
      /\ e.type = "task.created" <=> op[r].kind = "create"
      /\ e.type # "task.created" => e.about = op[r].target /\ e.action = op[r].action /\ e.who = op[r].who
      /\ Before(t, e).status # "absent"
  BY <1>1, <1>2, Appending DEF ServiceInv
<1>7. SafeInv /\ ApprovalsInv /\ HistoryInv /\ durable.approvals \subseteq Approval
  BY DEF ServiceInv, ReplayInv, RevInv, SafeInv, TypeOK, LogOK, Maps
<1>8. s.team \in [Tasks -> SUBSET (Providers \cup {None})] /\ k.status \in Statuses /\ DOMAIN s.phase = Tasks
  BY <1>3, <1>4, <1>7 DEF SafeInv, TypeOK, LogOK, Maps, Recorded, Envelope
<1> SUFFICES Service!Step(s, z)
  BY <1>3 DEF Service!Next
<1>9. e.type # "task.created" => Service!Exists(s, t) /\ Before(t, e).status = k.status
  BY <1>4, <1>5, <1>6 DEF Service!Exists, Before
<1>10. e.type # "task.delegated" => z.team = s.team
  BY <1>5, <1>8
<1>11. CASE e.type = "task.delegated"
  <2>1. op[r].who \in Providers /\ \A g \in Required(op[r].who) : <<t, g>> \in durable.approved
    BY <1>1, <1>6, <1>11 DEF Allowed, Cleared, Gates, Required
  <2>2. z.team = [s.team EXCEPT ![t] = @ \cup {op[r].who}]
    BY <1>5, <1>6, <1>8, <1>11
  <2> QED BY <1>1, <1>5, <1>9, <1>11, <2>1, <2>2
       DEF Service!Step, Service!Delegated, StatusAfter, AskedAfter, GrantedAfter
<1>12. CASE e.type = "task.approval_requested"
  <2> DEFINE a == [id |-> r, task |-> t, action |-> op[r].action]
  <2>1. a \notin s.asked
    <3>1. SUFFICES ASSUME a \in durable.approvals PROVE FALSE
      BY <1>5
    <3>2. PICK j \in Events : ledger[j].type = "task.approval_requested" /\ ledger[j].by = a.id
      BY <1>7, <3>1 DEF HistoryInv, AsksRecorded
    <3> QED BY <1>6, <1>7, <3>2 DEF HistoryInv, AsksOnce, Past
  <2>2. z.asked = s.asked \cup {a} /\ a.task = t
    BY <1>5, <1>6, <1>12 DEF AskedAfter
  <2> HIDE DEF a
  <2>3. \E b \in z.asked \ s.asked : b.task = t /\ z.asked = s.asked \cup {b}
    BY <2>1, <2>2
  <2> QED BY <1>1, <1>5, <1>9, <1>10, <1>12, <2>3
       DEF Service!Step, Service!Asked, StatusAfter, GrantedAfter
<1>13. CASE e.type \in Deciding
  <2>1. PICK a \in durable.approvals : a.id = op[r].target
    BY <1>6, <1>13 DEF Allowed, Deciding
  <2>2. z.asked = s.asked \ {a}
    <3>1. \A b \in durable.approvals : b.id = e.about <=> b = a
      BY <1>6, <1>7, <1>13, <2>1, AskedById DEF Deciding
    <3> QED BY <1>5, <1>13, <3>1 DEF AskedAfter, Deciding
  <2>3. a.task = t /\ a.action = e.action
    <3>1. op[r].target # None /\ pc[r] # "idle"
      BY <1>6, <1>7, <2>1, BrokerAssumption DEF Approval
    <3> QED BY <1>1, <1>6, <1>7, <1>13, <2>1, <3>1 DEF ApprovalsInv, Deciding
  <2>4. \/ Service!Records(s, z, t, "running") /\ z.granted = s.granted \cup {<<t, a.action>>}
        \/ Service!Records(s, z, t, "cancelled") /\ z.granted = s.granted
    BY <1>5, <1>6, <1>13, <2>3 DEF StatusAfter, GrantedAfter, Deciding
  <2> QED BY <1>1, <1>5, <1>10, <1>13, <2>1, <2>2, <2>3, <2>4
       DEF Service!Step, Service!Decided, Deciding
<1>14. CASE e.type \in Types \ (Deciding \cup {"task.delegated", "task.approval_requested"})
  <2>1. z.asked = s.asked /\ z.granted = s.granted /\ z.team = s.team
    BY <1>5, <1>10, <1>14 DEF AskedAfter, GrantedAfter, Deciding
  <2> SUFFICES \/ Service!Created(s, z, t) \/ Service!Noted(s, z, t) \/ Service!Completed(s, z, t)
               \/ Service!Failed(s, z, t) \/ Service!Cancelled(s, z, t) \/ Service!Merged(s, z, t)
    BY <1>1, <2>1 DEF Service!Step, Service!Plain
  <2>2. CASE e.type = "task.created"
    <3>1. ~Service!Exists(s, t)
      BY <1>1, <1>4, <1>5, <1>6, <2>2 DEF Allowed, Service!Exists
    <3> QED BY <1>5, <2>2, <3>1 DEF Service!Created, StatusAfter, Before, Fresh, Absent
  <2>3. CASE e.type \in {"task.proposal", "task.recorded", "task.classified"}
    BY <1>5, <1>9, <2>3 DEF Service!Noted, StatusAfter
  <2>4. CASE e.type = "task.completed"
    BY <1>1, <1>4, <1>5, <1>6, <2>4 DEF Service!Completed, StatusAfter, Allowed
  <2>5. CASE e.type = "task.failed"
    BY <1>1, <1>4, <1>5, <1>6, <1>9, <2>5 DEF Service!Failed, Service!Exists, StatusAfter, Allowed
  <2>6. CASE e.type = "task.cancelled"
    BY <1>5, <1>9, <2>6 DEF Service!Cancelled, StatusAfter
  <2>7. CASE e.type \in {"task.merged", "task.conflict"}
    BY <1>1, <1>5, <1>6, <2>7 DEF Service!Merged, StatusAfter, Allowed
  <2> QED BY <1>14, <2>2, <2>3, <2>4, <2>5, <2>6, <2>7 DEF Types, Deciding
<1> QED BY <1>6, <1>11, <1>12, <1>13, <1>14 DEF Event

LEMMA StepOfService ==
  ASSUME Serialized, ServiceInv, [Next]_vars
  PROVE  [Service!Next]_(Recorded(durable))
<1>1. CASE UNCHANGED log
  BY <1>1 DEF log, Recorded
<1>2. CASE \E r \in Requests : LedgerAppends(r)
  BY <1>2, AppendIsCommand
<1> QED BY <1>1, <1>2, LogOrAppends DEF ServiceInv, ReplayInv

\* The broker implements TaskService: its ledger is one that the sequential
\* service could have written, as long as no handler threw after it changed
\* memory.
THEOREM LedgerRefinesService ==
  ASSUME Serialized
  PROVE  Spec /\ []Undrifted => ImplementsService
<1>1. Init => Service!Init
  <2> SUFFICES ASSUME durable = EmptyMemory PROVE Service!Init
    BY DEF Init
  <2>1. /\ durable.task = [t \in Tasks |-> Absent] /\ durable.approvals = {} /\ durable.approved = {}
        /\ Absent.status = "absent" /\ Absent.rev = 0 /\ Absent.parts = {}
    BY DEF EmptyMemory, Absent
  <2> QED BY <2>1 DEF Recorded, Service!Init
<1>2. Undrifted /\ ServiceInv /\ [Next]_vars => ServiceInv'
  BY ServiceNext
<1>3. ServiceInv /\ [Next]_vars => [Service!Next]_(Recorded(durable))
  BY StepOfService
<1> QED BY ServiceInit, <1>1, <1>2, <1>3, PTL DEF Spec, ImplementsService, Service!Spec
=============================================================================
