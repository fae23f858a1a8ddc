----------------------------- MODULE TaskBroker -----------------------------
(* The task core of the broker: IntegratedPowerBroker in                     *)
(* vscode-extension/src/broker/broker.ts, over an append-only event ledger.  *)
(*                                                                           *)
(* The broker is one Node process, so a handler runs alone up to its next    *)
(* await.  Each action below is the code between two awaits: of the task     *)
(* lock, of ledger.append, of git, of an adapter's answer.  A request is one *)
(* call of a broker method; pc says which await it is suspended on.          *)
(* Memory (the Maps of the class) and the ledger are separate variables,     *)
(* because handlers change memory before the event is durable, and a crash   *)
(* keeps only the ledger.  durable is the memory a restart would rebuild     *)
(* from the ledger: replay applied to its events one by one.                 *)
EXTENDS Integers, Sequences, FiniteSets

CONSTANTS
  Tasks,            \* task identifiers
  Providers,        \* providers with a registered, available adapter
  Requests,         \* slots for the calls clients make in a behaviour
  Keys,             \* idempotency keys the clients choose
  None,             \* no key, no provider, no approval, no event
  Calls,            \* the calls clients may make
  ApiProviders,     \* providers whose capability.mode is "api"
  CodeWriters,      \* providers with the code-write capability
  MaxParticipants,  \* budget.maxParticipants, 1..4 after normalizeBudget
  AllowApiSpend,    \* budget.allowApiSpend of the tasks
  ExternalApproved, \* the tasks' privacy is "external-approved"
  EarlyReads,       \* clients address a task they found in GET /v1/tasks
                    \* before createTask returned it
  MaxPending,       \* bound: calls suspended at the same time
  MaxFailures,      \* bound: I/O operations that fail
  MaxCrashes        \* bound: crashes of the broker process

Kinds == {"create", "delegate", "evaluate", "record", "requestApproval", "approve",
          "reject", "merge", "cancel", "classify"}
ApprovalActions == {"merge", "external-send", "publish", "budget-overage", "connect"}
Statuses == {"absent", "created", "running", "awaiting_approval",
             "completed", "failed", "cancelled"}
Types == {"task.created", "task.delegated", "task.proposal", "task.completed",
          "task.failed", "task.recorded", "task.approval_requested",
          "task.approved", "task.rejected", "task.merged", "task.conflict",
          "task.cancelled", "task.classified"}

Call == [kind : Kinds, task : Tasks, who : Providers \cup {None},
         action : ApprovalActions \cup {None}, key : Keys \cup {None}]

ASSUME BrokerAssumption ==
  /\ Calls \subseteq Call
  /\ ApiProviders \subseteq Providers
  /\ CodeWriters \subseteq Providers
  /\ \A c \in Calls : /\ (c.kind = "delegate" => c.who # None)
                       /\ (c.kind = "requestApproval" => c.action # None)
  /\ None \notin Keys \cup Providers \cup Requests \cup ApprovalActions
  /\ MaxParticipants \in 1 .. 4
  /\ {AllowApiSpend, ExternalApproved, EarlyReads} \subseteq BOOLEAN
  /\ MaxPending \in Nat /\ MaxFailures \in Nat /\ MaxCrashes \in Nat

Unchecked == -1   \* an optional expectedRevision the client left out

\* An event of the ledger.  by is the request whose handler appends it (it
\* stands for the event's own id and for delegationEventId), about the approval
\* it decides, spaces the number of isolated workspaces in its payload.
Event == [task : Tasks, type : Types, rev : Nat, key : Keys \cup {None},
          by : Requests, about : Requests \cup {None},
          action : ApprovalActions \cup {None},
          who : Providers \cup {None}, spaces : Nat]

Envelope == [status : Statuses, rev : Nat, parts : SUBSET (Providers \cup {None}),
             spaces : Nat, label : Requests \cup {None}]
Approval == [id : Requests, task : Tasks, action : ApprovalActions \cup {None}]

VARIABLES
  task,       \* tasks: the envelope of every task, "absent" when not in the Map
  approvals,  \* approvals: the pending approval requests
  approved,   \* approvedActions
  idem,       \* keys of idempotency
  createIdem, \* keys of createIdempotency
  apprIdem,   \* keys of approvalIdempotency
  mergeKeys,  \* keys of mergeResults
  active,     \* activeDelegations
  queue,      \* taskLocks: the chain of requests on a task's lock, holder first
  mergeQ,     \* mergeQueue, running merge first
  op, pc, pend, \* per request: its arguments, its await, its event being appended
  ledger,     \* the durable event log, shared by all tasks
  durable,    \* the Maps that replaying the ledger event by event yields
  drift,      \* history: tasks whose handler threw after it changed memory
  failures, crashes

memory == <<task, approvals, approved, idem, createIdem, apprIdem>>
volatile == <<mergeKeys, active>>
locks == <<queue, mergeQ>>
requests == <<op, pc, pend>>
log == <<ledger, durable>>
faults == <<drift, failures>>
vars == <<memory, volatile, locks, requests, log, crashes, faults>>

Ended == {"idle", "done", "error", "lost"}
PCs == Ended \cup {"queued", "mergeQueued", "classifying", "listing", "workspace",
                   "merging", "appending", "appended", "submitted", "answered",
                   "failed", "lateFailed"}

T(r) == op[r].task
Absent == [status |-> "absent", rev |-> 0, parts |-> {}, spaces |-> 0, label |-> None]
Fresh == [Absent EXCEPT !.status = "created"]

-----------------------------------------------------------------------------
(* replay                                                                    *)

EmptyMemory == [task |-> [t \in Tasks |-> Absent], approvals |-> {}, approved |-> {},
                idem |-> {}, createIdem |-> {}, apprIdem |-> {}]

StatusForgets(type, before) ==   \* mutant: replay has no case for task.cancelled
  IF type = "task.delegated" THEN "running" ELSE before
\* The statuses replay assigns.
StatusAfter(type, before) ==
  CASE type \in {"task.delegated", "task.approved"}           -> "running"
    [] type \in {"task.approval_requested", "task.conflict"}  -> "awaiting_approval"
    [] type \in {"task.completed", "task.merged"}             -> "completed"
    [] type \in {"task.rejected", "task.cancelled"}           -> "cancelled"
    [] type = "task.failed"                                   -> "failed"
    [] OTHER                                                  -> before

\* mutants: replay leaves the revision, or the isolated workspaces, as they were.
ReplayedWithoutRevision(k, e) ==
  [k EXCEPT !.status = StatusAfter(e.type, @),
            !.parts = IF e.type = "task.delegated" THEN @ \cup {e.who} ELSE @]
ReplayedWithoutSpaces(k, e) ==
  [k EXCEPT !.status = StatusAfter(e.type, @), !.rev = e.rev,
            !.parts = IF e.type = "task.delegated" THEN @ \cup {e.who} ELSE @]
ReplayedEnvelope(k, e) ==
  [status |-> StatusAfter(e.type, k.status),
   rev    |-> IF k.rev > e.rev THEN k.rev ELSE e.rev,
   parts  |-> IF e.type = "task.delegated" THEN k.parts \cup {e.who} ELSE k.parts,
   spaces |-> IF e.type = "task.delegated" THEN e.spaces
              ELSE IF e.type = "task.merged" THEN 0 ELSE k.spaces,
   label  |-> IF e.type = "task.classified" THEN e.by ELSE k.label]

\* replay: m is the memory, as a record of the class's Maps.
ReplayEvent(m, e) ==
  LET created == e.type = "task.created"
      before  == IF created THEN Fresh ELSE m.task[e.task]
      known   == before.status # "absent"
      keyOf   == {e.key} \ {None}
  IN [task       |-> IF known THEN [m.task EXCEPT ![e.task] = ReplayedEnvelope(before, e)]
                     ELSE m.task,
      approvals  |-> IF ~known THEN m.approvals
                     ELSE IF e.type = "task.approval_requested"
                     THEN m.approvals \cup {[id |-> e.by, task |-> e.task, action |-> e.action]}
                     ELSE IF e.type \in {"task.approved", "task.rejected"}
                     THEN {a \in m.approvals : a.id # e.about} ELSE m.approvals,
      approved   |-> IF known /\ e.type = "task.approved"
                     THEN m.approved \cup {<<e.task, e.action>>} ELSE m.approved,
      idem       |-> m.idem \cup keyOf,
      createIdem |-> IF created THEN m.createIdem \cup keyOf ELSE m.createIdem,
      apprIdem   |-> IF known /\ e.type = "task.approval_requested"
                     THEN m.apprIdem \cup keyOf ELSE m.apprIdem]

-----------------------------------------------------------------------------
Init ==
  /\ task = [t \in Tasks |-> Absent]
  /\ approvals = {} /\ approved = {}
  /\ idem = {} /\ createIdem = {} /\ apprIdem = {} /\ mergeKeys = {}
  /\ active = [t \in Tasks |-> 0]
  /\ queue = [t \in Tasks |-> <<>>] /\ mergeQ = <<>>
  /\ op = [r \in Requests |-> None]
  /\ pc = [r \in Requests |-> "idle"]
  /\ pend = [r \in Requests |-> None]
  /\ ledger = <<>> /\ durable = EmptyMemory
  /\ drift = {} /\ failures = 0 /\ crashes = 0

-----------------------------------------------------------------------------
(* The task lock, and the parts every handler is made of                     *)

Locked(r) == op[r].kind \notin {"create", "classify"}
HoldsIfQueued(r) == queue[T(r)] # <<>>   \* mutant: the chain is not awaited
Holds(r) == queue[T(r)] # <<>> /\ Head(queue[T(r)]) = r

\* withTaskLock: join the chain of the task's lock.
Enqueue(r, t) == queue' = [queue EXCEPT ![t] = Append(@, r)]

\* mutant: a handler that throws keeps the lock (no finally).
AnswerKeepsLock(r, how) ==
  /\ pc' = [pc EXCEPT ![r] = how]
  /\ pend' = [pend EXCEPT ![r] = None]
  /\ queue' = IF Locked(r) /\ how # "error" THEN [queue EXCEPT ![T(r)] = Tail(@)] ELSE queue
  /\ mergeQ' = IF op[r].kind = "merge" THEN Tail(mergeQ) ELSE mergeQ

\* The handler returns or throws: its lock passes on, and so does the turn of
\* the merge queue.
Answer(r, how) ==
  /\ pc' = [pc EXCEPT ![r] = how]
  /\ pend' = [pend EXCEPT ![r] = None]
  /\ queue' = IF Locked(r) THEN [queue EXCEPT ![T(r)] = Tail(@)] ELSE queue
  /\ mergeQ' = IF op[r].kind = "merge" THEN Tail(mergeQ) ELSE mergeQ

EventOf(r, type, key, rev) ==
  [task |-> T(r), type |-> type, rev |-> rev, key |-> key, by |-> r,
   about |-> op[r].target, action |-> op[r].action, who |-> op[r].who,
   spaces |-> task'[T(r)].spaces]

\* commit up to ledger.append, for a caller that passes task.revision itself or
\* has just compared it.
StartCommit(r, type, key) ==
  /\ pend' = [pend EXCEPT ![r] = EventOf(r, type, key, task[T(r)].rev + 1)]
  /\ pc' = [pc EXCEPT ![r] = "appending"]
  /\ UNCHANGED <<locks, drift>>

\* commit up to ledger.append, for a caller that awaited since it compared the
\* revision: on a conflict the memory it changed stays changed.
CheckedCommit(r, type, key) ==
  IF op[r].exp = task[T(r)].rev
  THEN StartCommit(r, type, key)
  ELSE Answer(r, "error") /\ drift' = drift \cup {T(r)}

\* The idempotency key of the call is known: the recorded event answers it.
NeverReplayed(r) == FALSE   \* mutant: idempotency is not looked up
Replayed(r) == op[r].key # None /\ op[r].key \in idem

Stale(r) == op[r].exp \notin {Unchecked, task[T(r)].rev}

\* The handler gets the lock and its checks end it without a change: a replayed
\* idempotency key answers, a refusal throws.
Ends(r, how) == Answer(r, how) /\ UNCHANGED <<memory, volatile, drift>>

\* Handlers started under the lock share this frame.
UnderLock(r, kind) ==
  /\ pc[r] = "queued" /\ op[r].kind = kind /\ Holds(r)
  /\ UNCHANGED <<op, log, crashes, failures>>

-----------------------------------------------------------------------------
(* Calls                                                                     *)

Visible(t) == /\ task[t].status # "absent"
              /\ EarlyReads \/ task[t].rev > 0

WithArgs(c, exp, target) ==
  [kind |-> c.kind, task |-> c.task, who |-> c.who, action |-> c.action,
   key |-> c.key, exp |-> exp, target |-> target]

NoneInFlight(k) == FALSE   \* mutant: createInFlight is not looked up
CreateInFlight(k) ==
  \E r \in Requests : /\ pc[r] \in {"appending", "appended"}
                      /\ op[r].kind = "create" /\ op[r].key = k

\* createTask / createTaskInternal: a key in flight shares that call's promise,
\* a known key returns the task; otherwise the task enters the Map before its
\* event is appended, and without the task lock.
CreateTask(r, c) ==
  /\ c.kind = "create"
  /\ op' = [op EXCEPT ![r] = WithArgs(c, 0, None)]
  /\ IF c.key # None /\ (CreateInFlight(c.key) \/ c.key \in createIdem)
     THEN /\ pc' = [pc EXCEPT ![r] = "done"]
          /\ UNCHANGED <<task, pend>>
     ELSE /\ task[c.task].status = "absent"
          /\ \A e \in {ledger[i] : i \in 1 .. Len(ledger)} : e.task # c.task
          /\ task' = [task EXCEPT ![c.task] = Fresh]
          /\ pend' = [pend EXCEPT ![r] =
               [task |-> c.task, type |-> "task.created", rev |-> 1, key |-> c.key,
                by |-> r, about |-> None, action |-> None, who |-> c.who, spaces |-> 0]]
          /\ pc' = [pc EXCEPT ![r] = "appending"]
  /\ UNCHANGED <<approvals, approved, idem, createIdem, apprIdem, volatile, locks,
                 log, crashes, faults>>

\* A client sends the revision it sees; the approval commands let it send none.
Expected(c) == IF c.kind \in {"requestApproval", "approve", "reject"}
               THEN {task[c.task].rev, Unchecked} ELSE {task[c.task].rev}

\* delegate, record*, requestApproval and cancel go straight to the task's lock;
\* approve and reject first look their approval up.
CallLocked(r, c) ==
  /\ c.kind \in {"delegate", "evaluate", "record", "requestApproval", "cancel",
                 "approve", "reject"}
  /\ Visible(c.task)
  /\ \/ /\ c.kind \notin {"approve", "reject"}
        /\ \E exp \in Expected(c) : op' = [op EXCEPT ![r] = WithArgs(c, exp, None)]
     \/ \E a \in approvals :
          /\ c.kind \in {"approve", "reject"} /\ a.task = c.task
          /\ \E exp \in Expected(c) :
               op' = [op EXCEPT ![r] = WithArgs([c EXCEPT !.action = a.action], exp, a.id)]
  /\ pc' = [pc EXCEPT ![r] = "queued"]
  /\ Enqueue(r, c.task)
  /\ UNCHANGED <<memory, volatile, mergeQ, pend, log, crashes, faults>>

\* mergeTask: a known merge key answers at once; otherwise join mergeQueue.
CallMerge(r, c) ==
  /\ c.kind = "merge" /\ Visible(c.task)
  /\ op' = [op EXCEPT ![r] = WithArgs(c, task[c.task].rev, None)]
  /\ IF c.key # None /\ c.key \in mergeKeys
     THEN pc' = [pc EXCEPT ![r] = "done"] /\ UNCHANGED mergeQ
     ELSE pc' = [pc EXCEPT ![r] = "mergeQueued"] /\ mergeQ' = Append(mergeQ, r)
  /\ UNCHANGED <<memory, volatile, queue, pend, log, crashes, faults>>

\* performMerge starts when the merges before it have settled.
MergeTurn(r) ==
  /\ pc[r] = "mergeQueued" /\ mergeQ # <<>> /\ Head(mergeQ) = r
  /\ pc' = [pc EXCEPT ![r] = "queued"]
  /\ Enqueue(r, T(r))
  /\ UNCHANGED <<memory, volatile, mergeQ, op, pend, log, crashes, faults>>

\* classifyTask up to the await of the adapter or its 5 s timeout: no lock.
CallClassify(r, c) ==
  /\ c.kind = "classify" /\ Visible(c.task)
  /\ op' = [op EXCEPT ![r] = WithArgs(c, task[c.task].rev, None)]
  /\ pc' = [pc EXCEPT ![r] = "classifying"]
  /\ UNCHANGED <<memory, volatile, locks, pend, log, crashes, faults>>

Invoke(r) ==
  /\ pc[r] = "idle"
  /\ Cardinality({x \in Requests : pc[x] \notin Ended}) < MaxPending
  /\ \E c \in Calls : \/ CreateTask(r, c) \/ CallLocked(r, c)
                      \/ CallMerge(r, c) \/ CallClassify(r, c)

-----------------------------------------------------------------------------
(* Handlers, from the grant of the lock to their first await                 *)

\* The approvals an API provider needs (prepareDelegation's two gates).
GatesOfPaid(p) ==   \* mutant: an allowed API budget skips the privacy gate
  IF p \in ApiProviders /\ ~AllowApiSpend THEN {"budget-overage", "external-send"} ELSE {}
Gates(p) ==
  IF p \notin ApiProviders THEN {}
  ELSE (IF AllowApiSpend THEN {} ELSE {"budget-overage"})
       \cup (IF ExternalApproved THEN {} ELSE {"external-send"})

CrowdedOut(t, p) == /\ p \notin task[t].parts
                    /\ Cardinality(task[t].parts) >= MaxParticipants

\* prepareDelegation
Delegate(r) ==
  LET t == T(r) p == op[r].who IN
  /\ UnderLock(r, "delegate")
  /\ IF Replayed(r) THEN Ends(r, "done")
     ELSE IF \/ op[r].exp # task[t].rev
             \/ \E g \in Gates(p) : <<t, g>> \notin approved
             \/ CrowdedOut(t, p)
     THEN Ends(r, "error")
     ELSE /\ task' = [task EXCEPT ![t] = [@ EXCEPT !.status = "running",
                                                 !.parts = task[t].parts \cup {p}]]
          /\ IF p \in CodeWriters
             THEN /\ pc' = [pc EXCEPT ![r] = "workspace"]
                  /\ UNCHANGED <<locks, pend, drift>>
             ELSE StartCommit(r, "task.delegated", op[r].key)
          /\ UNCHANGED <<approvals, approved, idem, createIdem, apprIdem, volatile>>

\* recordEvaluation up to listProposals, which awaits ledger.list.
Evaluate(r) ==
  /\ UnderLock(r, "evaluate")
  /\ IF Replayed(r) THEN Ends(r, "done")
     ELSE /\ pc' = [pc EXCEPT ![r] = "listing"]
          /\ UNCHANGED <<memory, volatile, locks, pend, drift>>

\* recordEvidence and synthesize: the same control.
Record(r) ==
  /\ UnderLock(r, "record")
  /\ IF Replayed(r) THEN Ends(r, "done")
     ELSE IF op[r].exp # task[T(r)].rev THEN Ends(r, "error")
     ELSE UNCHANGED <<memory, volatile>> /\ StartCommit(r, "task.recorded", op[r].key)

RequestApproval(r) ==
  /\ UnderLock(r, "requestApproval")
  /\ IF op[r].key # None /\ op[r].key \in apprIdem THEN Ends(r, "done")
     ELSE IF Stale(r) THEN Ends(r, "error")
     ELSE /\ approvals' = approvals \cup {[id |-> r, task |-> T(r), action |-> op[r].action]}
          /\ apprIdem' = apprIdem \cup ({op[r].key} \ {None})
          /\ task' = [task EXCEPT ![T(r)].status = "awaiting_approval"]
          /\ StartCommit(r, "task.approval_requested", op[r].key)
          /\ UNCHANGED <<approved, idem, createIdem, volatile>>

\* The pending approval the call names, looked up again under the lock.
DecidedBefore(r) ==   \* mutant: the approval found before the lock is used
  {[id |-> op[r].target, task |-> T(r), action |-> op[r].action]}
Decided(r) == {a \in approvals : a.id = op[r].target}

\* approve
Approve(r) ==
  /\ UnderLock(r, "approve")
  /\ IF Replayed(r) THEN Ends(r, "done")
     ELSE IF Decided(r) = {} \/ Stale(r) THEN Ends(r, "error")
     ELSE /\ task' = [task EXCEPT ![T(r)].status = "running"]
          /\ approvals' = approvals \ Decided(r)
          /\ approved' = approved \cup {<<T(r), op[r].action>>}
          /\ StartCommit(r, "task.approved", op[r].key)
          /\ UNCHANGED <<idem, createIdem, apprIdem, volatile>>

\* reject
Reject(r) ==
  /\ UnderLock(r, "reject")
  /\ IF Replayed(r) THEN Ends(r, "done")
     ELSE IF Decided(r) = {} \/ Stale(r) THEN Ends(r, "error")
     ELSE /\ task' = [task EXCEPT ![T(r)].status = "cancelled"]
          /\ approvals' = approvals \ Decided(r)
          /\ StartCommit(r, "task.rejected", op[r].key)
          /\ UNCHANGED <<approved, idem, createIdem, apprIdem, volatile>>

\* cancel.  After the lock is released adapter.cancel aborts the task's running
\* submissions: they end with an error, one of the outcomes AdapterEnds offers.
Cancel(r) ==
  /\ UnderLock(r, "cancel")
  /\ IF Replayed(r) THEN Ends(r, "done")
     ELSE IF op[r].exp # task[T(r)].rev THEN Ends(r, "error")
     ELSE /\ task' = [task EXCEPT ![T(r)].status = "cancelled"]
          /\ StartCommit(r, "task.cancelled", op[r].key)
          /\ UNCHANGED <<approvals, approved, idem, createIdem, apprIdem, volatile>>

\* performMerge up to the first git command.
Merge(r) ==
  /\ UnderLock(r, "merge")
  /\ IF \/ op[r].exp # task[T(r)].rev
        \/ <<T(r), "merge">> \notin approved
        \/ task[T(r)].spaces = 0
     THEN Ends(r, "error")
     ELSE /\ pc' = [pc EXCEPT ![r] = "merging"]
          /\ UNCHANGED <<memory, volatile, locks, pend, drift>>

AlwaysOn(r) == FALSE   \* mutant: cancellation is not looked at
Cancelled(r) == task[T(r)].status = "cancelled"

\* releaseDelegation, once per delegation (the flag released).
ReleasedTwice(r) ==   \* mutant: the catch releases again
  [active EXCEPT ![T(r)] = IF @ > 0 THEN @ - 1 ELSE 0]
ReleasedOnSuccess(r) ==   \* mutant: the catch does not release
  IF pc[r] = "answered" THEN [active EXCEPT ![T(r)] = IF @ > 0 THEN @ - 1 ELSE 0] ELSE active
Released(r) ==
  IF pc[r] = "lateFailed" THEN active
  ELSE [active EXCEPT ![T(r)] = IF @ > 0 THEN @ - 1 ELSE 0]

\* delegate, after adapter.submit returned a non-empty text.
FinishDelegation(r) ==
  /\ pc[r] = "answered" /\ Holds(r)
  /\ active' = Released(r)
  /\ IF Cancelled(r)
     THEN Answer(r, "done") /\ UNCHANGED <<task, drift>>
     ELSE UNCHANGED task /\ StartCommit(r, "task.proposal", None)
  /\ UNCHANGED <<approvals, approved, idem, createIdem, apprIdem, mergeKeys, op,
                 log, crashes, failures>>

\* delegate's catch: the adapter failed, or ("lateFailed") recording its answer
\* did, after the delegation was released.
FailDelegation(r) ==
  /\ pc[r] \in {"failed", "lateFailed"} /\ Holds(r)
  /\ active' = Released(r)
  /\ IF Cancelled(r)
     THEN Answer(r, "error") /\ UNCHANGED <<task, drift>>
     ELSE /\ task' = [task EXCEPT ![T(r)].status = "failed"]
          /\ StartCommit(r, "task.failed", None)
  /\ UNCHANGED <<approvals, approved, idem, createIdem, apprIdem, mergeKeys, op,
                 log, crashes, failures>>

-----------------------------------------------------------------------------
(* What the awaits return                                                    *)

\* createIsolatedWorkspace returned a new worktree.
WorkspaceReady(r) ==
  /\ pc[r] = "workspace"
  /\ task' = [task EXCEPT ![T(r)].spaces = @ + 1]
  /\ CheckedCommit(r, "task.delegated", op[r].key)
  /\ UNCHANGED <<approvals, approved, idem, createIdem, apprIdem, volatile, op,
                 log, crashes, failures>>

\* createIsolatedWorkspace threw: the task is left running, with the participant.
WorkspaceFails(r) ==
  /\ pc[r] = "workspace" /\ failures < MaxFailures
  /\ failures' = failures + 1
  /\ drift' = drift \cup {T(r)}
  /\ Answer(r, "error")
  /\ UNCHANGED <<memory, volatile, op, log, crashes>>

\* listProposals returned (or threw, without a change); only now is the revision
\* compared, by commit.
ProposalsListed(r) ==
  /\ pc[r] = "listing"
  /\ UNCHANGED <<memory, volatile, op, log, crashes>>
  /\ \/ /\ op[r].exp = task[T(r)].rev
        /\ StartCommit(r, "task.recorded", op[r].key)
        /\ UNCHANGED failures
     \/ /\ op[r].exp # task[T(r)].rev
        /\ Answer(r, "error") /\ UNCHANGED <<drift, failures>>
     \/ /\ failures < MaxFailures /\ failures' = failures + 1
        /\ Answer(r, "error") /\ UNCHANGED drift

\* Every workspace of the task merged into the base.
MergeSucceeds(r) ==
  /\ pc[r] = "merging"
  /\ task' = [task EXCEPT ![T(r)] = [@ EXCEPT !.status = "completed", !.spaces = 0]]
  /\ CheckedCommit(r, "task.merged", op[r].key)
  /\ UNCHANGED <<approvals, approved, idem, createIdem, apprIdem, volatile, op,
                 log, crashes, failures>>

\* A merge command failed and was aborted.
MergeConflicts(r) ==
  /\ pc[r] = "merging"
  /\ task' = [task EXCEPT ![T(r)].status = "awaiting_approval"]
  /\ StartCommit(r, "task.conflict", None)
  /\ UNCHANGED <<approvals, approved, idem, createIdem, apprIdem, volatile, op,
                 log, crashes, failures>>

\* classifyTask after its adapter answered, failed or timed out: the tags, the
\* title and the goal (label) change before commit compares the revision.
ClassifyEnds(r) ==
  /\ pc[r] = "classifying"
  /\ task' = [task EXCEPT ![T(r)].label = r]
  /\ CheckedCommit(r, "task.classified", op[r].key)
  /\ UNCHANGED <<approvals, approved, idem, createIdem, apprIdem, volatile, op,
                 log, crashes, failures>>

\* adapter.submit settles: with a text, or with an error, an empty text, a
\* timeout or an abort.  Either way delegate asks for the task's lock again.
AdapterEnds(r) ==
  /\ pc[r] = "submitted"
  /\ \E how \in {"answered", "failed"} : pc' = [pc EXCEPT ![r] = how]
  /\ Enqueue(r, T(r))
  /\ UNCHANGED <<memory, volatile, mergeQ, op, pend, log, crashes, faults>>

\* ledger.append made the event durable; its promise has not resumed commit yet.
LedgerAppends(r) ==
  /\ pc[r] = "appending"
  /\ ledger' = Append(ledger, pend[r])
  /\ durable' = ReplayEvent(durable, pend[r])
  /\ pc' = [pc EXCEPT ![r] = "appended"]
  /\ UNCHANGED <<memory, volatile, locks, op, pend, crashes, faults>>

\* ledger.append threw.  The handler throws too; delegate's answer path enters
\* its catch and asks for the lock again.
LedgerFails(r) ==
  /\ pc[r] = "appending" /\ failures < MaxFailures
  /\ failures' = failures + 1
  /\ IF pend[r].type \in {"task.proposal", "task.completed"}
     THEN /\ pc' = [pc EXCEPT ![r] = "lateFailed"]
          /\ pend' = [pend EXCEPT ![r] = None]
          /\ queue' = [queue EXCEPT ![T(r)] = Append(Tail(@), r)]
          /\ UNCHANGED <<mergeQ, drift>>
     ELSE /\ Answer(r, "error")
          /\ drift' = IF pend[r].type = "task.recorded" THEN drift ELSE drift \cup {T(r)}
  /\ UNCHANGED <<memory, volatile, op, log, crashes>>

\* mutant: a missing key is stored too.
AcknowledgeAny(r) ==
  /\ idem' = idem \cup {pend[r].key}
  /\ UNCHANGED <<approvals, approved, apprIdem, op, log, crashes, faults>>

\* commit after ledger.append: the key and the revision become visible.
Acknowledge(r) ==
  /\ idem' = idem \cup ({pend[r].key} \ {None})
  /\ UNCHANGED <<approvals, approved, apprIdem, op, log, crashes, faults>>

\* ... of the handlers that return once their event is recorded.
CommitReturns(r) ==
  LET e == pend[r] IN
  /\ pc[r] = "appended"
  /\ e.type \notin {"task.delegated", "task.proposal"}
  /\ task' = [task EXCEPT ![e.task].rev = e.rev]
  /\ createIdem' = IF e.type = "task.created" THEN createIdem \cup ({e.key} \ {None})
                   ELSE createIdem
  /\ mergeKeys' = IF e.type = "task.merged" THEN mergeKeys \cup ({e.key} \ {None})
                  ELSE mergeKeys
  /\ Answer(r, IF e.type \in {"task.failed", "task.conflict"} THEN "error" ELSE "done")
  /\ Acknowledge(r) /\ UNCHANGED active

\* ... of prepareDelegation: the lock is released and the adapter is called.
DelegationStarts(r) ==
  LET e == pend[r] IN
  /\ pc[r] = "appended" /\ e.type = "task.delegated"
  /\ task' = [task EXCEPT ![e.task].rev = e.rev]
  /\ active' = [active EXCEPT ![e.task] = @ + 1]
  /\ Answer(r, "submitted")
  /\ Acknowledge(r) /\ UNCHANGED <<createIdem, mergeKeys>>

FirstOut(t) == task[t].status = "running"   \* mutant: others still work on the task
LastOut(t) == active[t] = 0 /\ task[t].status = "running"

\* ... of a proposal: the last delegation of a running task completes it.
ProposalRecorded(r) ==
  LET e == pend[r] IN
  /\ pc[r] = "appended" /\ e.type = "task.proposal"
  /\ IF LastOut(e.task)
     THEN /\ task' = [task EXCEPT ![e.task] = [@ EXCEPT !.rev = e.rev, !.status = "completed"]]
          /\ pend' = [pend EXCEPT ![r] = EventOf(r, "task.completed", None, e.rev + 1)]
          /\ pc' = [pc EXCEPT ![r] = "appending"]
          /\ UNCHANGED locks
     ELSE /\ task' = [task EXCEPT ![e.task].rev = e.rev]
          /\ Answer(r, "done")
  /\ Acknowledge(r) /\ UNCHANGED <<createIdem, mergeKeys, active>>

-----------------------------------------------------------------------------
(* The process crashes and starts again.  initialize replays the whole       *)
(* ledger before the server listens, so nothing happens in between; calls in *)
(* flight are lost, and so is what replay does not rebuild.                  *)
CrashAndRestart ==
  /\ crashes < MaxCrashes
  /\ crashes' = crashes + 1
  /\ task' = durable.task
  /\ approvals' = durable.approvals /\ approved' = durable.approved
  /\ idem' = durable.idem /\ createIdem' = durable.createIdem
  /\ apprIdem' = durable.apprIdem
  /\ mergeKeys' = {}
  /\ active' = [t \in Tasks |-> 0]
  /\ queue' = [t \in Tasks |-> <<>>] /\ mergeQ' = <<>>
  /\ pc' = [r \in Requests |-> IF pc[r] \in Ended THEN pc[r] ELSE "lost"]
  /\ pend' = [r \in Requests |-> None]
  /\ drift' = {}
  /\ UNCHANGED <<op, log, failures>>

-----------------------------------------------------------------------------
(* A handler's own steps; the provider and the clients are the environment.  *)
HandlerStep(r) ==
  \/ MergeTurn(r) \/ Delegate(r) \/ Evaluate(r) \/ Record(r) \/ RequestApproval(r)
  \/ Approve(r) \/ Reject(r) \/ Cancel(r) \/ Merge(r)
  \/ FinishDelegation(r) \/ FailDelegation(r) \/ WorkspaceReady(r) \/ WorkspaceFails(r)
  \/ ProposalsListed(r) \/ MergeSucceeds(r) \/ MergeConflicts(r) \/ ClassifyEnds(r)
  \/ LedgerAppends(r) \/ LedgerFails(r)
  \/ CommitReturns(r) \/ DelegationStarts(r) \/ ProposalRecorded(r)

Next ==
  \/ \E r \in Requests : Invoke(r) \/ HandlerStep(r) \/ AdapterEnds(r)
  \/ CrashAndRestart

Spec == Init /\ [][Next]_vars

-----------------------------------------------------------------------------
(* Properties                                                                *)

Arguments == [kind : Kinds, task : Tasks, who : Providers \cup {None},
              action : ApprovalActions \cup {None}, key : Keys \cup {None},
              exp : Nat \cup {Unchecked}, target : Requests \cup {None}]

MemoryOK ==
  /\ task \in [Tasks -> Envelope]
  /\ approvals \subseteq Approval
  /\ approved \subseteq Tasks \X (ApprovalActions \cup {None})
  /\ idem \subseteq Keys /\ createIdem \subseteq Keys
  /\ apprIdem \subseteq Keys /\ mergeKeys \subseteq Keys
  /\ active \in [Tasks -> Nat]
RequestsOK ==
  /\ queue \in [Tasks -> Seq(Requests)] /\ mergeQ \in Seq(Requests)
  /\ pc \in [Requests -> PCs]
  /\ op \in [Requests -> Arguments \cup {None}]
  /\ \A r \in Requests : pc[r] # "idle" => op[r] \in Arguments
  /\ pend \in [Requests -> Event \cup {None}]
  /\ \A r \in Requests : pc[r] \in {"appending", "appended"} => pend[r] \in Event
Maps == [task : [Tasks -> Envelope], approvals : SUBSET Approval,
         approved : SUBSET (Tasks \X (ApprovalActions \cup {None})),
         idem : SUBSET Keys, createIdem : SUBSET Keys, apprIdem : SUBSET Keys]
LogOK == ledger \in Seq(Event) /\ durable \in Maps

\* The type invariant: the maps of the class, the suspended calls and the ledger.
TypeOK ==
  /\ MemoryOK /\ RequestsOK /\ LogOK
  /\ drift \subseteq Tasks
  /\ failures \in 0 .. MaxFailures /\ crashes \in 0 .. MaxCrashes

Events == DOMAIN ledger
EventsOf(t) == {i \in Events : ledger[i].task = t}
On(t, pcs) == {r \in Requests : pc[r] \in pcs /\ T(r) = t}

\* The revisions a task's events carry strictly increase along the ledger: the
\* per-task lock really serializes the transitions, across every await of a
\* commit, so no two commands are accepted at one revision.
RevisionsIncrease ==
  \A i, j \in Events :
    i < j /\ ledger[i].task = ledger[j].task => ledger[i].rev < ledger[j].rev

\* The revision in memory, the one clients are compared with, counts the task's
\* durable events, give or take the one whose append has not resumed yet; also
\* after a failed append and after a restart.
RevisionCountsEvents ==
  \A t \in Tasks :
    task[t].rev + Cardinality(On(t, {"appended"})) = Cardinality(EventsOf(t))

Reopening == {"task.delegated", "task.approved", "task.approval_requested",
              "task.conflict", "task.merged"}

\* What a provider answers after the user cancelled or rejected the task is not
\* recorded, unless a later command took the task up again.
LateAnswersDropped ==
  \A i, j \in Events :
    /\ i < j /\ ledger[i].task = ledger[j].task
    /\ ledger[i].type \in {"task.cancelled", "task.rejected"}
    /\ ledger[j].type \in {"task.proposal", "task.completed", "task.failed"}
    => \E k \in i .. j : ledger[k].task = ledger[i].task /\ ledger[k].type \in Reopening

\* A command repeated with its idempotency key is recorded once, whether the
\* repetition overlaps the first call, follows it, or follows a restart; for
\* createTask the key names the command on its own.
RecordedOnce ==
  \A i, j \in Events :
    /\ ledger[i].key # None /\ ledger[i].key = ledger[j].key
    /\ ledger[i].type = ledger[j].type
    /\ ledger[i].task = ledger[j].task \/ ledger[i].type = "task.created"
    => i = j

\* What an API provider needs the user's approval of.
Required(p) == {g \in {"budget-overage", "external-send"} :
                  /\ p \in ApiProviders
                  /\ g = "budget-overage" => ~AllowApiSpend
                  /\ g = "external-send" => ~ExternalApproved}

\* A merge, and a submission to a provider outside the task's budget or privacy,
\* happens only after the ledger holds the user's approval of it.
ApprovedFirst ==
  \A j \in Events :
    \A g \in (IF ledger[j].type = "task.merged" THEN {"merge"}
              ELSE IF ledger[j].type = "task.delegated" THEN Required(ledger[j].who) ELSE {}) :
      \E i \in Events : /\ i < j /\ ledger[i].task = ledger[j].task
                        /\ ledger[i].type = "task.approved" /\ ledger[i].action = g

\* An approval request is decided at most once, and only after it was made:
\* racing approve and reject calls cannot both take effect.
DecidedOnce ==
  \A i \in Events : ledger[i].type \in {"task.approved", "task.rejected"} =>
    /\ \E k \in Events : /\ k < i /\ ledger[k].type = "task.approval_requested"
                         /\ ledger[k].by = ledger[i].about
    /\ \A j \in Events : (/\ ledger[j].type \in {"task.approved", "task.rejected"}
                          /\ ledger[j].about = ledger[i].about) => i = j

\* A task the user rejected stays rejected, as the life cycle of
\* docs/reference/durable-agent-broker-protocol.ko.md draws it: nothing recorded
\* later runs, completes or merges it.
RejectedIsFinal ==
  \A i, j \in Events :
    i < j /\ ledger[i].task = ledger[j].task /\ ledger[i].type = "task.rejected"
    => ledger[j].type \notin {"task.approved", "task.delegated", "task.completed", "task.merged"}

\* activeDelegations counts exactly the delegations a provider still works on or
\* whose outcome waits for the lock: no path releases one twice or never.
ActiveCounts ==
  \A t \in Tasks :
    active[t] = Cardinality(On(t, {"submitted", "answered", "failed"}))

\* A task is completed by its last delegation only: while task.completed is
\* recorded no other provider works on the task.
CompletedAlone ==
  \A r \in Requests :
    pc[r] \in {"appending", "appended"} /\ pend[r].type = "task.completed"
    => On(T(r), {"submitted", "answered", "failed"}) = {}

\* While no handler is in the middle of a change of a task, a restart would
\* restore exactly what memory says of it: status, revision, participants,
\* workspaces, pending approvals and granted actions.  The exception are tasks
\* on which a handler threw after changing memory (drift).
Quiet(t) == On(t, PCs \ (Ended \cup {"queued", "mergeQueued", "classifying",
                                     "listing", "submitted", "answered", "failed"})) = {}
MemoryIsReplay ==
  \A t \in Tasks \ drift : Quiet(t) =>
    /\ task[t] = durable.task[t]
    /\ {a \in approvals : a.task = t} = {a \in durable.approvals : a.task = t}
    /\ {a \in approved : a[1] = t} = {a \in durable.approved : a[1] = t}

\* A hung provider never holds the task's lock: with no fairness on adapters
\* and clients, a call that waits for the lock gets it (comment at line 48).
Waiting(r) == pc[r] \in {"queued", "mergeQueued", "answered", "failed", "lateFailed"}
Fairness == \A r \in Requests : WF_vars(HandlerStep(r))
FairSpec == Spec /\ Fairness
LockIsGranted == \A r \in Requests : Waiting(r) ~> ~Waiting(r)
=============================================================================
