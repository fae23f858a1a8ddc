-------------------------- MODULE TaskBrokerReplay --------------------------
(* What memory says of a task, against the ledger: the count of delegations, *)
(* the revision, the state a restart would rebuild, and the idempotency keys *)
(* that tell a repeated command from a new one.                              *)
EXTENDS TaskBrokerRevisions, FiniteSetTheorems

-----------------------------------------------------------------------------
(* activeDelegations counts the delegations at work.  No assumption on the   *)
(* calls: the count is right also when classifyTask commits in between.      *)

Working == {"submitted", "answered", "failed"}
Completing(r) == Committing(r) /\ pend[r].type = "task.completed"

ActiveInv ==
  /\ SafeInv
  /\ \A t \in Tasks : IsFiniteSet(On(t, Working)) /\ active[t] = Cardinality(On(t, Working))
  /\ \A r \in Requests : Completing(r) => On(T(r), Working) = {}

\* A step that starts or ends no delegation, and starts no completion.
StillWorks(r) ==
  /\ active' = active
  /\ \A x \in Requests \ {r} : op'[x] = op[x] /\ pc'[x] = pc[x] /\ pend'[x] = pend[x]
  /\ \/ pc'[r] \notin Working /\ pc[r] \notin Working
     \/ pc'[r] \in Working /\ pc[r] \in Working /\ op'[r] = op[r]
  /\ Completing(r)' => Completing(r) /\ op'[r] = op[r]

LEMMA StillWorksStep ==
  ASSUME ActiveInv, SafeInv', NEW r \in Requests, StillWorks(r)
  PROVE  ActiveInv'
<1>1. \A t \in Tasks : On(t, Working)' = On(t, Working)
  BY DEF StillWorks, On, T
<1>2. ASSUME NEW x \in Requests, Completing(x)'
      PROVE  Completing(x) /\ T(x)' = T(x) /\ T(x) \in Tasks
  <2>1. Completing(x) /\ T(x)' = T(x)
    <3>1. CASE x = r
      BY <1>2, <3>1 DEF StillWorks, T
    <3>2. CASE x # r
      BY <1>2, <3>2 DEF StillWorks, Completing, Committing, T
    <3> QED BY <3>1, <3>2
  <2> QED BY <2>1 DEF ActiveInv, SafeInv, TypeOK, RequestsOK, Completing, Committing, T, Arguments
<1>3. active' = active
  BY DEF StillWorks
<1> QED BY <1>1, <1>2, <1>3 DEF ActiveInv

\* A delegation ends: its outcome is taken up under the lock.
LEMMA DelegationEnds ==
  ASSUME ActiveInv, SafeInv', NEW r \in Requests, pc[r] \in Working, pc'[r] \notin Working,
         op' = op, \A x \in Requests \ {r} : pc'[x] = pc[x] /\ pend'[x] = pend[x],
         active' = [active EXCEPT ![T(r)] = IF @ > 0 THEN @ - 1 ELSE 0],
         ~Completing(r)'
  PROVE  ActiveInv'
<1> DEFINE t == T(r)
<1>1. t \in Tasks /\ \A x \in Requests : T(x)' = T(x)
  BY DEF ActiveInv, SafeInv, TypeOK, RequestsOK, T, Arguments, Working
<1>2. On(t, Working)' = On(t, Working) \ {r} /\ r \in On(t, Working)
  BY <1>1 DEF On
<1>3. \A u \in Tasks \ {t} : On(u, Working)' = On(u, Working)
  BY <1>1 DEF On
<1>4. /\ IsFiniteSet(On(t, Working)') /\ Cardinality(On(t, Working)) \in Nat
      /\ Cardinality(On(t, Working)') = Cardinality(On(t, Working)) - 1
      /\ Cardinality(On(t, Working)') \in Nat
  <2>1. IsFiniteSet(On(t, Working))
    BY <1>1 DEF ActiveInv
  <2>2. IsFiniteSet(On(t, Working) \ {r}) /\ Cardinality(On(t, Working) \ {r}) = Cardinality(On(t, Working)) - 1
    BY <1>2, <2>1, FS_RemoveElement
  <2> QED BY <1>2, <2>1, <2>2, FS_CardinalityType
<1>5. active[t] = Cardinality(On(t, Working)) /\ active \in [Tasks -> Nat]
  BY <1>1 DEF ActiveInv, SafeInv, TypeOK, MemoryOK
<1>6. \A u \in Tasks : IsFiniteSet(On(u, Working))' /\ (active[u] = Cardinality(On(u, Working)))'
  <2> TAKE u \in Tasks
  <2>1. CASE u = t
    BY <1>1, <1>4, <1>5, <2>1
  <2>2. CASE u # t
    BY <1>1, <1>3, <1>5, <2>2 DEF ActiveInv
  <2> QED BY <2>1, <2>2
<1>7. ASSUME NEW x \in Requests, Completing(x)' PROVE On(T(x), Working)' = {}
  <2>1. x # r /\ Completing(x) /\ T(x)' = T(x) /\ T(x) \in Tasks
    BY <1>1, <1>7 DEF Completing, Committing, ActiveInv, SafeInv, TypeOK, RequestsOK, T, Arguments
  <2>2. On(T(x), Working) = {}
    BY <2>1 DEF ActiveInv
  <2> QED BY <1>2, <1>3, <2>1, <2>2
<1> QED BY <1>6, <1>7 DEF ActiveInv

\* A delegation starts: its task.delegated is recorded and the adapter is called.
LEMMA DelegationBegins ==
  ASSUME ActiveInv, SafeInv', NEW r \in Requests, DelegationStarts(r)
  PROVE  ActiveInv'
<1> DEFINE t == T(r)
<1>1. /\ pc[r] = "appended" /\ Committing(r) /\ t \in Tasks /\ pend[r].task = t
      /\ pend[r].type = "task.delegated" /\ op' = op /\ pc' = [pc EXCEPT ![r] = "submitted"]
      /\ pend' = [pend EXCEPT ![r] = None] /\ active' = [active EXCEPT ![t] = @ + 1]
      /\ \A x \in Requests : T(x)' = T(x)
  BY DEF DelegationStarts, Answer, Acknowledge, ActiveInv, SafeInv, TypeOK, RequestsOK, CallOK,
         Committing, T, Arguments
<1>2. pc \in [Requests -> PCs] /\ pend \in [Requests -> Event \cup {None}] /\ active \in [Tasks -> Nat]
  BY DEF ActiveInv, SafeInv, TypeOK, RequestsOK, MemoryOK
<1>3. On(t, Working)' = On(t, Working) \cup {r} /\ r \notin On(t, Working)
  BY <1>1, <1>2 DEF On, Working
<1>4. \A u \in Tasks \ {t} : On(u, Working)' = On(u, Working)
  BY <1>1, <1>2 DEF On
<1>5. /\ IsFiniteSet(On(t, Working)') /\ Cardinality(On(t, Working)) \in Nat
      /\ Cardinality(On(t, Working)') = Cardinality(On(t, Working)) + 1
  <2>1. IsFiniteSet(On(t, Working))
    BY <1>1 DEF ActiveInv
  <2>2. IsFiniteSet(On(t, Working) \cup {r}) /\ Cardinality(On(t, Working) \cup {r}) = Cardinality(On(t, Working)) + 1
    BY <1>3, <2>1, FS_AddElement
  <2> QED BY <1>3, <2>1, <2>2, FS_CardinalityType
<1>6. \A u \in Tasks : IsFiniteSet(On(u, Working))' /\ (active[u] = Cardinality(On(u, Working)))'
  <2> TAKE u \in Tasks
  <2>1. CASE u = t
    BY <1>1, <1>2, <1>5, <2>1 DEF ActiveInv
  <2>2. CASE u # t
    BY <1>1, <1>2, <1>4, <2>2 DEF ActiveInv
  <2> QED BY <2>1, <2>2
<1>7. ASSUME NEW x \in Requests, Completing(x)' PROVE On(T(x), Working)' = {}
  <2>1. x # r /\ Completing(x) /\ T(x)' = T(x) /\ T(x) \in Tasks
    BY <1>1, <1>2, <1>7 DEF Completing, Committing, ActiveInv, SafeInv, TypeOK, RequestsOK, T, Arguments
  <2>2. T(x) # t
    <3>1. Locked(x) /\ Locked(r) /\ Inside(x) /\ Inside(r)
      BY <1>1, <2>1 DEF Completing, Committing, Inside, Locked, Delegating, ActiveInv, SafeInv, CallOK
    <3> QED BY <2>1, <3>1 DEF ActiveInv, SafeInv, LockOK, HasLock, Holds
  <2>3. On(T(x), Working) = {}
    BY <2>1 DEF ActiveInv
  <2> QED BY <1>4, <2>1, <2>2, <2>3
<1> QED BY <1>6, <1>7 DEF ActiveInv

\* The proposal of the last delegation at work completes the task.
LEMMA CompletionBegins ==
  ASSUME ActiveInv, SafeInv', NEW r \in Requests, ProposalRecorded(r)
  PROVE  ActiveInv'
<1>1. /\ op' = op /\ active' = active /\ pc[r] = "appended" /\ pend[r].task = T(r) /\ T(r) \in Tasks
      /\ pc \in [Requests -> PCs] /\ pend \in [Requests -> Event \cup {None}]
  BY DEF ProposalRecorded, Acknowledge, ActiveInv, SafeInv, TypeOK, RequestsOK, CallOK, Committing,
         T, Arguments
<1>2. CASE LastOut(T(r)) /\ \E e : pend' = [pend EXCEPT ![r] = e] /\ pc' = [pc EXCEPT ![r] = "appending"]
  <2>1. On(T(r), Working) = {}
    <3>1. IsFiniteSet(On(T(r), Working)) /\ Cardinality(On(T(r), Working)) = 0
      BY <1>1, <1>2 DEF LastOut, ActiveInv
    <3> QED BY <3>1, FS_EmptySet
  <2>2. \A u \in Tasks : On(u, Working)' = On(u, Working)
    BY <1>1, <1>2 DEF On, Working, T
  <2>3. ASSUME NEW x \in Requests, Completing(x)' PROVE On(T(x), Working)' = {}
    <3>1. T(x)' = T(x) /\ T(x) \in Tasks
      BY <1>1, <1>2, <2>3 DEF T, Completing, Committing, ActiveInv, SafeInv, TypeOK, RequestsOK, Arguments
    <3>2. x # r => Completing(x)
      BY <1>1, <1>2, <2>3 DEF Completing, Committing
    <3> QED BY <2>1, <2>2, <3>1, <3>2 DEF ActiveInv
  <2> QED BY <1>1, <2>2, <2>3 DEF ActiveInv
<1>3. CASE Answer(r, "done")
  BY <1>1, <1>3, StillWorksStep DEF StillWorks, Answer, Working, Completing, Committing
<1> QED BY <1>1, <1>2, <1>3 DEF ProposalRecorded

\* A handler that answers or starts an append outside a delegation's outcome.
LEMMA StillWorksHow ==
  ASSUME SafeInv, op' = op, active' = active, NEW r \in Requests, pc[r] \notin Working,
         \/ \E how \in Ended : Answer(r, how)
         \/ \E type \in Types \ {"task.completed"} : \E key :
              StartCommit(r, type, key) \/ CheckedCommit(r, type, key)
  PROVE  StillWorks(r)
<1>1. pc \in [Requests -> PCs] /\ pend \in [Requests -> Event \cup {None}]
  BY DEF SafeInv, TypeOK, RequestsOK
<1>2. CASE \E how \in Ended : Answer(r, how)
  BY <1>1, <1>2 DEF Answer, StillWorks, Ended, Working, Completing, Committing
<1>3. ASSUME NEW type \in Types \ {"task.completed"}, NEW key, StartCommit(r, type, key)
      PROVE  StillWorks(r)
  <2>1. EventOf(r, type, key, task[T(r)].rev + 1).type # "task.completed"
    BY DEF EventOf
  <2> QED BY <1>1, <1>3, <2>1 DEF StartCommit, StillWorks, Working, Completing, Committing
<1>4. ASSUME NEW type \in Types \ {"task.completed"}, NEW key, CheckedCommit(r, type, key)
      PROVE  StillWorks(r)
  BY <1>2, <1>3, <1>4 DEF CheckedCommit, Ended
<1> QED BY <1>2, <1>3, <1>4

LEMMA HandlerStillWorks ==
  ASSUME SafeInv, NEW r \in Requests,
         \/ MergeTurn(r) \/ Delegate(r) \/ Evaluate(r) \/ Record(r) \/ RequestApproval(r)
         \/ Approve(r) \/ Reject(r) \/ Cancel(r) \/ Merge(r) \/ WorkspaceReady(r) \/ WorkspaceFails(r)
         \/ ProposalsListed(r) \/ MergeSucceeds(r) \/ MergeConflicts(r) \/ ClassifyEnds(r)
         \/ LedgerAppends(r) \/ LedgerFails(r) \/ CommitReturns(r) \/ AdapterEnds(r)
  PROVE  StillWorks(r)
<1>1. pc \in [Requests -> PCs] /\ pend \in [Requests -> Event \cup {None}]
  BY DEF SafeInv, TypeOK, RequestsOK
<1>2. op' = op /\ active' = active
  BY DEF MergeTurn, Delegate, Evaluate, Record, RequestApproval, Approve, Reject, Cancel, Merge,
         UnderLock, WorkspaceReady, WorkspaceFails, ProposalsListed, MergeSucceeds, MergeConflicts,
         ClassifyEnds, LedgerAppends, LedgerFails, CommitReturns, AdapterEnds, Acknowledge, Ends,
         volatile
<1>3. CASE MergeTurn(r) \/ LedgerAppends(r) \/ AdapterEnds(r)
  BY <1>1, <1>2, <1>3 DEF MergeTurn, LedgerAppends, AdapterEnds, StillWorks, Working, Completing,
                          Committing
<1>4. CASE \/ Delegate(r) \/ Evaluate(r) \/ Record(r) \/ RequestApproval(r)
           \/ Approve(r) \/ Reject(r) \/ Cancel(r) \/ Merge(r)
  <2>1. pc[r] \notin Working
    BY <1>4 DEF Delegate, Evaluate, Record, RequestApproval, Approve, Reject, Cancel, Merge,
                UnderLock, Working
  <2>2. \/ \E how \in Ended : Answer(r, how)
        \/ \E type \in Types \ {"task.completed"} : \E key : StartCommit(r, type, key)
        \/ /\ UNCHANGED pend
           /\ \E to \in {"listing", "workspace", "merging"} : pc' = [pc EXCEPT ![r] = to]
    BY <1>4 DEF Delegate, Evaluate, Record, RequestApproval, Approve, Reject, Cancel, Merge, Ends,
                Ended, Types
  <2>3. CASE /\ UNCHANGED pend
             /\ \E to \in {"listing", "workspace", "merging"} : pc' = [pc EXCEPT ![r] = to]
    BY <1>1, <1>2, <2>1, <2>3 DEF StillWorks, Working, Completing, Committing
  <2> QED BY <1>2, <2>1, <2>2, <2>3, StillWorksHow
<1>5. CASE \/ WorkspaceReady(r) \/ WorkspaceFails(r) \/ ProposalsListed(r) \/ MergeSucceeds(r)
           \/ MergeConflicts(r) \/ ClassifyEnds(r) \/ CommitReturns(r)
  <2>1. pc[r] \notin Working
    BY <1>5 DEF WorkspaceReady, WorkspaceFails, ProposalsListed, MergeSucceeds, MergeConflicts,
                ClassifyEnds, CommitReturns, Working
  <2>2. \/ \E how \in Ended : Answer(r, how)
        \/ \E type \in Types \ {"task.completed"} : \E key :
              StartCommit(r, type, key) \/ CheckedCommit(r, type, key)
    BY <1>5 DEF WorkspaceReady, WorkspaceFails, ProposalsListed, MergeSucceeds, MergeConflicts,
                ClassifyEnds, CommitReturns, Ended, Types
  <2> QED BY <1>2, <2>1, <2>2, StillWorksHow
<1>6. CASE LedgerFails(r)
  BY <1>1, <1>2, <1>6 DEF LedgerFails, Answer, StillWorks, Working, Completing, Committing
<1> QED BY <1>3, <1>4, <1>5, <1>6

\* The outcome of a delegation is taken up: the delegation ends, unless it had
\* already ended when recording its answer failed.
LEMMA OutcomeTaken ==
  ASSUME ActiveInv, SafeInv', NEW r \in Requests, FinishDelegation(r) \/ FailDelegation(r)
  PROVE  ActiveInv'
<1>1. /\ op' = op /\ active' = Released(r) /\ pc[r] \in {"answered", "failed", "lateFailed"}
      /\ pc \in [Requests -> PCs] /\ pend \in [Requests -> Event \cup {None}]
  BY DEF FinishDelegation, FailDelegation, ActiveInv, SafeInv, TypeOK, RequestsOK
<1>2. \/ \E how \in {"done", "error"} : Answer(r, how)
      \/ \E type \in {"task.proposal", "task.failed"} : StartCommit(r, type, None)
  BY DEF FinishDelegation, FailDelegation
<1>3. /\ pc'[r] \notin Working /\ ~Completing(r)'
      /\ \A x \in Requests \ {r} : pc'[x] = pc[x] /\ pend'[x] = pend[x]
  <2>1. \A type \in {"task.proposal", "task.failed"} :
          EventOf(r, type, None, task[T(r)].rev + 1).type # "task.completed"
    BY DEF EventOf
  <2> QED BY <1>1, <1>2, <2>1 DEF Answer, StartCommit, Working, Completing, Committing
<1>4. CASE pc[r] = "lateFailed"
  <2>1. StillWorks(r)
    BY <1>1, <1>3, <1>4 DEF StillWorks, Released, Working
  <2> QED BY <2>1, StillWorksStep
<1>5. CASE pc[r] # "lateFailed"
  BY <1>1, <1>3, <1>5, DelegationEnds DEF Released, Working
<1> QED BY <1>4, <1>5

LEMMA ActiveInit == Init => ActiveInv
<1> SUFFICES ASSUME Init PROVE ActiveInv
  OBVIOUS
<1>1. \A t \in Tasks : On(t, Working) = {} /\ active[t] = 0
  BY DEF Init, On, Working
<1>2. \A r \in Requests : ~Completing(r)
  BY DEF Init, Completing, Committing
<1> QED BY <1>1, <1>2, SafeInit, FS_EmptySet DEF ActiveInv

LEMMA ActiveNext == ActiveInv /\ [Next]_vars => ActiveInv'
<1> SUFFICES ASSUME ActiveInv, [Next]_vars PROVE ActiveInv'
  OBVIOUS
<1>1. SafeInv'
  BY SafeNext DEF ActiveInv
<1>2. CASE UNCHANGED vars
  BY <1>1, <1>2 DEF vars, volatile, requests, ActiveInv, On, Completing, Committing, T
<1>3. CASE CrashAndRestart
  <2>1. \A t \in Tasks : On(t, Working)' = {} /\ active'[t] = 0
    BY <1>3 DEF CrashAndRestart, On, Working, Ended
  <2>2. \A r \in Requests : ~Completing(r)'
    BY <1>3 DEF CrashAndRestart, Completing, Committing, Ended
  <2> QED BY <1>1, <2>1, <2>2, FS_EmptySet DEF ActiveInv
<1>4. ASSUME NEW r \in Requests, Invoke(r) PROVE ActiveInv'
  <2>1. PICK c \in Calls : \/ CreateTask(r, c) \/ CallLocked(r, c)
                           \/ CallMerge(r, c) \/ CallClassify(r, c)
    BY <1>4 DEF Invoke
  <2>2. /\ pc[r] = "idle" /\ active' = active /\ \E o : op' = [op EXCEPT ![r] = o]
        /\ \E e : pend' = [pend EXCEPT ![r] = e] /\ (e = pend[r] \/ e.type = "task.created")
        /\ \E to \in {"done", "appending", "queued", "mergeQueued", "classifying"} :
             pc' = [pc EXCEPT ![r] = to] /\ (to = "appending" => pend'[r].type = "task.created")
    <3>1. pend = [pend EXCEPT ![r] = pend[r]] /\ pend \in [Requests -> Event \cup {None}]
      BY DEF ActiveInv, SafeInv, TypeOK, RequestsOK
    <3>2. CASE CreateTask(r, c)
      <4> DEFINE e == [task |-> c.task, type |-> "task.created", rev |-> 1, key |-> c.key, by |-> r,
                       about |-> None, action |-> None, who |-> c.who, spaces |-> 0]
      <4>1. \/ pc' = [pc EXCEPT ![r] = "done"] /\ pend' = pend
            \/ pc' = [pc EXCEPT ![r] = "appending"] /\ pend' = [pend EXCEPT ![r] = e]
        BY <3>2 DEF CreateTask
      <4>2. e.type = "task.created" /\ active' = active
            /\ op' = [op EXCEPT ![r] = WithArgs(c, 0, None)] /\ pc[r] = "idle"
        BY <1>4, <3>2 DEF CreateTask, Invoke, volatile
      <4> HIDE DEF e
      <4> QED BY <3>1, <4>1, <4>2
    <3>3. CASE CallLocked(r, c) \/ CallMerge(r, c) \/ CallClassify(r, c)
      BY <1>4, <3>1, <3>3 DEF Invoke, CallLocked, CallMerge, CallClassify, volatile
    <3> QED BY <2>1, <3>2, <3>3
  <2>3. StillWorks(r)
    BY <2>2 DEF StillWorks, Working, Completing, Committing, ActiveInv, SafeInv, TypeOK, RequestsOK
  <2> QED BY <1>1, <2>3, StillWorksStep
<1>5. ASSUME NEW r \in Requests, HandlerStep(r) \/ AdapterEnds(r) PROVE ActiveInv'
  BY <1>1, <1>5, HandlerStillWorks, StillWorksStep, OutcomeTaken, DelegationBegins, CompletionBegins
     DEF HandlerStep, ActiveInv
<1> QED BY <1>2, <1>3, <1>4, <1>5 DEF Next

\* No path of delegate releases its delegation twice or never, whatever fails and
\* whatever else runs on the task.
THEOREM ActiveAlwaysCounts == Spec => []ActiveCounts
<1>1. ActiveInv => ActiveCounts
  BY DEF ActiveInv, ActiveCounts, Working
<1> QED BY ActiveInit, ActiveNext, <1>1, PTL DEF Spec

\* While task.completed is recorded no other delegation of the task is at work.
THEOREM CompletedIsAlone == Spec => []CompletedAlone
<1>1. ActiveInv => CompletedAlone
  BY DEF ActiveInv, CompletedAlone, Completing, Committing, Working
<1> QED BY ActiveInit, ActiveNext, <1>1, PTL DEF Spec

-----------------------------------------------------------------------------
(* The revision counts the task's durable events, as long as the calls are   *)
(* Serialized (TaskBrokerRevisions).                                         *)

Appended(t) == On(t, {"appended"})

CountInv == \A t \in Tasks :
  /\ durable.task[t].rev = Cardinality(EventsOf(t))
  /\ durable.task[t].rev = task[t].rev + (IF Appended(t) = {} THEN 0 ELSE 1)

LEMMA CountStill ==
  ASSUME CountInv, UNCHANGED log, \A t \in Tasks : task'[t].rev = task[t].rev,
         \A t \in Tasks : Appended(t)' = Appended(t)
  PROVE  CountInv'
BY DEF CountInv, log, EventsOf, Events

\* The event appended to the ledger is one more event of its task.
LEMMA OneMoreEvent ==
  ASSUME SafeInv, NEW e \in Event, ledger' = Append(ledger, e), NEW t \in Tasks
  PROVE  /\ Cardinality(EventsOf(t)) \in Nat
         /\ t = e.task => Cardinality(EventsOf(t)') = Cardinality(EventsOf(t)) + 1
         /\ t # e.task => EventsOf(t)' = EventsOf(t)
<1> DEFINE n == Len(ledger)
<1>1. /\ n \in Nat /\ DOMAIN ledger = 1 .. n /\ DOMAIN ledger' = 1 .. n + 1
      /\ ledger'[n + 1] = e /\ \A i \in 1 .. n : ledger'[i] = ledger[i]
  BY AppendProperties, LenProperties DEF SafeInv, TypeOK, LogOK
<1>2. IsFiniteSet(EventsOf(t)) /\ Cardinality(EventsOf(t)) \in Nat
  <2>1. IsFiniteSet(1 .. n) /\ EventsOf(t) \in SUBSET (1 .. n)
    BY <1>1, FS_Interval DEF EventsOf, Events
  <2> QED BY <2>1, FS_Subset, FS_CardinalityType
<1>3. ASSUME t = e.task PROVE Cardinality(EventsOf(t)') = Cardinality(EventsOf(t)) + 1
  <2>1. EventsOf(t)' = EventsOf(t) \cup {n + 1} /\ n + 1 \notin EventsOf(t)
    BY <1>1, <1>3 DEF EventsOf, Events
  <2> QED BY <1>2, <2>1, FS_AddElement
<1>4. t # e.task => EventsOf(t)' = EventsOf(t)
  BY <1>1 DEF EventsOf, Events
<1> QED BY <1>2, <1>3, <1>4

\* Two calls between the first and the last await of a handler of one task are
\* the same call, and no other call of the task holds its lock meanwhile.
Acts(r) == Inside(r) \/ (pc[r] \in {"queued", "answered", "failed", "lateFailed"} /\ Holds(r))

LEMMA Alone ==
  ASSUME RevInv, NEW r \in Requests, NEW x \in Requests, Acts(r), Inside(x), T(r) = T(x)
  PROVE  r = x
<1>1. pc[r] \notin Ended /\ pc[x] \notin Ended
  BY DEF Acts, Inside, Ended
<1>2. CASE op[x].kind = "create"
  <2>1. task[T(r)].rev = 0 /\ Committing(x)
    BY <1>1, <1>2 DEF RevInv, CallsInv
  <2>2. op[r].kind = "create" /\ Committing(r)
    BY <1>1, <2>1 DEF RevInv, CallsInv
  <2> QED BY <2>1, <2>2, OneCommit
<1>3. CASE op[x].kind # "create"
  <2>1. task[T(r)].rev > 0 /\ Locked(x)
    BY <1>1, <1>3 DEF RevInv, CallsInv, Locked, Ended
  <2>2. op[r].kind # "create" /\ Locked(r)
    BY <1>1, <2>1 DEF RevInv, CallsInv, Locked, Ended
  <2> QED BY <2>1, <2>2 DEF Acts, RevInv, SafeInv, LockOK, HasLock, Holds
<1> QED BY <1>2, <1>3

\* The envelope an event is replayed on.
Before(t, e) == IF e.type = "task.created" THEN Fresh ELSE durable.task[t]

\* What the event r appends does to the replayed envelope of its task.
LEMMA Replayed1 ==
  ASSUME RevInv, NEW r \in Requests, pc[r] = "appending"
  PROVE  LET e == pend[r] t == T(r) n == ReplayEvent(durable, e) IN
         /\ e \in Event /\ e.task = t /\ t \in Tasks
         /\ n.task[t] = ReplayedEnvelope(Before(t, e), e)
         /\ \A u \in Tasks \ {t} : n.task[u] = durable.task[u]
         /\ Before(t, e) \in Envelope /\ Before(t, e).status # "absent"
         /\ e.rev = task[t].rev + 1
         /\ e.type = "task.created" => task[t].rev = 0
<1> DEFINE e == pend[r]
           t == T(r)
<1>1. /\ Committing(r) /\ e \in Event /\ e.task = t /\ t \in Tasks /\ pc[r] \notin Ended
      /\ durable.task \in [Tasks -> Envelope]
  BY DEF Committing, RevInv, SafeInv, TypeOK, RequestsOK, CallOK, LogOK, Maps, Event, Ended
<1>2. /\ e.rev = task[t].rev + 1
      /\ e.type = "task.created" => op[r].kind = "create" /\ task[t].rev = 0
      /\ op[r].kind = "create" => e.type = "task.created"
      /\ op[r].kind # "create" => task[t].rev > 0 /\ durable.task[t].status # "absent"
  BY <1>1 DEF RevInv, PendInv, CallsInv, TaskInv
<1>3. Fresh \in Envelope /\ Fresh.status # "absent"
  BY DEF Fresh, Absent, Envelope, Statuses
<1>4. Before(t, e) \in Envelope /\ Before(t, e).status # "absent"
  BY <1>1, <1>2, <1>3 DEF Before
<1>5. ReplayEvent(durable, e).task = [durable.task EXCEPT ![t] = ReplayedEnvelope(Before(t, e), e)]
  BY <1>1, <1>4 DEF ReplayEvent, Before
<1> HIDE DEF e, t
<1> QED BY <1>1, <1>2, <1>4, <1>5 DEF e, t

LEMMA CountAppends ==
  ASSUME RevInv, CountInv, NEW r \in Requests, LedgerAppends(r)
  PROVE  CountInv'
<1> DEFINE e == pend[r]
           t == T(r)
           b == Before(t, e)
<1>1. /\ pc[r] = "appending" /\ Acts(r) /\ ledger' = Append(ledger, e) /\ op' = op /\ task' = task
      /\ durable' = ReplayEvent(durable, e) /\ pc' = [pc EXCEPT ![r] = "appended"]
      /\ pc \in [Requests -> PCs]
  BY DEF LedgerAppends, Acts, Inside, RevInv, SafeInv, TypeOK, RequestsOK, memory
<1>2. /\ e \in Event /\ e.task = t /\ t \in Tasks
      /\ durable'.task[t] = ReplayedEnvelope(b, e) /\ e.rev = task[t].rev + 1
      /\ b \in Envelope /\ (e.type = "task.created" => task[t].rev = 0)
      /\ \A u \in Tasks \ {t} : durable'.task[u] = durable.task[u]
  BY <1>1, Replayed1
<1>3. \A x \in Requests : pc[x] = "appended" => T(x) # t
  BY <1>1, Alone DEF Inside
<1>4. task[t].rev \in Nat /\ b.rev \in Nat
  BY <1>2 DEF RevInv, SafeInv, TypeOK, MemoryOK, Envelope
<1> HIDE DEF e, t, b
<1> QED
  <2> SUFFICES ASSUME NEW u \in Tasks
               PROVE  /\ durable'.task[u].rev = Cardinality(EventsOf(u)')
                      /\ durable'.task[u].rev = task[u].rev + (IF Appended(u)' = {} THEN 0 ELSE 1)
    BY <1>1 DEF CountInv
  <2>1. /\ durable.task[u].rev = Cardinality(EventsOf(u))
        /\ durable.task[u].rev = task[u].rev + (IF Appended(u) = {} THEN 0 ELSE 1)
    BY DEF CountInv
  <2>2. /\ u = t => Cardinality(EventsOf(u)') = Cardinality(EventsOf(u)) + 1
        /\ u # t => EventsOf(u)' = EventsOf(u)
    BY <1>1, <1>2, OneMoreEvent DEF RevInv
  <2>3. CASE u = t
    <3>1. Appended(u) = {} /\ Appended(u)' # {}
      BY <1>1, <1>3, <2>3 DEF Appended, On, T, t
    <3>2. durable.task[u].rev = task[u].rev
      BY <1>4, <2>1, <2>3, <3>1
    <3>3. b.rev = task[u].rev
      BY <1>2, <2>3, <3>2 DEF Before, Fresh, Absent, b
    <3>4. durable'.task[u].rev = task[u].rev + 1
      <4>1. durable'.task[u].rev = IF b.rev > e.rev THEN b.rev ELSE e.rev
        BY <1>2, <2>3 DEF ReplayedEnvelope
      <4> QED BY <1>2, <1>4, <2>3, <3>3, <4>1
    <3> QED BY <2>1, <2>2, <2>3, <3>1, <3>2, <3>4
  <2>4. CASE u # t
    <3>1. Appended(u)' = Appended(u)
      BY <1>1, <2>4 DEF Appended, On, T, t
    <3> QED BY <1>2, <2>1, <2>2, <2>4, <3>1
  <2> QED BY <2>3, <2>4

LEMMA CountResumes ==
  ASSUME RevInv, CountInv, NEW r \in Requests, Resumes(r)
  PROVE  CountInv'
<1> DEFINE t == T(r)
<1>1. /\ pc[r] = "appended" /\ pc'[r] # "appended" /\ op' = op /\ UNCHANGED <<ledger, durable>>
      /\ Acts(r) /\ Committing(r) /\ t \in Tasks
  BY DEF Resumes, Ended, Acts, Inside, Committing, log, RevInv, SafeInv, TypeOK, RequestsOK, T,
         Arguments
<1>2. \A x \in Requests \ {r} : pc[x] = "appended" => T(x) # t
  BY <1>1, Alone DEF Inside
<1>3. task'[t].rev = task[t].rev + 1 /\ task[t].rev \in Nat
  BY <1>1 DEF Resumes, RevInv, PendInv, SafeInv, TypeOK, MemoryOK, Envelope
<1> HIDE DEF t
<1> QED
  <2> SUFFICES ASSUME NEW u \in Tasks
               PROVE  /\ durable.task[u].rev = Cardinality(EventsOf(u))
                      /\ durable.task[u].rev = task'[u].rev + (IF Appended(u)' = {} THEN 0 ELSE 1)
    BY <1>1 DEF CountInv, EventsOf, Events
  <2>1. /\ durable.task[u].rev = Cardinality(EventsOf(u))
        /\ durable.task[u].rev = task[u].rev + (IF Appended(u) = {} THEN 0 ELSE 1)
    BY DEF CountInv
  <2>2. CASE u = t
    <3>1. Appended(u) # {} /\ Appended(u)' = {}
      BY <1>1, <1>2, <2>2 DEF Appended, On, T, Resumes, t
    <3> QED BY <1>3, <2>1, <2>2, <3>1
  <2>3. CASE u # t
    <3>1. Appended(u)' = Appended(u) /\ task'[u] = task[u]
      BY <1>1, <2>3 DEF Appended, On, T, Resumes, t
    <3> QED BY <2>1, <3>1
  <2> QED BY <2>2, <2>3

LEMMA CountInvokes ==
  ASSUME RevInv, CountInv, NEW r \in Requests, Invoke(r)
  PROVE  CountInv'
<1>1. PICK c \in Calls : \/ CreateTask(r, c) \/ CallLocked(r, c)
                         \/ CallMerge(r, c) \/ CallClassify(r, c)
  BY DEF Invoke
<1>2. c.task \in Tasks /\ pc[r] = "idle" /\ task \in [Tasks -> Envelope] /\ pc \in [Requests -> PCs]
  BY BrokerAssumption DEF Invoke, Call, RevInv, SafeInv, TypeOK, MemoryOK, RequestsOK
<1>3. UNCHANGED log /\ \A x \in Requests \ {r} : op'[x] = op[x] /\ pc'[x] = pc[x]
  BY <1>1, <1>2 DEF CreateTask, CallLocked, CallMerge, CallClassify, RevInv, SafeInv, TypeOK,
                    RequestsOK
<1>4. pc'[r] # "appended"
  BY <1>1, <1>2 DEF CreateTask, CallLocked, CallMerge, CallClassify
<1>5. \A t \in Tasks : task'[t].rev = task[t].rev
  BY <1>1, <1>2 DEF CreateTask, CallLocked, CallMerge, CallClassify, memory, Fresh, Absent, RevInv,
                    TaskInv
<1>6. \A t \in Tasks : Appended(t)' = Appended(t)
  BY <1>2, <1>3, <1>4 DEF Appended, On, T
<1> QED BY <1>3, <1>5, <1>6, CountStill

LEMMA CountNext ==
  ASSUME Serialized, RevInv, CountInv, [Next]_vars
  PROVE  CountInv'
<1>1. CASE UNCHANGED vars
  BY <1>1 DEF vars, memory, requests, log, CountInv, Appended, On, EventsOf, Events, T
<1>2. CASE CrashAndRestart
  <2>1. \A t \in Tasks : Appended(t)' = {} /\ task'[t] = durable.task[t] /\ durable.task[t].rev \in Nat
    BY <1>2 DEF CrashAndRestart, Appended, On, Ended, RevInv, SafeInv, TypeOK, LogOK, Maps, Envelope
  <2> QED BY <1>2, <2>1 DEF CountInv, CrashAndRestart, log, EventsOf, Events
<1>3. ASSUME NEW r \in Requests, Invoke(r) \/ HandlerStep(r) \/ AdapterEnds(r)
      PROVE  CountInv'
  <2>1. ~ClassifyEnds(r)
    BY DEF ClassifyEnds, RevInv, CallsInv, SafeInv, CallOK
  <2>2. ASSUME Moves(r) PROVE CountInv'
    <3>1. \A t \in Tasks : Appended(t)' = Appended(t) /\ task'[t].rev = task[t].rev
      BY <2>2 DEF Moves, KeepsRevisions, Appended, On, T, Ended
    <3> QED BY <2>2, <3>1, CountStill DEF Moves
  <2>3. CASE CommitReturns(r) \/ DelegationStarts(r) \/ ProposalRecorded(r)
    BY <2>3, ResumesHow, CountResumes
  <2> QED BY <1>3, <2>1, <2>2, <2>3, CountInvokes, CountAppends, LockedMoves, AwaitedMoves
          DEF HandlerStep, RevInv
<1> QED BY <1>1, <1>2, <1>3 DEF Next

LEMMA CountInit == Init => CountInv
<1> SUFFICES ASSUME Init PROVE CountInv
  OBVIOUS
<1>1. \A t \in Tasks : Appended(t) = {} /\ EventsOf(t) = {}
  BY DEF Init, Appended, On, EventsOf, Events
<1>2. \A t \in Tasks : task[t].rev = 0 /\ durable.task[t].rev = 0
  BY DEF Init, EmptyMemory, Absent
<1> QED BY <1>1, <1>2, FS_EmptySet DEF CountInv

\* The revision clients are compared with counts the task's durable events, also
\* after failed appends and after restarts.
THEOREM RevisionsCount ==
  ASSUME Serialized
  PROVE  Spec => []RevisionCountsEvents
<1>1. RevInv /\ CountInv => RevisionCountsEvents
  <2> SUFFICES ASSUME RevInv, CountInv, NEW t \in Tasks
               PROVE  task[t].rev + Cardinality(Appended(t)) = Cardinality(EventsOf(t))
    BY DEF RevisionCountsEvents, Appended
  <2>1. CASE Appended(t) = {}
    <3>1. task[t].rev \in Nat /\ Cardinality(Appended(t)) = 0
      BY <2>1, FS_EmptySet DEF RevInv, SafeInv, TypeOK, MemoryOK, Envelope
    <3> QED BY <2>1, <3>1 DEF CountInv
  <2>2. CASE Appended(t) # {}
    <3>1. PICK r : r \in Appended(t)
      BY <2>2
    <3>2. Appended(t) = {r}
      <4>1. \A x \in Appended(t) : x = r
        BY <3>1, OneCommit DEF Appended, On, Committing
      <4> QED BY <3>1, <4>1
    <3>3. Cardinality(Appended(t)) = 1
      BY <3>2, FS_Singleton
    <3> QED BY <2>2, <3>3 DEF CountInv
  <2> QED BY <2>1, <2>2
<1>2. RevInv /\ CountInv /\ [Next]_vars => RevInv' /\ CountInv'
  BY RevNext, CountNext
<1> QED BY RevInit, CountInit, <1>1, <1>2, PTL DEF Spec

-----------------------------------------------------------------------------
(* A restart restores what memory says.  Of every task without drift, memory *)
(* is the replayed state, with the effect of the event that is being         *)
(* appended, or of the delegation whose workspace is being made.             *)

Of(asked, t) == {a \in asked : a.task = t}
For(granted, t) == {g \in granted : g[1] = t}

\* What replaying e does to the approval requests and to the granted actions.
AskedAfter(asked, e) ==
  IF e.type = "task.approval_requested"
  THEN asked \cup {[id |-> e.by, task |-> e.task, action |-> e.action]}
  ELSE IF e.type \in {"task.approved", "task.rejected"}
  THEN {a \in asked : a.id # e.about} ELSE asked
GrantedAfter(granted, e) ==
  IF e.type = "task.approved" THEN granted \cup {<<e.task, e.action>>} ELSE granted

\* The replayed envelope with what prepareDelegation changes before its event.
Joined(k, p) == [status |-> "running", rev |-> k.rev, parts |-> k.parts \cup {p},
                 spaces |-> k.spaces, label |-> k.label]

\* Memory of t is the envelope k with these requests and grants.  When the
\* append of task.completed fails, delegate's catch has yet to mark the task
\* failed: until then memory has it completed and the ledger running.
Late(t) == On(t, {"lateFailed"}) # {}
Agrees(t, k, asked, granted) ==
  /\ k.parts = task[t].parts /\ k.spaces = task[t].spaces /\ k.label = task[t].label
  /\ \/ k.status = task[t].status
     \/ k.status = "running" /\ task[t].status = "completed" /\ Late(t)
  /\ asked = Of(approvals, t) /\ granted = For(approved, t)

Ahead == {"workspace", "appending"}
AgreeOK(t) ==
  /\ (\A x \in Requests : T(x) = t => pc[x] \notin Ahead) =>
       Agrees(t, durable.task[t], Of(durable.approvals, t), For(durable.approved, t))
  /\ \A x \in Requests : T(x) = t /\ pc[x] = "workspace" =>
       Agrees(t, Joined(durable.task[t], op[x].who),
              Of(durable.approvals, t), For(durable.approved, t))
  /\ \A x \in Requests : T(x) = t /\ pc[x] = "appending" =>
       /\ Agrees(t, ReplayedEnvelope(Before(t, pend[x]), pend[x]),
                 AskedAfter(Of(durable.approvals, t), pend[x]),
                 GrantedAfter(For(durable.approved, t), pend[x]))
       /\ pend[x].type = "task.completed" => durable.task[t].status = "running"

\* The event being appended is about the approval, the action and the provider
\* of its call.
PendIs == \A r \in Requests : Committing(r) =>
  /\ pend[r].by = r
  /\ op[r].kind # "create" => /\ pend[r].about = op[r].target /\ pend[r].action = op[r].action
                              /\ pend[r].who = op[r].who

\* An approval is of the task and the action of the call that requested it, and
\* so are the calls that decide it.
ApprovalsInv ==
  /\ \A a \in approvals \cup durable.approvals :
       pc[a.id] # "idle" /\ T(a.id) = a.task /\ op[a.id].action = a.action
  /\ \A r \in Requests : pc[r] # "idle" /\ op[r].target # None =>
       /\ pc[op[r].target] # "idle" /\ T(op[r].target) = T(r)
       /\ op[op[r].target].action = op[r].action

Agreement == \A t \in Tasks \ drift : AgreeOK(t)
ReplayInv == RevInv /\ CountInv /\ PendIs /\ ApprovalsInv /\ Agreement

\* A step leaves the state of the task u alone, but for its revision.
SameOn(u) ==
  /\ task'[u].status = task[u].status /\ task'[u].parts = task[u].parts
  /\ task'[u].spaces = task[u].spaces /\ task'[u].label = task[u].label
  /\ durable'.task[u] = durable.task[u]
  /\ Of(approvals, u)' = Of(approvals, u) /\ For(approved, u)' = For(approved, u)
  /\ Of(durable.approvals, u)' = Of(durable.approvals, u)
  /\ For(durable.approved, u)' = For(durable.approved, u)

LEMMA StillAgrees ==
  ASSUME NEW u \in Tasks, AgreeOK(u), SameOn(u),
         \A x \in Requests : /\ T(x) = u /\ pc[x] \in Ahead => T(x)' = u /\ pc'[x] \in Ahead
                             /\ T(x)' = u /\ pc'[x] \in Ahead =>
                                  /\ T(x) = u /\ pc'[x] = pc[x] /\ pend'[x] = pend[x]
                                  /\ op'[x] = op[x],
         Late(u) /\ task[u].status = "completed" => Late(u)'
  PROVE  AgreeOK(u)'
<1>1. ASSUME NEW k, NEW asked, NEW granted, Agrees(u, k, asked, granted)
      PROVE  /\ k.parts = task'[u].parts /\ k.spaces = task'[u].spaces /\ k.label = task'[u].label
             /\ \/ k.status = task'[u].status
                \/ k.status = "running" /\ task'[u].status = "completed" /\ Late(u)'
             /\ asked = Of(approvals, u)' /\ granted = For(approved, u)'
  BY <1>1 DEF Agrees, SameOn
<1>2. (\A x \in Requests : T(x)' = u => pc'[x] \notin Ahead) =>
        Agrees(u, durable.task[u], Of(durable.approvals, u), For(durable.approved, u))'
  <2> HAVE \A x \in Requests : T(x)' = u => pc'[x] \notin Ahead
  <2>1. Agrees(u, durable.task[u], Of(durable.approvals, u), For(durable.approved, u))
    BY DEF AgreeOK
  <2> QED BY <1>1, <2>1 DEF Agrees, SameOn
<1>3. ASSUME NEW x \in Requests, T(x)' = u, pc'[x] = "workspace"
      PROVE  Agrees(u, Joined(durable.task[u], op[x].who),
                    Of(durable.approvals, u), For(durable.approved, u))'
  <2>1. Agrees(u, Joined(durable.task[u], op[x].who), Of(durable.approvals, u), For(durable.approved, u))
    BY <1>3 DEF AgreeOK, Ahead
  <2>2. op'[x] = op[x]
    BY <1>3 DEF Ahead
  <2> QED BY <1>1, <2>1, <2>2 DEF Agrees, SameOn, Joined
<1>4. ASSUME NEW x \in Requests, T(x)' = u, pc'[x] = "appending"
      PROVE  /\ Agrees(u, ReplayedEnvelope(Before(u, pend[x]), pend[x]),
                       AskedAfter(Of(durable.approvals, u), pend[x]),
                       GrantedAfter(For(durable.approved, u), pend[x]))'
             /\ pend'[x].type = "task.completed" => durable'.task[u].status = "running"
  <2>1. T(x) = u /\ pc[x] = "appending" /\ pend'[x] = pend[x]
    BY <1>4 DEF Ahead
  <2>2. /\ Agrees(u, ReplayedEnvelope(Before(u, pend[x]), pend[x]),
                  AskedAfter(Of(durable.approvals, u), pend[x]),
                  GrantedAfter(For(durable.approved, u), pend[x]))
        /\ pend[x].type = "task.completed" => durable.task[u].status = "running"
    BY <2>1 DEF AgreeOK
  <2>3. /\ ReplayedEnvelope(Before(u, pend[x]), pend[x])' = ReplayedEnvelope(Before(u, pend[x]), pend[x])
        /\ AskedAfter(Of(durable.approvals, u), pend[x])' = AskedAfter(Of(durable.approvals, u), pend[x])
        /\ GrantedAfter(For(durable.approved, u), pend[x])' = GrantedAfter(For(durable.approved, u), pend[x])
    BY <2>1 DEF SameOn, Before, ReplayedEnvelope, AskedAfter, GrantedAfter
  <2> QED BY <1>1, <2>1, <2>2, <2>3 DEF Agrees, SameOn
<1> QED BY <1>2, <1>3, <1>4 DEF AgreeOK

\* A handler of r's task changes the task and starts the append of an event whose
\* replay makes the same change.
Prepares(r, t, type) ==
  /\ pc'[r] = "appending" /\ \E key, rev : pend'[r] = EventOf(r, type, key, rev)
  /\ task'[t].status = StatusAfter(type, task[t].status)
  /\ task'[t].parts = IF type = "task.delegated" THEN task[t].parts \cup {op[r].who} ELSE task[t].parts
  /\ type # "task.delegated" => task'[t].spaces = IF type = "task.merged" THEN 0 ELSE task[t].spaces
  /\ task'[t].label = task[t].label
  /\ Of(approvals, t)' = AskedAfter(Of(approvals, t), pend'[r])
  /\ For(approved, t)' = GrantedAfter(For(approved, t), pend'[r])
  /\ type \in Types \ {"task.created", "task.classified"}
  /\ pc[r] = "lateFailed" => type = "task.failed"
  /\ type = "task.completed" => task[t].status = "running"

LEMMA PreparedAgrees ==
  ASSUME RevInv, NEW t \in Tasks, AgreeOK(t), NEW r \in Requests, T(r) = t, Acts(r), op' = op, UNCHANGED durable,
         pc[r] \notin Ahead, \A x \in Requests \ {r} : pc'[x] = pc[x] /\ pend'[x] = pend[x],
         NEW type, Prepares(r, t, type)
  PROVE  AgreeOK(t)'
<1> DEFINE e == pend'[r]
<1>1. \A x \in Requests : T(x)' = T(x) /\ (T(x) = t /\ pc'[x] \in Ahead => x = r)
  BY Alone DEF T, Ahead, Inside
<1>2. Agrees(t, durable.task[t], Of(durable.approvals, t), For(durable.approved, t))
  BY <1>1 DEF AgreeOK
<1>3. /\ e.type = type /\ e.by = r /\ e.task = t /\ e.about = op[r].target /\ e.action = op[r].action
      /\ e.who = op[r].who /\ e.spaces = task'[t].spaces /\ Before(t, e) = durable.task[t]
  BY DEF Prepares, EventOf, Before
<1>4. Late(t) /\ type # "task.failed" => Late(t)'
  BY <1>1 DEF Late, On, Prepares
<1> DEFINE k == ReplayedEnvelope(durable.task[t], e)
<1>5. k.parts = task'[t].parts /\ k.spaces = task'[t].spaces /\ k.label = task'[t].label
  BY <1>2, <1>3 DEF ReplayedEnvelope, Prepares, Agrees
<1>6. k.status = StatusAfter(type, durable.task[t].status)
  BY <1>3 DEF ReplayedEnvelope
<1>7. \/ k.status = task'[t].status
      \/ k.status = "running" /\ task'[t].status = "completed" /\ Late(t)'
  <2>1. CASE durable.task[t].status = task[t].status
    BY <1>6, <2>1 DEF Prepares
  <2>2. CASE durable.task[t].status = "running" /\ task[t].status = "completed" /\ Late(t)
    <3>1. task'[t].status = StatusAfter(type, "completed") /\ k.status = StatusAfter(type, "running")
      BY <1>6, <2>2 DEF Prepares
    <3>2. \/ StatusAfter(type, "completed") = StatusAfter(type, "running")
          \/ /\ StatusAfter(type, "completed") = "completed" /\ StatusAfter(type, "running") = "running"
             /\ type # "task.failed"
      BY DEF StatusAfter
    <3> QED BY <1>4, <2>2, <3>1, <3>2
  <2> QED BY <1>2, <2>1, <2>2 DEF Agrees
<1>8. /\ AskedAfter(Of(durable.approvals, t), e) = Of(approvals, t)'
      /\ GrantedAfter(For(durable.approved, t), e) = For(approved, t)'
  BY <1>2 DEF Prepares, Agrees
<1>9. type = "task.completed" => durable.task[t].status = "running"
  BY <1>2 DEF Prepares, Agrees
<1> QED BY <1>1, <1>3, <1>5, <1>7, <1>8, <1>9, ZenonT(60) DEF AgreeOK, Agrees, Ahead, Prepares, Before, Of, For

\* A step of r within the task t: other calls and other tasks stay as they are.
OthersStay(r) == \A x \in Requests \ {r} : pc'[x] = pc[x] /\ pend'[x] = pend[x]
Within(r, t) ==
  /\ T(r) = t /\ op' = op /\ OthersStay(r) /\ pc[r] \notin Ended /\ drift \subseteq drift'
  /\ \A u \in Tasks \ {t} : SameOn(u)

LEMMA WithinStep ==
  ASSUME ReplayInv, NEW r \in Requests, NEW t \in Tasks, Within(r, t), t \in drift' \/ AgreeOK(t)'
  PROVE  Agreement'
<1> SUFFICES ASSUME NEW u \in Tasks \ drift', u # t PROVE AgreeOK(u)'
  BY DEF Agreement
<1>1. AgreeOK(u) /\ SameOn(u)
  BY DEF ReplayInv, Agreement, Within
<1>2. \A x \in Requests : T(x)' = T(x) /\ op'[x] = op[x] /\ (T(x) = u => x # r)
  BY DEF Within, T
<1>3. Late(u)' = Late(u)
  BY <1>2 DEF Within, OthersStay, Late, On
<1> QED BY <1>1, <1>2, <1>3, StillAgrees DEF Within, OthersStay

\* ... that changes at most the revision of the task, and starts no append.
LEMMA StaysAgrees ==
  ASSUME NEW t \in Tasks, AgreeOK(t), SameOn(t), NEW r \in Requests, T(r) = t, op' = op, OthersStay(r),
         pc[r] \notin Ahead, pc'[r] \notin Ahead,
         pc[r] = "lateFailed" => task[t].status # "completed"
  PROVE  AgreeOK(t)'
<1>1. \A x \in Requests : T(x)' = T(x)
  BY DEF T
<1>2. Late(t) /\ task[t].status = "completed" => Late(t)'
  BY <1>1 DEF Late, On, OthersStay
<1> QED BY <1>1, <1>2, StillAgrees DEF OthersStay

\* What an assignment to a field of an envelope leaves alone.
LEMMA FieldSet ==
  ASSUME SafeInv, NEW t \in Tasks
  PROVE  /\ \A s : task' = [task EXCEPT ![t].status = s] =>
              /\ task'[t].status = s /\ task'[t].parts = task[t].parts
              /\ task'[t].spaces = task[t].spaces /\ task'[t].label = task[t].label
         /\ \A n : task' = [task EXCEPT ![t].rev = n] =>
              /\ task'[t].status = task[t].status /\ task'[t].parts = task[t].parts
              /\ task'[t].spaces = task[t].spaces /\ task'[t].label = task[t].label
         /\ \A n, s : task' = [task EXCEPT ![t] = [@ EXCEPT !.rev = n, !.status = s]] =>
              /\ task'[t].status = s /\ task'[t].parts = task[t].parts
              /\ task'[t].spaces = task[t].spaces /\ task'[t].label = task[t].label
         /\ \A n, s : task' = [task EXCEPT ![t] = [@ EXCEPT !.status = s, !.spaces = n]] =>
              /\ task'[t].status = s /\ task'[t].parts = task[t].parts
              /\ task'[t].spaces = n /\ task'[t].label = task[t].label
         /\ \A s, q : task' = [task EXCEPT ![t] = [@ EXCEPT !.status = s, !.parts = q]] =>
              /\ task'[t].status = s /\ task'[t].parts = q
              /\ task'[t].spaces = task[t].spaces /\ task'[t].label = task[t].label
         /\ \A n : task' = [task EXCEPT ![t].spaces = n] =>
              /\ task'[t].status = task[t].status /\ task'[t].parts = task[t].parts
              /\ task'[t].spaces = n /\ task'[t].label = task[t].label
BY ZenonT(30) DEF SafeInv, TypeOK, MemoryOK, Envelope

\* Memory's requests and grants, and the ledger, are as before.
LEMMA SameMaps ==
  ASSUME NEW u \in Tasks, UNCHANGED <<approvals, approved, durable>>,
         task'[u].status = task[u].status, task'[u].parts = task[u].parts,
         task'[u].spaces = task[u].spaces, task'[u].label = task[u].label
  PROVE  SameOn(u)
BY DEF SameOn, Of, For

LEMMA WithinTask ==
  ASSUME SafeInv, NEW t \in Tasks, NEW r \in Requests, T(r) = t, op' = op, OthersStay(r),
         pc[r] \notin Ended, drift \subseteq drift',
         NEW k, task' = [task EXCEPT ![t] = k], UNCHANGED <<approvals, approved, durable>>
  PROVE  Within(r, t)
<1>1. \A u \in Tasks \ {t} : task'[u] = task[u]
  BY DEF SafeInv, TypeOK, MemoryOK
<1> QED BY <1>1, SameMaps DEF Within

\* A handler that ends, or goes on to an await, with memory as it was.
LEMMA StillWithin ==
  ASSUME ReplayInv, NEW r \in Requests, NEW t \in Tasks, T(r) = t, op' = op, OthersStay(r),
         pc[r] \notin Ended \cup Ahead, drift \subseteq drift', UNCHANGED <<approvals, approved, durable>>,
         \/ task' = task
         \/ \E n : task' = [task EXCEPT ![t].rev = n],
         pc'[r] \notin Ahead, pc[r] = "lateFailed" => task[t].status # "completed"
  PROVE  Agreement'
<1>1. \A u \in Tasks \ {t} : task'[u] = task[u]
  BY DEF ReplayInv, RevInv, SafeInv, TypeOK, MemoryOK
<1>2. /\ task'[t].status = task[t].status /\ task'[t].parts = task[t].parts
      /\ task'[t].spaces = task[t].spaces /\ task'[t].label = task[t].label
  BY FieldSet DEF ReplayInv, RevInv
<1>3. Within(r, t) /\ SameOn(t)
  BY <1>1, <1>2, SameMaps DEF Within
<1>4. t \in drift' \/ AgreeOK(t)'
  BY <1>3, StaysAgrees DEF ReplayInv, Agreement
<1> QED BY <1>3, <1>4, WithinStep

\* A handler that prepares an event.
LEMMA PreparesWithin ==
  ASSUME ReplayInv, NEW r \in Requests, NEW t \in Tasks, Within(r, t), Acts(r), UNCHANGED durable,
         pc[r] \notin Ahead, t \in drift' \/ \E type : Prepares(r, t, type)
  PROVE  Agreement'
<1>1. CASE t \in drift'
  BY <1>1, WithinStep
<1>2. CASE t \notin drift' /\ \E type : Prepares(r, t, type)
  <2>1. AgreeOK(t)
    BY <1>2 DEF ReplayInv, Agreement, Within
  <2>2. AgreeOK(t)'
    BY <1>2, <2>1, PreparedAgrees DEF ReplayInv, Within, OthersStay
  <2> QED BY <2>2, WithinStep
<1> QED BY <1>1, <1>2

-----------------------------------------------------------------------------
(* Each handler keeps the agreement                                          *)

\* commit's event is built from the call and the task as the handler leaves it.
LEMMA CommitPrepares ==
  ASSUME SafeInv, NEW r \in Requests, NEW type, NEW key, StartCommit(r, type, key)
  PROVE  /\ pc'[r] = "appending" /\ OthersStay(r) /\ drift' = drift
         /\ \E rev : pend'[r] = EventOf(r, type, key, rev)
BY DEF StartCommit, OthersStay, SafeInv, TypeOK, RequestsOK

LEMMA AnswerStays ==
  ASSUME SafeInv, NEW r \in Requests, NEW how, Answer(r, how)
  PROVE  pc'[r] = how /\ OthersStay(r)
BY DEF Answer, OthersStay, SafeInv, TypeOK, RequestsOK

\* The requests of t after one is added, and after one of t is decided.
LEMMA AskedOf ==
  ASSUME NEW asked, NEW t, NEW e, e.task = t,
         e.type \in {"task.approved", "task.rejected"} => \A a \in asked : a.id = e.about => a.task = t
  PROVE  /\ Of(AskedAfter(asked, e), t) = AskedAfter(Of(asked, t), e)
         /\ \A u : u # t => Of(AskedAfter(asked, e), u) = Of(asked, u)
<1>1. CASE e.type = "task.approval_requested"
  <2>1. [id |-> e.by, task |-> e.task, action |-> e.action].task = t
    OBVIOUS
  <2> QED BY <1>1, <2>1 DEF Of, AskedAfter
<1>2. CASE e.type \in {"task.approved", "task.rejected"}
  BY <1>2 DEF Of, AskedAfter
<1>3. CASE e.type \notin {"task.approval_requested", "task.approved", "task.rejected"}
  BY <1>3 DEF Of, AskedAfter
<1> QED BY <1>1, <1>2, <1>3

LEMMA GrantedFor ==
  ASSUME NEW granted, NEW t, NEW e, e.task = t
  PROVE  /\ For(GrantedAfter(granted, e), t) = GrantedAfter(For(granted, t), e)
         /\ \A u : u # t => For(GrantedAfter(granted, e), u) = For(granted, u)
<1>1. <<t, e.action>>[1] = t
  OBVIOUS
<1> QED BY <1>1 DEF For, GrantedAfter

\* The approval a call decides is of the call's task.
LEMMA DecidedHere ==
  ASSUME SafeInv, ApprovalsInv, NEW r \in Requests, pc[r] # "idle"
  PROVE  \A a \in approvals \cup durable.approvals : a.id = op[r].target => a.task = T(r)
<1> TAKE a \in approvals \cup durable.approvals
<1>1. a.id \in Requests /\ T(a.id) = a.task
  BY DEF SafeInv, TypeOK, MemoryOK, LogOK, Maps, Approval, ApprovalsInv
<1>2. op[r].target # None => T(op[r].target) = T(r)
  BY DEF ApprovalsInv
<1> QED BY <1>1, <1>2, BrokerAssumption

\* The approval commands: requestApproval, approve, reject.
LEMMA ApprovalAgrees ==
  ASSUME ReplayInv, NEW r \in Requests, pc[r] = "queued", Holds(r), op' = op, UNCHANGED durable,
         NEW type \in {"task.approval_requested", "task.approved", "task.rejected"}, NEW key,
         task' = [task EXCEPT ![T(r)].status = StatusAfter(type, @)],
         StartCommit(r, type, key),
         approvals' = AskedAfter(approvals, pend'[r]), approved' = GrantedAfter(approved, pend'[r])
  PROVE  Agreement'
<1>1. /\ T(r) \in Tasks /\ pc[r] \notin Ended /\ Acts(r)
  BY DEF ReplayInv, RevInv, SafeInv, TypeOK, RequestsOK, T, Arguments, Acts, Ended
<1> DEFINE e == pend'[r]
<1>2. PICK t \in Tasks : t = T(r)
  BY <1>1
<1>3. /\ pc'[r] = "appending" /\ OthersStay(r) /\ drift' = drift
      /\ \E rev : e = EventOf(r, type, key, rev)
  BY CommitPrepares DEF ReplayInv, RevInv
<1>4. e.task = t /\ e.about = op[r].target /\ e.type = type
  BY <1>2, <1>3 DEF EventOf
<1>5. \A a \in approvals : a.id = e.about => a.task = t
  BY <1>2, <1>4, DecidedHere DEF ReplayInv, RevInv
<1>6. /\ Of(approvals', t) = AskedAfter(Of(approvals, t), e)
      /\ For(approved', t) = GrantedAfter(For(approved, t), e)
      /\ \A u : u # t => Of(approvals', u) = Of(approvals, u) /\ For(approved', u) = For(approved, u)
  <2> HIDE DEF e
  <2>1. approvals' = AskedAfter(approvals, e) /\ approved' = GrantedAfter(approved, e)
    BY DEF e
  <2> QED BY <1>4, <1>5, <2>1, AskedOf, GrantedFor
<1>7. /\ task'[t].status = StatusAfter(type, task[t].status) /\ task'[t].parts = task[t].parts
      /\ task'[t].spaces = task[t].spaces /\ task'[t].label = task[t].label
      /\ \A u \in Tasks \ {t} : task'[u] = task[u]
  BY <1>2, FieldSet, ZenonT(30) DEF ReplayInv, RevInv, SafeInv, TypeOK, MemoryOK
<1>8. Within(r, t)
  BY <1>1, <1>2, <1>3, <1>6, <1>7, SMTT(60) DEF Within, SameOn, Of, For
<1>9. Prepares(r, t, type)
  BY <1>2, <1>3, <1>6, <1>7 DEF Prepares, Types, Of, For
<1> QED BY <1>1, <1>8, <1>9, PreparesWithin DEF Ahead

\* A handler whose event changes nothing but the status of the task.
LEMMA StatusAgrees ==
  ASSUME ReplayInv, NEW r \in Requests, Acts(r), pc[r] \notin Ended \cup Ahead, op' = op,
         UNCHANGED <<approvals, approved, durable>>,
         NEW type \in Types \ {"task.created", "task.classified", "task.delegated", "task.merged",
                               "task.approval_requested", "task.approved", "task.completed"},
         type # "task.rejected", NEW key, NEW s, s = StatusAfter(type, task[T(r)].status),
         \/ task' = [task EXCEPT ![T(r)].status = s]
         \/ task' = task /\ s = task[T(r)].status,
         StartCommit(r, type, key), pc[r] = "lateFailed" => type = "task.failed"
  PROVE  Agreement'
<1>1. PICK t \in Tasks : t = T(r)
  BY DEF ReplayInv, RevInv, SafeInv, TypeOK, RequestsOK, T, Arguments, Ended
<1>2. /\ pc'[r] = "appending" /\ OthersStay(r) /\ drift' = drift
      /\ \E rev : pend'[r] = EventOf(r, type, key, rev)
  BY CommitPrepares DEF ReplayInv, RevInv
<1>3. pend'[r].type = type
  BY <1>2 DEF EventOf
<1>4. /\ task'[t].status = s /\ task'[t].parts = task[t].parts
      /\ task'[t].spaces = task[t].spaces /\ task'[t].label = task[t].label
      /\ \A u \in Tasks \ {t} : task'[u] = task[u]
  BY <1>1, FieldSet, ZenonT(30) DEF ReplayInv, RevInv, SafeInv, TypeOK, MemoryOK
<1>5. Within(r, t)
  BY <1>1, <1>2, <1>4, SameMaps DEF Within
<1>6. Prepares(r, t, type)
  BY <1>1, <1>2, <1>3, <1>4 DEF Prepares, AskedAfter, GrantedAfter, Of, For
<1> QED BY <1>5, <1>6, PreparesWithin

\* A handler that ends without a change, or goes on to an await.
LEMMA EndsAgrees ==
  ASSUME ReplayInv, NEW r \in Requests, pc[r] \notin Ended \cup Ahead, op' = op, OthersStay(r),
         UNCHANGED <<memory, durable, drift>>, pc'[r] \notin Ahead,
         pc[r] = "lateFailed" => task[T(r)].status # "completed"
  PROVE  Agreement'
<1>1. PICK t \in Tasks : t = T(r)
  BY DEF ReplayInv, RevInv, SafeInv, TypeOK, RequestsOK, T, Arguments, Ended
<1> QED BY <1>1, StillWithin DEF memory

LEMMA LockedAgrees ==
  ASSUME ReplayInv, NEW r \in Requests,
         \/ Evaluate(r) \/ Record(r) \/ RequestApproval(r) \/ Approve(r) \/ Reject(r)
         \/ Cancel(r) \/ Merge(r)
  PROVE  Agreement'
<1>1. /\ pc[r] = "queued" /\ Holds(r) /\ op' = op /\ UNCHANGED log
      /\ T(r) \in Tasks /\ Acts(r) /\ pc[r] \notin Ended \cup Ahead /\ SafeInv
  <2>1. pc[r] = "queued" /\ Holds(r) /\ op' = op /\ UNCHANGED log
    BY DEF Evaluate, Record, RequestApproval, Approve, Reject, Cancel, Merge, UnderLock
  <2> QED BY <2>1 DEF ReplayInv, RevInv, SafeInv, TypeOK, RequestsOK, T, Arguments, Acts, Ended, Ahead
<1>2. CASE Ends(r, "done") \/ Ends(r, "error")
  <2>1. pc'[r] \in Ended /\ OthersStay(r)
    BY <1>1, <1>2, AnswerStays DEF Ends, Ended
  <2> QED BY <1>1, <1>2, <2>1, EndsAgrees DEF Ends, log, Ahead, Ended
<1>3. CASE /\ \E to \in {"listing", "merging"} : pc' = [pc EXCEPT ![r] = to]
           /\ UNCHANGED <<memory, volatile, locks, pend, drift>>
  <2>1. pc'[r] \notin Ahead /\ OthersStay(r)
    BY <1>1, <1>3 DEF SafeInv, TypeOK, RequestsOK, Ahead, OthersStay
  <2> QED BY <1>1, <1>3, <2>1, EndsAgrees DEF log
<1>4. CASE \/ UNCHANGED memory /\ StartCommit(r, "task.recorded", op[r].key)
           \/ /\ task' = [task EXCEPT ![T(r)].status = "cancelled"]
              /\ StartCommit(r, "task.cancelled", op[r].key)
              /\ UNCHANGED <<approvals, approved>>
  BY <1>1, <1>4, StatusAgrees DEF StatusAfter, Types, memory, log
<1>5. CASE /\ approvals' = approvals \cup {[id |-> r, task |-> T(r), action |-> op[r].action]}
           /\ task' = [task EXCEPT ![T(r)].status = "awaiting_approval"]
           /\ StartCommit(r, "task.approval_requested", op[r].key)
           /\ UNCHANGED approved
  <2> DEFINE e == pend'[r]
  <2>1. \E rev : e = EventOf(r, "task.approval_requested", op[r].key, rev)
    BY <1>1, <1>5, CommitPrepares
  <2>2. e.type = "task.approval_requested" /\ e.by = r /\ e.task = T(r) /\ e.action = op[r].action
    BY <2>1 DEF EventOf
  <2>3. approvals' = AskedAfter(approvals, e) /\ approved' = GrantedAfter(approved, e)
    BY <1>5, <2>2 DEF AskedAfter, GrantedAfter
  <2>4. task' = [task EXCEPT ![T(r)].status = StatusAfter("task.approval_requested", @)]
    BY <1>5 DEF StatusAfter
  <2> QED BY <1>1, <1>5, <2>3, <2>4, ApprovalAgrees DEF log
<1>6. ASSUME NEW type \in {"task.approved", "task.rejected"}, NEW s,
             s = (IF type = "task.approved" THEN "running" ELSE "cancelled"),
             task' = [task EXCEPT ![T(r)].status = s],
             approvals' = approvals \ Decided(r),
             approved' = IF type = "task.approved" THEN approved \cup {<<T(r), op[r].action>>} ELSE approved,
             StartCommit(r, type, op[r].key)
      PROVE  Agreement'
  <2> DEFINE e == pend'[r]
  <2>1. \E rev : e = EventOf(r, type, op[r].key, rev)
    BY <1>1, <1>6, CommitPrepares
  <2>2. e.type = type /\ e.about = op[r].target /\ e.task = T(r) /\ e.action = op[r].action
    BY <2>1 DEF EventOf
  <2>3. approvals' = AskedAfter(approvals, e) /\ approved' = GrantedAfter(approved, e)
    BY <1>6, <2>2 DEF AskedAfter, GrantedAfter, Decided
  <2>4. task' = [task EXCEPT ![T(r)].status = StatusAfter(type, @)]
    BY <1>6 DEF StatusAfter
  <2>5. type \in {"task.approval_requested", "task.approved", "task.rejected"} /\ UNCHANGED durable
    BY <1>1, <1>6 DEF log
  <2> QED BY <1>1, <1>6, <2>3, <2>4, <2>5, ApprovalAgrees
<1>7. CASE Evaluate(r) \/ Record(r) \/ Cancel(r) \/ Merge(r) \/ RequestApproval(r)
  BY <1>2, <1>3, <1>4, <1>5, <1>7 DEF Evaluate, Record, Cancel, Merge, RequestApproval
<1>8. CASE Approve(r) \/ Reject(r)
  BY <1>2, <1>6, <1>8 DEF Approve, Reject
<1> QED BY <1>7, <1>8

\* prepareDelegation, which may first await a workspace.
LEMMA DelegateAgrees ==
  ASSUME ReplayInv, NEW r \in Requests, Delegate(r)
  PROVE  Agreement'
<1>1. /\ pc[r] = "queued" /\ Holds(r) /\ op' = op /\ UNCHANGED log
      /\ Acts(r) /\ pc[r] \notin Ended \cup Ahead /\ SafeInv
      /\ pc \in [Requests -> PCs]
  BY DEF Delegate, UnderLock, ReplayInv, RevInv, SafeInv, TypeOK, RequestsOK, Acts, Ended, Ahead
<1>2. PICK t \in Tasks : t = T(r)
  BY <1>1 DEF SafeInv, TypeOK, RequestsOK, T, Arguments, Ended
<1>3. CASE Ends(r, "done") \/ Ends(r, "error")
  <2>1. pc'[r] \in Ended /\ OthersStay(r)
    BY <1>1, <1>3, AnswerStays DEF Ends, Ended
  <2> QED BY <1>1, <1>3, <2>1, EndsAgrees DEF Ends, log, Ahead, Ended
<1>4. CASE /\ task' = [task EXCEPT ![t] = [@ EXCEPT !.status = "running",
                                                    !.parts = task[t].parts \cup {op[r].who}]]
           /\ UNCHANGED <<approvals, approved>>
           /\ \/ StartCommit(r, "task.delegated", op[r].key)
              \/ pc' = [pc EXCEPT ![r] = "workspace"] /\ UNCHANGED <<pend, drift>>
  <2>1. /\ task'[t].status = "running" /\ task'[t].parts = task[t].parts \cup {op[r].who}
        /\ task'[t].spaces = task[t].spaces /\ task'[t].label = task[t].label
        /\ \A u \in Tasks \ {t} : task'[u] = task[u]
    <3> DEFINE q == task[t].parts \cup {op[r].who}
    <3>1. task' = [task EXCEPT ![t] = [@ EXCEPT !.status = "running", !.parts = q]]
      BY <1>4
    <3> HIDE DEF q
    <3>2. /\ task'[t].status = "running" /\ task'[t].parts = q
          /\ task'[t].spaces = task[t].spaces /\ task'[t].label = task[t].label
      BY <1>1, <3>1, FieldSet
    <3>3. \A u \in Tasks \ {t} : task'[u] = task[u]
      BY <1>1, <3>1 DEF SafeInv, TypeOK, MemoryOK
    <3> QED BY <3>2, <3>3 DEF q
  <2>2. OthersStay(r) /\ drift' = drift
    BY <1>1, <1>4, CommitPrepares DEF OthersStay
  <2>3. Within(r, t)
    BY <1>1, <1>2, <1>4, <2>1, <2>2, SameMaps DEF Within, log
  <2>4. CASE StartCommit(r, "task.delegated", op[r].key)
    <3>1. /\ pc'[r] = "appending"
          /\ \E rev : pend'[r] = EventOf(r, "task.delegated", op[r].key, rev)
      BY <1>1, <2>4, CommitPrepares
    <3>2. pend'[r].type = "task.delegated"
      BY <3>1 DEF EventOf
    <3>3. Prepares(r, t, "task.delegated")
      BY <1>1, <1>4, <2>1, <3>1, <3>2 DEF Prepares, StatusAfter, AskedAfter, GrantedAfter, Of, For, Types
    <3> QED BY <1>1, <2>3, <3>3, PreparesWithin DEF log
  <2>5. CASE pc' = [pc EXCEPT ![r] = "workspace"]
    <3>1. ASSUME t \notin drift' PROVE AgreeOK(t)'
      <4>1. AgreeOK(t)
        BY <2>2, <3>1 DEF ReplayInv, Agreement
      <4>2. \A x \in Requests : T(x)' = T(x) /\ (T(x) = t /\ pc'[x] \in Ahead => x = r)
        BY <1>1, <1>2, <2>2, Alone DEF T, Ahead, Inside, OthersStay, ReplayInv
      <4>3. Agrees(t, durable.task[t], Of(durable.approvals, t), For(durable.approved, t))
        BY <1>1, <1>2, <2>2, <4>1, <4>2 DEF AgreeOK, OthersStay
      <4>4. Agrees(t, Joined(durable.task[t], op[r].who), Of(durable.approvals, t),
                   For(durable.approved, t))'
        BY <1>1, <1>4, <2>1, <4>3 DEF Agrees, Joined, Of, For, log
      <4>5. pc'[r] = "workspace" /\ T(r)' = t
        BY <1>1, <1>2, <2>5, <4>2
      <4>6. ASSUME NEW x \in Requests, T(x)' = t, pc'[x] = "workspace" \/ pc'[x] = "appending"
            PROVE  x = r /\ pc'[x] = "workspace"
        BY <4>2, <4>5, <4>6 DEF Ahead
      <4> QED BY <4>4, <4>5, <4>6 DEF AgreeOK, Ahead
    <3> QED BY <2>3, <3>1, WithinStep
  <2> QED BY <1>4, <2>4, <2>5
<1> QED BY <1>2, <1>3, <1>4 DEF Delegate

\* The workspace of a delegation is ready, or could not be made.
LEMMA WorkspaceAgrees ==
  ASSUME ReplayInv, NEW r \in Requests, WorkspaceReady(r) \/ WorkspaceFails(r)
  PROVE  Agreement'
<1>1. /\ pc[r] = "workspace" /\ op' = op /\ UNCHANGED <<log, approvals, approved>> /\ SafeInv /\ Inside(r)
      /\ Acts(r) /\ pc[r] \notin Ended
  BY DEF WorkspaceReady, WorkspaceFails, memory, ReplayInv, RevInv, Acts, Inside, Ended
<1>2. PICK t \in Tasks : t = T(r)
  BY <1>1 DEF SafeInv, TypeOK, RequestsOK, T, Arguments, Ended
<1>3. \E k : task' = [task EXCEPT ![t] = k]
  <2>1. CASE WorkspaceReady(r)
    BY <1>2, <2>1 DEF WorkspaceReady
  <2>2. CASE WorkspaceFails(r)
    <3>1. task' = [task EXCEPT ![t] = task[t]]
      BY <1>1, <2>2 DEF WorkspaceFails, memory, SafeInv, TypeOK, MemoryOK
    <3> QED BY <3>1
  <2> QED BY <2>1, <2>2
<1>4. CASE Answer(r, "error") /\ t \in drift' /\ drift \subseteq drift'
  <2>1. OthersStay(r)
    BY <1>1, <1>4, AnswerStays
  <2>2. Within(r, t)
    BY <1>1, <1>2, <1>3, <1>4, <2>1, WithinTask DEF log
  <2> QED BY <1>4, <2>2, WithinStep
<1>5. CASE WorkspaceReady(r) /\ StartCommit(r, "task.delegated", op[r].key)
  <2>1. /\ pc'[r] = "appending" /\ OthersStay(r) /\ drift' = drift
        /\ \E rev : pend'[r] = EventOf(r, "task.delegated", op[r].key, rev)
    BY <1>1, <1>5, CommitPrepares
  <2>2. Within(r, t)
    BY <1>1, <1>2, <1>3, <2>1, WithinTask DEF log
  <2>3. ASSUME t \notin drift' PROVE AgreeOK(t)'
    <3> DEFINE e == pend'[r]
               n == task[t].spaces + 1
    <3>1. e.type = "task.delegated" /\ e.who = op[r].who /\ e.spaces = task'[t].spaces
      BY <1>2, <2>1 DEF EventOf
    <3>2. \A x \in Requests : T(x)' = T(x) /\ (T(x) = t /\ pc'[x] \in Ahead => x = r)
      BY <1>1, <1>2, <2>1, Alone DEF T, Ahead, Inside, OthersStay, ReplayInv
    <3>3. Agrees(t, Joined(durable.task[t], op[r].who), Of(durable.approvals, t), For(durable.approved, t))
      BY <1>1, <1>2, <2>1, <2>3 DEF ReplayInv, Agreement, AgreeOK
    <3>4. /\ task'[t].status = task[t].status /\ task'[t].parts = task[t].parts
          /\ task'[t].label = task[t].label
      <4>1. task' = [task EXCEPT ![t].spaces = n]
        BY <1>2, <1>5 DEF WorkspaceReady
      <4> HIDE DEF n
      <4> QED BY <1>1, <4>1, FieldSet
    <3>5. Late(t)' = Late(t)
      BY <1>1, <2>1, <3>2 DEF Late, On, OthersStay
    <3>6. /\ Agrees(t, ReplayedEnvelope(Before(t, pend[r]), pend[r]),
                    AskedAfter(Of(durable.approvals, t), pend[r]),
                    GrantedAfter(For(durable.approved, t), pend[r]))'
          /\ pend'[r].type # "task.completed"
      BY <1>1, <3>1, <3>3, <3>4, <3>5 DEF Agrees, Joined, ReplayedEnvelope, StatusAfter, Before,
         AskedAfter, GrantedAfter, Of, For, log
    <3>7. ASSUME NEW x \in Requests, T(x)' = t, pc'[x] = "workspace" \/ pc'[x] = "appending"
          PROVE  x = r /\ pc'[x] = "appending"
      BY <2>1, <3>2, <3>7 DEF Ahead
    <3>8. T(r)' = t
      BY <1>2, <3>2
    <3> QED BY <2>1, <3>6, <3>7, <3>8 DEF AgreeOK, Ahead
  <2> QED BY <2>2, <2>3, WithinStep
<1>6. WorkspaceReady(r) => \/ StartCommit(r, "task.delegated", op[r].key)
                           \/ Answer(r, "error") /\ drift' = drift \cup {T(r)}
  BY DEF WorkspaceReady, CheckedCommit
<1>7. WorkspaceFails(r) => Answer(r, "error") /\ drift' = drift \cup {T(r)}
  BY DEF WorkspaceFails
<1> QED BY <1>2, <1>4, <1>5, <1>6, <1>7

\* listProposals returned.
LEMMA ListedAgrees ==
  ASSUME ReplayInv, NEW r \in Requests, ProposalsListed(r)
  PROVE  Agreement'
<1>1. /\ pc[r] = "listing" /\ op' = op /\ UNCHANGED <<log, memory>> /\ SafeInv
      /\ Acts(r) /\ pc[r] \notin Ended \cup Ahead
  BY DEF ProposalsListed, ReplayInv, RevInv, Acts, Inside, Ended, Ahead
<1>2. CASE StartCommit(r, "task.recorded", op[r].key)
  BY <1>1, <1>2, StatusAgrees DEF StatusAfter, Types, memory, log
<1>3. CASE Answer(r, "error") /\ drift' = drift
  <2>1. pc'[r] \notin Ahead /\ OthersStay(r)
    BY <1>1, <1>3, AnswerStays DEF Ahead
  <2> QED BY <1>1, <1>3, <2>1, EndsAgrees DEF log
<1> QED BY <1>2, <1>3 DEF ProposalsListed

\* The merge of the task's workspaces succeeded, or conflicted.
LEMMA MergeAgrees ==
  ASSUME ReplayInv, NEW r \in Requests, MergeSucceeds(r) \/ MergeConflicts(r)
  PROVE  Agreement'
<1>1. /\ pc[r] = "merging" /\ op' = op /\ UNCHANGED <<log, approvals, approved>> /\ SafeInv
      /\ Acts(r) /\ pc[r] \notin Ended \cup Ahead
  BY DEF MergeSucceeds, MergeConflicts, ReplayInv, RevInv, Acts, Inside, Ended, Ahead
<1>2. CASE MergeConflicts(r)
  BY <1>1, <1>2, StatusAgrees DEF MergeConflicts, StatusAfter, Types, log
<1>3. PICK t \in Tasks : t = T(r)
  BY <1>1 DEF SafeInv, TypeOK, RequestsOK, T, Arguments, Ended
<1>4. CASE MergeSucceeds(r)
  <2>1. task' = [task EXCEPT ![t] = [@ EXCEPT !.status = "completed", !.spaces = 0]]
    BY <1>3, <1>4 DEF MergeSucceeds
  <2>2. CASE Answer(r, "error") /\ drift' = drift \cup {t}
    <3>1. OthersStay(r)
      BY <1>1, <2>2, AnswerStays
    <3>2. Within(r, t)
      BY <1>1, <1>3, <2>1, <2>2, <3>1, WithinTask DEF log
    <3> QED BY <2>2, <3>2, WithinStep
  <2>3. CASE StartCommit(r, "task.merged", op[r].key)
    <3>1. /\ pc'[r] = "appending" /\ OthersStay(r) /\ drift' = drift
          /\ \E rev : pend'[r] = EventOf(r, "task.merged", op[r].key, rev)
      BY <1>1, <2>3, CommitPrepares
    <3>2. Within(r, t)
      BY <1>1, <1>3, <2>1, <3>1, WithinTask DEF log
    <3>3. /\ task'[t].status = "completed" /\ task'[t].parts = task[t].parts
          /\ task'[t].spaces = 0 /\ task'[t].label = task[t].label
      BY <1>1, <2>1, FieldSet
    <3>4. pend'[r].type = "task.merged"
      BY <3>1 DEF EventOf
    <3>5. Prepares(r, t, "task.merged")
      BY <1>1, <3>1, <3>3, <3>4 DEF Prepares, StatusAfter, AskedAfter, GrantedAfter, Of, For, Types
    <3> QED BY <1>1, <3>2, <3>5, PreparesWithin DEF log
  <2> QED BY <1>3, <1>4, <2>2, <2>3 DEF MergeSucceeds, CheckedCommit
<1> QED BY <1>2, <1>4

\* The outcome of a delegation.
LEMMA OutcomeAgrees ==
  ASSUME ReplayInv, NEW r \in Requests, FinishDelegation(r) \/ FailDelegation(r)
  PROVE  Agreement'
<1>1. /\ pc[r] \in {"answered", "failed", "lateFailed"} /\ Holds(r) /\ op' = op
      /\ UNCHANGED <<log, approvals, approved>> /\ SafeInv /\ Acts(r) /\ pc[r] \notin Ended \cup Ahead
  BY DEF FinishDelegation, FailDelegation, ReplayInv, RevInv, Acts, Ended, Ahead
<1>2. CASE Cancelled(r) /\ (Answer(r, "done") \/ Answer(r, "error")) /\ UNCHANGED <<task, drift>>
  <2>1. pc'[r] \notin Ahead /\ OthersStay(r)
    BY <1>1, <1>2, AnswerStays DEF Ahead
  <2>2. UNCHANGED memory
    BY <1>1, <1>2 DEF FinishDelegation, FailDelegation, memory
  <2> QED BY <1>1, <1>2, <2>1, <2>2, EndsAgrees DEF log, Cancelled
<1>3. CASE pc[r] = "answered" /\ UNCHANGED task /\ StartCommit(r, "task.proposal", None)
  BY <1>1, <1>3, StatusAgrees DEF StatusAfter, Types, log
<1>4. CASE task' = [task EXCEPT ![T(r)].status = "failed"] /\ StartCommit(r, "task.failed", None)
  BY <1>1, <1>4, StatusAgrees DEF StatusAfter, Types, log
<1> QED BY <1>2, <1>3, <1>4 DEF FinishDelegation, FailDelegation

\* A merge reaches its turn, or an adapter ends: the call waits for the lock.
LEMMA QueuesAgrees ==
  ASSUME ReplayInv, NEW r \in Requests, MergeTurn(r) \/ AdapterEnds(r)
  PROVE  Agreement'
<1>1. /\ pc[r] \in {"mergeQueued", "submitted"} /\ op' = op /\ UNCHANGED <<memory, log, drift>>
      /\ pc'[r] \notin Ahead /\ OthersStay(r)
  BY DEF MergeTurn, AdapterEnds, ReplayInv, RevInv, SafeInv, TypeOK, RequestsOK, OthersStay, Ahead, faults
<1> QED BY <1>1, EndsAgrees DEF Ended, Ahead, log

\* commit resumes after its append.
LEMMA ResumesAgrees ==
  ASSUME ReplayInv, NEW r \in Requests,
         CommitReturns(r) \/ DelegationStarts(r) \/ ProposalRecorded(r)
  PROVE  Agreement'
<1>1. /\ pc[r] = "appended" /\ op' = op /\ UNCHANGED <<log, approvals, approved, drift>> /\ SafeInv
      /\ Inside(r) /\ Acts(r) /\ pc[r] \notin Ended \cup Ahead /\ pend[r].task = T(r)
  BY DEF CommitReturns, DelegationStarts, ProposalRecorded, Acknowledge, faults, ReplayInv, RevInv,
         Acts, Inside, Ended, Ahead, SafeInv, CallOK, Committing
<1>2. PICK t \in Tasks : t = T(r)
  BY <1>1 DEF SafeInv, TypeOK, RequestsOK, T, Arguments, Ended
<1>3. CASE /\ task' = [task EXCEPT ![t].rev = pend[r].rev]
           /\ \E how \in {"done", "error", "submitted"} : Answer(r, how)
  <2>1. pc'[r] \notin Ahead /\ OthersStay(r)
    BY <1>1, <1>3, AnswerStays DEF Ahead
  <2> QED BY <1>1, <1>2, <1>3, <2>1, StillWithin DEF log
<1>4. CASE /\ LastOut(t)
           /\ task' = [task EXCEPT ![t] = [@ EXCEPT !.rev = pend[r].rev, !.status = "completed"]]
           /\ pend' = [pend EXCEPT ![r] = EventOf(r, "task.completed", None, pend[r].rev + 1)]
           /\ pc' = [pc EXCEPT ![r] = "appending"]
  <2>1. OthersStay(r) /\ pc'[r] = "appending"
    BY <1>1, <1>4 DEF OthersStay, SafeInv, TypeOK, RequestsOK
  <2>2. Within(r, t)
    BY <1>1, <1>2, <1>4, <2>1, WithinTask DEF log
  <2>3. /\ task'[t].status = "completed" /\ task'[t].parts = task[t].parts
        /\ task'[t].spaces = task[t].spaces /\ task'[t].label = task[t].label
    BY <1>1, <1>4, FieldSet
  <2>4. \E rev : pend'[r] = EventOf(r, "task.completed", None, rev)
    BY <1>1, <1>4 DEF SafeInv, TypeOK, RequestsOK
  <2>5. pend'[r].type = "task.completed"
    BY <2>4 DEF EventOf
  <2>6. task[t].status = "running"
    BY <1>4 DEF LastOut
  <2>7. Prepares(r, t, "task.completed")
    BY <1>1, <2>1, <2>3, <2>4, <2>5, <2>6
       DEF Prepares, StatusAfter, AskedAfter, GrantedAfter, Of, For, Types
  <2> QED BY <1>1, <2>2, <2>7, PreparesWithin DEF log
<1> QED BY <1>1, <1>2, <1>3, <1>4 DEF CommitReturns, DelegationStarts, ProposalRecorded

\* What replaying the appended event changes of the Maps.
LEMMA ReplayedMaps ==
  ASSUME ReplayInv, NEW r \in Requests, pc[r] = "appending"
  PROVE  LET e == pend[r] n == ReplayEvent(durable, e) IN
         /\ n.approvals = AskedAfter(durable.approvals, e)
         /\ n.approved = GrantedAfter(durable.approved, e)
         /\ Of(n.approvals, T(r)) = AskedAfter(Of(durable.approvals, T(r)), e)
         /\ For(n.approved, T(r)) = GrantedAfter(For(durable.approved, T(r)), e)
         /\ \A u : u # T(r) => /\ Of(n.approvals, u) = Of(durable.approvals, u)
                               /\ For(n.approved, u) = For(durable.approved, u)
<1> DEFINE e == pend[r]
           n == ReplayEvent(durable, e)
<1>1. e \in Event /\ e.task = T(r) /\ Before(T(r), e).status # "absent"
  BY Replayed1 DEF ReplayInv
<1>2. n.approvals = AskedAfter(durable.approvals, e) /\ n.approved = GrantedAfter(durable.approved, e)
  <2>1. (e.type = "task.created" \/ durable.task[e.task].status # "absent") /\ Fresh.status # "absent"
    BY <1>1 DEF Before, Fresh, Absent
  <2> QED BY <1>1, <2>1 DEF ReplayEvent, AskedAfter, GrantedAfter
<1>3. e.type \in {"task.approved", "task.rejected"} =>
        \A a \in durable.approvals : a.id = e.about => a.task = T(r)
  <2>1. Committing(r) /\ pc[r] \notin Ended
    BY DEF Committing, Ended
  <2>2. op[r].kind = "create" => e.type = "task.created"
    BY <2>1 DEF ReplayInv, RevInv, CallsInv
  <2>3. op[r].kind # "create" => e.about = op[r].target
    BY <2>1 DEF ReplayInv, PendIs
  <2> QED BY <2>1, <2>2, <2>3, DecidedHere DEF ReplayInv, RevInv, Ended
<1> HIDE DEF e, n
<1> QED BY <1>1, <1>2, <1>3, AskedOf, GrantedFor DEF e, n

LEMMA AppendsAgrees ==
  ASSUME ReplayInv, NEW r \in Requests, LedgerAppends(r)
  PROVE  Agreement'
<1> DEFINE e == pend[r]
<1>1. /\ pc[r] = "appending" /\ op' = op /\ pend' = pend /\ UNCHANGED <<memory, drift>> /\ SafeInv
      /\ durable' = ReplayEvent(durable, e) /\ pc' = [pc EXCEPT ![r] = "appended"]
      /\ pc \in [Requests -> PCs] /\ Acts(r) /\ pc[r] \notin Ended
  BY DEF LedgerAppends, faults, ReplayInv, RevInv, SafeInv, TypeOK, RequestsOK, Acts, Inside, Ended
<1>2. PICK t \in Tasks : t = T(r)
  BY <1>1 DEF SafeInv, TypeOK, RequestsOK, T, Arguments, Ended
<1>3. /\ durable'.task[t] = ReplayedEnvelope(Before(t, e), e)
      /\ \A u \in Tasks \ {t} : durable'.task[u] = durable.task[u]
  BY <1>1, <1>2, Replayed1 DEF ReplayInv
<1>4. /\ Of(durable'.approvals, t) = AskedAfter(Of(durable.approvals, t), e)
      /\ For(durable'.approved, t) = GrantedAfter(For(durable.approved, t), e)
      /\ \A u : u # t => /\ Of(durable'.approvals, u) = Of(durable.approvals, u)
                         /\ For(durable'.approved, u) = For(durable.approved, u)
  BY <1>1, <1>2, ReplayedMaps
<1>5. Within(r, t)
  BY <1>1, <1>2, <1>3, <1>4 DEF Within, OthersStay, SameOn, memory, Of, For
<1>6. ASSUME t \notin drift' PROVE AgreeOK(t)'
  <2>1. Agrees(t, durable'.task[t], Of(durable'.approvals, t), For(durable'.approved, t))
    <3>1. AgreeOK(t)
      BY <1>1, <1>6 DEF ReplayInv, Agreement
    <3> QED BY <1>1, <1>2, <1>3, <1>4, <3>1 DEF AgreeOK
  <2>2. \A x \in Requests : T(x)' = T(x) /\ (T(x) = t => pc'[x] \notin Ahead)
    BY <1>1, <1>2, Alone DEF T, Ahead, Inside, ReplayInv
  <2>3. Late(t)' = Late(t)
    BY <1>1, <2>2 DEF Late, On
  <2>4. Agrees(t, durable.task[t], Of(durable.approvals, t), For(durable.approved, t))'
    BY <1>1, <2>1, <2>3 DEF Agrees, memory, Of, For
  <2> QED BY <2>2, <2>4 DEF AgreeOK, Ahead
<1> QED BY <1>5, <1>6, WithinStep

LEMMA FailsAgrees ==
  ASSUME ReplayInv, NEW r \in Requests, LedgerFails(r)
  PROVE  Agreement'
<1> DEFINE e == pend[r]
<1>1. /\ pc[r] = "appending" /\ op' = op /\ UNCHANGED <<memory, log>> /\ SafeInv
      /\ Acts(r) /\ pc[r] \notin Ended /\ pc \in [Requests -> PCs]
      /\ pend \in [Requests -> Event \cup {None}] /\ drift \subseteq drift'
  BY DEF LedgerFails, ReplayInv, RevInv, SafeInv, TypeOK, RequestsOK, Acts, Inside, Ended
<1>2. PICK t \in Tasks : t = T(r)
  BY <1>1 DEF SafeInv, TypeOK, RequestsOK, T, Arguments, Ended
<1>3. OthersStay(r) /\ pc'[r] \in {"lateFailed", "error"}
  BY <1>1, AnswerStays DEF LedgerFails, OthersStay
<1>4. Within(r, t)
  BY <1>1, <1>2, <1>3 DEF Within, SameOn, memory, log, Of, For
<1>5. ASSUME t \notin drift' PROVE AgreeOK(t)'
  <2>1. \/ e.type \in {"task.proposal", "task.recorded"}
        \/ e.type = "task.completed" /\ pc'[r] = "lateFailed"
    BY <1>1, <1>2, <1>5 DEF LedgerFails
  <2>2. /\ Agrees(t, ReplayedEnvelope(Before(t, e), e), AskedAfter(Of(durable.approvals, t), e),
                  GrantedAfter(For(durable.approved, t), e))
        /\ e.type = "task.completed" => durable.task[t].status = "running"
    <3>1. AgreeOK(t)
      BY <1>1, <1>5 DEF ReplayInv, Agreement
    <3> QED BY <1>1, <1>2, <3>1 DEF AgreeOK
  <2>3. Before(t, e) = durable.task[t]
    BY <2>1 DEF Before
  <2>4. \A x \in Requests : T(x)' = T(x) /\ (T(x) = t => pc'[x] \notin Ahead)
    BY <1>1, <1>2, <1>3, Alone DEF T, Ahead, Inside, ReplayInv, OthersStay
  <2>5. (Late(t) => Late(t)') /\ (pc'[r] = "lateFailed" => Late(t)')
    BY <1>1, <1>2, <1>3, <2>4 DEF Late, On, OthersStay
  <2>6. Agrees(t, durable.task[t], Of(durable.approvals, t), For(durable.approved, t))'
    <3> HIDE DEF e
    <3> QED BY <1>1, <2>1, <2>2, <2>3, <2>5 DEF Agrees, memory, log, Of, For, ReplayedEnvelope,
               StatusAfter, AskedAfter, GrantedAfter
  <2> QED BY <2>4, <2>6 DEF AgreeOK, Ahead
<1> QED BY <1>4, <1>5, WithinStep

\* A new call joins a queue or is answered at once, or it is the one that
\* creates its task.
Asks(r) ==
  /\ task' = task /\ pend' = pend /\ pc'[r] \in {"done", "queued", "mergeQueued"}
  /\ op'[r].target # None => \E a \in approvals : /\ a.id = op'[r].target /\ a.task = op'[r].task
                                                   /\ a.action = op'[r].action
Creates(r, t) ==
  /\ task[t].status = "absent" /\ task' = [task EXCEPT ![t] = Fresh]
  /\ op'[r].kind = "create" /\ op'[r].task = t /\ op'[r].target = None
  /\ pc'[r] = "appending" /\ pend'[r].type = "task.created" /\ pend'[r].by = r
  /\ \A x \in Requests \ {r} : pend'[x] = pend[x]

LEMMA InvokesHow ==
  ASSUME Serialized, SafeInv, NEW r \in Requests, Invoke(r)
  PROVE  /\ pc[r] = "idle" /\ UNCHANGED <<log, approvals, approved, drift>>
         /\ \A x \in Requests \ {r} : op'[x] = op[x] /\ pc'[x] = pc[x]
         /\ Asks(r) \/ \E t \in Tasks : Creates(r, t)
<1>1. PICK c \in Calls : CreateTask(r, c) \/ CallLocked(r, c) \/ CallMerge(r, c) \/ CallClassify(r, c)
  BY DEF Invoke
<1>2. /\ pc[r] = "idle" /\ c.kind # "classify" /\ c.task \in Tasks
      /\ op \in [Requests -> Arguments \cup {None}] /\ pc \in [Requests -> PCs]
      /\ pend \in [Requests -> Event \cup {None}]
  BY BrokerAssumption DEF Invoke, Call, Serialized, SafeInv, TypeOK, RequestsOK
<1>3. /\ UNCHANGED <<log, approvals, approved, drift>> /\ \A x \in Requests \ {r} : op'[x] = op[x] /\ pc'[x] = pc[x]
  BY <1>1, <1>2 DEF CreateTask, CallLocked, CallMerge, CallClassify, memory, faults
<1>4. CASE CreateTask(r, c)
  <2> DEFINE e == [task |-> c.task, type |-> "task.created", rev |-> 1, key |-> c.key, by |-> r,
                   about |-> None, action |-> None, who |-> c.who, spaces |-> 0]
  <2>1. c.kind = "create" /\ op' = [op EXCEPT ![r] = WithArgs(c, 0, None)]
    BY <1>4 DEF CreateTask
  <2>2. op'[r].target = None /\ op'[r].task = c.task /\ op'[r].kind = "create"
    BY <1>2, <2>1 DEF WithArgs
  <2>3. CASE pc' = [pc EXCEPT ![r] = "done"] /\ UNCHANGED <<task, pend>>
    BY <1>2, <1>3, <2>2, <2>3 DEF Asks
  <2>4. CASE /\ task[c.task].status = "absent"
             /\ task' = [task EXCEPT ![c.task] = Fresh]
             /\ pend' = [pend EXCEPT ![r] = e]
             /\ pc' = [pc EXCEPT ![r] = "appending"]
    <3>1. e.type = "task.created" /\ e.by = r
      OBVIOUS
    <3> HIDE DEF e
    <3>2. Creates(r, c.task)
      BY <1>2, <2>2, <2>4, <3>1 DEF Creates
    <3> QED BY <1>2, <1>3, <3>2
  <2>5. Asks(r) \/ \E t \in Tasks : Creates(r, t)
    BY <1>4, <2>3, <2>4 DEF CreateTask
  <2> QED BY <1>2, <1>3, <2>5
<1>5. CASE CallLocked(r, c) \/ CallMerge(r, c)
  <2>1. op'[r].target # None => \E a \in approvals : /\ a.id = op'[r].target /\ a.task = op'[r].task
                                                     /\ a.action = op'[r].action
    <3>1. CASE \E exp \in {task[c.task].rev} \cup Expected(c) :
                 op' = [op EXCEPT ![r] = WithArgs(c, exp, None)]
      BY <1>2, <3>1 DEF WithArgs
    <3>2. ASSUME NEW a \in approvals, a.task = c.task, NEW exp \in Expected(c),
                 op' = [op EXCEPT ![r] = WithArgs([c EXCEPT !.action = a.action], exp, a.id)]
          PROVE  a.id = op'[r].target /\ a.task = op'[r].task /\ a.action = op'[r].action
      <4>1. [c EXCEPT !.action = a.action].task = c.task /\ [c EXCEPT !.action = a.action].action = a.action
        BY BrokerAssumption DEF Call
      <4> QED BY <1>2, <3>2, <4>1 DEF WithArgs
    <3>3. CASE \E a \in approvals : a.task = c.task /\ \E exp \in Expected(c) :
                 op' = [op EXCEPT ![r] = WithArgs([c EXCEPT !.action = a.action], exp, a.id)]
      BY <3>2, <3>3
    <3> QED BY <1>5, <3>1, <3>3 DEF CallLocked, CallMerge
  <2>2. task' = task /\ pend' = pend /\ pc'[r] \in {"done", "queued", "mergeQueued"}
    BY <1>2, <1>5 DEF CallLocked, CallMerge, memory
  <2> QED BY <1>2, <1>3, <2>1, <2>2 DEF Asks
<1> QED BY <1>1, <1>2, <1>4, <1>5 DEF CallClassify

LEMMA InvokesAgrees ==
  ASSUME Serialized, ReplayInv, NEW r \in Requests, Invoke(r)
  PROVE  Agreement'
<1>1. /\ pc[r] = "idle" /\ UNCHANGED <<log, approvals, approved, drift>>
      /\ \A x \in Requests \ {r} : op'[x] = op[x] /\ pc'[x] = pc[x]
      /\ Asks(r) \/ \E t \in Tasks : Creates(r, t)
  BY InvokesHow DEF ReplayInv, RevInv
<1>2. \A x \in Requests \ {r} : T(x)' = T(x)
  BY <1>1 DEF T
<1>3. ASSUME NEW u \in Tasks \ drift, task'[u] = task[u],
             pc'[r] \in Ahead => T(r)' # u, \A x \in Requests \ {r} : pend'[x] = pend[x]
      PROVE  AgreeOK(u)'
  <2>1. AgreeOK(u) /\ SameOn(u)
    BY <1>1, <1>3, SameMaps DEF ReplayInv, Agreement, log
  <2>2. Late(u) => Late(u)'
    BY <1>1, <1>2 DEF Late, On
  <2> QED BY <1>1, <1>2, <1>3, <2>1, <2>2, StillAgrees DEF Ahead
<1>4. CASE Asks(r)
  <2> SUFFICES ASSUME NEW u \in Tasks \ drift PROVE AgreeOK(u)'
    BY <1>1 DEF Agreement
  <2> QED BY <1>3, <1>4 DEF Asks, Ahead
<1>5. ASSUME NEW t \in Tasks, Creates(r, t) PROVE Agreement'
  <2> SUFFICES ASSUME NEW u \in Tasks \ drift PROVE AgreeOK(u)'
    BY <1>1 DEF Agreement
  <2>1. \A v \in Tasks \ {t} : task'[v] = task[v]
    BY <1>5 DEF Creates, ReplayInv, RevInv, SafeInv, TypeOK, MemoryOK
  <2>2. CASE u # t
    BY <1>3, <1>5, <2>1, <2>2 DEF Creates, T
  <2>3. CASE u = t
    <3>1. \A x \in Requests : T(x) = t => pc[x] \in Ended
      BY <1>5 DEF Creates, ReplayInv, RevInv, CallsInv, TaskInv
    <3>2. /\ Of(durable.approvals, t) = Of(approvals, t) /\ For(durable.approved, t) = For(approved, t)
      BY <2>3, <3>1 DEF ReplayInv, Agreement, AgreeOK, Agrees, Ahead, Ended
    <3>3. task'[t] = Fresh
      BY <1>5 DEF Creates, ReplayInv, RevInv, SafeInv, TypeOK, MemoryOK
    <3>4. \A x \in Requests : T(x)' = t /\ pc'[x] \in Ahead => x = r
      BY <1>1, <1>2, <3>1 DEF Ahead, Ended
    <3>5. pend'[r].type = "task.created" /\ pc'[r] = "appending" /\ T(r)' = t
      BY <1>5 DEF Creates, T
    <3>6. /\ Agrees(t, ReplayedEnvelope(Before(t, pend[r]), pend[r]),
                    AskedAfter(Of(durable.approvals, t), pend[r]),
                    GrantedAfter(For(durable.approved, t), pend[r]))'
          /\ pend'[r].type # "task.completed"
      BY <1>1, <3>2, <3>3, <3>5 DEF Agrees, ReplayedEnvelope, StatusAfter, Before, Fresh, Absent,
         AskedAfter, GrantedAfter, Of, For, log
    <3>7. ASSUME NEW x \in Requests, T(x)' = t, pc'[x] = "workspace" \/ pc'[x] = "appending"
          PROVE  x = r /\ pc'[x] = "appending"
      BY <3>4, <3>5, <3>7 DEF Ahead
    <3> QED BY <2>3, <3>5, <3>6, <3>7 DEF AgreeOK, Ahead
  <2> QED BY <2>2, <2>3
<1> QED BY <1>1, <1>4, <1>5

\* A restart rebuilds memory from the ledger, and nothing is in progress.
LEMMA RestartAgrees ==
  ASSUME CrashAndRestart
  PROVE  Agreement'
<1>1. \A x \in Requests : pc'[x] \notin Ahead
  BY DEF CrashAndRestart, Ahead, Ended
<1>2. \A t \in Tasks : Agrees(t, durable.task[t], Of(durable.approvals, t), For(durable.approved, t))'
  BY DEF CrashAndRestart, Agrees, Of, For, log
<1> QED BY <1>1, <1>2 DEF Agreement, AgreeOK, Ahead

-----------------------------------------------------------------------------
(* The events and the approvals belong to their calls                        *)

\* A handler's step: its call stays the same, and what it appends or requests is
\* its own.
Own(r) == [id |-> r, task |-> T(r), action |-> op[r].action]
Keeps(r) ==
  /\ op' = op /\ OthersStay(r) /\ pc[r] # "idle" /\ pc'[r] # "idle"
  /\ Committing(r)' => \/ Committing(r) /\ pend'[r] = pend[r]
                       \/ \E type, key, rev : pend'[r] = EventOf(r, type, key, rev)
  /\ approvals' \subseteq approvals \cup {Own(r)}
  /\ durable'.approvals \subseteq durable.approvals \cup {Own(r)}

LEMMA KeepsStep ==
  ASSUME SafeInv, PendIs, ApprovalsInv, NEW r \in Requests, Keeps(r)
  PROVE  PendIs' /\ ApprovalsInv'
<1>1. PendIs'
  <2> SUFFICES ASSUME NEW x \in Requests, Committing(x)'
               PROVE  /\ pend'[x].by = x
                      /\ op[x].kind # "create" =>
                           /\ pend'[x].about = op[x].target /\ pend'[x].action = op[x].action
                           /\ pend'[x].who = op[x].who
    BY DEF PendIs, Keeps
  <2>1. CASE Committing(x) /\ pend'[x] = pend[x]
    BY <2>1 DEF PendIs
  <2>2. CASE x = r /\ \E type, key, rev : pend'[r] = EventOf(r, type, key, rev)
    BY <2>2 DEF EventOf
  <2>3. x # r => Committing(x) /\ pend'[x] = pend[x]
    BY DEF Keeps, OthersStay, Committing
  <2> QED BY <2>1, <2>2, <2>3 DEF Keeps
<1>2. ApprovalsInv'
  <2>1. \A x \in Requests : (pc'[x] # "idle" <=> pc[x] # "idle") /\ T(x)' = T(x) /\ op'[x] = op[x]
    BY DEF Keeps, OthersStay, T
  <2>2. ASSUME NEW a \in approvals' \cup durable'.approvals
        PROVE  pc'[a.id] # "idle" /\ T(a.id)' = a.task /\ op'[a.id].action = a.action
    <3>1. CASE a \in approvals \cup durable.approvals
      <4>1. a.id \in Requests
        BY <3>1 DEF SafeInv, TypeOK, MemoryOK, LogOK, Maps, Approval
      <4> QED BY <2>1, <3>1, <4>1 DEF ApprovalsInv
    <3>2. CASE a = Own(r)
      <4>1. a.id = r /\ a.task = T(r) /\ a.action = op[r].action
        BY <3>2 DEF Own
      <4> QED BY <2>1, <4>1 DEF Keeps
    <3> QED BY <3>1, <3>2 DEF Keeps
  <2>3. ASSUME NEW x \in Requests, pc'[x] # "idle", op'[x].target # None
        PROVE  /\ pc'[op'[x].target] # "idle" /\ T(op[x].target)' = T(x)'
               /\ op'[op'[x].target].action = op'[x].action
    <3>1. op[x] \in Arguments
      BY <2>1, <2>3 DEF SafeInv, TypeOK, RequestsOK
    <3>2. op[x].target \in Requests
      BY <2>1, <2>3, <3>1 DEF Arguments
    <3> QED BY <2>1, <2>3, <3>2 DEF ApprovalsInv
  <2> QED BY <2>1, <2>2, <2>3 DEF ApprovalsInv, T
<1> QED BY <1>1, <1>2

LEMMA HandlerKeeps ==
  ASSUME ReplayInv, NEW r \in Requests,
         \/ MergeTurn(r) \/ Delegate(r) \/ Evaluate(r) \/ Record(r) \/ RequestApproval(r)
         \/ Approve(r) \/ Reject(r) \/ Cancel(r) \/ Merge(r) \/ FinishDelegation(r)
         \/ FailDelegation(r) \/ WorkspaceReady(r) \/ WorkspaceFails(r) \/ ProposalsListed(r)
         \/ MergeSucceeds(r) \/ MergeConflicts(r) \/ LedgerFails(r) \/ CommitReturns(r)
         \/ DelegationStarts(r) \/ ProposalRecorded(r) \/ AdapterEnds(r)
  PROVE  Keeps(r)
<1>1. /\ op' = op /\ UNCHANGED durable /\ pc[r] # "idle" /\ pc \in [Requests -> PCs]
      /\ pend \in [Requests -> Event \cup {None}] /\ SafeInv
  <2>1. op' = op /\ UNCHANGED durable /\ pc[r] # "idle"
    BY DEF MergeTurn, Delegate, Evaluate, Record, RequestApproval, Approve, Reject, Cancel, Merge,
           FinishDelegation, FailDelegation, UnderLock, WorkspaceReady, WorkspaceFails, ProposalsListed,
           MergeSucceeds, MergeConflicts, LedgerFails, CommitReturns, DelegationStarts,
           ProposalRecorded, AdapterEnds, Acknowledge, log
  <2> QED BY <2>1 DEF ReplayInv, RevInv, SafeInv, TypeOK, RequestsOK
<1>2. approvals' \subseteq approvals \cup {Own(r)}
  BY DEF MergeTurn, Delegate, Evaluate, Record, RequestApproval, Approve, Reject, Cancel, Merge, Ends,
         FinishDelegation, FailDelegation, UnderLock, WorkspaceReady, WorkspaceFails, ProposalsListed,
         MergeSucceeds, MergeConflicts, LedgerFails, CommitReturns, DelegationStarts,
         ProposalRecorded, AdapterEnds, Acknowledge, memory, Own, Decided
<1>3. CASE \E how \in {"done", "error", "submitted"} : Answer(r, how)
  <2>1. OthersStay(r) /\ pc'[r] \in {"done", "error", "submitted"}
    BY <1>1, <1>3, AnswerStays
  <2> QED BY <1>1, <1>2, <2>1 DEF Keeps, Committing
<1>4. CASE \E type, key : StartCommit(r, type, key)
  <2>1. OthersStay(r) /\ pc'[r] = "appending" /\ \E type, key, rev : pend'[r] = EventOf(r, type, key, rev)
    BY <1>1, <1>4, CommitPrepares
  <2> QED BY <1>1, <1>2, <2>1 DEF Keeps
<1>5. CASE \E type, key : CheckedCommit(r, type, key)
  BY <1>3, <1>4, <1>5 DEF CheckedCommit
<1>6. CASE \E to \in {"queued", "answered", "failed", "listing", "workspace", "merging"} :
             pc' = [pc EXCEPT ![r] = to] /\ UNCHANGED pend
  BY <1>1, <1>2, <1>6 DEF Keeps, OthersStay, Committing
<1>7. CASE pc' = [pc EXCEPT ![r] = "lateFailed"] /\ pend' = [pend EXCEPT ![r] = None]
  BY <1>1, <1>2, <1>7 DEF Keeps, OthersStay, Committing
<1>8. CASE ProposalRecorded(r)
  <2>1. CASE /\ pc' = [pc EXCEPT ![r] = "appending"]
             /\ pend' = [pend EXCEPT ![r] = EventOf(r, "task.completed", None, pend[r].rev + 1)]
    BY <1>1, <1>2, <2>1 DEF Keeps, OthersStay
  <2> QED BY <1>3, <1>8, <2>1 DEF ProposalRecorded
<1>9. CASE MergeTurn(r) \/ AdapterEnds(r)
  BY <1>6, <1>9 DEF MergeTurn, AdapterEnds
<1>10. CASE \/ Delegate(r) \/ Evaluate(r) \/ Record(r) \/ RequestApproval(r)
            \/ Approve(r) \/ Reject(r) \/ Cancel(r) \/ Merge(r)
  BY <1>3, <1>4, <1>6, <1>10 DEF Delegate, Evaluate, Record, RequestApproval, Approve, Reject, Cancel,
     Merge, Ends
<1>11. CASE \/ FinishDelegation(r) \/ FailDelegation(r) \/ WorkspaceReady(r) \/ WorkspaceFails(r)
            \/ ProposalsListed(r) \/ MergeSucceeds(r) \/ MergeConflicts(r)
  BY <1>3, <1>4, <1>5, <1>11 DEF FinishDelegation, FailDelegation, WorkspaceReady, WorkspaceFails,
     ProposalsListed, MergeSucceeds, MergeConflicts
<1>12. CASE LedgerFails(r)
  BY <1>3, <1>7, <1>12 DEF LedgerFails
<1>13. CASE CommitReturns(r) \/ DelegationStarts(r)
  BY <1>3, <1>13 DEF CommitReturns, DelegationStarts
<1> QED BY <1>8, <1>9, <1>10, <1>11, <1>12, <1>13

LEMMA AppendsKeeps ==
  ASSUME ReplayInv, NEW r \in Requests, LedgerAppends(r)
  PROVE  Keeps(r)
<1> DEFINE e == pend[r]
<1>1. /\ pc[r] = "appending" /\ op' = op /\ pend' = pend /\ UNCHANGED approvals
      /\ durable' = ReplayEvent(durable, e) /\ pc' = [pc EXCEPT ![r] = "appended"]
      /\ pc \in [Requests -> PCs]
  BY DEF LedgerAppends, memory, ReplayInv, RevInv, SafeInv, TypeOK, RequestsOK
<1>2. durable'.approvals = AskedAfter(durable.approvals, e) /\ e.task = T(r) /\ Committing(r)
  BY <1>1, ReplayedMaps, Replayed1 DEF ReplayInv, Committing
<1>3. e.by = r /\ (op[r].kind # "create" => e.action = op[r].action)
  BY <1>2 DEF ReplayInv, PendIs
<1>4. op[r].kind = "create" => e.type = "task.created"
  BY <1>1 DEF ReplayInv, RevInv, CallsInv, Ended
<1>5. durable'.approvals \subseteq durable.approvals \cup {Own(r)}
  BY <1>2, <1>3, <1>4 DEF AskedAfter, Own
<1> QED BY <1>1, <1>2, <1>5 DEF Keeps, OthersStay, Committing

LEMMA InvokesKeeps ==
  ASSUME Serialized, ReplayInv, NEW r \in Requests, Invoke(r)
  PROVE  PendIs' /\ ApprovalsInv'
<1>1. /\ pc[r] = "idle" /\ UNCHANGED <<log, approvals, approved, drift>>
      /\ \A x \in Requests \ {r} : op'[x] = op[x] /\ pc'[x] = pc[x]
      /\ Asks(r) \/ \E t \in Tasks : Creates(r, t)
  BY InvokesHow DEF ReplayInv, RevInv
<1>2. /\ \A x \in Requests \ {r} : pend'[x] = pend[x]
      /\ Committing(r)' => op'[r].kind = "create" /\ pend'[r].by = r
      /\ op'[r].target # None => \E a \in approvals : /\ a.id = op'[r].target /\ a.task = op'[r].task
                                                       /\ a.action = op'[r].action
      /\ pc'[r] # "idle"
  BY <1>1 DEF Asks, Creates, Committing
<1>3. PendIs'
  BY <1>1, <1>2 DEF PendIs, ReplayInv, Committing
<1>4. \A x \in Requests \ {r} : T(x)' = T(x)
  BY <1>1 DEF T
<1>5. \A a \in approvals \cup durable.approvals : a.id \in Requests \ {r}
  BY <1>1 DEF ReplayInv, RevInv, ApprovalsInv, SafeInv, TypeOK, MemoryOK, LogOK, Maps, Approval
<1>6. \A a \in approvals' \cup durable'.approvals :
        pc'[a.id] # "idle" /\ T(a.id)' = a.task /\ op'[a.id].action = a.action
  BY <1>1, <1>4, <1>5 DEF ReplayInv, ApprovalsInv, log
<1>7. ASSUME NEW x \in Requests, pc'[x] # "idle", op'[x].target # None
      PROVE  /\ pc'[op'[x].target] # "idle" /\ T(op[x].target)' = T(x)'
             /\ op'[op'[x].target].action = op'[x].action
  <2>1. CASE x = r
    BY <1>1, <1>2, <1>6, <1>7, <2>1 DEF T
  <2>2. CASE x # r
    <3>1. op[x] \in Arguments /\ pc[x] # "idle" /\ op'[x] = op[x]
      BY <1>1, <1>7, <2>2 DEF ReplayInv, RevInv, SafeInv, TypeOK, RequestsOK
    <3>2. op[x].target \in Requests /\ pc[op[x].target] # "idle"
      BY <1>7, <3>1 DEF Arguments, ReplayInv, ApprovalsInv
    <3> QED BY <1>1, <1>4, <1>7, <2>2, <3>1, <3>2 DEF ReplayInv, ApprovalsInv
  <2> QED BY <2>1, <2>2
<1> QED BY <1>3, <1>6, <1>7 DEF ApprovalsInv

LEMMA RestartKeeps ==
  ASSUME ReplayInv, CrashAndRestart
  PROVE  PendIs' /\ ApprovalsInv'
<1>1. \A x \in Requests : (pc'[x] = "idle" <=> pc[x] = "idle") /\ ~Committing(x)' /\ T(x)' = T(x)
  BY DEF CrashAndRestart, Committing, Ended, T
<1>2. approvals' = durable.approvals /\ UNCHANGED <<op, durable>>
  BY DEF CrashAndRestart, log
<1>3. \A a \in durable.approvals : a.id \in Requests
  BY DEF ReplayInv, RevInv, SafeInv, TypeOK, LogOK, Maps, Approval
<1>4. \A x \in Requests : pc[x] # "idle" /\ op[x].target # None => op[x].target \in Requests
  BY DEF ReplayInv, RevInv, SafeInv, TypeOK, RequestsOK, Arguments
<1>5. PendIs'
  BY <1>1 DEF PendIs
<1>6. ApprovalsInv'
  BY <1>1, <1>2, <1>3, <1>4 DEF ApprovalsInv, ReplayInv, T
<1> QED BY <1>5, <1>6

-----------------------------------------------------------------------------
(* ReplayInv is inductive                                                    *)

LEMMA ReplayInit == Init => ReplayInv
<1> SUFFICES ASSUME Init PROVE ReplayInv
  OBVIOUS
<1>1. \A r \in Requests : ~Committing(r) /\ pc[r] = "idle"
  BY DEF Init, Committing
<1>2. PendIs /\ ApprovalsInv
  BY <1>1 DEF Init, EmptyMemory, PendIs, ApprovalsInv
<1>3. \A t \in Tasks : AgreeOK(t)
  BY <1>1 DEF Init, EmptyMemory, AgreeOK, Agrees, Ahead, Of, For
<1> QED BY <1>2, <1>3, RevInit, CountInit DEF ReplayInv, Agreement

LEMMA ReplayNext == Serialized /\ ReplayInv /\ [Next]_vars => ReplayInv'
<1> SUFFICES ASSUME Serialized, ReplayInv, [Next]_vars PROVE PendIs' /\ ApprovalsInv' /\ Agreement'
  BY RevNext, CountNext DEF ReplayInv
<1>1. CASE UNCHANGED vars
  <2>1. UNCHANGED <<task, approvals, approved, durable, op, pc, pend, drift>>
    BY <1>1 DEF vars, memory, requests, log, faults
  <2>2. PendIs' /\ ApprovalsInv'
    BY <2>1 DEF ReplayInv, PendIs, ApprovalsInv, Committing, T
  <2>3. ASSUME NEW u \in Tasks \ drift PROVE AgreeOK(u)'
    <3>1. AgreeOK(u) /\ SameOn(u) /\ (Late(u) => Late(u)') /\ \A x \in Requests : T(x)' = T(x)
      BY <2>1, SameMaps DEF ReplayInv, Agreement, Late, On, T
    <3> QED BY <2>1, <3>1, StillAgrees
  <2> QED BY <2>1, <2>2, <2>3 DEF Agreement
<1>2. CASE CrashAndRestart
  BY <1>2, RestartAgrees, RestartKeeps
<1>3. ASSUME NEW r \in Requests, Invoke(r) PROVE PendIs' /\ ApprovalsInv' /\ Agreement'
  BY <1>3, InvokesAgrees, InvokesKeeps
<1>4. ASSUME NEW r \in Requests, HandlerStep(r) \/ AdapterEnds(r)
      PROVE  PendIs' /\ ApprovalsInv' /\ Agreement'
  <2>1. ~ClassifyEnds(r)
    BY DEF ClassifyEnds, ReplayInv, RevInv, CallsInv, SafeInv, CallOK
  <2>2. Keeps(r)
    BY <1>4, <2>1, HandlerKeeps, AppendsKeeps DEF HandlerStep
  <2>3. Agreement'
    BY <1>4, <2>1, LockedAgrees, DelegateAgrees, WorkspaceAgrees, ListedAgrees, MergeAgrees,
       OutcomeAgrees, QueuesAgrees, ResumesAgrees, AppendsAgrees, FailsAgrees DEF HandlerStep
  <2> QED BY <2>2, <2>3, KeepsStep DEF ReplayInv, RevInv
<1> QED BY <1>1, <1>2, <1>3, <1>4 DEF Next

\* While no handler is in the middle of a change of a task, a restart would
\* restore exactly what memory says of it, as long as no handler threw after it
\* changed memory (drift).
THEOREM MemoryAlwaysReplay ==
  ASSUME Serialized
  PROVE  Spec => []MemoryIsReplay
<1>1. ReplayInv => MemoryIsReplay
  <2> SUFFICES ASSUME ReplayInv, NEW t \in Tasks \ drift, Quiet(t)
               PROVE  /\ task[t] = durable.task[t]
                      /\ Of(approvals, t) = Of(durable.approvals, t)
                      /\ For(approved, t) = For(durable.approved, t)
    BY DEF MemoryIsReplay, Of, For
  <2>1. \A x \in Requests : T(x) = t => pc[x] \notin Ahead \cup {"appended", "lateFailed"}
    BY DEF Quiet, On, Ahead, PCs, Ended
  <2>2. Agrees(t, durable.task[t], Of(durable.approvals, t), For(durable.approved, t)) /\ ~Late(t)
    BY <2>1 DEF ReplayInv, Agreement, AgreeOK, Late, On
  <2>3. task[t].rev = durable.task[t].rev
    <3>1. Appended(t) = {} /\ task[t].rev \in Nat
      BY <2>1 DEF Appended, On, ReplayInv, RevInv, SafeInv, TypeOK, MemoryOK, Envelope
    <3> QED BY <3>1 DEF ReplayInv, CountInv
  <2>4. task[t] \in Envelope /\ durable.task[t] \in Envelope
    BY DEF ReplayInv, RevInv, SafeInv, TypeOK, MemoryOK, LogOK, Maps
  <2>5. task[t] = durable.task[t]
    BY <2>2, <2>3, <2>4 DEF Agrees, Envelope
  <2> QED BY <2>2, <2>5 DEF Agrees
<1>2. ReplayInv /\ [Next]_vars => ReplayInv'
  BY ReplayNext
<1> QED BY ReplayInit, <1>1, <1>2, PTL DEF Spec

-----------------------------------------------------------------------------
(* A repeated command is recorded once, as long as the calls are Serialized  *)
(* and the keys of merges, which replay does not rebuild, survive.           *)

MergeKeysLast == MaxCrashes = 0 \/ \A c \in Calls : c.kind = "merge" => c.key = None

\* Where a repetition of the command is looked up.
Known(type, k) ==
  CASE type = "task.created"            -> k \in createIdem
    [] type = "task.approval_requested" -> k \in apprIdem
    [] type = "task.merged"             -> k \in mergeKeys
    [] OTHER                            -> k \in idem

\* No event of the command is in the ledger.
Unrecorded(type, k, t) ==
  k # None => \A i \in Events : ledger[i].key = k /\ ledger[i].type = type =>
                ledger[i].task # t /\ type # "task.created"

\* The event a handler will append when its await returns.
Coming == [listing |-> "task.recorded", workspace |-> "task.delegated", merging |-> "task.merged"]

\* What a request is about to append is new; a merge that waits finds its task at a
\* later revision when a merge with its key is recorded before.
KeyOK(r) ==
  /\ Committing(r) =>
       /\ pend[r].key \in {None, op[r].key}
       /\ op[r].kind = "create" => pend[r].key = op[r].key
       /\ pend[r].type = "task.merged" => op[r].kind = "merge"
       /\ pend[r].type = "task.approval_requested" /\ pend[r].key # None => pend[r].key \in apprIdem
  /\ pc[r] = "appending" => Unrecorded(pend[r].type, pend[r].key, T(r))
  /\ pc[r] \in DOMAIN Coming => Unrecorded(Coming[pc[r]], op[r].key, T(r))
  /\ pc[r] \in {"mergeQueued", "queued"} /\ op[r].kind = "merge" =>
       /\ op[r].exp \in Nat /\ op[r].exp <= task[T(r)].rev
       /\ \A i \in EventsOf(T(r)) :
            ledger[i].type = "task.merged" /\ ledger[i].key = op[r].key /\ op[r].key # None =>
              op[r].exp < ledger[i].rev

\* The maps of keys know what is in the ledger, in memory and after a replay, but for
\* an event whose append has not resumed.
KeysKnown == \A i \in Events : ledger[i].key # None =>
  \/ Known(ledger[i].type, ledger[i].key)
  \/ \E r \in Requests : pc[r] = "appended" /\ pend[r] = ledger[i]
KeysReplayed == \A i \in Events :
  LET e == ledger[i] IN
  e.key # None => /\ e.key \in durable.idem
                  /\ e.type = "task.created" => e.key \in durable.createIdem
                  /\ e.type = "task.approval_requested" => e.key \in durable.apprIdem

\* One creation per key is in flight.
OneCreation == \A r, x \in Requests :
  /\ Committing(r) /\ op[r].kind = "create" /\ Committing(x) /\ op[x].kind = "create"
  /\ op[r].key # None /\ op[r].key = op[x].key
  => r = x

\* Clients that send no key with a merge have none on record.
MergesKeyless ==
  (\A c \in Calls : c.kind = "merge" => c.key = None) =>
    /\ \A r \in Requests : pc[r] # "idle" /\ op[r].kind = "merge" => op[r].key = None
    /\ \A i \in Events : ledger[i].type = "task.merged" => ledger[i].key = None

KeyInv ==
  /\ \A r \in Requests : KeyOK(r)
  /\ KeysKnown /\ KeysReplayed /\ OneCreation /\ MergesKeyless /\ RecordedOnce

\* A command that is not known has no event in the ledger: the one event that is not
\* known yet is of a task whose lock is taken.
LEMMA UnknownIsNew ==
  ASSUME RevInv, KeyInv, NEW r \in Requests, Acts(r), pc[r] # "appended",
         NEW type \in Types \ {"task.created"}, NEW k, k = None \/ ~Known(type, k)
  PROVE  Unrecorded(type, k, T(r))
<1> SUFFICES ASSUME k # None, NEW i \in Events, ledger[i].key = k, ledger[i].type = type,
                    ledger[i].task = T(r)
             PROVE  FALSE
  BY DEF Unrecorded
<1>1. PICK x \in Requests : pc[x] = "appended" /\ pend[x] = ledger[i]
  BY DEF KeyInv, KeysKnown
<1>2. Inside(x) /\ T(x) = T(r)
  BY <1>1 DEF Inside, RevInv, SafeInv, CallOK, Committing
<1>3. r = x
  BY <1>2, Alone
<1> QED BY <1>1, <1>3

\* A merge at the present revision is not on record: its events would be later.
LEMMA MergeIsNew ==
  ASSUME RevInv, KeyInv, NEW r \in Requests, pc[r] = "queued", Holds(r),
         op[r].kind = "merge", op[r].exp = task[T(r)].rev
  PROVE  Unrecorded("task.merged", op[r].key, T(r))
<1> SUFFICES ASSUME op[r].key # None, NEW i \in Events, ledger[i].key = op[r].key,
                    ledger[i].type = "task.merged", ledger[i].task = T(r)
             PROVE  FALSE
  BY DEF Unrecorded
<1>1. Acts(r)
  BY DEF Acts
<1>2. ASSUME NEW x \in Requests, pc[x] = "appended", T(x) = T(r) PROVE FALSE
  <2>1. r = x
    BY <1>1, <1>2, Alone DEF Inside
  <2> QED BY <1>2, <2>1
<1>3. i \in EventsOf(T(r)) /\ ledger[i] \in Event /\ ledger[i].rev \in Nat
  BY EventType DEF EventsOf, RevInv, Events, Event
<1>4. ledger[i].rev <= task[T(r)].rev
  BY <1>2 DEF RevInv, LedgerInv, Events
<1>5. op[r].exp < ledger[i].rev /\ op[r].exp \in Nat
  BY <1>3 DEF KeyInv, KeyOK
<1> QED BY <1>3, <1>4, <1>5

\* Most steps forget no key and leave the ledger alone.
KeyMoves(r) ==
  /\ Moves(r)
  /\ UNCHANGED <<idem, createIdem, mergeKeys>> /\ apprIdem \subseteq apprIdem'
  /\ KeyOK(r)'

LEMMA KeyMovesStep ==
  ASSUME RevInv, KeyInv, NEW r \in Requests, KeyMoves(r)
  PROVE  KeyInv'
<1>1. /\ op' = op /\ ledger' = ledger /\ durable' = durable /\ Events' = Events
      /\ \A t \in Tasks : task'[t].rev = task[t].rev /\ EventsOf(t)' = EventsOf(t)
      /\ \A x \in Requests \ {r} : pc'[x] = pc[x] /\ pend'[x] = pend[x]
      /\ \A x \in Requests : T(x)' = T(x)
  BY DEF KeyMoves, Moves, KeepsRevisions, log, T, Events, EventsOf
<1>2. ASSUME NEW x \in Requests PROVE KeyOK(x)'
  <2>1. CASE x = r
    BY <2>1 DEF KeyMoves
  <2>2. CASE x # r
    <3>1. pc[x] # "idle" => T(x) \in Tasks
      BY DEF T, RevInv, SafeInv, TypeOK, RequestsOK, Arguments
    <3>2. KeyOK(x) /\ apprIdem \subseteq apprIdem'
      BY DEF KeyInv, KeyMoves
    <3>3. \A type, k, t : Unrecorded(type, k, t)' = Unrecorded(type, k, t)
      BY <1>1 DEF Unrecorded
    <3>4. pc[x] = "idle" => pc[x] \notin {"appending", "appended", "mergeQueued", "queued"} \cup DOMAIN Coming
      BY DEF Coming
    <3> QED BY <1>1, <2>2, <3>1, <3>2, <3>3, <3>4 DEF KeyOK, Committing
  <2> QED BY <2>1, <2>2
<1>3. \A type, k : Known(type, k) => Known(type, k)'
  BY DEF KeyMoves, Known
<1>4. KeysKnown'
  BY <1>1, <1>3 DEF KeyMoves, Moves, KeyInv, KeysKnown
<1>5. KeysReplayed'
  BY <1>1 DEF KeyInv, KeysReplayed
<1>6. OneCreation'
  BY <1>1 DEF KeyMoves, Moves, KeyInv, OneCreation, Committing, Ended
<1>7. MergesKeyless'
  BY <1>1 DEF KeyMoves, Moves, KeyInv, MergesKeyless, Ended
<1>8. RecordedOnce'
  BY <1>1 DEF KeyInv, RecordedOnce
<1> QED BY <1>2, <1>4, <1>5, <1>6, <1>7, <1>8 DEF KeyInv

\* A handler that answers, or starts to append an event that is new.
LEMMA AnswerKeys ==
  ASSUME SafeInv, NEW r \in Requests, NEW how \in Ended \cup {"submitted", "answered", "failed", "lateFailed"},
         pc' = [pc EXCEPT ![r] = how]
  PROVE  KeyOK(r)'
<1>1. pc'[r] = how
  BY DEF SafeInv, TypeOK, RequestsOK
<1> QED BY <1>1 DEF KeyOK, Committing, Coming, Ended

LEMMA CommitKeys ==
  ASSUME SafeInv, op' = op, UNCHANGED log, NEW r \in Requests, op[r].kind # "create",
         NEW type \in Types \ {"task.created"}, NEW key \in {None, op[r].key},
         Unrecorded(type, key, T(r)),
         type = "task.merged" => op[r].kind = "merge",
         type = "task.approval_requested" /\ key # None => key \in apprIdem',
         StartCommit(r, type, key) \/ CheckedCommit(r, type, key)
  PROVE  KeyOK(r)'
<1>1. CASE StartCommit(r, type, key)
  <2> DEFINE e == EventOf(r, type, key, task[T(r)].rev + 1)
  <2>1. e.type = type /\ e.key = key
    BY DEF EventOf
  <2>2. pc'[r] = "appending" /\ pend'[r] = e
    BY <1>1 DEF StartCommit, SafeInv, TypeOK, RequestsOK
  <2> HIDE DEF e
  <2>3. Unrecorded(type, key, T(r))' /\ T(r)' = T(r)
    BY DEF Unrecorded, log, Events, T
  <2> QED BY <2>1, <2>2, <2>3 DEF KeyOK, Committing, Coming
<1>2. CASE Answer(r, "error")
  BY <1>2, AnswerKeys DEF Answer, Ended
<1> QED BY <1>1, <1>2 DEF CheckedCommit

\* What the next event of a handler that awaits will be.
LEMMA AwaitKeys ==
  ASSUME SafeInv, op' = op, UNCHANGED log, NEW r \in Requests, NEW to \in DOMAIN Coming,
         pc' = [pc EXCEPT ![r] = to], Unrecorded(Coming[to], op[r].key, T(r))
  PROVE  KeyOK(r)'
<1>1. pc'[r] = to /\ DOMAIN Coming = {"listing", "workspace", "merging"}
  BY DEF SafeInv, TypeOK, RequestsOK, Coming
<1>2. Unrecorded(Coming[to], op[r].key, T(r))' /\ T(r)' = T(r)
  BY DEF Unrecorded, log, Events, T
<1> QED BY <1>1, <1>2 DEF KeyOK, Committing

\* The handlers that run under the lock look their key up when they get it.
LEMMA LockedKeys ==
  ASSUME RevInv, KeyInv, NEW r \in Requests,
         \/ Delegate(r) \/ Evaluate(r) \/ Record(r) \/ RequestApproval(r) \/ Approve(r) \/ Reject(r)
         \/ Cancel(r) \/ Merge(r) \/ FinishDelegation(r) \/ FailDelegation(r)
  PROVE  KeyMoves(r)
<1>1. SafeInv /\ Moves(r) /\ op' = op /\ UNCHANGED log
  <2>1. SafeInv /\ Moves(r)
    BY LockedMoves DEF RevInv
  <2> QED BY <2>1 DEF Moves
<1>2. /\ pc[r] \in {"queued", "answered", "failed", "lateFailed"} /\ Holds(r) /\ Acts(r)
      /\ pc[r] # "appended" /\ op[r].kind # "create"
  <2>1. pc[r] \in {"queued", "answered", "failed", "lateFailed"} /\ Holds(r)
    BY DEF Delegate, Evaluate, Record, RequestApproval, Approve, Reject, Cancel, Merge,
           FinishDelegation, FailDelegation, UnderLock
  <2> QED BY <1>1, <2>1 DEF Acts, SafeInv, CallOK, Locked
<1>3. UNCHANGED <<idem, createIdem, mergeKeys>> /\ apprIdem \subseteq apprIdem'
  BY DEF Delegate, Evaluate, Record, RequestApproval, Approve, Reject, Cancel, Merge,
         FinishDelegation, FailDelegation, Ends, memory, volatile
<1>4. ASSUME NEW how \in Ended, Answer(r, how) PROVE KeyOK(r)'
  BY <1>1, <1>4, AnswerKeys DEF Answer
<1>5. ASSUME NEW how \in {"done", "error"}, Ends(r, how) PROVE KeyOK(r)'
  BY <1>4, <1>5 DEF Ends, Ended
<1>6. ASSUME NEW type \in Types \ {"task.created", "task.approval_requested", "task.merged"},
             NEW key \in {None, op[r].key}, key = None \/ key \notin idem, StartCommit(r, type, key)
      PROVE  KeyOK(r)'
  <2>1. key = None \/ ~Known(type, key)
    BY <1>6 DEF Known
  <2>2. Unrecorded(type, key, T(r))
    BY <1>2, <2>1, UnknownIsNew
  <2> QED BY <1>1, <1>2, <1>6, <2>2, CommitKeys
<1>7. {"task.delegated", "task.recorded", "task.approved", "task.rejected", "task.cancelled",
       "task.proposal", "task.failed"} \subseteq Types \ {"task.created", "task.approval_requested", "task.merged"}
  BY DEF Types
<1>8. op[r].key = None \/ op[r].key \notin idem \/ Replayed(r)
  BY DEF Replayed
<1>9. ASSUME NEW to \in {"listing", "workspace"}, ~Replayed(r), pc' = [pc EXCEPT ![r] = to]
      PROVE  KeyOK(r)'
  <2>1. Coming[to] \in {"task.recorded", "task.delegated"} /\ to \in DOMAIN Coming
    BY DEF Coming
  <2>2. op[r].key = None \/ ~Known(Coming[to], op[r].key)
    BY <1>8, <1>9, <2>1 DEF Known
  <2>3. Unrecorded(Coming[to], op[r].key, T(r))
    BY <1>2, <1>7, <2>1, <2>2, UnknownIsNew
  <2> QED BY <1>1, <1>9, <2>1, <2>3, AwaitKeys
<1>10. ASSUME Delegate(r) PROVE KeyOK(r)'
  BY <1>5, <1>6, <1>7, <1>8, <1>9, <1>10 DEF Delegate
<1>11. ASSUME Evaluate(r) PROVE KeyOK(r)'
  BY <1>5, <1>9, <1>11 DEF Evaluate
<1>12. ASSUME Record(r) PROVE KeyOK(r)'
  BY <1>5, <1>6, <1>7, <1>8, <1>12 DEF Record
<1>13. ASSUME RequestApproval(r) PROVE KeyOK(r)'
  <2>1. CASE \E how \in {"done", "error"} : Ends(r, how)
    BY <1>5, <2>1
  <2>2. CASE /\ op[r].key = None \/ op[r].key \notin apprIdem
             /\ apprIdem' = apprIdem \cup ({op[r].key} \ {None})
             /\ StartCommit(r, "task.approval_requested", op[r].key)
    <3>1. "task.approval_requested" \in Types \ {"task.created"}
      BY DEF Types
    <3>2. op[r].key = None \/ ~Known("task.approval_requested", op[r].key)
      BY <2>2 DEF Known
    <3>3. Unrecorded("task.approval_requested", op[r].key, T(r))
      BY <1>2, <3>1, <3>2, UnknownIsNew
    <3> QED BY <1>1, <1>2, <2>2, <3>1, <3>3, CommitKeys
  <2> QED BY <1>13, <2>1, <2>2 DEF RequestApproval
<1>14. ASSUME Approve(r) PROVE KeyOK(r)'
  BY <1>5, <1>6, <1>7, <1>8, <1>14 DEF Approve
<1>15. ASSUME Reject(r) PROVE KeyOK(r)'
  BY <1>5, <1>6, <1>7, <1>8, <1>15 DEF Reject
<1>16. ASSUME Cancel(r) PROVE KeyOK(r)'
  BY <1>5, <1>6, <1>7, <1>8, <1>16 DEF Cancel
<1>17. ASSUME Merge(r) PROVE KeyOK(r)'
  <2>1. CASE Ends(r, "error")
    BY <1>5, <2>1
  <2>2. CASE op[r].exp = task[T(r)].rev /\ pc' = [pc EXCEPT ![r] = "merging"]
    <3>1. Unrecorded("task.merged", op[r].key, T(r))
      BY <1>2, <1>17, <2>2, MergeIsNew DEF Merge, UnderLock
    <3>2. "merging" \in DOMAIN Coming /\ Coming["merging"] = "task.merged"
      BY DEF Coming
    <3> QED BY <1>1, <2>2, <3>1, <3>2, AwaitKeys
  <2> QED BY <1>17, <2>1, <2>2 DEF Merge
<1>18. ASSUME FinishDelegation(r) PROVE KeyOK(r)'
  BY <1>4, <1>6, <1>7, <1>18 DEF FinishDelegation, Ended
<1>19. ASSUME FailDelegation(r) PROVE KeyOK(r)'
  BY <1>4, <1>6, <1>7, <1>19 DEF FailDelegation, Ended
<1>20. KeyOK(r)'
  BY <1>10, <1>11, <1>12, <1>13, <1>14, <1>15, <1>16, <1>17, <1>18, <1>19
<1> QED BY <1>1, <1>3, <1>20 DEF KeyMoves

\* After an await the key is not looked up again: the lock was held.
LEMMA AwaitedKeys ==
  ASSUME RevInv, KeyInv, NEW r \in Requests,
         \/ MergeTurn(r) \/ AdapterEnds(r) \/ WorkspaceReady(r) \/ WorkspaceFails(r)
         \/ ProposalsListed(r) \/ MergeSucceeds(r) \/ MergeConflicts(r) \/ LedgerFails(r)
  PROVE  KeyMoves(r)
<1>1. SafeInv /\ Moves(r) /\ op' = op /\ UNCHANGED log /\ KeyOK(r)
  <2>1. SafeInv /\ Moves(r)
    BY AwaitedMoves DEF RevInv
  <2> QED BY <2>1 DEF Moves, KeyInv
<1>2. UNCHANGED <<idem, createIdem, mergeKeys>> /\ apprIdem' = apprIdem
  BY DEF MergeTurn, AdapterEnds, WorkspaceReady, WorkspaceFails, ProposalsListed, MergeSucceeds,
         MergeConflicts, LedgerFails, memory, volatile
<1>3. ASSUME NEW how \in Ended, Answer(r, how) PROVE KeyOK(r)'
  BY <1>1, <1>3, AnswerKeys DEF Answer
<1>4. ASSUME pc[r] \in DOMAIN Coming, op[r].kind # "create",
             Coming[pc[r]] = "task.merged" => op[r].kind = "merge",
             StartCommit(r, Coming[pc[r]], op[r].key) \/ CheckedCommit(r, Coming[pc[r]], op[r].key)
      PROVE  KeyOK(r)'
  <2>1. Coming[pc[r]] \in Types \ {"task.created", "task.approval_requested"}
    BY <1>4 DEF Coming, Types
  <2>2. Unrecorded(Coming[pc[r]], op[r].key, T(r))
    BY <1>1, <1>4 DEF KeyOK
  <2> QED BY <1>1, <1>4, <2>1, <2>2, CommitKeys
<1>5. /\ DOMAIN Coming = {"listing", "workspace", "merging"} /\ Coming["listing"] = "task.recorded"
      /\ Coming["workspace"] = "task.delegated" /\ Coming["merging"] = "task.merged"
  BY DEF Coming
<1>6. ASSUME MergeTurn(r) PROVE KeyOK(r)'
  <2>1. pc[r] = "mergeQueued" /\ pc'[r] = "queued" /\ T(r) \in Tasks
    BY <1>1, <1>6 DEF MergeTurn, SafeInv, TypeOK, RequestsOK, T, Arguments
  <2>2. op[r].kind = "merge"
    BY <1>1, <2>1 DEF SafeInv, CallOK
  <2>3. T(r)' = T(r) /\ EventsOf(T(r))' = EventsOf(T(r)) /\ task'[T(r)].rev = task[T(r)].rev
        /\ ledger' = ledger
    BY <1>1, <2>1 DEF T, Moves, KeepsRevisions, EventsOf, Events, log
  <2> QED BY <1>1, <1>5, <2>1, <2>2, <2>3 DEF KeyOK, Committing
<1>7. ASSUME AdapterEnds(r) PROVE KeyOK(r)'
  BY <1>1, <1>7, AnswerKeys DEF AdapterEnds
<1>8. ASSUME WorkspaceReady(r) PROVE KeyOK(r)'
  <2>1. pc[r] = "workspace" /\ op[r].kind = "delegate"
    BY <1>1, <1>8 DEF WorkspaceReady, SafeInv, CallOK
  <2> QED BY <1>4, <1>5, <1>8, <2>1 DEF WorkspaceReady
<1>9. ASSUME WorkspaceFails(r) PROVE KeyOK(r)'
  BY <1>3, <1>9 DEF WorkspaceFails, Ended
<1>10. ASSUME ProposalsListed(r) PROVE KeyOK(r)'
  <2>1. pc[r] = "listing" /\ op[r].kind = "evaluate"
    BY <1>1, <1>10 DEF ProposalsListed, SafeInv, CallOK
  <2>2. "error" \in Ended
    BY DEF Ended
  <2> QED BY <1>3, <1>4, <1>5, <1>10, <2>1, <2>2 DEF ProposalsListed
<1>11. ASSUME MergeSucceeds(r) PROVE KeyOK(r)'
  <2>1. pc[r] = "merging" /\ op[r].kind = "merge"
    BY <1>1, <1>11 DEF MergeSucceeds, SafeInv, CallOK
  <2> QED BY <1>4, <1>5, <1>11, <2>1 DEF MergeSucceeds
<1>12. ASSUME MergeConflicts(r) PROVE KeyOK(r)'
  <2>1. pc[r] = "merging" /\ op[r].kind = "merge" /\ StartCommit(r, "task.conflict", None)
    BY <1>1, <1>12 DEF MergeConflicts, SafeInv, CallOK
  <2>2. Unrecorded("task.conflict", None, T(r)) /\ "task.conflict" \in Types \ {"task.created"}
    BY DEF Unrecorded, Types
  <2> QED BY <1>1, <2>1, <2>2, CommitKeys
<1>13. ASSUME LedgerFails(r) PROVE KeyOK(r)'
  BY <1>1, <1>3, <1>13, AnswerKeys DEF LedgerFails, Ended
<1>14. KeyOK(r)'
  BY <1>6, <1>7, <1>8, <1>9, <1>10, <1>11, <1>12, <1>13
<1> QED BY <1>1, <1>2, <1>14 DEF KeyMoves

\* The appended event is new, and every other event that is coming is of another
\* task, or creates one with another key.
LEMMA AppendsKeys ==
  ASSUME RevInv, KeyInv, NEW r \in Requests, LedgerAppends(r)
  PROVE  KeyInv'
<1> DEFINE e == pend[r]
           t == T(r)
           m == Len(ledger) + 1
<1>1. /\ pc[r] = "appending" /\ Acts(r) /\ Committing(r) /\ op' = op /\ pend' = pend
      /\ ledger' = Append(ledger, e) /\ task' = task
      /\ durable' = ReplayEvent(durable, e) /\ pc' = [pc EXCEPT ![r] = "appended"]
      /\ pc \in [Requests -> PCs] /\ KeyOK(r) /\ pc'[r] = "appended"
      /\ \A x \in Requests : Committing(x)' = Committing(x)
      /\ UNCHANGED <<idem, createIdem, apprIdem, mergeKeys>>
  BY DEF LedgerAppends, Acts, Inside, Committing, RevInv, SafeInv, TypeOK, RequestsOK, memory,
         volatile, KeyInv
<1>2. /\ e \in Event /\ e.task = t /\ t \in Tasks /\ e.rev = task[t].rev + 1
      /\ Before(t, e).status # "absent" /\ task[t].rev \in Nat
  <2>1. e \in Event /\ e.task = t /\ t \in Tasks /\ e.rev = task[t].rev + 1 /\ Before(t, e).status # "absent"
    BY <1>1, Replayed1
  <2> QED BY <2>1 DEF RevInv, SafeInv, TypeOK, MemoryOK, Envelope
<1>3. /\ Events = 1 .. Len(ledger) /\ Len(ledger) \in Nat /\ Events' = Events \cup {m} /\ m \notin Events
      /\ ledger'[m] = e /\ \A i \in Events : ledger'[i] = ledger[i]
  BY <1>1, <1>2, AppendProperties, LenProperties DEF RevInv, SafeInv, TypeOK, LogOK, Events
<1>4. Unrecorded(e.type, e.key, t)
  BY <1>1 DEF KeyOK
<1> HIDE DEF e, t, m
<1>5. ASSUME NEW x \in Requests \ {r}, Inside(x) PROVE T(x) # t
  BY <1>1, <1>5, Alone DEF t
<1>6. ASSUME NEW x \in Requests \ {r}, Inside(x), NEW type, NEW k, Unrecorded(type, k, T(x)),
             type = "task.created" /\ e.type = type /\ k # None => e.key # k
      PROVE  Unrecorded(type, k, T(x))'
  <2>1. T(x)' = T(x) /\ T(x) # t
    BY <1>1, <1>5, <1>6 DEF T
  <2> QED BY <1>2, <1>3, <1>6, <2>1 DEF Unrecorded
<1>7. ASSUME NEW x \in Requests PROVE KeyOK(x)'
  <2>1. KeyOK(x) /\ T(x)' = T(x)
    BY <1>1 DEF KeyInv, T
  <2>2. CASE x = r
    BY <1>1, <2>1, <2>2 DEF KeyOK, Coming
  <2>3. CASE x # r
    <3>1. pc'[x] = pc[x]
      BY <1>1, <2>3
    <3>2. pc[x] = "appending" => Unrecorded(pend[x].type, pend[x].key, T(x))'
      <4> SUFFICES ASSUME pc[x] = "appending" PROVE Unrecorded(pend[x].type, pend[x].key, T(x))'
        OBVIOUS
      <4>1. Inside(x) /\ Committing(x) /\ Unrecorded(pend[x].type, pend[x].key, T(x))
        BY <2>1 DEF Inside, Committing, KeyOK
      <4>2. ASSUME pend[x].type = "task.created", e.type = pend[x].type, pend[x].key # None
            PROVE  e.key # pend[x].key
        <5>1. op[x].kind = "create" /\ op[r].kind = "create"
          BY <1>1, <4>1, <4>2 DEF RevInv, PendInv, e
        <5>2. pend[x].key = op[x].key /\ e.key = op[r].key
          BY <1>1, <2>1, <4>1, <5>1 DEF KeyOK, e
        <5> QED BY <1>1, <2>3, <4>1, <4>2, <5>1, <5>2 DEF KeyInv, OneCreation
      <4>3. PICK type, k : type = pend[x].type /\ k = pend[x].key
        OBVIOUS
      <4>4. Unrecorded(type, k, T(x))'
        BY <1>6, <2>3, <4>1, <4>2, <4>3
      <4> QED BY <1>1, <4>3, <4>4
    <3>3. pc[x] \in DOMAIN Coming => Unrecorded(Coming[pc[x]], op[x].key, T(x))'
      <4> SUFFICES ASSUME pc[x] \in DOMAIN Coming PROVE Unrecorded(Coming[pc[x]], op[x].key, T(x))'
        OBVIOUS
      <4>1. PICK type, k : type = Coming[pc[x]] /\ k = op[x].key
        OBVIOUS
      <4>2. Inside(x) /\ Unrecorded(type, k, T(x)) /\ type # "task.created"
        BY <2>1, <4>1 DEF Inside, KeyOK, Coming
      <4>3. Unrecorded(type, k, T(x))'
        BY <1>6, <2>3, <4>2
      <4> QED BY <1>1, <3>1, <4>1, <4>3
    <3>4. ASSUME pc[x] \in {"mergeQueued", "queued"}, op[x].kind = "merge"
          PROVE  /\ op[x].exp \in Nat /\ op[x].exp <= task[T(x)].rev
                 /\ \A i \in EventsOf(T(x))' :
                      ledger'[i].type = "task.merged" /\ ledger'[i].key = op[x].key /\ op[x].key # None =>
                        op[x].exp < ledger'[i].rev
      <4>1. /\ op[x].exp \in Nat /\ op[x].exp <= task[T(x)].rev
            /\ \A i \in EventsOf(T(x)) :
                 ledger[i].type = "task.merged" /\ ledger[i].key = op[x].key /\ op[x].key # None =>
                   op[x].exp < ledger[i].rev
        BY <2>1, <3>4 DEF KeyOK
      <4>2. T(x) = t => op[x].exp < e.rev
        BY <1>2, <4>1
      <4>3. \A i \in EventsOf(T(x))' : \/ i = m /\ T(x) = t
                                       \/ i \in EventsOf(T(x)) /\ ledger'[i] = ledger[i]
        BY <1>2, <1>3, <2>1 DEF EventsOf
      <4> QED BY <1>3, <4>1, <4>2, <4>3
    <3> QED BY <1>1, <2>1, <3>1, <3>2, <3>3, <3>4 DEF KeyOK
  <2> QED BY <2>2, <2>3
<1>8. KeysKnown'
  <2> SUFFICES ASSUME NEW i \in Events', ledger'[i].key # None
               PROVE  \/ Known(ledger[i].type, ledger[i].key)'
                      \/ \E y \in Requests : pc'[y] = "appended" /\ pend'[y] = ledger'[i]
    BY DEF KeysKnown
  <2>1. CASE i = m
    BY <1>1, <1>3, <2>1 DEF e
  <2>2. CASE i \in Events
    <3>1. ledger'[i] = ledger[i] /\ \A type, k : Known(type, k)' = Known(type, k)
      BY <1>1, <1>3, <2>2 DEF Known
    <3>2. \/ Known(ledger[i].type, ledger[i].key)
          \/ \E y \in Requests : pc[y] = "appended" /\ pend[y] = ledger[i]
      BY <2>2, <3>1 DEF KeyInv, KeysKnown
    <3>3. \A y \in Requests : pc[y] = "appended" => pc'[y] = "appended" /\ pend'[y] = pend[y]
      BY <1>1
    <3> QED BY <3>1, <3>2, <3>3
  <2> QED BY <1>3, <2>1, <2>2
<1>9. KeysReplayed'
  <2>1. /\ durable'.idem = durable.idem \cup ({e.key} \ {None})
        /\ durable.createIdem \subseteq durable'.createIdem /\ durable.apprIdem \subseteq durable'.apprIdem
        /\ e.type = "task.created" => durable'.createIdem = durable.createIdem \cup ({e.key} \ {None})
        /\ e.type = "task.approval_requested" => durable'.apprIdem = durable.apprIdem \cup ({e.key} \ {None})
    BY <1>1, <1>2 DEF ReplayEvent, Before
  <2> SUFFICES ASSUME NEW i \in Events', ledger'[i].key # None
               PROVE  /\ ledger'[i].key \in durable'.idem
                      /\ ledger'[i].type = "task.created" => ledger'[i].key \in durable'.createIdem
                      /\ ledger'[i].type = "task.approval_requested" => ledger'[i].key \in durable'.apprIdem
    BY DEF KeysReplayed
  <2> QED BY <1>3, <2>1 DEF KeyInv, KeysReplayed
<1>10. OneCreation'
  BY <1>1 DEF KeyInv, OneCreation
<1>11. MergesKeyless'
  <2> SUFFICES ASSUME \A c \in Calls : c.kind = "merge" => c.key = None
               PROVE  /\ \A x \in Requests : pc'[x] # "idle" /\ op'[x].kind = "merge" => op'[x].key = None
                      /\ \A i \in Events' : ledger'[i].type = "task.merged" => ledger'[i].key = None
    BY DEF MergesKeyless
  <2>1. \A x \in Requests : pc[x] # "idle" /\ op[x].kind = "merge" => op[x].key = None
    BY DEF KeyInv, MergesKeyless
  <2>2. e.type = "task.merged" => e.key = None
    BY <1>1, <2>1 DEF KeyOK, e
  <2>3. \A x \in Requests : pc'[x] = pc[x] \/ x = r
    BY <1>1
  <2> QED BY <1>1, <1>3, <2>1, <2>2, <2>3 DEF KeyInv, MergesKeyless
<1>12. RecordedOnce'
  <2>1. \A i \in Events : e.key # None /\ ledger[i].key = e.key /\ ledger[i].type = e.type =>
                            ledger[i].task # e.task /\ e.type # "task.created"
    BY <1>2, <1>4 DEF Unrecorded
  <2> QED BY <1>3, <2>1 DEF KeyInv, RecordedOnce
<1> QED BY <1>7, <1>8, <1>9, <1>10, <1>11, <1>12 DEF KeyInv

\* When the append resumes the key of its event becomes known.
LEMMA ResumesKeys ==
  ASSUME RevInv, KeyInv, NEW r \in Requests,
         CommitReturns(r) \/ DelegationStarts(r) \/ ProposalRecorded(r)
  PROVE  KeyInv'
<1>1. Resumes(r) /\ KeyOK(r) /\ Committing(r) /\ pc \in [Requests -> PCs] /\ apprIdem' = apprIdem
      /\ pend \in [Requests -> Event \cup {None}] /\ pend[r] \in Event
  <2>1. Resumes(r)
    BY ResumesHow
  <2> QED BY <2>1 DEF KeyInv, Resumes, Committing, RevInv, SafeInv, TypeOK, RequestsOK, CommitReturns,
             DelegationStarts, ProposalRecorded, Acknowledge
<1>2. /\ op' = op /\ ledger' = ledger /\ durable' = durable /\ Events' = Events /\ pc[r] = "appended"
      /\ \A x \in Requests : T(x)' = T(x)
      /\ \A x \in Requests \ {r} : pc'[x] = pc[x] /\ pend'[x] = pend[x]
  BY <1>1 DEF Resumes, log, Events, T
<1>3. /\ idem' = idem \cup ({pend[r].key} \ {None})
      /\ createIdem \subseteq createIdem' /\ mergeKeys \subseteq mergeKeys'
      /\ pend[r].type = "task.created" /\ pend[r].key # None => pend[r].key \in createIdem'
      /\ pend[r].type = "task.merged" /\ pend[r].key # None => pend[r].key \in mergeKeys'
  BY DEF CommitReturns, DelegationStarts, ProposalRecorded, Acknowledge
<1>4. \A type, k : Known(type, k) => Known(type, k)'
  BY <1>1, <1>3 DEF Known
<1>5. \A type, k : type = pend[r].type /\ k = pend[r].key /\ k # None => Known(type, k)'
  BY <1>1, <1>3 DEF Known, KeyOK
<1>6. pc'[r] = "appending" => op[r].kind # "create" /\ pend'[r].key = None /\ pend'[r].type = "task.completed"
  <2> SUFFICES ASSUME pc'[r] = "appending"
               PROVE  op[r].kind # "create" /\ pend'[r].key = None /\ pend'[r].type = "task.completed"
    OBVIOUS
  <2>1. op[r].kind # "create"
    BY <1>1 DEF Resumes, Ended
  <2>2. ~ \E how \in {"done", "error", "submitted"} : Answer(r, how)
    BY <1>1 DEF Answer
  <2>3. \E rev : pend' = [pend EXCEPT ![r] = EventOf(r, "task.completed", None, rev)]
    BY <2>2 DEF CommitReturns, DelegationStarts, ProposalRecorded
  <2>4. PICK rev : pend'[r] = EventOf(r, "task.completed", None, rev)
    BY <1>1, <2>3
  <2> QED BY <2>1, <2>4 DEF EventOf
<1>7. pc'[r] \in Ended \cup {"submitted", "appending"}
  BY <1>1 DEF Resumes
<1>8. ASSUME NEW x \in Requests PROVE KeyOK(x)'
  <2>1. CASE x = r
    BY <1>2, <1>6, <1>7, <2>1 DEF KeyOK, Committing, Unrecorded, Coming, Ended
  <2>2. CASE x # r
    <3>1. KeyOK(x) /\ pc'[x] = pc[x] /\ pend'[x] = pend[x] /\ T(x)' = T(x)
      BY <1>2, <2>2 DEF KeyInv
    <3>2. \A type, k, t : Unrecorded(type, k, t)' = Unrecorded(type, k, t)
      BY <1>2 DEF Unrecorded
    <3>3. EventsOf(T(x))' = EventsOf(T(x))
      BY <1>2 DEF EventsOf
    <3>4. ASSUME pc[x] \in {"mergeQueued", "queued"}, op[x].kind = "merge"
          PROVE  op[x].exp \in Nat /\ op[x].exp <= task'[T(x)].rev
      <4>1. T(x) \in Tasks /\ op[x].exp \in Nat /\ op[x].exp <= task[T(x)].rev
        BY <3>1, <3>4 DEF KeyOK, T, RevInv, SafeInv, TypeOK, RequestsOK, Arguments
      <4>2. task[T(x)].rev \in Nat /\ (task'[T(x)].rev = task[T(x)].rev \/ task'[T(x)].rev = task[T(x)].rev + 1)
        BY <1>1, <4>1 DEF Resumes, RevInv, PendInv, SafeInv, TypeOK, MemoryOK, Envelope
      <4> QED BY <4>1, <4>2
    <3> QED BY <1>1, <1>2, <3>1, <3>2, <3>3, <3>4 DEF KeyOK, Committing
  <2> QED BY <2>1, <2>2
<1>9. KeysKnown'
  <2> SUFFICES ASSUME NEW i \in Events, ledger[i].key # None
               PROVE  \/ Known(ledger[i].type, ledger[i].key)'
                      \/ \E y \in Requests : pc'[y] = "appended" /\ pend'[y] = ledger'[i]
    BY <1>2 DEF KeysKnown
  <2>1. CASE Known(ledger[i].type, ledger[i].key)
    <3>1. PICK type, k : type = ledger[i].type /\ k = ledger[i].key
      OBVIOUS
    <3>2. Known(type, k)'
      BY <1>4, <2>1, <3>1
    <3> QED BY <1>2, <3>1, <3>2
  <2>2. ASSUME NEW y \in Requests, pc[y] = "appended", pend[y] = ledger[i]
        PROVE  \/ Known(ledger[i].type, ledger[i].key)'
               \/ \E z \in Requests : pc'[z] = "appended" /\ pend'[z] = ledger'[i]
    <3>1. CASE y = r
      <4>1. PICK type, k : type = ledger[i].type /\ k = ledger[i].key
        OBVIOUS
      <4>2. Known(type, k)'
        BY <1>5, <2>2, <3>1, <4>1
      <4> QED BY <1>2, <4>1, <4>2
    <3> QED BY <1>2, <2>2, <3>1
  <2> QED BY <2>1, <2>2 DEF KeyInv, KeysKnown
<1>10. KeysReplayed' /\ RecordedOnce'
  BY <1>2 DEF KeyInv, KeysReplayed, RecordedOnce
<1>11. OneCreation'
  BY <1>1, <1>2, <1>6, <1>7 DEF KeyInv, OneCreation, Committing, Ended
<1>12. MergesKeyless'
  <2>1. \A x \in Requests : pc'[x] # "idle" => pc[x] # "idle"
    BY <1>2
  <2> QED BY <1>2, <2>1 DEF KeyInv, MergesKeyless
<1> QED BY <1>8, <1>9, <1>10, <1>11, <1>12 DEF KeyInv

\* A call leaves the other calls and what is recorded and known as they were.
CallsIn(r) ==
  /\ UNCHANGED <<idem, createIdem, apprIdem, mergeKeys, ledger, durable>>
  /\ \A t \in Tasks : task'[t].rev = task[t].rev
  /\ pc[r] = "idle"
  /\ \A x \in Requests \ {r} : op'[x] = op[x] /\ pc'[x] = pc[x] /\ pend'[x] = pend[x]
  /\ op'[r].kind = "merge" => \E c \in Calls : c.kind = "merge" /\ op'[r].key = c.key

LEMMA CallsInStep ==
  ASSUME RevInv, KeyInv, NEW r \in Requests, CallsIn(r), KeyOK(r)',
         Committing(r)' /\ op'[r].kind = "create" /\ op'[r].key # None => ~CreateInFlight(op'[r].key)
  PROVE  KeyInv'
<1>1. /\ Events' = Events /\ ledger' = ledger /\ durable' = durable
      /\ \A t \in Tasks : EventsOf(t)' = EventsOf(t)
      /\ \A x \in Requests \ {r} : pc'[x] = pc[x] /\ pend'[x] = pend[x] /\ op'[x] = op[x] /\ T(x)' = T(x)
  BY DEF CallsIn, Events, EventsOf, T
<1>2. ASSUME NEW x \in Requests \ {r} PROVE KeyOK(x)'
  <2>1. pc[x] # "idle" => T(x) \in Tasks
    BY DEF T, RevInv, SafeInv, TypeOK, RequestsOK, Arguments
  <2>2. KeyOK(x) /\ apprIdem' = apprIdem /\ \A t \in Tasks : task'[t].rev = task[t].rev
    BY DEF KeyInv, CallsIn
  <2>3. \A type, k, t : Unrecorded(type, k, t)' = Unrecorded(type, k, t)
    BY <1>1 DEF Unrecorded
  <2>4. pc[x] = "idle" => pc[x] \notin {"appending", "appended", "mergeQueued", "queued"} \cup DOMAIN Coming
    BY DEF Coming
  <2> QED BY <1>1, <2>1, <2>2, <2>3, <2>4 DEF KeyOK, Committing
<1>3. KeysKnown'
  <2>1. \A type, k : Known(type, k)' = Known(type, k)
    BY DEF CallsIn, Known
  <2> QED BY <1>1, <2>1 DEF CallsIn, KeyInv, KeysKnown
<1>4. KeysReplayed' /\ RecordedOnce'
  BY <1>1 DEF KeyInv, KeysReplayed, RecordedOnce
<1>5. OneCreation'
  <2>1. ASSUME NEW x \in Requests \ {r}, Committing(x)', op'[x].kind = "create", op'[x].key # None
        PROVE  CreateInFlight(op'[x].key)
    BY <1>1, <2>1 DEF CreateInFlight, Committing
  <2>2. ASSUME NEW x \in Requests \ {r}, Committing(x)', op'[x].kind = "create", op'[x].key # None,
               Committing(r)', op'[r].kind = "create"
        PROVE  op'[x].key # op'[r].key
    BY <2>1, <2>2
  <2>3. ASSUME NEW x \in Requests \ {r}, NEW y \in Requests \ {r}
        PROVE  Committing(x)' /\ op'[x].kind = "create" /\ Committing(y)' /\ op'[y].kind = "create"
               /\ op'[x].key # None /\ op'[x].key = op'[y].key => x = y
    BY <1>1 DEF KeyInv, OneCreation, Committing
  <2> QED BY <2>2, <2>3 DEF OneCreation
<1>6. MergesKeyless'
  BY <1>1 DEF CallsIn, KeyInv, MergesKeyless
<1> QED BY <1>2, <1>3, <1>4, <1>5, <1>6 DEF KeyInv

\* A creation whose key is neither known nor in flight is new.
LEMMA CreatesKeys ==
  ASSUME RevInv, KeyInv, NEW r \in Requests, NEW c \in Calls, pc[r] = "idle", CreateTask(r, c)
  PROVE  KeyInv'
<1> DEFINE e == [task |-> c.task, type |-> "task.created", rev |-> 1, key |-> c.key, by |-> r,
                 about |-> None, action |-> None, who |-> c.who, spaces |-> 0]
<1>1. /\ c.task \in Tasks /\ op \in [Requests -> Arguments \cup {None}] /\ pc \in [Requests -> PCs]
      /\ pend \in [Requests -> Event \cup {None}] /\ task \in [Tasks -> Envelope]
  BY BrokerAssumption DEF Call, RevInv, SafeInv, TypeOK, MemoryOK, RequestsOK
<1>2. op' = [op EXCEPT ![r] = WithArgs(c, 0, None)] /\ c.kind = "create"
      /\ UNCHANGED <<idem, createIdem, apprIdem, mergeKeys, ledger, durable>>
  BY DEF CreateTask, volatile, log
<1>3. op'[r].kind = "create" /\ op'[r].key = c.key /\ T(r)' = c.task
  BY <1>1, <1>2 DEF WithArgs, T
<1>4. CASE pc' = [pc EXCEPT ![r] = "done"] /\ UNCHANGED <<task, pend>>
  <2>1. CallsIn(r) /\ pc'[r] = "done"
    BY <1>1, <1>2, <1>3, <1>4 DEF CallsIn
  <2>2. KeyOK(r)' /\ ~Committing(r)'
    BY <2>1 DEF KeyOK, Committing, Coming
  <2> QED BY <2>1, <2>2, CallsInStep
<1>5. CASE /\ c.key = None \/ (~CreateInFlight(c.key) /\ c.key \notin createIdem)
           /\ task[c.task].status = "absent"
           /\ task' = [task EXCEPT ![c.task] = Fresh]
           /\ pend' = [pend EXCEPT ![r] = e]
           /\ pc' = [pc EXCEPT ![r] = "appending"]
  <2>1. e.type = "task.created" /\ e.key = c.key
    OBVIOUS
  <2> HIDE DEF e
  <2>2. pend'[r] = e /\ pc'[r] = "appending"
    BY <1>1, <1>5
  <2>3. \A t \in Tasks : task'[t].rev = task[t].rev
    BY <1>1, <1>5 DEF Fresh, Absent, RevInv, TaskInv
  <2>4. CallsIn(r)
    BY <1>1, <1>2, <1>3, <1>5, <2>3 DEF CallsIn
  <2>5. ASSUME c.key # None, NEW i \in Events, ledger[i].key = c.key, ledger[i].type = "task.created"
        PROVE  FALSE
    <3>1. PICK x \in Requests : pc[x] = "appended" /\ pend[x] = ledger[i]
      BY <1>5, <2>5 DEF KeyInv, KeysKnown, Known
    <3>2. op[x].kind = "create" /\ op[x].key = c.key
      BY <2>5, <3>1 DEF KeyInv, KeyOK, RevInv, PendInv, Committing
    <3> QED BY <1>5, <2>5, <3>1, <3>2 DEF CreateInFlight
  <2>6. Unrecorded("task.created", c.key, c.task)'
    BY <1>2, <2>5 DEF Unrecorded, Events
  <2>7. KeyOK(r)'
    BY <1>3, <2>1, <2>2, <2>6 DEF KeyOK, Coming
  <2> QED BY <1>3, <1>5, <2>4, <2>7, CallsInStep
<1>6. \/ pc' = [pc EXCEPT ![r] = "done"] /\ UNCHANGED <<task, pend>>
      \/ /\ c.key = None \/ (~CreateInFlight(c.key) /\ c.key \notin createIdem)
         /\ task[c.task].status = "absent"
         /\ task' = [task EXCEPT ![c.task] = Fresh]
         /\ pend' = [pend EXCEPT ![r] = e]
         /\ pc' = [pc EXCEPT ![r] = "appending"]
  BY DEF CreateTask
<1> QED BY <1>4, <1>5, <1>6

\* A merge whose key is not known is on record, if at all, as the event whose append
\* has not resumed: a later revision than the one the call expects.
LEMMA InvokesKeys ==
  ASSUME Serialized, RevInv, KeyInv, NEW r \in Requests, Invoke(r)
  PROVE  KeyInv'
<1>1. PICK c \in Calls : CreateTask(r, c) \/ CallLocked(r, c) \/ CallMerge(r, c) \/ CallClassify(r, c)
  BY DEF Invoke
<1>2. /\ pc[r] = "idle" /\ c.kind # "classify" /\ c.task \in Tasks
      /\ op \in [Requests -> Arguments \cup {None}] /\ pc \in [Requests -> PCs]
      /\ task \in [Tasks -> Envelope]
  BY BrokerAssumption DEF Invoke, Call, Serialized, RevInv, SafeInv, TypeOK, RequestsOK, MemoryOK
<1>3. ASSUME CallLocked(r, c) PROVE KeyInv'
  <2>1. op'[r].kind = c.kind /\ c.kind \notin {"merge", "create"} /\ pc'[r] = "queued"
        /\ \A x \in Requests \ {r} : op'[x] = op[x] /\ pc'[x] = pc[x]
    <3>1. CASE \E exp \in Expected(c) : op' = [op EXCEPT ![r] = WithArgs(c, exp, None)]
      BY <1>2, <1>3, <3>1 DEF CallLocked, WithArgs
    <3>2. CASE \E a \in approvals, exp \in Expected(c) :
                 op' = [op EXCEPT ![r] = WithArgs([c EXCEPT !.action = a.action], exp, a.id)]
      <4>1. \A a : [c EXCEPT !.action = a].kind = c.kind
        BY BrokerAssumption DEF Call
      <4> QED BY <1>2, <1>3, <3>2, <4>1 DEF CallLocked, WithArgs
    <3> QED BY <1>3, <3>1, <3>2 DEF CallLocked
  <2>2. CallsIn(r)
    BY <1>2, <1>3, <2>1 DEF CallsIn, CallLocked, memory, volatile, log
  <2>3. KeyOK(r)' /\ ~Committing(r)'
    BY <2>1 DEF KeyOK, Committing, Coming
  <2> QED BY <2>2, <2>3, CallsInStep
<1>4. ASSUME CallMerge(r, c) PROVE KeyInv'
  <2>1. /\ op' = [op EXCEPT ![r] = WithArgs(c, task[c.task].rev, None)] /\ c.kind = "merge"
        /\ UNCHANGED <<task, idem, createIdem, apprIdem, mergeKeys, pend, ledger, durable>>
        /\ \/ pc' = [pc EXCEPT ![r] = "done"]
           \/ /\ c.key = None \/ c.key \notin mergeKeys
              /\ pc' = [pc EXCEPT ![r] = "mergeQueued"]
    BY <1>4 DEF CallMerge, memory, volatile, log
  <2>2. /\ op'[r].kind = "merge" /\ op'[r].key = c.key /\ op'[r].exp = task[c.task].rev /\ T(r)' = c.task
        /\ task[c.task].rev \in Nat
    BY <1>2, <2>1 DEF WithArgs, T, Envelope
  <2>3. CallsIn(r)
    BY <1>2, <2>1, <2>2 DEF CallsIn
  <2>4. CASE pc' = [pc EXCEPT ![r] = "done"]
    <3>1. KeyOK(r)' /\ ~Committing(r)'
      BY <1>2, <2>4 DEF KeyOK, Committing, Coming
    <3> QED BY <2>3, <3>1, CallsInStep
  <2>5. CASE (c.key = None \/ c.key \notin mergeKeys) /\ pc' = [pc EXCEPT ![r] = "mergeQueued"]
    <3>1. ASSUME NEW i \in EventsOf(c.task), ledger[i].type = "task.merged", ledger[i].key = c.key,
                 c.key # None
          PROVE  task[c.task].rev < ledger[i].rev
      <4>1. PICK x \in Requests : pc[x] = "appended" /\ pend[x] = ledger[i]
        BY <2>5, <3>1 DEF KeyInv, KeysKnown, Known, EventsOf
      <4>2. ledger[i].rev = task[c.task].rev + 1
        BY <3>1, <4>1 DEF RevInv, PendInv, SafeInv, CallOK, Committing, EventsOf
      <4> QED BY <2>2, <4>2
    <3>2. EventsOf(c.task)' = EventsOf(c.task)
      BY <2>1 DEF EventsOf, Events
    <3>3. pc'[r] = "mergeQueued" /\ ~Committing(r)'
      BY <1>2, <2>5 DEF Committing
    <3>4. KeyOK(r)'
      BY <2>1, <2>2, <3>1, <3>2, <3>3 DEF KeyOK, Coming
    <3> QED BY <2>3, <3>3, <3>4, CallsInStep
  <2> QED BY <2>1, <2>4, <2>5
<1> QED BY <1>1, <1>2, <1>3, <1>4, CreatesKeys DEF CallClassify

\* A restart knows the keys of the ledger, but for those of merges.
LEMMA RestartKeys ==
  ASSUME MergeKeysLast, RevInv, KeyInv, CrashAndRestart
  PROVE  KeyInv'
<1>1. /\ op' = op /\ ledger' = ledger /\ durable' = durable /\ Events' = Events
      /\ idem' = durable.idem /\ createIdem' = durable.createIdem /\ apprIdem' = durable.apprIdem
      /\ \A x \in Requests : pc'[x] \in Ended /\ (pc'[x] # "idle" => pc[x] # "idle")
  BY DEF CrashAndRestart, log, Events, Ended
<1>2. \A x \in Requests : KeyOK(x)' /\ ~Committing(x)'
  BY <1>1 DEF KeyOK, Committing, Coming, Ended
<1>3. \A c \in Calls : c.kind = "merge" => c.key = None
  BY BrokerAssumption DEF MergeKeysLast, CrashAndRestart, RevInv, SafeInv, TypeOK
<1>4. MergesKeyless'
  BY <1>1 DEF KeyInv, MergesKeyless
<1>5. KeysKnown'
  BY <1>1, <1>3 DEF KeyInv, KeysReplayed, KeysKnown, MergesKeyless, Known
<1>6. KeysReplayed' /\ RecordedOnce'
  BY <1>1 DEF KeyInv, KeysReplayed, RecordedOnce
<1>7. OneCreation'
  BY <1>2 DEF OneCreation
<1> QED BY <1>2, <1>4, <1>5, <1>6, <1>7 DEF KeyInv

LEMMA KeyInit == Init => KeyInv
<1> SUFFICES ASSUME Init PROVE KeyInv
  OBVIOUS
<1>1. Events = {} /\ \A r \in Requests : pc[r] = "idle" /\ ~Committing(r)
  BY DEF Init, Events, Committing
<1>2. \A r \in Requests : KeyOK(r)
  BY <1>1 DEF KeyOK, Coming
<1> QED BY <1>1, <1>2 DEF KeyInv, KeysKnown, KeysReplayed, OneCreation, MergesKeyless, RecordedOnce

LEMMA KeyNext ==
  ASSUME Serialized, MergeKeysLast, RevInv, KeyInv, [Next]_vars
  PROVE  KeyInv'
<1>1. CASE UNCHANGED vars
  <2>1. UNCHANGED <<task, idem, createIdem, apprIdem, mergeKeys, op, pc, pend, ledger, durable>>
    BY <1>1 DEF vars, memory, volatile, requests, log
  <2>2. /\ \A r \in Requests : T(r)' = T(r) /\ EventsOf(T(r))' = EventsOf(T(r))
        /\ \A type, k : Known(type, k)' = Known(type, k)
        /\ \A type, k, t : Unrecorded(type, k, t)' = Unrecorded(type, k, t)
        /\ Events' = Events
    BY <2>1 DEF T, EventsOf, Events, Known, Unrecorded
  <2>3. \A r \in Requests : KeyOK(r)'
    BY <2>1, <2>2 DEF KeyInv, KeyOK, Committing
  <2>4. KeysKnown'
    BY <2>1, <2>2 DEF KeyInv, KeysKnown
  <2> QED BY <2>1, <2>2, <2>3, <2>4 DEF KeyInv, KeysReplayed, OneCreation, MergesKeyless, RecordedOnce,
          Committing
<1>2. CASE CrashAndRestart
  BY <1>2, RestartKeys
<1>3. ASSUME NEW r \in Requests, Invoke(r) \/ HandlerStep(r) \/ AdapterEnds(r)
      PROVE  KeyInv'
  <2>1. ~ClassifyEnds(r)
    BY DEF ClassifyEnds, RevInv, CallsInv, SafeInv, CallOK
  <2> QED BY <1>3, <2>1, InvokesKeys, LockedKeys, AwaitedKeys, KeyMovesStep, AppendsKeys, ResumesKeys
          DEF HandlerStep
<1> QED BY <1>1, <1>2, <1>3 DEF Next

\* A command repeated with its idempotency key is recorded once, whether the
\* repetition overlaps the first call, follows it or, but for a merge, follows a
\* restart (replay does not rebuild the results of merges).
THEOREM RepetitionsRecordedOnce ==
  ASSUME Serialized, MergeKeysLast
  PROVE  Spec => []RecordedOnce
<1>1. RevInv /\ KeyInv => RecordedOnce
  BY DEF KeyInv
<1>2. RevInv /\ KeyInv /\ [Next]_vars => RevInv' /\ KeyInv'
  BY RevNext, KeyNext
<1> QED BY RevInit, KeyInit, <1>1, <1>2, PTL DEF Spec
=============================================================================
