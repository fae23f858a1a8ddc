-------------------------- MODULE TaskBrokerProofs --------------------------
(* Theorems about TaskBroker for every value of its constants.               *)
EXTENDS TaskBroker, SequenceTheorems, TLAPS

Committing(r) == pc[r] \in {"appending", "appended"}
Inside(r) == pc[r] \in {"listing", "workspace", "merging", "appending", "appended"}
Delegating == {"task.delegated", "task.proposal", "task.completed"}

\* What a suspended call waits for fits the method that was called.
CallOK == \A r \in Requests :
  /\ pc[r] = "queued" => Locked(r)
  /\ pc[r] \in {"workspace", "submitted", "answered", "failed", "lateFailed"}
       => op[r].kind = "delegate"
  /\ pc[r] \in {"mergeQueued", "merging"} => op[r].kind = "merge"
  /\ pc[r] = "classifying" => op[r].kind = "classify"
  /\ pc[r] = "listing" => op[r].kind = "evaluate"
  /\ Committing(r) =>
       /\ pend[r].task = T(r)
       /\ pend[r].type \in Delegating => op[r].kind = "delegate"

\* A handler between its first and its last await has the task's lock, and a
\* merge that left the merge queue is still its head.
HasLock(r) == Locked(r) => Holds(r)
HasTurn(r) == op[r].kind = "merge" => mergeQ # <<>> /\ Head(mergeQ) = r
LockOK == \A r \in Requests :
  /\ Inside(r) => HasLock(r)
  /\ pc[r] \notin Ended \cup {"mergeQueued"} => HasTurn(r)

SafeInv == TypeOK /\ CallOK /\ LockOK

-----------------------------------------------------------------------------
(* Sequences: what Append and Tail do to the head of a queue.                *)

LEMMA AppendHead ==
  ASSUME NEW S, NEW q \in Seq(S), NEW x \in S
  PROVE  /\ Append(q, x) \in Seq(S) /\ Append(q, x) # <<>>
         /\ Head(Append(q, x)) = IF q = <<>> THEN x ELSE Head(q)
BY AppendProperties, HeadTailAppend

LEMMA TailType ==
  ASSUME NEW S, NEW q \in Seq(S), q # <<>>
  PROVE  Tail(q) \in Seq(S) /\ Head(q) \in S
BY HeadTailProperties

-----------------------------------------------------------------------------
(* The four ways a step moves a request, each with what it preserves.        *)

\* A handler that has its lock and its turn ends, or hands over to the adapter.
LEMMA AnswerStep ==
  ASSUME SafeInv, op' = op, NEW r \in Requests, NEW how \in PCs,
         pc[r] \notin Ended \cup {"mergeQueued"}, HasLock(r),
         how \in Ended \/ (how = "submitted" /\ op[r].kind = "delegate"), how # "idle",
         Answer(r, how)
  PROVE  RequestsOK' /\ CallOK' /\ LockOK'
<1>1. /\ op[r] \in Arguments /\ T(r) \in Tasks /\ HasTurn(r)
      /\ \A x \in Requests : T(x)' = T(x) /\ Locked(x)' = Locked(x)
  BY DEF SafeInv, TypeOK, RequestsOK, LockOK, T, Arguments, Locked, Ended
<1>2. /\ pc' = [pc EXCEPT ![r] = how] /\ pend' = [pend EXCEPT ![r] = None]
      /\ pc \in [Requests -> PCs] /\ pend \in [Requests -> Event \cup {None}]
  BY DEF Answer, SafeInv, TypeOK, RequestsOK
<1>3. queue' \in [Tasks -> Seq(Requests)]
  BY <1>1, TailType DEF Answer, SafeInv, TypeOK, RequestsOK, HasLock, Holds
<1>4. mergeQ' \in Seq(Requests)
  BY <1>1, TailType DEF Answer, SafeInv, TypeOK, RequestsOK, HasTurn
<1>5. RequestsOK'
  BY <1>1, <1>2, <1>3, <1>4 DEF SafeInv, TypeOK, RequestsOK, Ended
<1>6. CallOK'
  BY <1>1, <1>2 DEF SafeInv, CallOK, Committing, Ended, T
<1>7. ASSUME NEW x \in Requests, x # r, Inside(x), HasLock(x) PROVE HasLock(x)'
  <2>1. CASE Locked(x) /\ Locked(r)
    <3>1. T(x) # T(r)
      BY <1>7, <2>1 DEF HasLock, Holds
    <3> QED BY <3>1, <2>1, <1>1, <1>7 DEF HasLock, Holds, Answer, SafeInv, TypeOK, RequestsOK
  <2>2. CASE ~Locked(r)
    BY <2>2, <1>1, <1>7 DEF HasLock, Holds, Answer
  <2> QED BY <2>1, <2>2, <1>1 DEF HasLock
<1>8. ASSUME NEW x \in Requests, x # r, pc[x] \notin Ended \cup {"mergeQueued"}
      PROVE  HasTurn(x)'
  BY <1>1, <1>8 DEF HasTurn, Answer, SafeInv, LockOK
<1>9. LockOK'
  BY <1>1, <1>2, <1>7, <1>8 DEF LockOK, SafeInv, Inside, Ended, HasTurn, HasLock, Locked
<1> QED BY <1>5, <1>6, <1>9

\* A handler that has its lock and its turn starts the append of an event.
LEMMA CommitStep ==
  ASSUME SafeInv, UNCHANGED <<op, locks>>, NEW r \in Requests, NEW e \in Event,
         pc[r] \notin Ended \cup {"mergeQueued"}, HasLock(r),
         e.task = T(r), e.type \in Delegating => op[r].kind = "delegate",
         pc' = [pc EXCEPT ![r] = "appending"], pend' = [pend EXCEPT ![r] = e]
  PROVE  RequestsOK' /\ CallOK' /\ LockOK'
<1>1. /\ op[r] \in Arguments /\ HasTurn(r)
      /\ \A x \in Requests : /\ T(x)' = T(x) /\ Locked(x)' = Locked(x)
                             /\ HasLock(x)' = HasLock(x) /\ HasTurn(x)' = HasTurn(x)
  BY DEF SafeInv, TypeOK, RequestsOK, LockOK, T, Arguments, Locked, Ended, HasLock,
         Holds, HasTurn, locks
<1>2. RequestsOK'
  BY <1>1 DEF SafeInv, TypeOK, RequestsOK, Ended, PCs, locks
<1>3. CallOK'
  BY <1>1 DEF SafeInv, TypeOK, RequestsOK, CallOK, Committing, PCs, Ended
<1>4. LockOK'
  BY <1>1 DEF SafeInv, TypeOK, RequestsOK, LockOK, Inside, PCs, Ended
<1> QED BY <1>2, <1>3, <1>4

\* A handler goes on to another await without touching the locks.
LEMMA MoveStep ==
  ASSUME SafeInv, UNCHANGED <<op, pend, locks>>, NEW r \in Requests,
         pc[r] \notin Ended \cup {"mergeQueued"},
         NEW to \in {"listing", "workspace", "merging", "appended"}, pc' = [pc EXCEPT ![r] = to],
         HasLock(r), to = "workspace" => op[r].kind = "delegate",
         to = "merging" => op[r].kind = "merge", to = "listing" => op[r].kind = "evaluate",
         to = "appended" => Committing(r)
  PROVE  RequestsOK' /\ CallOK' /\ LockOK'
<1>1. /\ op[r] \in Arguments /\ HasTurn(r)
      /\ \A x \in Requests : /\ T(x)' = T(x) /\ Locked(x)' = Locked(x)
                             /\ HasLock(x)' = HasLock(x) /\ HasTurn(x)' = HasTurn(x)
  BY DEF SafeInv, TypeOK, RequestsOK, LockOK, T, Arguments, Locked, Ended, HasLock,
         Holds, HasTurn, locks
<1>2. RequestsOK'
  BY <1>1 DEF SafeInv, TypeOK, RequestsOK, Ended, PCs, locks, Committing
<1>3. CallOK'
  BY <1>1 DEF SafeInv, TypeOK, RequestsOK, CallOK, Committing, PCs, Ended
<1>4. LockOK'
  BY <1>1 DEF SafeInv, TypeOK, RequestsOK, LockOK, Inside, PCs, Ended
<1> QED BY <1>2, <1>3, <1>4

\* A request joins the chain of its task's lock; the holder stays the holder.
LEMMA EnqueueStep ==
  ASSUME SafeInv, UNCHANGED <<mergeQ, pend>>, NEW r \in Requests,
         NEW to \in {"queued", "answered", "failed"}, pc' = [pc EXCEPT ![r] = to],
         op' \in [Requests -> Arguments \cup {None}], op'[r] \in Arguments,
         \A x \in Requests : x # r => op'[x] = op[x],
         ~Inside(r), HasTurn(r)',
         to = "queued" => Locked(r)',
         to \in {"answered", "failed"} => op'[r].kind = "delegate",
         Enqueue(r, op'[r].task)
  PROVE  RequestsOK' /\ CallOK' /\ LockOK'
<1>1. op'[r].task \in Tasks
  BY DEF Arguments
<1>2. RequestsOK'
  BY <1>1, AppendHead, ZenonT(30) DEF SafeInv, TypeOK, RequestsOK, Enqueue, PCs, Ended, Inside
<1>3. CallOK'
  BY DEF SafeInv, TypeOK, RequestsOK, CallOK, Committing, PCs, Ended, T, Locked
<1>4. ASSUME NEW x \in Requests, x # r, HasLock(x), pc[x] # "idle" PROVE HasLock(x)'
  <2>1. T(x)' = T(x) /\ Locked(x)' = Locked(x) /\ T(x) \in Tasks
    BY <1>4 DEF T, Locked, SafeInv, TypeOK, RequestsOK, Arguments
  <2>2. queue[T(x)] # <<>> => queue'[T(x)] # <<>> /\ Head(queue'[T(x)]) = Head(queue[T(x)])
    BY <2>1, AppendHead DEF Enqueue, SafeInv, TypeOK, RequestsOK
  <2> QED BY <2>1, <2>2, <1>4 DEF HasLock, Holds
<1>5. \A x \in Requests : x # r => HasTurn(x)' = HasTurn(x)
  BY DEF HasTurn
<1>6. LockOK'
  BY <1>4, <1>5 DEF SafeInv, TypeOK, RequestsOK, LockOK, Inside, PCs, Ended
<1> QED BY <1>2, <1>3, <1>6

\* CommitStep for the event the code builds.
LEMMA StartCommitStep ==
  ASSUME SafeInv, op' = op, MemoryOK', NEW r \in Requests, NEW type \in Types,
         NEW key \in Keys \cup {None},
         pc[r] \notin Ended \cup {"mergeQueued"}, HasLock(r),
         type \in Delegating => op[r].kind = "delegate",
         StartCommit(r, type, key)
  PROVE  RequestsOK' /\ CallOK' /\ LockOK' /\ drift' = drift
<1>1. op[r] \in Arguments /\ T(r) \in Tasks
  BY DEF SafeInv, TypeOK, RequestsOK, Arguments, T, Ended
<1>2. task[T(r)].rev + 1 \in Nat /\ task'[T(r)].spaces \in Nat
  BY <1>1 DEF SafeInv, TypeOK, MemoryOK, Envelope
<1>3. EventOf(r, type, key, task[T(r)].rev + 1) \in Event
  BY <1>1, <1>2 DEF EventOf, Event, Arguments
<1>4. /\ EventOf(r, type, key, task[T(r)].rev + 1).task = T(r)
      /\ EventOf(r, type, key, task[T(r)].rev + 1).type = type
  BY DEF EventOf
<1> QED BY <1>3, <1>4, CommitStep DEF StartCommit

\* The lock holder's handler starts: its turn, its lock and its arguments.
LEMMA Granted ==
  ASSUME SafeInv, NEW r \in Requests, Holds(r), pc[r] \notin Ended \cup {"mergeQueued"}
  PROVE  HasLock(r) /\ HasTurn(r) /\ op[r] \in Arguments /\ T(r) \in Tasks
BY DEF SafeInv, TypeOK, RequestsOK, LockOK, HasLock, Arguments, T, Ended

LEMMA EndsStep ==
  ASSUME SafeInv, op' = op, NEW r \in Requests, NEW how \in {"done", "error"},
         pc[r] \notin Ended \cup {"mergeQueued"}, HasLock(r), Ends(r, how)
  PROVE  RequestsOK' /\ CallOK' /\ LockOK' /\ MemoryOK' /\ drift' = drift
<1>1. RequestsOK' /\ CallOK' /\ LockOK'
  BY AnswerStep DEF Ends, Ended, PCs
<1> QED BY <1>1 DEF Ends, SafeInv, TypeOK, MemoryOK, memory, volatile

\* What every handler step leaves alone.
LEMMA Frame ==
  ASSUME SafeInv, UNCHANGED <<log, crashes, failures>>, drift' \subseteq Tasks,
         MemoryOK', RequestsOK', CallOK', LockOK'
  PROVE  SafeInv'
BY DEF SafeInv, TypeOK, LogOK, log

\* Envelopes stay envelopes when a handler changes some of their fields.
LEMMA EnvelopeFields ==
  ASSUME NEW k \in Envelope, NEW s \in Statuses, NEW n \in Nat,
         NEW q \in SUBSET (Providers \cup {None}), NEW x \in Requests
  PROVE  /\ k.rev \in Nat /\ k.spaces \in Nat /\ k.parts \in SUBSET (Providers \cup {None})
         /\ [k EXCEPT !.status = s] \in Envelope
         /\ [k EXCEPT !.rev = n] \in Envelope
         /\ [k EXCEPT !.spaces = n] \in Envelope
         /\ [k EXCEPT !.label = x] \in Envelope
         /\ [k EXCEPT !.status = s, !.parts = q] \in Envelope
         /\ [k EXCEPT !.status = s, !.spaces = n] \in Envelope
         /\ [k EXCEPT !.rev = n, !.status = s] \in Envelope
BY DEF Envelope

-----------------------------------------------------------------------------
(* Handlers started under the lock                                           *)

LEMMA RecordStep ==
  ASSUME SafeInv, NEW r \in Requests, Record(r)
  PROVE  SafeInv'
<1>1. /\ op' = op /\ pc[r] = "queued" /\ HasLock(r) /\ op[r] \in Arguments
      /\ UNCHANGED <<log, crashes, failures>>
  BY Granted DEF Record, UnderLock, Ended
<1>2. CASE Ends(r, "done") \/ Ends(r, "error")
  BY <1>1, <1>2, EndsStep, Frame DEF SafeInv, TypeOK, Ended
<1>3. CASE UNCHANGED <<memory, volatile>> /\ StartCommit(r, "task.recorded", op[r].key)
  <2>1. MemoryOK'
    BY <1>3 DEF SafeInv, TypeOK, MemoryOK, memory, volatile
  <2>2. op[r].key \in Keys \cup {None} /\ "task.recorded" \in Types \ Delegating
    BY <1>1 DEF Arguments, Types, Delegating
  <2> QED BY <1>1, <1>3, <2>1, <2>2, StartCommitStep, Frame DEF SafeInv, TypeOK, Ended
<1> QED BY <1>2, <1>3 DEF Record

LEMMA EvaluateStep ==
  ASSUME SafeInv, NEW r \in Requests, Evaluate(r)
  PROVE  SafeInv'
<1>1. /\ op' = op /\ pc[r] = "queued" /\ HasLock(r) /\ op[r].kind = "evaluate"
      /\ UNCHANGED <<log, crashes, failures>>
  BY Granted DEF Evaluate, UnderLock, Ended
<1>2. CASE Ends(r, "done")
  BY <1>1, <1>2, EndsStep, Frame DEF SafeInv, TypeOK, Ended
<1>3. CASE /\ pc' = [pc EXCEPT ![r] = "listing"]
           /\ UNCHANGED <<memory, volatile, locks, pend, drift>>
  <2>1. MemoryOK'
    BY <1>3 DEF SafeInv, TypeOK, MemoryOK, memory, volatile
  <2> QED BY <1>1, <1>3, <2>1, MoveStep, Frame DEF SafeInv, TypeOK, Ended
<1> QED BY <1>2, <1>3 DEF Evaluate

LEMMA DelegateStep ==
  ASSUME SafeInv, NEW r \in Requests, Delegate(r)
  PROVE  SafeInv'
<1> DEFINE p == op[r].who
<1>1. /\ op' = op /\ pc[r] = "queued" /\ HasLock(r) /\ op[r] \in Arguments
      /\ op[r].kind = "delegate" /\ T(r) \in Tasks
      /\ UNCHANGED <<log, crashes, failures>>
  BY Granted DEF Delegate, UnderLock, Ended
<1>2. CASE Ends(r, "done") \/ Ends(r, "error")
  BY <1>1, <1>2, EndsStep, Frame DEF SafeInv, TypeOK, Ended
<1>3. CASE /\ task' = [task EXCEPT ![T(r)] = [@ EXCEPT !.status = "running", !.parts = task[T(r)].parts \cup {p}]]
           /\ IF p \in CodeWriters
              THEN /\ pc' = [pc EXCEPT ![r] = "workspace"]
                   /\ UNCHANGED <<locks, pend, drift>>
              ELSE StartCommit(r, "task.delegated", op[r].key)
           /\ UNCHANGED <<approvals, approved, idem, createIdem, apprIdem, volatile>>
  <2> DEFINE k == task[T(r)]
  <2>a. k \in Envelope /\ p \in Providers \cup {None} /\ "running" \in Statuses
    BY <1>1 DEF SafeInv, TypeOK, MemoryOK, Statuses, Arguments
  <2>0. [k EXCEPT !.status = "running", !.parts = k.parts \cup {p}] \in Envelope
    BY <2>a, EnvelopeFields
  <2>b. task' \in [Tasks -> Envelope]
    <3>1. task \in [Tasks -> Envelope]
      BY DEF SafeInv, TypeOK, MemoryOK
    <3>2. task' = [task EXCEPT ![T(r)] = [k EXCEPT !.status = "running", !.parts = k.parts \cup {p}]]
      BY <1>3
    <3> HIDE DEF k
    <3> QED BY <3>1, <3>2, <2>0, <1>1
  <2>1. MemoryOK'
    BY <1>3, <2>b DEF SafeInv, TypeOK, MemoryOK, volatile
  <2>2. op[r].key \in Keys \cup {None} /\ "task.delegated" \in Types
    BY <1>1 DEF Arguments, Types
  <2>3. RequestsOK' /\ CallOK' /\ LockOK' /\ drift' = drift
    <3>1. CASE p \in CodeWriters
      BY <1>1, <1>3, <3>1, MoveStep DEF Ended
    <3>2. CASE p \notin CodeWriters
      BY <1>1, <1>3, <2>1, <2>2, <3>2, StartCommitStep DEF Ended
    <3> QED BY <3>1, <3>2
  <2> QED BY <1>1, <2>1, <2>3, Frame DEF SafeInv, TypeOK
<1> QED BY <1>2, <1>3 DEF Delegate

\* One envelope of the Map changes some of its fields.
LEMMA TaskUpdates ==
  ASSUME SafeInv, NEW t \in Tasks, NEW s \in Statuses, NEW n \in Nat, NEW x \in Requests
  PROVE  /\ task[t] \in Envelope
         /\ [task EXCEPT ![t].status = s] \in [Tasks -> Envelope]
         /\ [task EXCEPT ![t].rev = n] \in [Tasks -> Envelope]
         /\ [task EXCEPT ![t].spaces = n] \in [Tasks -> Envelope]
         /\ [task EXCEPT ![t].label = x] \in [Tasks -> Envelope]
         /\ [task EXCEPT ![t] = [@ EXCEPT !.status = s, !.spaces = n]] \in [Tasks -> Envelope]
         /\ [task EXCEPT ![t] = [@ EXCEPT !.rev = n, !.status = s]] \in [Tasks -> Envelope]
<1> DEFINE k == task[t]
<1>1. k \in Envelope /\ task \in [Tasks -> Envelope]
  BY DEF SafeInv, TypeOK, MemoryOK
<1>2. \A m \in Envelope : [task EXCEPT ![t] = m] \in [Tasks -> Envelope]
  BY <1>1
<1>3. /\ [k EXCEPT !.status = s] \in Envelope
      /\ [k EXCEPT !.rev = n] \in Envelope
      /\ [k EXCEPT !.spaces = n] \in Envelope
      /\ [k EXCEPT !.label = x] \in Envelope
      /\ [k EXCEPT !.status = s, !.spaces = n] \in Envelope
      /\ [k EXCEPT !.rev = n, !.status = s] \in Envelope
  BY <1>1, EnvelopeFields
<1> QED BY <1>1, <1>2, <1>3

LEMMA RequestApprovalStep ==
  ASSUME SafeInv, NEW r \in Requests, RequestApproval(r)
  PROVE  SafeInv'
<1>1. /\ op' = op /\ pc[r] = "queued" /\ HasLock(r) /\ op[r] \in Arguments
      /\ T(r) \in Tasks /\ UNCHANGED <<log, crashes, failures>>
  BY Granted DEF RequestApproval, UnderLock, Ended
<1>2. CASE Ends(r, "done") \/ Ends(r, "error")
  BY <1>1, <1>2, EndsStep, Frame DEF SafeInv, TypeOK, Ended
<1>3. CASE /\ approvals' = approvals \cup {[id |-> r, task |-> T(r), action |-> op[r].action]}
           /\ apprIdem' = apprIdem \cup ({op[r].key} \ {None})
           /\ task' = [task EXCEPT ![T(r)].status = "awaiting_approval"]
           /\ StartCommit(r, "task.approval_requested", op[r].key)
           /\ UNCHANGED <<approved, idem, createIdem, volatile>>
  <2>1. op[r].key \in Keys \cup {None} /\ op[r].action \in ApprovalActions \cup {None}
    BY <1>1 DEF Arguments
  <2>2. task' \in [Tasks -> Envelope]
    BY <1>1, <1>3, TaskUpdates DEF Statuses
  <2>3. approvals' \subseteq Approval /\ apprIdem' \subseteq Keys
    BY <1>1, <1>3, <2>1 DEF SafeInv, TypeOK, MemoryOK, Approval
  <2>4. MemoryOK'
    BY <1>3, <2>2, <2>3 DEF SafeInv, TypeOK, MemoryOK, volatile
  <2> QED BY <1>1, <1>3, <2>1, <2>4, StartCommitStep, Frame
          DEF SafeInv, TypeOK, Ended, Types, Delegating
<1> QED BY <1>2, <1>3 DEF RequestApproval

LEMMA DecideStep ==
  ASSUME SafeInv, NEW r \in Requests, Approve(r) \/ Reject(r)
  PROVE  SafeInv'
<1> DEFINE Kind(status, type, granted) ==
             /\ task' = [task EXCEPT ![T(r)].status = status]
             /\ approvals' = approvals \ Decided(r)
             /\ approved' = granted
             /\ StartCommit(r, type, op[r].key)
             /\ UNCHANGED <<idem, createIdem, apprIdem, volatile>>
<1>1. /\ op' = op /\ pc[r] = "queued" /\ HasLock(r) /\ op[r] \in Arguments
      /\ T(r) \in Tasks /\ UNCHANGED <<log, crashes, failures>>
  BY Granted DEF Approve, Reject, UnderLock, Ended
<1>2. CASE Ends(r, "done") \/ Ends(r, "error")
  BY <1>1, <1>2, EndsStep, Frame DEF SafeInv, TypeOK, Ended
<1>3. ASSUME NEW status \in Statuses, NEW type \in Types \ Delegating,
             NEW granted \in SUBSET (Tasks \X (ApprovalActions \cup {None})),
             Kind(status, type, granted)
      PROVE  SafeInv'
  <2>1. op[r].key \in Keys \cup {None}
    BY <1>1 DEF Arguments
  <2>2. task' \in [Tasks -> Envelope]
    BY <1>1, <1>3, TaskUpdates
  <2>3. approvals' \subseteq Approval
    BY <1>3 DEF SafeInv, TypeOK, MemoryOK
  <2>4. MemoryOK'
    BY <1>3, <2>2, <2>3 DEF SafeInv, TypeOK, MemoryOK, volatile
  <2> QED BY <1>1, <1>3, <2>1, <2>4, StartCommitStep, Frame DEF SafeInv, TypeOK, Ended
<1>4. CASE Kind("running", "task.approved", approved \cup {<<T(r), op[r].action>>})
  <2>1. approved \cup {<<T(r), op[r].action>>} \in SUBSET (Tasks \X (ApprovalActions \cup {None}))
    BY <1>1 DEF SafeInv, TypeOK, MemoryOK, Arguments
  <2> QED BY <1>3, <1>4, <2>1 DEF Statuses, Types, Delegating
<1>5. CASE Kind("cancelled", "task.rejected", approved)
  <2>1. approved \in SUBSET (Tasks \X (ApprovalActions \cup {None}))
    BY DEF SafeInv, TypeOK, MemoryOK
  <2> QED BY <1>3, <1>5, <2>1 DEF Statuses, Types, Delegating
<1> QED BY <1>2, <1>4, <1>5 DEF Approve, Reject

LEMMA CancelStep ==
  ASSUME SafeInv, NEW r \in Requests, Cancel(r)
  PROVE  SafeInv'
<1>1. /\ op' = op /\ pc[r] = "queued" /\ HasLock(r) /\ op[r] \in Arguments
      /\ T(r) \in Tasks /\ UNCHANGED <<log, crashes, failures>>
  BY Granted DEF Cancel, UnderLock, Ended
<1>2. CASE Ends(r, "done") \/ Ends(r, "error")
  BY <1>1, <1>2, EndsStep, Frame DEF SafeInv, TypeOK, Ended
<1>3. CASE /\ task' = [task EXCEPT ![T(r)].status = "cancelled"]
           /\ StartCommit(r, "task.cancelled", op[r].key)
           /\ UNCHANGED <<approvals, approved, idem, createIdem, apprIdem, volatile>>
  <2>1. op[r].key \in Keys \cup {None}
    BY <1>1 DEF Arguments
  <2>2. task' \in [Tasks -> Envelope]
    BY <1>1, <1>3, TaskUpdates DEF Statuses
  <2>3. MemoryOK'
    BY <1>3, <2>2 DEF SafeInv, TypeOK, MemoryOK, volatile
  <2> QED BY <1>1, <1>3, <2>1, <2>3, StartCommitStep, Frame
          DEF SafeInv, TypeOK, Ended, Types, Delegating
<1> QED BY <1>2, <1>3 DEF Cancel

LEMMA MergeStep ==
  ASSUME SafeInv, NEW r \in Requests, Merge(r)
  PROVE  SafeInv'
<1>1. /\ op' = op /\ pc[r] = "queued" /\ HasLock(r) /\ op[r].kind = "merge"
      /\ UNCHANGED <<log, crashes, failures>>
  BY Granted DEF Merge, UnderLock, Ended
<1>2. CASE Ends(r, "error")
  BY <1>1, <1>2, EndsStep, Frame DEF SafeInv, TypeOK, Ended
<1>3. CASE /\ pc' = [pc EXCEPT ![r] = "merging"]
           /\ UNCHANGED <<memory, volatile, locks, pend, drift>>
  <2>1. MemoryOK'
    BY <1>3 DEF SafeInv, TypeOK, MemoryOK, memory, volatile
  <2> QED BY <1>1, <1>3, <2>1, MoveStep, Frame DEF SafeInv, TypeOK, Ended
<1> QED BY <1>2, <1>3 DEF Merge

-----------------------------------------------------------------------------
(* Handlers that resume after an await                                       *)

\* A handler past its first await has its lock, its turn and its arguments.
LEMMA Resumed ==
  ASSUME SafeInv, NEW r \in Requests, Inside(r)
  PROVE  /\ HasLock(r) /\ HasTurn(r) /\ op[r] \in Arguments /\ T(r) \in Tasks
         /\ op[r].key \in Keys \cup {None}
         /\ pc[r] \notin Ended \cup {"mergeQueued"}
BY DEF SafeInv, TypeOK, RequestsOK, LockOK, Inside, Arguments, T, Ended

LEMMA CheckedCommitStep ==
  ASSUME SafeInv, op' = op, MemoryOK', NEW r \in Requests, NEW type \in Types,
         NEW key \in Keys \cup {None},
         pc[r] \notin Ended \cup {"mergeQueued"}, HasLock(r),
         type \in Delegating => op[r].kind = "delegate",
         CheckedCommit(r, type, key)
  PROVE  RequestsOK' /\ CallOK' /\ LockOK' /\ drift' \subseteq Tasks
<1>1. T(r) \in Tasks /\ drift \subseteq Tasks
  BY DEF SafeInv, TypeOK, RequestsOK, Arguments, T, Ended
<1>2. CASE StartCommit(r, type, key)
  BY <1>1, <1>2, StartCommitStep
<1>3. CASE Answer(r, "error") /\ drift' = drift \cup {T(r)}
  BY <1>1, <1>3, AnswerStep DEF Ended, PCs
<1> QED BY <1>2, <1>3 DEF CheckedCommit

LEMMA WorkspaceReadyStep ==
  ASSUME SafeInv, NEW r \in Requests, WorkspaceReady(r)
  PROVE  SafeInv'
<1>1. /\ op' = op /\ HasLock(r) /\ pc[r] \notin Ended \cup {"mergeQueued"}
      /\ T(r) \in Tasks /\ op[r].key \in Keys \cup {None}
      /\ UNCHANGED <<log, crashes, failures>>
  BY Resumed DEF WorkspaceReady, Inside
<1>2. op[r].kind = "delegate"
  BY DEF WorkspaceReady, SafeInv, CallOK
<1>3. task[T(r)].spaces + 1 \in Nat
  BY <1>1 DEF SafeInv, TypeOK, MemoryOK, Envelope
<1>4. [task EXCEPT ![T(r)].spaces = task[T(r)].spaces + 1] \in [Tasks -> Envelope]
  BY <1>1, <1>3, TaskUpdates DEF Statuses
<1>5. MemoryOK'
  BY <1>4 DEF WorkspaceReady, SafeInv, TypeOK, MemoryOK, volatile
<1> QED BY <1>1, <1>2, <1>5, CheckedCommitStep, Frame DEF WorkspaceReady, Types

LEMMA WorkspaceFailsStep ==
  ASSUME SafeInv, NEW r \in Requests, WorkspaceFails(r)
  PROVE  SafeInv'
<1>1. /\ op' = op /\ HasLock(r) /\ pc[r] \notin Ended \cup {"mergeQueued"} /\ T(r) \in Tasks
  BY Resumed DEF WorkspaceFails, Inside
<1>2. RequestsOK' /\ CallOK' /\ LockOK'
  BY <1>1, AnswerStep DEF WorkspaceFails, Ended, PCs
<1>3. MemoryOK' /\ LogOK'
  BY DEF WorkspaceFails, SafeInv, TypeOK, MemoryOK, LogOK, memory, volatile, log
<1>4. drift' \subseteq Tasks /\ failures' \in 0 .. MaxFailures /\ crashes' \in 0 .. MaxCrashes
  BY <1>1, BrokerAssumption DEF WorkspaceFails, SafeInv, TypeOK
<1> QED BY <1>2, <1>3, <1>4 DEF SafeInv, TypeOK

LEMMA ProposalsListedStep ==
  ASSUME SafeInv, NEW r \in Requests, ProposalsListed(r)
  PROVE  SafeInv'
<1>1. /\ op' = op /\ HasLock(r) /\ pc[r] \notin Ended \cup {"mergeQueued"}
      /\ T(r) \in Tasks /\ op[r].key \in Keys \cup {None}
  BY Resumed DEF ProposalsListed, Inside
<1>2. MemoryOK' /\ LogOK' /\ crashes' \in 0 .. MaxCrashes
  BY DEF ProposalsListed, SafeInv, TypeOK, MemoryOK, LogOK, memory, volatile, log
<1>3. failures' \in 0 .. MaxFailures
  BY BrokerAssumption DEF ProposalsListed, SafeInv, TypeOK
<1>4. CASE StartCommit(r, "task.recorded", op[r].key)
  <2>1. "task.recorded" \in Types \ Delegating
    BY DEF Types, Delegating
  <2> QED BY <1>1, <1>2, <1>3, <1>4, <2>1, StartCommitStep DEF SafeInv, TypeOK
<1>5. CASE Answer(r, "error") /\ UNCHANGED drift
  <2>1. RequestsOK' /\ CallOK' /\ LockOK'
    BY <1>1, <1>5, AnswerStep DEF Ended, PCs
  <2> QED BY <1>2, <1>3, <1>5, <2>1 DEF SafeInv, TypeOK
<1> QED BY <1>4, <1>5 DEF ProposalsListed

LEMMA MergeEndsStep ==
  ASSUME SafeInv, NEW r \in Requests, MergeSucceeds(r) \/ MergeConflicts(r)
  PROVE  SafeInv'
<1>1. /\ op' = op /\ HasLock(r) /\ pc[r] \notin Ended \cup {"mergeQueued"}
      /\ T(r) \in Tasks /\ op[r].key \in Keys \cup {None}
      /\ UNCHANGED <<log, crashes, failures>>
  BY Resumed DEF MergeSucceeds, MergeConflicts, Inside
<1>2. task' \in [Tasks -> Envelope]
  <2>1. \A s \in Statuses :
          /\ [task EXCEPT ![T(r)].status = s] \in [Tasks -> Envelope]
          /\ [task EXCEPT ![T(r)] = [@ EXCEPT !.status = s, !.spaces = 0]] \in [Tasks -> Envelope]
    BY <1>1, TaskUpdates
  <2>2. {"completed", "awaiting_approval"} \subseteq Statuses
    BY DEF Statuses
  <2> QED BY <2>1, <2>2 DEF MergeSucceeds, MergeConflicts
<1>3. MemoryOK'
  BY <1>2 DEF MergeSucceeds, MergeConflicts, SafeInv, TypeOK, MemoryOK, volatile
<1>4. CASE MergeSucceeds(r)
  BY <1>1, <1>3, <1>4, CheckedCommitStep, Frame DEF MergeSucceeds, Types, Delegating
<1>5. CASE MergeConflicts(r)
  BY <1>1, <1>3, <1>5, StartCommitStep, Frame
     DEF MergeConflicts, Types, Delegating, SafeInv, TypeOK
<1> QED BY <1>4, <1>5

LEMMA ClassifyEndsStep ==
  ASSUME SafeInv, NEW r \in Requests, ClassifyEnds(r)
  PROVE  SafeInv'
<1>1. /\ op' = op /\ pc[r] = "classifying" /\ op[r] \in Arguments /\ T(r) \in Tasks
      /\ op[r].key \in Keys \cup {None} /\ UNCHANGED <<log, crashes, failures>>
  BY DEF ClassifyEnds, SafeInv, TypeOK, RequestsOK, Arguments, T
<1>2. HasLock(r)
  BY <1>1 DEF SafeInv, CallOK, HasLock, Locked
<1>3. task' \in [Tasks -> Envelope]
  BY <1>1, TaskUpdates DEF ClassifyEnds, Statuses
<1>4. MemoryOK'
  BY <1>3 DEF ClassifyEnds, SafeInv, TypeOK, MemoryOK, volatile
<1> QED BY <1>1, <1>2, <1>4, CheckedCommitStep, Frame
        DEF ClassifyEnds, Types, Delegating, Ended

LEMMA OutcomeStep ==
  ASSUME SafeInv, NEW r \in Requests, FinishDelegation(r) \/ FailDelegation(r)
  PROVE  SafeInv'
<1>1. /\ op' = op /\ HasLock(r) /\ pc[r] \in {"answered", "failed", "lateFailed"}
      /\ T(r) \in Tasks /\ UNCHANGED <<log, crashes, failures>>
  BY Granted DEF FinishDelegation, FailDelegation, Ended
<1>2. op[r].kind = "delegate"
  BY <1>1 DEF SafeInv, CallOK
<1>3. task' \in [Tasks -> Envelope]
  <2>1. task \in [Tasks -> Envelope]
    BY DEF SafeInv, TypeOK, MemoryOK
  <2>2. [task EXCEPT ![T(r)].status = "failed"] \in [Tasks -> Envelope]
    BY <1>1, TaskUpdates DEF Statuses
  <2> QED BY <2>1, <2>2 DEF FinishDelegation, FailDelegation
<1>4. active' \in [Tasks -> Nat]
  BY <1>1 DEF FinishDelegation, FailDelegation, Released, SafeInv, TypeOK, MemoryOK
<1>5. MemoryOK'
  BY <1>3, <1>4 DEF FinishDelegation, FailDelegation, SafeInv, TypeOK, MemoryOK
<1>6. CASE \E how \in {"done", "error"} : Answer(r, how) /\ UNCHANGED drift
  BY <1>1, <1>5, <1>6, AnswerStep, Frame DEF Ended, PCs, SafeInv, TypeOK
<1>7. CASE \E type \in {"task.proposal", "task.failed"} : StartCommit(r, type, None)
  BY <1>1, <1>2, <1>5, <1>7, StartCommitStep, Frame DEF Types, Ended, SafeInv, TypeOK
<1> QED BY <1>6, <1>7 DEF FinishDelegation, FailDelegation

LEMMA AdapterEndsStep ==
  ASSUME SafeInv, NEW r \in Requests, AdapterEnds(r)
  PROVE  SafeInv'
<1>1. /\ op' = op /\ pc[r] = "submitted" /\ op[r] \in Arguments /\ op[r].kind = "delegate"
      /\ UNCHANGED <<log, crashes, failures, drift>>
  BY DEF AdapterEnds, SafeInv, TypeOK, RequestsOK, CallOK, faults
<1>2. MemoryOK'
  BY DEF AdapterEnds, SafeInv, TypeOK, MemoryOK, memory, volatile
<1>3. PICK to \in {"answered", "failed"} : pc' = [pc EXCEPT ![r] = to]
  BY DEF AdapterEnds
<1>4. /\ UNCHANGED <<mergeQ, pend>> /\ Enqueue(r, op'[r].task) /\ HasTurn(r)' /\ ~Inside(r)
      /\ op' \in [Requests -> Arguments \cup {None}]
  BY <1>1 DEF AdapterEnds, T, HasTurn, Inside, SafeInv, TypeOK, RequestsOK
<1>5. RequestsOK' /\ CallOK' /\ LockOK'
  BY <1>1, <1>3, <1>4, EnqueueStep
<1> QED BY <1>1, <1>2, <1>5, Frame DEF SafeInv, TypeOK

-----------------------------------------------------------------------------
(* The ledger                                                                *)

\* Replaying one event keeps the Maps well formed.
LEMMA ReplayType ==
  ASSUME NEW m \in Maps, NEW e \in Event
  PROVE  ReplayEvent(m, e) \in Maps
<1> DEFINE before == IF e.type = "task.created" THEN Fresh ELSE m.task[e.task]
           k == ReplayedEnvelope(before, e)
<1>1. /\ e.task \in Tasks /\ e.rev \in Nat /\ e.spaces \in Nat /\ e.by \in Requests
      /\ e.who \in Providers \cup {None} /\ e.key \in Keys \cup {None}
      /\ e.action \in ApprovalActions \cup {None}
      /\ m.task \in [Tasks -> Envelope]
  BY DEF Event, Maps
<1>2. Fresh = [status |-> "created", rev |-> 0, parts |-> {}, spaces |-> 0, label |-> None]
  BY DEF Fresh, Absent
<1>3. before \in Envelope
  BY <1>1, <1>2 DEF Envelope, Statuses
<1>4. StatusAfter(e.type, before.status) \in Statuses
  BY <1>3 DEF StatusAfter, Statuses, Envelope
<1>5. k \in Envelope
  <2> HIDE DEF before
  <2> QED BY <1>1, <1>3, <1>4 DEF ReplayedEnvelope, Envelope
<1>6. [m.task EXCEPT ![e.task] = k] \in [Tasks -> Envelope]
  <2> HIDE DEF k
  <2> QED BY <1>1, <1>5
<1> HIDE DEF k
<1>7. ReplayEvent(m, e).task \in [Tasks -> Envelope]
  BY <1>1, <1>6 DEF ReplayEvent, k
<1>8. ReplayEvent(m, e).approvals \in SUBSET Approval
  BY <1>1 DEF ReplayEvent, Maps, Approval
<1>9. ReplayEvent(m, e).approved \in SUBSET (Tasks \X (ApprovalActions \cup {None}))
  BY <1>1 DEF ReplayEvent, Maps
<1>10. /\ ReplayEvent(m, e).idem \in SUBSET Keys
       /\ ReplayEvent(m, e).createIdem \in SUBSET Keys
       /\ ReplayEvent(m, e).apprIdem \in SUBSET Keys
  BY <1>1 DEF ReplayEvent, Maps
<1>11. ReplayEvent(m, e) = [task |-> ReplayEvent(m, e).task,
          approvals |-> ReplayEvent(m, e).approvals, approved |-> ReplayEvent(m, e).approved,
          idem |-> ReplayEvent(m, e).idem, createIdem |-> ReplayEvent(m, e).createIdem,
          apprIdem |-> ReplayEvent(m, e).apprIdem]
  BY DEF ReplayEvent
<1> QED BY <1>7, <1>8, <1>9, <1>10, <1>11 DEF Maps

LEMMA LedgerAppendsStep ==
  ASSUME SafeInv, NEW r \in Requests, LedgerAppends(r)
  PROVE  SafeInv'
<1>1. HasLock(r) /\ pc[r] \notin Ended \cup {"mergeQueued"} /\ Committing(r)
  BY Resumed DEF LedgerAppends, Inside, Committing
<1>2. pend[r] \in Event
  BY DEF LedgerAppends, SafeInv, TypeOK, RequestsOK
<1>3. RequestsOK' /\ CallOK' /\ LockOK'
  BY <1>1, MoveStep DEF LedgerAppends
<1>4. MemoryOK'
  BY DEF LedgerAppends, SafeInv, TypeOK, MemoryOK, memory, volatile
<1>5. LogOK'
  BY <1>2, ReplayType, AppendProperties DEF LedgerAppends, SafeInv, TypeOK, LogOK
<1> QED BY <1>3, <1>4, <1>5 DEF LedgerAppends, SafeInv, TypeOK, faults

LEMMA LedgerFailsStep ==
  ASSUME SafeInv, NEW r \in Requests, LedgerFails(r)
  PROVE  SafeInv'
<1>1. /\ op' = op /\ HasLock(r) /\ pc[r] \notin Ended \cup {"mergeQueued"} /\ T(r) \in Tasks
      /\ op[r] \in Arguments /\ Committing(r)
  BY Resumed DEF LedgerFails, Inside, Committing
<1>2. ASSUME Answer(r, "error") PROVE RequestsOK' /\ CallOK' /\ LockOK'
  BY <1>1, <1>2, AnswerStep DEF Ended, PCs
<1>3. ASSUME pend[r].type \in {"task.proposal", "task.completed"},
             pc' = [pc EXCEPT ![r] = "lateFailed"],
             pend' = [pend EXCEPT ![r] = None],
             queue' = [queue EXCEPT ![T(r)] = Append(Tail(@), r)],
             UNCHANGED mergeQ
      PROVE  RequestsOK' /\ CallOK' /\ LockOK'
  <2>2. op[r].kind = "delegate" /\ Locked(r) /\ Holds(r)
    BY <1>1, <1>3 DEF SafeInv, CallOK, Delegating, Locked, HasLock
  <2>3. queue[T(r)] \in Seq(Requests) /\ queue[T(r)] # <<>> /\ Head(queue[T(r)]) = r
    BY <1>1, <2>2 DEF Holds, SafeInv, TypeOK, RequestsOK
  <2>4. Append(Tail(queue[T(r)]), r) \in Seq(Requests)
    BY <2>3, TailType, AppendProperties
  <2>5. RequestsOK'
    BY <1>1, <1>3, <2>4 DEF SafeInv, TypeOK, RequestsOK, PCs, Ended
  <2>6. CallOK'
    BY <1>1, <1>3, <2>2 DEF SafeInv, TypeOK, RequestsOK, CallOK, Committing, PCs, Ended, T, Locked
  <2>7. ASSUME NEW x \in Requests, x # r, Inside(x), HasLock(x) PROVE HasLock(x)'
    <3>1. T(x)' = T(x) /\ Locked(x)' = Locked(x) /\ (Locked(x) => T(x) # T(r))
      BY <1>1, <2>3, <2>7 DEF T, Locked, HasLock, Holds
    <3> QED BY <1>3, <3>1, <2>7 DEF HasLock, Holds, SafeInv, TypeOK, RequestsOK
  <2>8. \A x \in Requests : HasTurn(x)' = HasTurn(x)
    BY <1>1, <1>3 DEF HasTurn
  <2>9. LockOK'
    BY <1>1, <1>3, <2>7, <2>8 DEF SafeInv, TypeOK, RequestsOK, LockOK, Inside, PCs, Ended
  <2> QED BY <2>5, <2>6, <2>9
<1>4. drift' \subseteq Tasks
  BY <1>1 DEF LedgerFails, SafeInv, TypeOK
<1>5. RequestsOK' /\ CallOK' /\ LockOK'
  BY <1>2, <1>3 DEF LedgerFails
<1>6. MemoryOK' /\ LogOK'
  BY DEF LedgerFails, SafeInv, TypeOK, MemoryOK, LogOK, memory, volatile, log
<1>7. failures' \in 0 .. MaxFailures /\ crashes' \in 0 .. MaxCrashes
  BY BrokerAssumption DEF LedgerFails, SafeInv, TypeOK
<1> QED BY <1>4, <1>5, <1>6, <1>7 DEF SafeInv, TypeOK

-----------------------------------------------------------------------------
(* commit after its append                                                   *)

LEMMA CommitReturnsStep ==
  ASSUME SafeInv, NEW r \in Requests, CommitReturns(r) \/ DelegationStarts(r)
  PROVE  SafeInv'
<1> DEFINE e == pend[r]
<1>1. /\ op' = op /\ HasLock(r) /\ pc[r] \notin Ended \cup {"mergeQueued"} /\ Committing(r)
      /\ UNCHANGED <<log, crashes, failures, drift>>
  BY Resumed DEF CommitReturns, DelegationStarts, Acknowledge, Inside, Committing, faults
<1>2. e \in Event /\ e.task \in Tasks /\ e.rev \in Nat /\ e.key \in Keys \cup {None}
  BY <1>1 DEF CommitReturns, DelegationStarts, SafeInv, TypeOK, RequestsOK, Event
<1>3. e.type = "task.delegated" => op[r].kind = "delegate"
  BY <1>1 DEF SafeInv, CallOK, Delegating
<1>4. task' \in [Tasks -> Envelope]
  <2>1. [task EXCEPT ![e.task].rev = e.rev] \in [Tasks -> Envelope]
    BY <1>2, TaskUpdates DEF Statuses
  <2> QED BY <2>1 DEF CommitReturns, DelegationStarts
<1>5. active' \in [Tasks -> Nat]
  BY <1>2 DEF CommitReturns, DelegationStarts, SafeInv, TypeOK, MemoryOK
<1>6. idem' \subseteq Keys /\ createIdem' \subseteq Keys /\ mergeKeys' \subseteq Keys
  BY <1>2 DEF CommitReturns, DelegationStarts, Acknowledge, SafeInv, TypeOK, MemoryOK
<1>7. MemoryOK'
  BY <1>4, <1>5, <1>6 DEF CommitReturns, DelegationStarts, Acknowledge, SafeInv, TypeOK, MemoryOK
<1>8. \E how \in {"done", "error", "submitted"} :
        Answer(r, how) /\ (how = "submitted" => op[r].kind = "delegate")
  BY <1>3 DEF CommitReturns, DelegationStarts
<1>9. RequestsOK' /\ CallOK' /\ LockOK'
  BY <1>1, <1>8, AnswerStep DEF Ended, PCs
<1> QED BY <1>1, <1>7, <1>9, Frame DEF SafeInv, TypeOK

LEMMA ProposalRecordedStep ==
  ASSUME SafeInv, NEW r \in Requests, ProposalRecorded(r)
  PROVE  SafeInv'
<1> DEFINE e == pend[r]
           n == EventOf(r, "task.completed", None, e.rev + 1)
<1>1. /\ op' = op /\ HasLock(r) /\ pc[r] \notin Ended \cup {"mergeQueued"} /\ Committing(r)
      /\ op[r] \in Arguments /\ T(r) \in Tasks /\ UNCHANGED <<log, crashes, failures, drift>>
  BY Resumed DEF ProposalRecorded, Acknowledge, Inside, Committing, faults
<1>2. e \in Event /\ e.task \in Tasks /\ e.rev \in Nat /\ e.key \in Keys \cup {None}
  BY DEF ProposalRecorded, SafeInv, TypeOK, RequestsOK, Event
<1>3. op[r].kind = "delegate" /\ e.task = T(r)
  BY <1>1 DEF ProposalRecorded, SafeInv, CallOK, Delegating
<1>4. task' \in [Tasks -> Envelope]
  <2>1. [task EXCEPT ![e.task].rev = e.rev] \in [Tasks -> Envelope]
    BY <1>2, TaskUpdates DEF Statuses
  <2>2. "completed" \in Statuses
    BY DEF Statuses
  <2>3. [task EXCEPT ![e.task] = [@ EXCEPT !.rev = e.rev, !.status = "completed"]] \in [Tasks -> Envelope]
    BY <1>2, <2>2, TaskUpdates
  <2> QED BY <2>1, <2>3 DEF ProposalRecorded
<1>5. idem' \subseteq Keys
  BY <1>2 DEF ProposalRecorded, Acknowledge, SafeInv, TypeOK, MemoryOK
<1>6. MemoryOK'
  BY <1>4, <1>5 DEF ProposalRecorded, Acknowledge, SafeInv, TypeOK, MemoryOK
<1>7. ASSUME Answer(r, "done") PROVE RequestsOK' /\ CallOK' /\ LockOK'
  BY <1>1, <1>7, AnswerStep DEF Ended, PCs
<1>8. ASSUME pend' = [pend EXCEPT ![r] = n], pc' = [pc EXCEPT ![r] = "appending"],
             UNCHANGED locks
      PROVE  RequestsOK' /\ CallOK' /\ LockOK'
  <2>1. e.rev + 1 \in Nat /\ task'[T(r)].spaces \in Nat
    BY <1>1, <1>2, <1>4 DEF Envelope
  <2>2. n \in Event /\ n.task = T(r)
    BY <1>1, <2>1 DEF EventOf, Event, Arguments, Types
  <2> QED BY <1>1, <1>3, <1>8, <2>2, CommitStep
<1>9. RequestsOK' /\ CallOK' /\ LockOK'
  BY <1>7, <1>8 DEF ProposalRecorded
<1> QED BY <1>1, <1>6, <1>9, Frame DEF SafeInv, TypeOK

-----------------------------------------------------------------------------
(* Calls, the turn of a merge, and a restart                                 *)

LEMMA MergeTurnStep ==
  ASSUME SafeInv, NEW r \in Requests, MergeTurn(r)
  PROVE  SafeInv'
<1>1. /\ op' = op /\ op[r] \in Arguments /\ op[r].kind = "merge"
      /\ UNCHANGED <<log, crashes, failures, drift>>
  BY DEF MergeTurn, SafeInv, TypeOK, RequestsOK, CallOK, faults
<1>2. MemoryOK'
  BY DEF MergeTurn, SafeInv, TypeOK, MemoryOK, memory, volatile
<1>3. /\ UNCHANGED <<mergeQ, pend>> /\ Enqueue(r, op'[r].task) /\ HasTurn(r)' /\ ~Inside(r)
      /\ op' \in [Requests -> Arguments \cup {None}] /\ Locked(r)'
  BY <1>1 DEF MergeTurn, T, HasTurn, Inside, Locked, SafeInv, TypeOK, RequestsOK
<1>4. RequestsOK' /\ CallOK' /\ LockOK'
  BY <1>1, <1>3, EnqueueStep DEF MergeTurn
<1> QED BY <1>1, <1>2, <1>4, Frame DEF SafeInv, TypeOK

\* A call that takes no place on a lock yet.
LEMMA CallStep ==
  ASSUME SafeInv, NEW r \in Requests, pc[r] = "idle", NEW o \in Arguments,
         op' = [op EXCEPT ![r] = o], UNCHANGED queue,
         NEW to \in {"done", "appending", "classifying", "mergeQueued"},
         pc' = [pc EXCEPT ![r] = to],
         NEW e \in Event \cup {None}, pend' = [pend EXCEPT ![r] = e],
         to = "appending" => /\ e \in Event /\ o.kind = "create"
                             /\ e.task = o.task /\ e.type = "task.created",
         to = "classifying" => o.kind = "classify",
         to = "mergeQueued" => o.kind = "merge",
         mergeQ' = mergeQ \/ mergeQ' = Append(mergeQ, r)
  PROVE  RequestsOK' /\ CallOK' /\ LockOK'
<1>1. \A x \in Requests \ {r} : op'[x] = op[x] /\ pc'[x] = pc[x] /\ pend'[x] = pend[x]
  BY DEF SafeInv, TypeOK, RequestsOK
<1>2. op'[r] = o /\ pc'[r] = to /\ pend'[r] = e
  BY DEF SafeInv, TypeOK, RequestsOK
<1>3. /\ mergeQ' \in Seq(Requests)
      /\ mergeQ # <<>> => mergeQ' # <<>> /\ Head(mergeQ') = Head(mergeQ)
  <2>1. mergeQ \in Seq(Requests)
    BY DEF SafeInv, TypeOK, RequestsOK
  <2>2. /\ Append(mergeQ, r) \in Seq(Requests) /\ Append(mergeQ, r) # <<>>
        /\ mergeQ # <<>> => Head(Append(mergeQ, r)) = Head(mergeQ)
    BY <2>1, AppendHead
  <2> QED BY <2>1, <2>2
<1>4. RequestsOK'
  BY <1>3 DEF SafeInv, TypeOK, RequestsOK, PCs, Ended
<1>5. CallOK'
  BY <1>1, <1>2 DEF SafeInv, CallOK, Committing, Locked, T, Delegating
<1>6. LockOK'
  <2>1. ASSUME NEW x \in Requests \ {r} PROVE HasLock(x)' = HasLock(x) /\ (HasTurn(x) => HasTurn(x)')
    BY <1>1, <1>3 DEF HasLock, HasTurn, Holds, Locked, T
  <2>2. (Inside(r)' => HasLock(r)') /\ (pc'[r] \notin Ended \cup {"mergeQueued"} => HasTurn(r)')
    BY <1>2 DEF Inside, HasLock, HasTurn, Locked, Ended
  <2> QED BY <1>1, <2>1, <2>2 DEF LockOK, Inside, SafeInv
<1> QED BY <1>4, <1>5, <1>6

LEMMA InvokeStep ==
  ASSUME SafeInv, NEW r \in Requests, Invoke(r)
  PROVE  SafeInv'
<1>1. PICK c \in Calls : CreateTask(r, c) \/ CallLocked(r, c) \/ CallMerge(r, c) \/ CallClassify(r, c)
  BY DEF Invoke
<1>2. pc[r] = "idle" /\ c \in Call /\ c.task \in Tasks /\ c.key \in Keys \cup {None}
      /\ c.who \in Providers \cup {None}
  BY BrokerAssumption DEF Invoke, Call
<1>3. /\ task \in [Tasks -> Envelope] /\ pend \in [Requests -> Event \cup {None}]
      /\ op \in [Requests -> Arguments \cup {None}] /\ pc \in [Requests -> PCs]
      /\ task[c.task].rev \in Nat /\ pend = [pend EXCEPT ![r] = pend[r]]
  BY <1>2 DEF SafeInv, TypeOK, MemoryOK, RequestsOK, Envelope
<1>4. UNCHANGED <<log, crashes, failures, drift>>
  BY <1>1 DEF CreateTask, CallLocked, CallMerge, CallClassify, faults
<1>5. \A exp \in Nat \cup {Unchecked}, target \in Requests \cup {None} :
        /\ WithArgs(c, exp, target) \in Arguments
        /\ WithArgs(c, exp, target).kind = c.kind
        /\ WithArgs(c, exp, target).task = c.task
  BY <1>2 DEF WithArgs, Arguments, Call
<1>6. CASE CreateTask(r, c)
  <2> DEFINE o == WithArgs(c, 0, None)
             e == [task |-> c.task, type |-> "task.created", rev |-> 1, key |-> c.key, by |-> r,
                   about |-> None, action |-> None, who |-> c.who, spaces |-> 0]
  <2>1. o \in Arguments /\ o.kind = "create" /\ o.task = c.task
    BY <1>5, <1>6 DEF CreateTask
  <2>2. e \in Event /\ e.task = c.task /\ e.type = "task.created"
    BY <1>2 DEF Event, Types
  <2>3. op' = [op EXCEPT ![r] = o] /\ UNCHANGED <<queue, mergeQ>>
    BY <1>6 DEF CreateTask, locks
  <2>4. Fresh \in Envelope
    BY DEF Fresh, Absent, Envelope, Statuses
  <2>5. task' \in [Tasks -> Envelope]
    BY <1>3, <1>6, <2>4 DEF CreateTask
  <2>6. MemoryOK'
    BY <1>6, <2>5 DEF CreateTask, SafeInv, TypeOK, MemoryOK, volatile
  <2>7. CASE pc' = [pc EXCEPT ![r] = "done"] /\ UNCHANGED pend
    <3> HIDE DEF o
    <3>1. pend[r] \in Event \cup {None} /\ pend' = [pend EXCEPT ![r] = pend[r]]
      BY <1>3, <2>7
    <3>2. RequestsOK' /\ CallOK' /\ LockOK'
      BY <1>2, <2>1, <2>3, <2>7, <3>1, CallStep
    <3> QED BY <1>4, <2>6, <3>2, Frame DEF SafeInv, TypeOK
  <2>8. CASE pc' = [pc EXCEPT ![r] = "appending"] /\ pend' = [pend EXCEPT ![r] = e]
    <3> HIDE DEF o, e
    <3>1. RequestsOK' /\ CallOK' /\ LockOK'
      BY <1>2, <2>1, <2>2, <2>3, <2>8, CallStep
    <3> QED BY <1>4, <2>6, <3>1, Frame DEF SafeInv, TypeOK
  <2> QED BY <1>6, <2>7, <2>8 DEF CreateTask
<1>7. CASE CallLocked(r, c)
  <2>1. MemoryOK' /\ UNCHANGED <<mergeQ, pend>> /\ pc' = [pc EXCEPT ![r] = "queued"] /\ Enqueue(r, c.task)
    BY <1>7 DEF CallLocked, SafeInv, TypeOK, MemoryOK, memory, volatile
  <2>2. PICK o \in Arguments : op' = [op EXCEPT ![r] = o] /\ o.kind = c.kind /\ o.task = c.task
    <3>0. Expected(c) \subseteq {task[c.task].rev, Unchecked}
      BY DEF Expected
    <3>1. CASE \E exp \in Expected(c) : op' = [op EXCEPT ![r] = WithArgs(c, exp, None)]
      <4>1. PICK exp \in {task[c.task].rev, Unchecked} :
                 op' = [op EXCEPT ![r] = WithArgs(c, exp, None)]
        BY <3>0, <3>1
      <4>2. /\ WithArgs(c, exp, None) \in Arguments
            /\ WithArgs(c, exp, None).kind = c.kind /\ WithArgs(c, exp, None).task = c.task
        BY <1>2, <1>3 DEF WithArgs, Arguments, Call
      <4> QED BY <4>1, <4>2
    <3>2. CASE \E a \in approvals : \E exp \in Expected(c) :
                 op' = [op EXCEPT ![r] = WithArgs([c EXCEPT !.action = a.action], exp, a.id)]
      <4>1. PICK a \in approvals, exp \in {task[c.task].rev, Unchecked} :
                 op' = [op EXCEPT ![r] = WithArgs([c EXCEPT !.action = a.action], exp, a.id)]
        BY <3>0, <3>2
      <4>2. a.id \in Requests /\ a.action \in ApprovalActions \cup {None} /\ exp \in Nat \cup {Unchecked}
        BY <1>3 DEF SafeInv, TypeOK, MemoryOK, Approval
      <4>3. WithArgs([c EXCEPT !.action = a.action], exp, a.id) \in Arguments
        BY <1>2, <4>2 DEF WithArgs, Arguments, Call
      <4>4. /\ WithArgs([c EXCEPT !.action = a.action], exp, a.id).kind = c.kind
            /\ WithArgs([c EXCEPT !.action = a.action], exp, a.id).task = c.task
        BY <1>2 DEF WithArgs, Call
      <4> QED BY <4>1, <4>3, <4>4
    <3> QED BY <1>7, <3>1, <3>2 DEF CallLocked
  <2>3. /\ op' \in [Requests -> Arguments \cup {None}] /\ op'[r] = o
        /\ \A x \in Requests : x # r => op'[x] = op[x]
    BY <1>3, <2>2
  <2>4. o.kind \notin {"merge", "create", "classify"}
    BY <1>7, <2>2 DEF CallLocked
  <2>5. HasTurn(r)' /\ Locked(r)' /\ ~Inside(r) /\ Enqueue(r, op'[r].task)
    BY <1>2, <2>1, <2>2, <2>3, <2>4 DEF HasTurn, Locked, Inside
  <2>6. RequestsOK' /\ CallOK' /\ LockOK'
    BY <2>1, <2>3, <2>5, EnqueueStep
  <2> QED BY <1>4, <2>1, <2>6, Frame DEF SafeInv, TypeOK
<1>8. CASE CallMerge(r, c) \/ CallClassify(r, c)
  <2> DEFINE o == WithArgs(c, task[c.task].rev, None)
  <2>1. o \in Arguments /\ o.kind = c.kind
    BY <1>3, <1>5
  <2>2. /\ MemoryOK' /\ op' = [op EXCEPT ![r] = o] /\ UNCHANGED queue
        /\ pend' = [pend EXCEPT ![r] = pend[r]]
        /\ mergeQ' = mergeQ \/ mergeQ' = Append(mergeQ, r)
    BY <1>3, <1>8 DEF CallMerge, CallClassify, SafeInv, TypeOK, MemoryOK, memory, volatile, locks
  <2>3. \/ pc' = [pc EXCEPT ![r] = "done"]
        \/ pc' = [pc EXCEPT ![r] = "mergeQueued"] /\ c.kind = "merge"
        \/ pc' = [pc EXCEPT ![r] = "classifying"] /\ c.kind = "classify"
    BY <1>8 DEF CallMerge, CallClassify
  <2> HIDE DEF o
  <2>4. pend[r] \in Event \cup {None}
    BY <1>3
  <2>5. RequestsOK' /\ CallOK' /\ LockOK'
    BY <1>2, <2>1, <2>2, <2>3, <2>4, CallStep
  <2> QED BY <1>4, <2>2, <2>5, Frame DEF SafeInv, TypeOK
<1> QED BY <1>1, <1>6, <1>7, <1>8

LEMMA RestartStep ==
  ASSUME SafeInv, CrashAndRestart
  PROVE  SafeInv'
<1>1. \A r \in Requests : pc'[r] \in Ended /\ op'[r] = op[r] /\ (pc'[r] = "idle" <=> pc[r] = "idle")
  BY DEF CrashAndRestart, Ended
<1>2. MemoryOK' /\ LogOK'
  BY DEF CrashAndRestart, SafeInv, TypeOK, LogOK, MemoryOK, Maps, log
<1>3. RequestsOK'
  <2>1. queue' \in [Tasks -> Seq(Requests)] /\ mergeQ' \in Seq(Requests)
    BY EmptySeq DEF CrashAndRestart
  <2> QED BY <1>1, <2>1 DEF CrashAndRestart, SafeInv, TypeOK, RequestsOK, PCs, Ended
<1>4. CallOK' /\ LockOK'
  BY <1>1 DEF CallOK, LockOK, Inside, Committing, Ended
<1>5. drift' \subseteq Tasks /\ failures' \in 0 .. MaxFailures /\ crashes' \in 0 .. MaxCrashes
  BY BrokerAssumption DEF CrashAndRestart, SafeInv, TypeOK
<1> QED BY <1>2, <1>3, <1>4, <1>5 DEF SafeInv, TypeOK

-----------------------------------------------------------------------------
(* SafeInv is inductive                                                      *)

LEMMA SafeInit == Init => SafeInv
<1> SUFFICES ASSUME Init PROVE SafeInv
  OBVIOUS
<1>1. Absent \in Envelope
  BY DEF Absent, Envelope, Statuses
<1>2. MemoryOK
  BY <1>1 DEF Init, MemoryOK
<1>3. RequestsOK
  BY EmptySeq DEF Init, RequestsOK, PCs, Ended
<1>4. LogOK
  BY <1>1, EmptySeq DEF Init, LogOK, EmptyMemory, Maps
<1>5. CallOK /\ LockOK
  BY DEF Init, CallOK, LockOK, Inside, Committing, Ended
<1> QED BY <1>2, <1>3, <1>4, <1>5, BrokerAssumption DEF SafeInv, TypeOK, Init

LEMMA SafeNext == SafeInv /\ [Next]_vars => SafeInv'
<1> SUFFICES ASSUME SafeInv, [Next]_vars PROVE SafeInv'
  OBVIOUS
<1>1. CASE UNCHANGED vars
  BY <1>1 DEF vars, memory, volatile, locks, requests, log, faults, SafeInv, TypeOK, MemoryOK,
              RequestsOK, LogOK, CallOK, LockOK, HasLock, HasTurn, Holds, Locked, Inside,
              Committing, T
<1>2. CASE CrashAndRestart
  BY <1>2, RestartStep
<1>3. ASSUME NEW r \in Requests, Invoke(r) \/ HandlerStep(r) \/ AdapterEnds(r)
      PROVE  SafeInv'
  BY <1>3, InvokeStep, AdapterEndsStep, MergeTurnStep, DelegateStep, EvaluateStep,
     ProposalsListedStep, RecordStep,
     RequestApprovalStep, DecideStep, CancelStep, MergeStep, OutcomeStep, WorkspaceReadyStep,
     WorkspaceFailsStep, MergeEndsStep, ClassifyEndsStep, LedgerAppendsStep, LedgerFailsStep,
     CommitReturnsStep, ProposalRecordedStep DEF HandlerStep
<1> QED BY <1>1, <1>2, <1>3 DEF Next

\* The class's Maps, the suspended calls and the ledger stay well formed,
\* whatever calls, failures and restarts interleave.
THEOREM TypeCorrect == Spec => []TypeOK
<1>1. SafeInv => TypeOK
  BY DEF SafeInv
<1> QED BY SafeInit, SafeNext, <1>1, PTL DEF Spec

\* The task lock excludes: no two calls are between the first and the last
\* await of a handler of one task, except those that take no lock.
MutualExclusion ==
  \A r, x \in Requests :
    Inside(r) /\ Inside(x) /\ Locked(r) /\ Locked(x) /\ T(r) = T(x) => r = x

THEOREM LockExcludes == Spec => []MutualExclusion
<1>1. SafeInv => MutualExclusion
  BY DEF SafeInv, LockOK, MutualExclusion, HasLock, Holds
<1> QED BY SafeInit, SafeNext, <1>1, PTL DEF Spec
=============================================================================
