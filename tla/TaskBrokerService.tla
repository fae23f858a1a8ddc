------------------------- MODULE TaskBrokerService -------------------------
(* The broker implements the sequential service: what replaying its ledger   *)
(* yields is a state of TaskService, and every append is one command of it.  *)
EXTENDS TaskBroker

\* Crash or not, and however the handlers of several calls interleave, the
\* ledger is one the sequential service could have written: no provider outcome
\* after a cancellation, no decision twice, no merge or external submission
\* without a granted approval, one revision per command.
Recorded(m) == [phase    |-> [t \in Tasks |-> m.task[t].status],
                revision |-> [t \in Tasks |-> m.task[t].rev],
                team     |-> [t \in Tasks |-> m.task[t].parts],
                asked    |-> m.approvals,
                granted  |-> m.approved]
Service == INSTANCE TaskService WITH record <- Recorded(durable), Gates <- Required
ImplementsService == Service!Spec
=============================================================================
