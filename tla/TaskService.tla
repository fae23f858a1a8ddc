---------------------------- MODULE TaskService -----------------------------
(* What the broker promises of a task, with nothing concurrent in it: each   *)
(* command takes effect in one step, at one revision, in a state that allows *)
(* it.  The broker's durable ledger must look as if this machine wrote it:   *)
(* TaskBrokerService maps the replayed ledger to record.                     *)
EXTENDS Integers

CONSTANTS Tasks, Providers,
          Gates(_)     \* the actions a provider needs an approval of

\* phase: each task's recorded status; revision: its number of commands;
\* team: the providers that took part in it; asked: approval requests without a
\* decision; granted: the <<task, action>> pairs the user approved.
VARIABLE record

Init == record = [phase    |-> [t \in Tasks |-> "absent"],
                  revision |-> [t \in Tasks |-> 0],
                  team     |-> [t \in Tasks |-> {}],
                  asked    |-> {},
                  granted  |-> {}]

Exists(s, t) == s.phase[t] # "absent"

\* n is s after one command on t that leads to status.
Records(s, n, t, status) ==
  /\ n.revision = [s.revision EXCEPT ![t] = @ + 1]
  /\ n.phase = [s.phase EXCEPT ![t] = status]

\* Evidence, evaluations, syntheses and proposals change no status.
Noted(s, n, t)     == Exists(s, t) /\ Records(s, n, t, s.phase[t])
Created(s, n, t)   == ~Exists(s, t) /\ Records(s, n, t, "created")
Completed(s, n, t) == s.phase[t] = "running" /\ Records(s, n, t, "completed")
\* A provider's failure never touches a cancelled task.
Failed(s, n, t)    == s.phase[t] \notin {"absent", "cancelled"} /\ Records(s, n, t, "failed")
Cancelled(s, n, t) == Exists(s, t) /\ Records(s, n, t, "cancelled")
Merged(s, n, t)    == /\ <<t, "merge">> \in s.granted
                      /\ \E end \in {"completed", "awaiting_approval"} : Records(s, n, t, end)

\* A provider joins with every approval it needs already granted.
Delegated(s, n, t) ==
  /\ Exists(s, t) /\ Records(s, n, t, "running")
  /\ n.asked = s.asked /\ n.granted = s.granted
  /\ \E p \in Providers : /\ \A g \in Gates(p) : <<t, g>> \in s.granted
                          /\ n.team = [s.team EXCEPT ![t] = @ \cup {p}]

\* Commands that decide nothing leave the approvals alone.
Plain(s, n, t) ==
  /\ n.asked = s.asked /\ n.granted = s.granted /\ n.team = s.team
  /\ \/ Created(s, n, t) \/ Noted(s, n, t) \/ Completed(s, n, t)
     \/ Failed(s, n, t) \/ Cancelled(s, n, t) \/ Merged(s, n, t)

Asked(s, n, t) ==
  /\ Exists(s, t) /\ Records(s, n, t, "awaiting_approval")
  /\ n.granted = s.granted /\ n.team = s.team
  /\ \E a \in n.asked \ s.asked : a.task = t /\ n.asked = s.asked \cup {a}

\* Each request is decided once: a decision takes it out of asked.
Decided(s, n, t) ==
  \E a \in s.asked :
    /\ a.task = t /\ n.asked = s.asked \ {a} /\ n.team = s.team
    /\ \/ Records(s, n, t, "running") /\ n.granted = s.granted \cup {<<t, a.action>>}
       \/ Records(s, n, t, "cancelled") /\ n.granted = s.granted

Step(s, n) == \E t \in Tasks : \/ Plain(s, n, t) \/ Delegated(s, n, t)
                               \/ Asked(s, n, t) \/ Decided(s, n, t)

Next == Step(record, record')
Spec == Init /\ [][Next]_record
=============================================================================
