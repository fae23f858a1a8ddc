---------------------------- MODULE MCTaskBroker ----------------------------
(* Small instances of TaskBroker: the calls each run lets clients make.      *)
EXTENDS TaskBrokerService, TLC

CONSTANTS t1, t2, p1, p2, k1, k2

Call0(kind) == [kind |-> kind, task |-> t1, who |-> None, action |-> None, key |-> None]
Create == Call0("create")
DelegateTo(p, k) == [Call0("delegate") EXCEPT !.who = p, !.key = k]
Ask(a, k) == [Call0("requestApproval") EXCEPT !.action = a, !.key = k]
WithKey(c, k) == [c EXCEPT !.key = k]

\* Two providers work on one task while the user cancels it, and a client
\* repeats a keyed delegation.
DelegationCalls == {Create, DelegateTo(p1, k1), DelegateTo(p2, None), Call0("cancel")}

\* One provider's isolated workspace is merged once the user approved it; the
\* other is an API provider, for which delegating itself needs an approval.
ApprovalCalls == {Create, DelegateTo(p1, None), DelegateTo(p2, None),
                  Ask("merge", None), Ask("external-send", None),
                  Call0("approve"), Call0("reject"), WithKey(Call0("merge"), k1)}

\* Ledger and git operations fail; evidence is recorded and calls are repeated
\* with their keys (the map of keys is shared, so create takes one of its own).
FaultCalls == {WithKey(Create, k1), [WithKey(Create, k1) EXCEPT !.task = t2],
               DelegateTo(p1, None), DelegateTo(p2, None),
               WithKey(Call0("record"), k2), WithKey(Call0("evaluate"), k2),
               Ask("publish", k1), Call0("cancel")}

\* Every kind of call, classifyTask and its unlocked commit included.
AllCalls == {Create, DelegateTo(p1, None), Call0("evaluate"), Call0("record"),
             Ask("merge", None), Call0("approve"), Call0("reject"), Call0("merge"), Call0("cancel"),
             Call0("classify")}

\* classifyTask next to commands that hold the lock.
ClassifyCalls == {Create, Call0("record"), Call0("evaluate"), Call0("classify")}

\* A task with an approval request that the user rejects.
RejectCalls == {Create, Ask("publish", None), Call0("approve"), Call0("reject")}

Symmetry == Permutations(Requests)
=============================================================================
