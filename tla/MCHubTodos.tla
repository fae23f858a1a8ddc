----------------------------- MODULE MCHubTodos ------------------------------
(* Small instances of HubTodos.                                              *)
EXTENDS HubTodos, TLC

\* Readings on both sides of the limit of 15 per cent and of those that pass for
\* fractions.
Readings == {14, 15, 100, 1499, 1500}
OnOff == BOOLEAN

\* The controllers differ in name only.
Alike == Permutations(Hubs)
=============================================================================
