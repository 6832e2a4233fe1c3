---------------------------- MODULE MCReminders ----------------------------
(* Two debts of one group, a request and two scans at a time, two keys, two *)
(* reminders of a debt.                                                     *)
EXTENDS Reminders, TLC

CONSTANTS g1, q1, w1, w2, k1, k2
MCDebts == {1, 2}
MCGroups == {g1}
MCGroupOf == [d \in MCDebts |-> g1]
MCRequests == {q1}
MCScans == {w1, w2}
MCKeys == {k1, k2}
Symmetry == Permutations(MCScans) \cup Permutations(MCKeys)
=============================================================================
