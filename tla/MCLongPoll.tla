----------------------------- MODULE MCLongPoll -----------------------------
(* The budgets of LongPoll for TLC. *)
EXTENDS LongPoll

Budget(updates, acts, breaks, cleanups) ==
    [updates |-> updates, acts |-> acts, breaks |-> breaks, cleanups |-> cleanups]

\* Everything once, with the three ticks it takes to delete a session that was
\* pulling; or three submits and opened waves in any mixture, and nothing else.
MCBudgets == {Budget(1, 1, 1, 3), Budget(0, 3, 0, 0)}
=============================================================================
