--------------------------- MODULE DurableHistory ---------------------------
(***************************************************************************)
(* What a hosted wavelet promises to those who submit deltas to it, with   *)
(* no mention of locks, stores, logs or crashes: one history that only     *)
(* grows; a submitter that is told "ok" finds its delta in the history,    *)
(* exactly behind what it was told; one that is told "failed" never finds  *)
(* it there.                                                               *)
(***************************************************************************)
EXTENDS Naturals, Sequences, SequencesExt

CONSTANT Clients    \* the submitters, each with one delta, named after it

VARIABLES
    history,    \* the deltas committed so far, in order
    outcome     \* per client, what it has been told: "none", "ok" or "failed"

promiseVars == <<history, outcome>>

Committed == ToSet(history)

PromiseInit ==
    /\ history = <<>>
    /\ outcome = [c \in Clients |-> "none"]

\* The point where the submission takes effect.
Commit(c) ==
    /\ outcome[c] = "none" /\ c \notin Committed
    /\ history' = Append(history, c)
    /\ UNCHANGED outcome

Accept(c) ==
    /\ outcome[c] = "none" /\ c \in Committed
    /\ outcome' = [outcome EXCEPT ![c] = "ok"]
    /\ UNCHANGED history

Reject(c) ==
    /\ outcome[c] = "none" /\ c \notin Committed
    /\ outcome' = [outcome EXCEPT ![c] = "failed"]
    /\ UNCHANGED history

PromiseNext == \E c \in Clients : Commit(c) \/ Accept(c) \/ Reject(c)

PromiseSpec == PromiseInit /\ [][PromiseNext]_promiseVars
=============================================================================
