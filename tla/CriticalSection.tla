--------------------------- MODULE CriticalSection ---------------------------
(***************************************************************************)
(* The mutex that serialises the actors of one wavelet                     *)
(* (src/waveserver/actor/recvcriticalsection.{h,cpp}) and the part of the  *)
(* coroutine runtime that blocks and resumes them (actor/actor.{h,cpp}).   *)
(*                                                                         *)
(* The process is single threaded.  An actor runs until its next `yield`,  *)
(* so one action below is everything an actor does in one event.  What     *)
(* interleaves are the events: an EnterCriticalSection event that leave()  *)
(* or enable() has posted is delivered later, in an event of its own.      *)
(*                                                                         *)
(* The lock starts disabled (LocalWavelet and RemoteWavelet disable it in  *)
(* their constructors) and is enabled by Wavelet::InitActor once the       *)
(* history has been replayed.  If the replay fails it stays disabled.      *)
(***************************************************************************)
EXTENDS Naturals, Sequences, SequencesExt

CONSTANTS
    Actors,     \* the actors that may ask for the wavelet
    NoActor     \* m_actor == 0

ASSUME NoActorAssumption == NoActor \notin Actors

VARIABLES
    m_actor,    \* the actor the section is reserved for
    m_queue,    \* the actors waiting, in FIFO order
    m_enabled,
    posted,     \* actors with an undelivered EnterCriticalSection event
    inside,     \* actors executing behind tryEnter / the yield
    initActor   \* "running", "done" (the section was enabled) or "failed"

lockVars == <<m_actor, m_queue, m_enabled, posted, inside>>
csVars == <<lockVars, initActor>>

-----------------------------------------------------------------------------
(* The methods of CriticalSection. *)

\* Mutated form: a guard that forgets the owner.
IsFreeIgnoringOwner == m_enabled /\ m_queue = <<>>

IsFree == m_enabled /\ m_actor = NoActor /\ m_queue = <<>>

Waiting == ToSet(m_queue)

\* tryEnter returns true: the caller goes on within the same event.
TryEnter(a) ==
    /\ IsFree
    /\ m_actor' = a
    /\ inside' = inside \cup {a}
    /\ UNCHANGED <<m_queue, m_enabled, posted>>

\* tryEnter returned false: the yield makes Actor::run call setActor and so
\* enterIntern.  Its first branch cannot be taken, since every caller has just
\* found the section not free and nothing has run in between.
EnterIntern(a) ==
    /\ ~IsFree
    /\ m_queue' = Append(m_queue, a)
    /\ UNCHANGED <<m_actor, m_enabled, posted, inside>>

\* Mutated form: takes the waiters from the wrong end.
HandOverLast(keep) ==
    /\ m_actor' = Last(m_queue)
    /\ m_queue' = Front(m_queue)
    /\ posted' = keep \cup {Last(m_queue)}

\* Reserve the section for the first waiter and post its event; `keep` are the
\* events still on the way.
HandOver(keep) ==
    /\ m_actor' = Head(m_queue)
    /\ m_queue' = Tail(m_queue)
    /\ posted' = keep \cup {Head(m_queue)}

\* Mutated form: gives the section up without waking anybody.
LeaveSilently(a) ==
    /\ inside' = inside \ {a}
    /\ m_actor' = IF m_actor = a THEN NoActor ELSE m_actor
    /\ posted' = posted \ {a}
    /\ UNCHANGED <<m_queue, m_enabled>>

\* leave() ignores an actor that does not own the section.  The caller is
\* inside, or leaves in the very event that let it in.
Leave(a) ==
    /\ inside' = inside \ {a}
    /\ IF m_actor = a /\ m_queue # <<>> /\ m_enabled
       THEN HandOver(posted \ {a})
       ELSE /\ m_actor' = IF m_actor = a THEN NoActor ELSE m_actor
            /\ posted' = posted \ {a}
            /\ UNCHANGED m_queue
    /\ UNCHANGED m_enabled

\* Mutated form: enables the section without waking the first waiter.
EnableSilently ==
    /\ ~m_enabled
    /\ m_enabled' = TRUE
    /\ UNCHANGED <<m_actor, m_queue, posted, inside>>

Enable ==
    /\ ~m_enabled
    /\ m_enabled' = TRUE
    /\ IF m_actor = NoActor /\ m_queue # <<>>
       THEN HandOver(posted)
       ELSE UNCHANGED <<m_actor, m_queue, posted>>
    /\ UNCHANGED inside

-----------------------------------------------------------------------------
(* Events. *)

Outside(a) == a \notin inside \cup posted \cup Waiting

\* A new actor runs for the first time: enter at once, or queue.
Arrive(a) ==
    /\ Outside(a)
    /\ TryEnter(a) \/ EnterIntern(a)
    /\ UNCHANGED initActor

\* The EnterCriticalSection event reaches the actor (Actor::customEvent); the
\* yield ends and the actor goes on inside the section.
Resume(a) ==
    /\ a \in posted
    /\ posted' = posted \ {a}
    /\ inside' = inside \cup {a}
    /\ UNCHANGED <<m_actor, m_queue, m_enabled, initActor>>

\* An actor leaves: one that has been inside over a yield, or one whose event
\* lets it in and whose execute() leaves before the next yield (SubscribeActor,
\* a rejected submit).
Depart(a) ==
    /\ a \in inside \cup posted
    /\ Leave(a)
    /\ UNCHANGED initActor

InitSucceeds ==
    /\ initActor = "running"
    /\ initActor' = "done"
    /\ Enable

\* The ERROR macro of InitActor terminates it without enabling the section.
InitFails ==
    /\ initActor = "running"
    /\ initActor' = "failed"
    /\ UNCHANGED lockVars

-----------------------------------------------------------------------------
LockInit ==
    /\ m_actor = NoActor
    /\ m_queue = <<>>
    /\ m_enabled = FALSE
    /\ posted = {}
    /\ inside = {}
    /\ initActor = "running"

\* The server process dies and a new one creates the wavelet again: actors and
\* events are gone, the constructor has disabled the new section.
LockRestart ==
    /\ m_actor' = NoActor
    /\ m_queue' = <<>>
    /\ m_enabled' = FALSE
    /\ posted' = {}
    /\ inside' = {}
    /\ initActor' = "running"

LockNext ==
    \/ \E a \in Actors : Arrive(a) \/ Resume(a) \/ Depart(a)
    \/ InitSucceeds
    \/ InitFails
    \/ LockRestart

LockSpec == LockInit /\ [][LockNext]_csVars

\* Posted events are delivered, and an actor that is inside leaves: every path
\* through the execute() methods, the 10 s timeouts included, ends in leave().
LockFairness ==
    \A a \in Actors : WF_csVars(Resume(a)) /\ WF_csVars(Depart(a))

FairLockSpec == LockSpec /\ LockFairness

-----------------------------------------------------------------------------
(* Properties. *)

\* Every variable has its type.
LockTypeOK ==
    /\ m_actor \in Actors \cup {NoActor}
    /\ m_queue \in Seq(Actors)
    /\ m_enabled \in BOOLEAN
    /\ posted \in SUBSET Actors
    /\ inside \in SUBSET Actors
    /\ initActor \in {"running", "done", "failed"}

\* At most one actor executes between tryEnter/yield and leave(), even though
\* the lock changes hands through a posted event.
MutualExclusion == \A a, b \in inside : a = b

\* A waiter is never forgotten: while the section is enabled and somebody
\* waits, it is reserved for an actor that is inside (and will leave) or that
\* has its event on the way.  leave() and enable() are the only wake-ups.
NoLostWakeup ==
    m_enabled /\ m_queue # <<>> => m_actor \in inside \cup posted

\* Nobody works on a wavelet whose history has not been replayed.
NoEntryBeforeReplay ==
    initActor # "done" => inside = {} /\ posted = {}

\* Waiters are served in the order of their arrival: nobody leaves the queue
\* before those ahead of him, and a late tryEnter does not overtake an actor
\* whose event is still in the event queue.
FifoStep ==
    /\ \A i, j \in 1..Len(m_queue) :
          i < j /\ m_queue[i] \in Waiting' => m_queue[j] \in Waiting'
    /\ \A a \in inside' \ (inside \cup posted) : Waiting = {} /\ posted = {}

FifoHandover == [][FifoStep]_csVars

\* Once the replay has succeeded, whoever waits gets the section, unless the
\* server restarts first.
EveryWaiterEnters ==
    \A a \in Actors :
        (a \in Waiting /\ initActor = "done")
            ~> (a \in inside \cup posted \/ initActor # "done")
=============================================================================
