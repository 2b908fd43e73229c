----------------------- MODULE CriticalSection_proofs -----------------------
(***************************************************************************)
(* Safety of the wavelet mutex for every set of actors.                    *)
(*                                                                         *)
(* MutualExclusion is not inductive: it needs that whoever is inside, or   *)
(* has an EnterCriticalSection event on the way, is the one recorded owner *)
(* (OwnerServed), and that an enabled section without an owner has nobody  *)
(* waiting (IdleMeansEmpty) and a disabled one no owner (DisabledIdle).    *)
(***************************************************************************)
EXTENDS CriticalSection, SequenceTheorems, TLAPS

OwnerServed ==
    /\ inside \cup posted = IF m_actor = NoActor THEN {} ELSE {m_actor}
    /\ inside \cap posted = {}

IdleMeansEmpty == m_enabled /\ m_actor = NoActor => m_queue = <<>>

DisabledIdle ==
    /\ m_enabled <=> initActor = "done"
    /\ ~m_enabled => m_actor = NoActor

LockIInv ==
    /\ LockTypeOK
    /\ OwnerServed
    /\ IdleMeansEmpty
    /\ DisabledIdle

-----------------------------------------------------------------------------
(* HandOver serves exactly the head of the queue. *)
LEMMA HandOverServes ==
    ASSUME LockTypeOK, m_queue # <<>>, NEW keep, HandOver(keep)
    PROVE  /\ Head(m_queue) \in Actors
           /\ m_actor' = Head(m_queue)
           /\ m_queue' \in Seq(Actors)
           /\ posted' = keep \cup {Head(m_queue)}
           /\ m_actor' # NoActor
  <1>1. Head(m_queue) \in Actors /\ Tail(m_queue) \in Seq(Actors)
    BY HeadTailProperties DEF LockTypeOK
  <1> QED
    BY <1>1, NoActorAssumption DEF HandOver

LEMMA LockInitIInv == LockInit => LockIInv
  <1> SUFFICES ASSUME LockInit
               PROVE  LockIInv
    OBVIOUS
  <1>1. LockTypeOK
    BY EmptySeq DEF LockInit, LockTypeOK
  <1>2. OwnerServed /\ IdleMeansEmpty
    BY DEF LockInit, OwnerServed, IdleMeansEmpty
  <1>3. DisabledIdle
    BY Zenon DEF LockInit, DisabledIdle
  <1> QED
    BY <1>1, <1>2, <1>3 DEF LockIInv

LEMMA LockNextIInv == LockIInv /\ [LockNext]_csVars => LockIInv'
  <1> SUFFICES ASSUME LockIInv, [LockNext]_csVars
               PROVE  LockIInv'
    OBVIOUS
  <1> USE NoActorAssumption
  <1>1. ASSUME NEW a \in Actors, Arrive(a)
        PROVE  LockIInv'
    <2>1. CASE TryEnter(a)
      BY <1>1, <2>1 DEF Arrive, TryEnter, IsFree, LockIInv, LockTypeOK,
            OwnerServed, IdleMeansEmpty, DisabledIdle
    <2>2. CASE EnterIntern(a)
      <3>1. m_queue' \in Seq(Actors)
        BY <2>2, AppendProperties DEF EnterIntern, LockIInv, LockTypeOK
      <3>2. ~(m_enabled /\ m_actor = NoActor)
        BY <2>2 DEF EnterIntern, IsFree, LockIInv, IdleMeansEmpty
      <3> QED
        BY <1>1, <2>2, <3>1, <3>2 DEF Arrive, EnterIntern, LockIInv,
              LockTypeOK, OwnerServed, IdleMeansEmpty, DisabledIdle
    <2> QED
      BY <1>1, <2>1, <2>2 DEF Arrive
  <1>2. ASSUME NEW a \in Actors, Resume(a)
        PROVE  LockIInv'
    BY <1>2 DEF Resume, LockIInv, LockTypeOK, OwnerServed, IdleMeansEmpty,
          DisabledIdle
  <1>3. ASSUME NEW a \in Actors, Depart(a)
        PROVE  LockIInv'
    <2>1. m_actor = a /\ m_enabled /\ inside \cup posted = {a}
      BY <1>3 DEF Depart, LockIInv, LockTypeOK, OwnerServed, DisabledIdle
    <2>2. CASE m_queue # <<>>
      <3>1. HandOver(posted \ {a})
        BY <1>3, <2>1, <2>2 DEF Depart, Leave
      <3>2. inside' = {} /\ UNCHANGED <<m_enabled, initActor>>
        BY <1>3, <2>1 DEF Depart, Leave
      <3>3. posted \ {a} = {}
        BY <2>1
      <3> QED
        BY <2>1, <2>2, <3>1, <3>2, <3>3, HandOverServes DEF LockIInv,
              LockTypeOK, OwnerServed, IdleMeansEmpty, DisabledIdle
    <2>3. CASE m_queue = <<>>
      BY <1>3, <2>1, <2>3 DEF Depart, Leave, LockIInv, LockTypeOK,
            OwnerServed, IdleMeansEmpty, DisabledIdle
    <2> QED
      BY <2>2, <2>3
  <1>4. CASE InitSucceeds
    <2>1. m_actor = NoActor /\ inside = {} /\ posted = {}
      BY <1>4 DEF InitSucceeds, Enable, LockIInv, OwnerServed, DisabledIdle
    <2>2. CASE m_queue # <<>>
      <3>1. HandOver(posted)
        BY <1>4, <2>1, <2>2 DEF InitSucceeds, Enable
      <3>2. m_enabled' = TRUE /\ initActor' = "done" /\ inside' = {}
        BY <1>4, <2>1 DEF InitSucceeds, Enable
      <3> QED
        BY <2>1, <2>2, <3>1, <3>2, HandOverServes DEF LockIInv, LockTypeOK,
              OwnerServed, IdleMeansEmpty, DisabledIdle
    <2>3. CASE m_queue = <<>>
      BY <1>4, <2>1, <2>3 DEF InitSucceeds, Enable, LockIInv, LockTypeOK,
            OwnerServed, IdleMeansEmpty, DisabledIdle
    <2> QED
      BY <2>2, <2>3
  <1>5. CASE InitFails
    BY <1>5 DEF InitFails, lockVars, LockIInv, LockTypeOK, OwnerServed,
          IdleMeansEmpty, DisabledIdle
  <1>6. CASE LockRestart
    <2>1. LockTypeOK'
      BY <1>6, EmptySeq DEF LockRestart, LockTypeOK
    <2>2. OwnerServed' /\ IdleMeansEmpty'
      BY <1>6 DEF LockRestart, OwnerServed, IdleMeansEmpty
    <2>3. DisabledIdle'
      BY <1>6, Zenon DEF LockRestart, DisabledIdle
    <2> QED
      BY <2>1, <2>2, <2>3 DEF LockIInv
  <1>7. CASE UNCHANGED csVars
    BY <1>7 DEF csVars, lockVars, LockIInv, LockTypeOK, OwnerServed,
          IdleMeansEmpty, DisabledIdle
  <1> QED
    BY <1>1, <1>2, <1>3, <1>4, <1>5, <1>6, <1>7 DEF LockNext

\* The inductive invariant of the lock.
THEOREM LockInvariant == LockSpec => []LockIInv
  BY LockInitIInv, LockNextIInv, PTL DEF LockSpec

-----------------------------------------------------------------------------
\* Type correctness of the lock.
THEOREM LockTyping == LockSpec => []LockTypeOK
  <1>1. LockIInv => LockTypeOK
    BY DEF LockIInv
  <1> QED
    BY <1>1, LockInvariant, PTL

\* For every set of actors, at most one works on the wavelet at a time.
THEOREM LockMutex == LockSpec => []MutualExclusion
  <1>1. LockIInv => MutualExclusion
    BY DEF LockIInv, OwnerServed, MutualExclusion
  <1> QED
    BY <1>1, LockInvariant, PTL

\* For every set of actors, a waiter of an enabled section is never forgotten.
THEOREM LockNoLostWakeup == LockSpec => []NoLostWakeup
  <1>1. LockIInv => NoLostWakeup
    BY DEF LockIInv, OwnerServed, IdleMeansEmpty, NoLostWakeup
  <1> QED
    BY <1>1, LockInvariant, PTL

\* No actor is let in before the history has been replayed.
THEOREM LockNoEarlyEntry == LockSpec => []NoEntryBeforeReplay
  <1>1. LockIInv => NoEntryBeforeReplay
    BY DEF LockIInv, OwnerServed, DisabledIdle, NoEntryBeforeReplay
  <1> QED
    BY <1>1, LockInvariant, PTL

\* Waiters are served in the order of their arrival, and nobody overtakes them.
THEOREM LockFifo == LockSpec => FifoHandover
  <1>1. LockIInv /\ [LockNext]_csVars => [FifoStep]_csVars
    <2> SUFFICES ASSUME LockIInv, LockNext
                 PROVE  FifoStep
      OBVIOUS
    <2>1. m_queue \in Seq(Actors)
      BY DEF LockIInv, LockTypeOK
    <2>2. \/ m_queue' = m_queue
          \/ \E a : m_queue' = Append(m_queue, a)
          \/ m_queue # <<>> /\ m_queue' = Tail(m_queue)
          \/ m_queue' = <<>>
      BY DEF LockNext, Arrive, TryEnter, EnterIntern, Resume, Depart, Leave,
             HandOver, InitSucceeds, Enable, InitFails, LockRestart, lockVars
    <2>3. ASSUME NEW i \in 1..Len(m_queue), NEW j \in 1..Len(m_queue),
                 i < j, m_queue[i] \in Waiting'
          PROVE  m_queue[j] \in Waiting'
      <3>1. CASE m_queue' = m_queue
        BY <2>1, <2>3, <3>1 DEF Waiting, ToSet
      <3>2. ASSUME NEW a, m_queue' = Append(m_queue, a)
            PROVE  m_queue[j] \in Waiting'
        BY <2>1, <2>3, <3>2 DEF Waiting, ToSet
      <3>3. CASE m_queue # <<>> /\ m_queue' = Tail(m_queue)
        <4>1. j - 1 \in 1..Len(Tail(m_queue)) /\ Tail(m_queue)[j - 1] = m_queue[j]
          BY <2>1, <2>3, <3>3, HeadTailProperties
        <4>2. Tail(m_queue) \in Seq(Actors)
          BY <2>1, <3>3, HeadTailProperties
        <4>3. DOMAIN m_queue' = 1..Len(Tail(m_queue))
          BY <3>3, <4>2
        <4>4. m_queue[j] = m_queue'[j - 1] /\ j - 1 \in DOMAIN m_queue'
          BY <3>3, <4>1, <4>3
        <4> QED
          BY <4>4, Zenon DEF Waiting, ToSet
      <3>4. CASE m_queue' = <<>>
        BY <2>3, <3>4 DEF Waiting, ToSet
      <3> QED
        BY <2>2, <3>1, <3>2, <3>3, <3>4
    <2>4. ASSUME NEW a \in inside' \ (inside \cup posted)
          PROVE  Waiting = {} /\ posted = {}
      <3>1. IsFree
        BY <2>4 DEF LockNext, Arrive, TryEnter, EnterIntern, Resume, Depart,
              Leave, HandOver, InitSucceeds, Enable, InitFails, LockRestart, lockVars
      <3> QED
        BY <3>1 DEF IsFree, Waiting, ToSet, LockIInv, OwnerServed
    <2> QED
      BY <2>3, <2>4 DEF FifoStep
  <1> QED
    BY <1>1, LockInvariant, PTL DEF LockSpec, FifoHandover
=============================================================================
