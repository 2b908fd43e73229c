------------------------- MODULE LocalWavelet_proofs -------------------------
(***************************************************************************)
(* What holds of a hosted wavelet for every set of actors, every number of *)
(* operations per delta, and any number of crashes, timeouts, torn records *)
(* and misfitting deltas.                                                  *)
(*                                                                         *)
(* First the wavelet uses its mutex properly: HostSpec implements LockSpec *)
(* (an actor only arrives when it is outside, Phases), so that everything  *)
(* proved in CriticalSection_proofs holds here too.  Then a persisting     *)
(* actor is alone, so the version it stamped into the message to the store *)
(* is still the version of the wavelet when it answers (Records).          *)
(***************************************************************************)
EXTENDS LocalWavelet, CriticalSection_proofs, SequenceLemmas

-----------------------------------------------------------------------------
(* What Wavelet::checkHashedVersion, apply and the replay of a history       *)
(* preserve: every remembered hash is that of a beginning of the history,    *)
(* and every delta stands behind the very history its author based it on.    *)

HashedVersions(Ids) == [version : Nat, hash : Seq(Ids)]

Histories(Ids) ==
    [version : Nat, hash : Seq(Ids),
     deltas : Seq(HashedVersions(Ids) \cup {NoDelta}), docs : Seq(Ids)]

\* Deltas, when Base gives the history each is based on.
DeltasOn(Ids, Base) ==
    {d \in [id : Ids, base : HashedVersions(Ids), ops : Nat \ {0}, fits : BOOLEAN] :
        d.base.hash = Base[d.id]}

Remembers(w) ==
    /\ Len(w.deltas) = w.version
    /\ \A j \in DOMAIN w.deltas :
          w.deltas[j] # NoDelta => IsPrefix(w.deltas[j].hash, w.hash)

\* Every delta of the history stands behind the one it is based on.
BehindBase(hash, Base) ==
    \A i \in DOMAIN hash : IsPrefix(Base[hash[i]], SubSeq(hash, 1, i - 1))

GoodHistory(Ids, Base, w) ==
    w \in Histories(Ids) /\ Remembers(w) /\ BehindBase(w.hash, Base)

-----------------------------------------------------------------------------
LEMMA NewWaveletIsGood ==
    ASSUME NEW Ids, NEW Base
    PROVE  GoodHistory(Ids, Base, NewWavelet)
  <1>1. <<>> \in Seq(Ids) /\ <<>> \in Seq(HashedVersions(Ids) \cup {NoDelta})
    BY EmptySeq
  <1>2. Len(<<>>) = 0 /\ DOMAIN <<>> = {}
    OBVIOUS
  <1>3. NewWavelet \in Histories(Ids)
    BY <1>1 DEF NewWavelet, UrlHash, Histories
  <1> QED
    BY <1>2, <1>3 DEF GoodHistory, Remembers, BehindBase, NewWavelet, UrlHash

\* A delta whose hashed version is known is based on a beginning of the history.
LEMMA CheckedIsPrefix ==
    ASSUME NEW Ids, NEW Base, NEW w, GoodHistory(Ids, Base, w), NEW base,
           CheckHashedVersion(w, base)
    PROVE  IsPrefix(base.hash, w.hash)
  <1>1. w.hash \in Seq(Ids) /\ w.version \in Nat
    BY DEF GoodHistory, Histories
  <1>2. CASE base = Version0
    BY <1>1, <1>2, EmptyIsPrefix DEF Version0, UrlHash
  <1>3. CASE base = HashedVersion(w)
    BY <1>1, <1>3, PrefixReflexive DEF HashedVersion
  <1>4. CASE /\ base.version \in 1..(w.version - 1)
             /\ Slot(w, base.version) # NoDelta
             /\ base.hash = Slot(w, base.version).hash
    <2>1. base.version + 1 \in 1..w.version
      BY <1>1, <1>4
    <2>2. w.deltas \in Seq(HashedVersions(Ids) \cup {NoDelta})
             /\ Len(w.deltas) = w.version
      BY DEF GoodHistory, Histories, Remembers
    <2>3. base.version + 1 \in DOMAIN w.deltas
      BY <2>1, <2>2, LenProperties
    <2> QED
      BY <1>4, <2>3 DEF GoodHistory, Remembers, Slot
  <1> QED
    BY <1>2, <1>3, <1>4 DEF CheckHashedVersion

\* apply() of a delta that is based on a beginning of the history.
LEMMA AppliedIsGood ==
    ASSUME NEW Ids, NEW Base, NEW w, GoodHistory(Ids, Base, w),
           NEW d \in DeltasOn(Ids, Base), IsPrefix(d.base.hash, w.hash)
    PROVE  /\ GoodHistory(Ids, Base, Applied(w, d))
           /\ Applied(w, d).version = w.version + d.ops
           /\ Applied(w, d).hash = Append(w.hash, d.id)
  <1> DEFINE Slots == HashedVersions(Ids) \cup {NoDelta}
             nulls == [i \in 1..(d.ops - 1) |-> NoDelta]
             docs == [i \in 1..d.ops |-> d.id]
             hash == Append(w.hash, d.id)
             deltas == w.deltas \o nulls \o <<AppliedSlot(w)>>
  <1>1. /\ w.version \in Nat /\ w.hash \in Seq(Ids) /\ w.deltas \in Seq(Slots)
        /\ w.docs \in Seq(Ids) /\ Len(w.deltas) = w.version
    BY DEF GoodHistory, Histories, Remembers
  <1>2. d.id \in Ids /\ d.ops \in Nat \ {0} /\ d.base.hash = Base[d.id]
    BY DEF DeltasOn
  <1>3. HashedVersion(w) \in HashedVersions(Ids)
    BY <1>1 DEF HashedVersion, HashedVersions
  <1>4. /\ nulls \in Seq(Slots) /\ Len(nulls) = d.ops - 1
        /\ \A i \in 1..(d.ops - 1) : nulls[i] = NoDelta
    BY <1>2, IsASeq
  <1>5. docs \in Seq(Ids)
    BY <1>2
  <1>6. /\ hash \in Seq(Ids) /\ Len(hash) = Len(w.hash) + 1
        /\ \A i \in 1..Len(w.hash) : hash[i] = w.hash[i]
        /\ hash[Len(w.hash) + 1] = d.id
    BY <1>1, <1>2, AppendProperties
  <1>7. AppliedSlot(w) \in Slots /\ AppliedSlot(w).hash = w.hash
    BY <1>3 DEF AppliedSlot, HashedVersion
  <1>8. /\ deltas \in Seq(Slots) /\ Len(deltas) = w.version + d.ops
        /\ \A j \in 1..(w.version + d.ops) :
              deltas[j] \in {w.deltas[i] : i \in 1..w.version}
                               \cup {NoDelta, AppliedSlot(w)}
    <2> HIDE DEF Slots, nulls
    <2> DEFINE front == w.deltas \o nulls
               one == <<AppliedSlot(w)>>
    <2>0. PICK v \in Nat : v = w.version
      BY <1>1
    <2>1. PICK n \in Nat : d.ops = n + 1
      BY <1>2
    <2>2. /\ front \in Seq(Slots) /\ Len(front) = v + n
          /\ \A j \in 1..(v + n) :
                front[j] = IF j <= v THEN w.deltas[j] ELSE nulls[j - v]
      <3>1. Len(w.deltas) = v /\ Len(nulls) = n
        BY <1>1, <1>4, <2>0, <2>1
      <3> QED
        BY <1>1, <1>4, <3>1, ConcatProperties, ZenonT(60)
    <2>3. one \in Seq(Slots) /\ Len(one) = 1 /\ one[1] = AppliedSlot(w)
      BY <1>7
    <2> HIDE DEF front, one
    <2>4. /\ front \o one \in Seq(Slots)
          /\ Len(front \o one) = v + n + 1
          /\ \A j \in 1..(v + n + 1) :
                (front \o one)[j] = IF j <= v + n THEN front[j]
                                    ELSE one[j - (v + n)]
      <3>1. /\ front \o one \in Seq(Slots)
            /\ Len(front \o one) = Len(front) + Len(one)
            /\ \A j \in 1..(Len(front) + Len(one)) :
                  (front \o one)[j] = IF j <= Len(front) THEN front[j]
                                      ELSE one[j - Len(front)]
        BY <2>2, <2>3, ConcatProperties
      <3>2. Len(front) = v + n /\ Len(one) = 1
        BY <2>2, <2>3
      <3> QED
        BY <3>1, <3>2
    <2>5. ASSUME NEW j \in 1..(v + n + 1)
          PROVE  (front \o one)[j] \in {w.deltas[i] : i \in 1..v}
                               \cup {NoDelta, AppliedSlot(w)}
      <3>1. CASE j <= v
        BY <2>2, <2>4, <3>1
      <3>2. CASE v < j /\ j <= v + n
        <4>1. j - v \in 1..n
          BY <3>2
        <4>2. nulls[j - v] = NoDelta
          BY <1>4, <2>1, <4>1
        <4> QED
          BY <2>2, <2>4, <3>2, <4>2
      <3>3. CASE j = v + n + 1
        BY <2>3, <2>4, <3>3
      <3>4. j <= v \/ (v < j /\ j <= v + n) \/ j = v + n + 1
        BY v \in Nat, n \in Nat
      <3> QED
        BY <3>1, <3>2, <3>3, <3>4
    <2>6. w.version + d.ops = v + n + 1
      BY <2>0, <2>1
    <2> QED
      BY <2>0, <2>1, <2>4, <2>5, <2>6 DEF front, one
  <1>9. /\ Applied(w, d).version = w.version + d.ops
        /\ Applied(w, d).hash = hash /\ Applied(w, d).deltas = deltas
        /\ Applied(w, d).docs = w.docs \o docs
        /\ Applied(w, d) = [version |-> w.version + d.ops, hash |-> hash,
                            deltas |-> deltas, docs |-> w.docs \o docs]
    BY DEF Applied
  <1> HIDE DEF hash, deltas, docs, nulls
  <1>10. Applied(w, d) \in Histories(Ids)
    <2>1. w.docs \o docs \in Seq(Ids)
      BY <1>1, <1>5, ConcatProperties
    <2> QED
      BY <1>1, <1>2, <1>6, <1>8, <1>9, <2>1 DEF Histories
  <1>11. IsPrefix(w.hash, hash)
    BY <1>1, <1>6, PrefixByIndex, SMTT(30)
  <1>12. Remembers(Applied(w, d))
    <2>1. DOMAIN deltas = 1..(w.version + d.ops)
      BY <1>1, <1>2, <1>8, LenProperties
    <2>2. ASSUME NEW j \in 1..(w.version + d.ops), deltas[j] # NoDelta
          PROVE  IsPrefix(deltas[j].hash, hash)
      <3>1. CASE deltas[j] = AppliedSlot(w)
        BY <1>7, <1>11, <3>1
      <3>2. ASSUME NEW i \in 1..w.version, deltas[j] = w.deltas[i]
            PROVE  IsPrefix(deltas[j].hash, hash)
        <4>1. i \in DOMAIN w.deltas /\ w.deltas[i] \in Slots
          BY <1>1
        <4>2. IsPrefix(w.deltas[i].hash, w.hash)
          BY <2>2, <3>2, <4>1 DEF GoodHistory, Remembers
        <4>3. w.deltas[i].hash \in Seq(Ids)
          BY <2>2, <3>2, <4>1 DEF HashedVersions
        <4> QED
          BY <1>1, <1>6, <1>11, <3>2, <4>2, <4>3, PrefixTransitive
      <3> QED
        BY <1>8, <2>2, <3>1, <3>2
    <2> QED
      BY <1>8, <1>9, <2>1, <2>2 DEF Remembers
  <1>13. BehindBase(hash, Base)
    <2>1. DOMAIN hash = 1..(Len(w.hash) + 1) /\ Len(w.hash) \in Nat
             /\ DOMAIN w.hash = 1..Len(w.hash)
      BY <1>1, <1>6, LenProperties
    <2>2. ASSUME NEW i \in 1..(Len(w.hash) + 1)
          PROVE  IsPrefix(Base[hash[i]], SubSeq(hash, 1, i - 1))
      <3>1. SubSeq(hash, 1, i - 1) = SubSeq(w.hash, 1, i - 1)
        BY <1>1, <1>2, <2>1, InitialOfAppend DEF hash
      <3>2. CASE i \in 1..Len(w.hash)
        BY <1>6, <2>1, <3>1, <3>2 DEF GoodHistory, BehindBase
      <3>3. CASE i = Len(w.hash) + 1
        <4>1. SubSeq(w.hash, 1, i - 1) = w.hash
          BY <1>1, <2>1, <3>3, SubSeqFull
        <4> QED
          BY <1>2, <1>6, <3>1, <3>3, <4>1
      <3> QED
        BY <2>1, <3>2, <3>3
    <2> QED
      BY <2>1, <2>2 DEF BehindBase
  <1> QED
    BY <1>9, <1>10, <1>12, <1>13 DEF GoodHistory, hash

\* apply() of a delta that does not fit leaves the history as it is.
LEMMA AppliedPartlyIsGood ==
    ASSUME NEW Ids, NEW Base, NEW w, GoodHistory(Ids, Base, w),
           NEW d, d.id \in Ids, NEW k \in Nat
    PROVE  GoodHistory(Ids, Base, AppliedPartly(w, d, k))
  <1> DEFINE docs == [i \in 1..k |-> d.id]
  <1>1. docs \in Seq(Ids)
    OBVIOUS
  <1>2. w.docs \in Seq(Ids)
    BY DEF GoodHistory, Histories
  <1>3. w.docs \o docs \in Seq(Ids)
    <2> HIDE DEF docs
    <2> QED
      BY <1>1, <1>2, ConcatProperties
  <1>4. AppliedPartly(w, d, k) = [w EXCEPT !.docs = w.docs \o docs]
    BY DEF AppliedPartly
  <1> HIDE DEF docs
  <1> QED
    BY <1>3, <1>4 DEF GoodHistory, Histories, Remembers

\* A history stays good when there are more actors than those in it.
LEMMA GoodHistoryOfMore ==
    ASSUME NEW Ids, NEW Base, NEW w, GoodHistory(Ids, Base, w),
           NEW More, Ids \subseteq More,
           NEW Base2, \A a \in Ids : Base2[a] = Base[a]
    PROVE  GoodHistory(More, Base2, w)
  <1>1. Seq(Ids) \subseteq Seq(More)
    BY SeqMonotonic
  <1>2. HashedVersions(Ids) \subseteq HashedVersions(More)
    BY <1>1 DEF HashedVersions
  <1>3. Seq(HashedVersions(Ids) \cup {NoDelta})
            \subseteq Seq(HashedVersions(More) \cup {NoDelta})
    BY <1>2, SeqMonotonic
  <1>4. w \in Histories(More)
    BY <1>1, <1>3 DEF GoodHistory, Histories
  <1>5. \A i \in DOMAIN w.hash : w.hash[i] \in Ids
    BY ElementOfSeq, LenProperties DEF GoodHistory, Histories
  <1>6. BehindBase(w.hash, Base2)
    BY <1>5 DEF GoodHistory, BehindBase
  <1> QED
    BY <1>4, <1>6 DEF GoodHistory

-----------------------------------------------------------------------------
(* The replay. *)

Replays(Ids, Base) ==
    [ok : BOOLEAN, wavelet : {w \in Histories(Ids) : GoodHistory(Ids, Base, w)}]

LEMMA ReplayStepIsGood ==
    ASSUME NEW Ids, NEW Base, NEW r \in Replays(Ids, Base),
           NEW d \in DeltasOn(Ids, Base)
    PROVE  ReplayStep(r, d) \in Replays(Ids, Base)
  <1>1. r.ok \in BOOLEAN /\ GoodHistory(Ids, Base, r.wavelet)
    BY DEF Replays
  <1>2. CASE r.ok /\ CheckHashedVersion(r.wavelet, d.base) /\ d.fits
    <2>1. IsPrefix(d.base.hash, r.wavelet.hash)
      BY <1>1, <1>2, CheckedIsPrefix
    <2>2. GoodHistory(Ids, Base, Applied(r.wavelet, d))
      BY <1>1, <2>1, AppliedIsGood
    <2>3. ReplayStep(r, d) = [r EXCEPT !.wavelet = Applied(r.wavelet, d)]
      BY <1>2 DEF ReplayStep
    <2>4. Applied(r.wavelet, d) \in Histories(Ids)
      BY <2>2 DEF GoodHistory
    <2> QED
      BY <2>2, <2>3, <2>4 DEF Replays
  <1>3. CASE ~(r.ok /\ CheckHashedVersion(r.wavelet, d.base) /\ d.fits)
    <2>1. ReplayStep(r, d) = [r EXCEPT !.ok = FALSE]
      BY <1>3 DEF ReplayStep
    <2> QED
      BY <2>1 DEF Replays
  <1> QED
    BY <1>2, <1>3

\* The replay is a run of its steps over the deltas.
IsReplay(run, deltas) ==
    /\ run[0] = [ok |-> TRUE, wavelet |-> NewWavelet]
    /\ \A i \in 1..Len(deltas) : run[i] = ReplayStep(run[i - 1], deltas[i])
    /\ Replay(deltas) = run[Len(deltas)]

LEMMA ReplayRuns ==
    ASSUME NEW Ids, NEW Base, NEW deltas \in Seq(DeltasOn(Ids, Base))
    PROVE  \E run \in [0..Len(deltas) -> Replays(Ids, Base)] : IsReplay(run, deltas)
  <1> DEFINE S == Replays(Ids, Base)
             n == Len(deltas)
             start == [ok |-> TRUE, wavelet |-> NewWavelet]
             step == [i \in 1..n |-> [r \in S |-> ReplayStep(r, deltas[i])]]
             after[i \in 0..n] ==
                IF i = 0 THEN start ELSE ReplayStep(after[i - 1], deltas[i])
  <1>1. n \in Nat /\ \A i \in 1..n : deltas[i] \in DeltasOn(Ids, Base)
    BY LenProperties, ElementOfSeq
  <1>2. start \in S
    <2>1. GoodHistory(Ids, Base, NewWavelet)
      BY NewWaveletIsGood
    <2> QED
      BY <2>1 DEF Replays, GoodHistory
  <1>3. \A r \in S, i \in 1..n : step[i][r] = ReplayStep(r, deltas[i])
    OBVIOUS
  <1>4. \A i \in 1..n : \A r \in S : step[i][r] \in S
    BY <1>1, <1>3, ReplayStepIsGood
  <1> HIDE DEF S, n, start, step
  <1>5. PICK f : IsRecursion(f, S, start, step, n)
    BY <1>1, <1>2, <1>4, RecursionExists
  <1>6. f = [i \in 0..n |-> IF i = 0 THEN start ELSE ReplayStep(f[i - 1], deltas[i])]
    <2>1. ASSUME NEW i \in 0..n, i # 0
          PROVE  step[i][f[i - 1]] = ReplayStep(f[i - 1], deltas[i])
      <3>1. i \in 1..n /\ i - 1 \in 0..n
        BY <1>1, <2>1
      <3>2. f[i - 1] \in S
        BY <1>5, <3>1 DEF IsRecursion
      <3> QED
        BY <1>3, <3>1, <3>2
    <2> QED
      BY <1>5, <2>1 DEF IsRecursion
  <1>7. after = [i \in 0..n |-> IF i = 0 THEN start ELSE ReplayStep(after[i - 1], deltas[i])]
    BY <1>6
  <1>8. \A i \in 1..n : after[i] = ReplayStep(after[i - 1], deltas[i])
    <2>1. \A i \in 1..n : i \in 0..n /\ i # 0
      BY <1>1
    <2> HIDE DEF after
    <2> QED
      BY <1>7, <2>1
  <1>9. after[0] = start /\ Replay(deltas) = after[n]
    <2>1. 0 \in 0..n
      BY <1>1
    <2>2. Replay(deltas) = after[n]
      BY DEF Replay, n, start
    <2> HIDE DEF after
    <2> QED
      BY <1>7, <2>1, <2>2
  <1>10. after \in [0..n -> S]
    <2> DEFINE T == {i \in Nat : i <= n => after[i] \in S}
    <2> HIDE DEF after
    <2>1. 0 \in T
      BY <1>2, <1>9
    <2>2. ASSUME NEW i \in Nat, i \in T
          PROVE  i + 1 \in T
      <3> SUFFICES ASSUME i + 1 <= n
                   PROVE  after[i + 1] \in S
        OBVIOUS
      <3>1. after[i] \in S /\ i + 1 \in 1..n /\ (i + 1) - 1 = i
        BY <1>1, <2>2
      <3>2. after[i + 1] = step[i + 1][after[i]]
        BY <1>3, <1>8, <3>1
      <3> QED
        BY <1>4, <3>1, <3>2
    <2>3. \A i \in Nat : i \in T
      <3> HIDE DEF T
      <3> QED
        BY <2>1, <2>2, SetInduction
    <2>4. \A i \in 0..n : after[i] \in S
      BY <1>1, <2>3
    <2> QED
      BY <1>7, <2>4
  <1> QED
    <2> HIDE DEF after
    <2>1. IsReplay(after, deltas)
      BY <1>8, <1>9 DEF IsReplay, n, start
    <2> QED
      BY <1>10, <2>1 DEF n, S

-----------------------------------------------------------------------------
(* The wavelet and its mutex. *)

Phases ==
    /\ pc \in [Actors -> {"idle", "queued", "persisting", "done"}]
    /\ \A a \in Actors : pc[a] = "idle" => Outside(a)
    /\ \A a \in Actors : pc[a] = "persisting" => a \in inside

HostPhaseInv == LockIInv /\ Phases

-----------------------------------------------------------------------------
\* No step of the lock touches an actor other than those it moves.
LEMMA DepartFrees ==
    ASSUME LockIInv, NEW a \in Actors, Depart(a)
    PROVE  /\ inside' = inside \ {a}
           /\ inside' \cup posted' \cup Waiting' \subseteq
                  inside \cup posted \cup Waiting
  <1>1. m_queue \in Seq(Actors)
    BY DEF LockIInv, LockTypeOK
  <1>2. CASE m_queue' = m_queue
    BY <1>2 DEF Depart, Leave, HandOver, Waiting, ToSet
  <1>3. CASE m_queue # <<>> /\ HandOver(posted \ {a})
    <2>1. IsSequence(m_queue)
      BY <1>1, SequenceOfItsElements
    <2>2. Waiting' \subseteq Waiting /\ Head(m_queue) \in Waiting
      BY <1>3, <2>1, TailToSet DEF HandOver, Waiting
    <2> QED
      BY <1>3, <2>2 DEF Depart, Leave, HandOver
  <1> QED
    BY <1>2, <1>3 DEF Depart, Leave

LEMMA EnableFrees ==
    ASSUME LockIInv, Enable
    PROVE  /\ inside' = inside
           /\ posted' \cup Waiting' \subseteq posted \cup Waiting
  <1>1. m_queue \in Seq(Actors)
    BY DEF LockIInv, LockTypeOK
  <1>2. CASE m_queue' = m_queue /\ posted' = posted
    BY <1>2 DEF Enable, Waiting, ToSet
  <1>3. CASE m_queue # <<>> /\ HandOver(posted)
    <2>1. IsSequence(m_queue)
      BY <1>1, SequenceOfItsElements
    <2>2. Waiting' \subseteq Waiting /\ Head(m_queue) \in Waiting
      BY <1>3, <2>1, TailToSet DEF HandOver, Waiting
    <2> QED
      BY <1>3, <2>2 DEF Enable, HandOver
  <1> QED
    BY <1>2, <1>3 DEF Enable

LEMMA EnterInternAdds ==
    ASSUME LockIInv, NEW a \in Actors, EnterIntern(a)
    PROVE  Waiting' = Waiting \cup {a}
  <1>1. IsSequence(m_queue)
    BY SequenceOfItsElements DEF LockIInv, LockTypeOK
  <1> QED
    BY <1>1, AppendToSet DEF EnterIntern, Waiting

-----------------------------------------------------------------------------
(* The wavelet implements the lock. *)

LEMMA HostInitPhases == HostInit => HostPhaseInv
  <1> SUFFICES ASSUME HostInit
               PROVE  HostPhaseInv
    OBVIOUS
  <1>1. LockIInv
    BY LockInitIInv DEF HostInit
  <1>2. Phases
    BY DEF HostInit, LockInit, Phases, Outside, Waiting, ToSet
  <1> QED
    BY <1>1, <1>2 DEF HostPhaseInv

\* One step of the wavelet is one step of its lock.
LEMMA HostStepIsLockStep ==
    ASSUME HostPhaseInv, [HostNext]_allVars
    PROVE  [LockNext]_csVars
  <1>1. ASSUME NEW a \in Actors, NEW d, SubmitRequest(a, d)
        PROVE  [LockNext]_csVars
    <2>1. Outside(a)
      BY <1>1 DEF SubmitRequest, HostPhaseInv, Phases
    <2> QED
      BY <1>1, <2>1 DEF SubmitRequest, LockNext, Arrive, csVars
  <1>2. ASSUME NEW a \in Actors, SubmitEnters(a)
        PROVE  LockNext
    BY <1>2 DEF SubmitEnters, LockNext
  <1>3. ASSUME NEW a \in Actors,
               SubmitApplies(a) \/ SubmitMisapplies(a) \/ SubmitTimesOut(a)
        PROVE  LockNext
    BY <1>3 DEF SubmitApplies, SubmitMisapplies, SubmitTimesOut, LockNext
  <1>4. CASE StorePersists
    BY <1>4 DEF StorePersists, WriteLog
  <1>5. CASE ReplaySucceeds \/ ReplayFails \/ ReplayTimesOut
    BY <1>5 DEF ReplaySucceeds, ReplayFails, ReplayTimesOut, LockNext
  <1>6. CASE Crash
    BY <1>6 DEF Crash, LockNext
  <1>7. CASE UNCHANGED allVars
    BY <1>7 DEF allVars
  <1> QED
    BY <1>1, <1>2, <1>3, <1>4, <1>5, <1>6, <1>7 DEF HostNext, Deliver

LEMMA HostNextPhases == HostPhaseInv /\ [HostNext]_allVars => HostPhaseInv'
  <1> SUFFICES ASSUME HostPhaseInv, [HostNext]_allVars
               PROVE  Phases'
    BY HostStepIsLockStep, LockNextIInv DEF HostPhaseInv
  <1> USE DEF HostPhaseInv
  <1>1. ASSUME NEW a \in Actors, NEW d, SubmitRequest(a, d)
        PROVE  Phases'
    <2>1. CASE Process(a, d) /\ TryEnter(a)
      BY <1>1, <2>1 DEF Process, TryEnter, Phases, Outside, Waiting
    <2>2. CASE Refuse(a, d) /\ UNCHANGED lockVars
      BY <1>1, <2>2 DEF Refuse, SendFailed, lockVars, Phases, Outside, Waiting
    <2>3. CASE EnterIntern(a) /\ pc' = [pc EXCEPT ![a] = "queued"]
      <3>1. Waiting' = Waiting \cup {a} /\ UNCHANGED <<inside, posted>>
        BY <2>3, EnterInternAdds DEF EnterIntern
      <3> QED
        BY <2>3, <3>1 DEF Phases, Outside
    <2> QED
      BY <1>1, <2>1, <2>2, <2>3 DEF SubmitRequest
  <1>2. ASSUME NEW a \in Actors, SubmitEnters(a)
        PROVE  Phases'
    <2>1. CASE Process(a, delta[a]) /\ Resume(a)
      BY <2>1 DEF Process, Resume, Phases, Outside, Waiting
    <2>2. CASE Refuse(a, delta[a]) /\ Depart(a)
      BY <2>2, DepartFrees DEF Refuse, SendFailed, Phases, Outside
    <2> QED
      BY <1>2, <2>1, <2>2 DEF SubmitEnters
  <1>3. ASSUME NEW a \in Actors,
               SubmitApplies(a) \/ SubmitMisapplies(a) \/ SubmitTimesOut(a)
        PROVE  Phases'
    <2>1. Depart(a) /\ pc' = [pc EXCEPT ![a] = "done"]
      BY <1>3 DEF SubmitApplies, SubmitMisapplies, SubmitTimesOut, SendFailed
    <2> QED
      BY <2>1, DepartFrees DEF Phases, Outside
  <1>4. CASE StorePersists
    BY <1>4 DEF StorePersists, WriteLog, csVars, lockVars, Phases, Outside, Waiting
  <1>5. CASE ReplaySucceeds \/ ReplayFails \/ ReplayTimesOut
    <2>1. pc' = pc
      BY <1>5 DEF ReplaySucceeds, ReplayFails, ReplayTimesOut
    <2>2. CASE Enable
      BY <2>1, <2>2, EnableFrees DEF Phases, Outside
    <2>3. CASE UNCHANGED lockVars
      BY <2>1, <2>3 DEF lockVars, Phases, Outside, Waiting
    <2> QED
      BY <1>5, <2>2, <2>3 DEF ReplaySucceeds, ReplayFails, ReplayTimesOut,
            InitSucceeds, InitFails
  <1>6. CASE Crash
    BY <1>6 DEF Crash, LockRestart, Phases, Outside, Waiting, ToSet
  <1>7. CASE UNCHANGED allVars
    BY <1>7 DEF allVars, csVars, lockVars, hostVars, Phases, Outside, Waiting
  <1> QED
    BY <1>1, <1>2, <1>3, <1>4, <1>5, <1>6, <1>7 DEF HostNext, Deliver

\* Whoever persists a delta is inside the section, and an idle actor outside it.
THEOREM HostPhases == HostSpec => []HostPhaseInv
  BY HostInitPhases, HostNextPhases, PTL DEF HostSpec

\* The wavelet uses its critical section as the lock intends: every step of it
\* is a step of the lock, or leaves the lock alone.
THEOREM HostImplementsLock == HostSpec => LockSpec
  <1>1. HostInit => LockInit
    BY DEF HostInit
  <1>2. HostPhaseInv /\ [HostNext]_allVars => [LockNext]_csVars
    BY HostStepIsLockStep
  <1> QED
    BY <1>1, <1>2, HostPhases, PTL DEF HostSpec, LockSpec

LEMMA PersistingIsAlone == HostPhaseInv => OneDeltaInProgress
  BY DEF HostPhaseInv, Phases, LockIInv, OwnerServed, OneDeltaInProgress

\* At most one delta is between its check against the history and its
\* application to it.
THEOREM HostOneDelta == HostSpec => []OneDeltaInProgress
  BY PersistingIsAlone, HostPhases, PTL

-----------------------------------------------------------------------------
(* Answers and log records. *)

Records ==
    /\ IsSequence(mailbox) /\ IsSequence(commitLog)
    /\ delta = [a \in Actors |-> delta[a]]
    /\ answer = [a \in Actors |-> answer[a]]
    /\ \A a \in Actors : pc[a] # "done" => answer[a].status # "ok"
    /\ \A u \in Logged \cup ToSet(mailbox) :
          /\ u.actor \in Actors
          /\ u.delta = delta[u.actor]
          /\ pc[u.actor] \in {"persisting", "done"}
          /\ pc[u.actor] = "persisting" => u.at = wavelet.version
          /\ answer[u.actor].status = "ok"
                => answer[u.actor].version = EndVersion(u)

HostIInv == HostPhaseInv /\ Records

\* What Records says of one record; it survives a step that leaves its actor
\* and the version alone.
Fits(u) ==
    /\ u.actor \in Actors
    /\ u.delta = delta[u.actor]
    /\ pc[u.actor] \in {"persisting", "done"}
    /\ pc[u.actor] = "persisting" => u.at = wavelet.version
    /\ answer[u.actor].status = "ok" => answer[u.actor].version = EndVersion(u)

LEMMA HostInitRecords == HostInit => Records
  <1> SUFFICES ASSUME HostInit
               PROVE  Records
    OBVIOUS
  <1>1. IsSequence(mailbox) /\ IsSequence(commitLog)
    BY EmptySeq DEF HostInit, IsSequence
  <1>2. Logged \cup ToSet(mailbox) = {}
    BY DEF HostInit, Logged, ToSet
  <1>3. \A a \in Actors : answer[a].status = "none"
    BY DEF HostInit, NotAnswered, Answer
  <1> QED
    BY <1>1, <1>2, <1>3 DEF HostInit, Records

\* Process adds one record, of an actor that had none.
LEMMA ProcessKeepsRecords ==
    ASSUME HostPhaseInv, Records, NEW a \in Actors, NEW d,
           Process(a, d), delta' = [delta EXCEPT ![a] = d],
           pc[a] \in {"idle", "queued"}, UNCHANGED <<wavelet, commitLog>>
    PROVE  Records'
  <1> PICK m : m = PersistMsg(a, d)
    OBVIOUS
  <1>1. /\ IsSequence(mailbox')
        /\ ToSet(mailbox') = ToSet(mailbox) \cup {m}
    BY AppendToSet DEF Process, Records
  <1>2. \A u \in Logged \cup ToSet(mailbox) : u.actor # a
    BY DEF Records
  <1>3. pc' = [pc EXCEPT ![a] = "persisting"] /\ answer' = answer
    BY DEF Process
  <1>4. ASSUME NEW u \in Logged \cup ToSet(mailbox)
        PROVE  Fits(u)'
    BY <1>2, <1>3, <1>4 DEF Records, Fits, EndVersion, HostPhaseInv, Phases
  <1>5. Fits(m)'
    <2>1. m.actor = a /\ m.delta = d /\ m.at = wavelet.version
      BY DEF PersistMsg
    <2>2. delta'[a] = d /\ pc'[a] = "persisting" /\ answer'[a].status # "ok"
      BY <1>3 DEF Records, HostPhaseInv, Phases
    <2> QED
      BY <2>1, <2>2 DEF Fits
  <1>6. Logged' = Logged
    BY DEF Logged
  <1>7. \A u \in Logged' \cup ToSet(mailbox') : Fits(u)'
    BY <1>1, <1>4, <1>5, <1>6
  <1>8. /\ delta' = [b \in Actors |-> delta'[b]]
        /\ answer' = [b \in Actors |-> answer'[b]]
        /\ IsSequence(commitLog')
        /\ \A b \in Actors : pc'[b] # "done" => answer'[b].status # "ok"
    BY <1>3 DEF Records, HostPhaseInv, Phases
  <1> QED
    BY <1>1, <1>7, <1>8 DEF Records, Fits

\* An actor that gives up, or steps that move no actor and no version, change
\* nothing in what the records say.
LEMMA FailingKeepsRecords ==
    ASSUME HostPhaseInv, Records, NEW a \in Actors, SendFailed(a),
           UNCHANGED <<mailbox, commitLog>>,
           \A b \in Actors \ {a} : delta'[b] = delta[b],
           delta' = [b \in Actors |-> delta'[b]],
           pc[a] \in {"queued", "persisting"} => delta'[a] = delta[a],
           \/ pc[a] \in {"idle", "queued"} /\ UNCHANGED wavelet
           \/ pc[a] = "persisting"
    PROVE  Records'
  <1>1. pc' = [pc EXCEPT ![a] = "done"] /\ answer' = [answer EXCEPT ![a] = Failed]
    BY DEF SendFailed
  <1>2. Failed.status = "failed"
    BY DEF Failed, Answer
  <1>3. \A b \in Actors \ {a} : pc[a] = "persisting" => pc[b] # "persisting"
    BY PersistingIsAlone DEF OneDeltaInProgress
  <1>4. ASSUME NEW u \in Logged \cup ToSet(mailbox)
        PROVE  Fits(u)'
    BY <1>1, <1>2, <1>3, <1>4 DEF Records, Fits, EndVersion, HostPhaseInv, Phases
  <1>5. Logged' = Logged /\ ToSet(mailbox') = ToSet(mailbox)
    BY DEF Logged
  <1>6. \A b \in Actors : pc'[b] # "done" => answer'[b].status # "ok"
    BY <1>1, <1>2 DEF Records, HostPhaseInv, Phases
  <1>7. /\ answer' = [b \in Actors |-> answer'[b]]
        /\ IsSequence(commitLog') /\ IsSequence(mailbox')
    BY <1>1 DEF Records
  <1> QED
    BY <1>4, <1>5, <1>6, <1>7 DEF Records, Fits

LEMMA HostNextRecords == HostIInv /\ [HostNext]_allVars => Records'
  <1> SUFFICES ASSUME HostIInv, [HostNext]_allVars
               PROVE  Records'
    OBVIOUS
  <1> USE DEF HostIInv
  <1>1. ASSUME NEW a \in Actors, NEW d, SubmitRequest(a, d)
        PROVE  Records'
    <2>1. pc[a] = "idle" /\ delta' = [delta EXCEPT ![a] = d]
             /\ UNCHANGED <<wavelet, commitLog>>
      BY <1>1 DEF SubmitRequest
    <2>2. CASE Process(a, d)
      BY <2>1, <2>2, ProcessKeepsRecords
    <2>3. CASE Refuse(a, d)
      BY <2>1, <2>3, FailingKeepsRecords DEF Refuse, Records
    <2>4. CASE pc' = [pc EXCEPT ![a] = "queued"] /\ UNCHANGED <<answer, mailbox>>
      <3>1. \A u \in Logged \cup ToSet(mailbox) : u.actor # a
        BY <2>1 DEF Records
      <3> QED
        BY <2>1, <2>4, <3>1 DEF Records, Logged, EndVersion, HostPhaseInv, Phases
    <2> QED
      BY <1>1, <2>2, <2>3, <2>4 DEF SubmitRequest
  <1>2. ASSUME NEW a \in Actors, SubmitEnters(a)
        PROVE  Records'
    <2>1. pc[a] = "queued" /\ UNCHANGED <<delta, wavelet, commitLog>>
      BY <1>2 DEF SubmitEnters
    <2>2. CASE Process(a, delta[a])
      <3>1. delta' = [delta EXCEPT ![a] = delta[a]]
        BY <2>1 DEF Records
      <3> QED
        BY <2>1, <2>2, <3>1, ProcessKeepsRecords
    <2>3. CASE Refuse(a, delta[a])
      BY <2>1, <2>3, FailingKeepsRecords DEF Refuse, Records
    <2> QED
      BY <1>2, <2>2, <2>3 DEF SubmitEnters
  <1>3. ASSUME NEW a \in Actors, SubmitApplies(a)
        PROVE  Records'
    <2>1. /\ pc[a] = "persisting" /\ pc' = [pc EXCEPT ![a] = "done"]
          /\ answer' = [answer EXCEPT ![a] = Answer("ok", wavelet')]
          /\ wavelet' = Applied(wavelet, delta[a])
          /\ UNCHANGED <<delta, mailbox, commitLog>>
      BY <1>3 DEF SubmitApplies
    <2>2. \A b \in Actors \ {a} : pc[b] # "persisting"
      BY <2>1, PersistingIsAlone DEF OneDeltaInProgress
    <2>3. wavelet'.version = wavelet.version + delta[a].ops
      BY <2>1 DEF Applied
    <2>4. Answer("ok", wavelet').version = wavelet'.version
      BY DEF Answer
    <2>5. ASSUME NEW u \in Logged \cup ToSet(mailbox)
          PROVE  Fits(u)'
      <3>1. CASE u.actor = a
        <4>1. u.at = wavelet.version /\ u.delta = delta[a]
          BY <2>1, <2>5, <3>1 DEF Records
        <4>2. answer'[a].version = EndVersion(u)
          BY <2>1, <2>3, <2>4, <4>1 DEF Records, EndVersion
        <4>3. pc'[a] = "done"
          BY <2>1 DEF HostPhaseInv, Phases
        <4> QED
          BY <2>1, <3>1, <4>1, <4>2, <4>3 DEF Fits, EndVersion
      <3>2. CASE u.actor # a
        BY <2>1, <2>2, <2>5, <3>2 DEF Fits, Records, EndVersion, HostPhaseInv, Phases
      <3> QED
        BY <3>1, <3>2
    <2>6. \A b \in Actors : pc'[b] # "done" => answer'[b].status # "ok"
      BY <2>1 DEF Records, HostPhaseInv, Phases
    <2> QED
      BY <2>1, <2>5, <2>6 DEF Records, Fits, Logged
  <1>4. ASSUME NEW a \in Actors, SubmitMisapplies(a) \/ SubmitTimesOut(a)
        PROVE  Records'
    BY <1>4, FailingKeepsRecords DEF SubmitMisapplies, SubmitTimesOut, Records
  <1>5. CASE StorePersists
    <2>1. /\ mailbox # <<>> /\ mailbox' = Tail(mailbox)
          /\ UNCHANGED <<wavelet, pc, delta, answer>>
          /\ \/ commitLog' = Append(commitLog, Head(mailbox))
             \/ commitLog' = Append(commitLog, Torn)
      BY <1>5 DEF StorePersists, WriteLog
    <2>2. /\ IsSequence(mailbox') /\ ToSet(mailbox') \subseteq ToSet(mailbox)
          /\ Head(mailbox) \in ToSet(mailbox)
      BY <2>1, TailToSet DEF Records
    <2>3. ASSUME NEW e, commitLog' = Append(commitLog, e)
          PROVE  /\ IsSequence(commitLog')
                 /\ ToSet(commitLog') = ToSet(commitLog) \cup {e}
      BY <2>3, AppendToSet DEF Records
    <2>4. /\ IsSequence(commitLog')
          /\ Logged' \subseteq Logged \cup {Head(mailbox)}
      BY <2>1, <2>3 DEF Logged
    <2> QED
      BY <2>1, <2>2, <2>4 DEF Records, EndVersion
  <1>6. CASE ReplaySucceeds \/ ReplayFails \/ ReplayTimesOut
    <2>1. UNCHANGED <<pc, delta, mailbox, commitLog, answer>>
      BY <1>6 DEF ReplaySucceeds, ReplayFails, ReplayTimesOut
    <2>2. initActor = "running"
      BY <1>6 DEF ReplaySucceeds, ReplayFails, ReplayTimesOut, InitSucceeds,
            InitFails
    <2>3. \A b \in Actors : pc[b] # "persisting"
      BY <2>2 DEF HostPhaseInv, Phases, LockIInv, OwnerServed, DisabledIdle
    <2> QED
      BY <2>1, <2>3 DEF Records, Logged, EndVersion
  <1>7. CASE Crash
    <2>1. mailbox' = <<>> /\ UNCHANGED <<delta, commitLog, answer>>
      BY <1>7 DEF Crash
    <2>2. IsSequence(mailbox') /\ ToSet(mailbox') = {}
      BY <2>1, EmptySeq DEF IsSequence, ToSet
    <2>3. \A b \in Actors : pc'[b] = IF pc[b] = "idle" THEN "idle" ELSE "done"
      BY <1>7 DEF Crash
    <2> QED
      BY <2>1, <2>2, <2>3 DEF Records, Logged, EndVersion
  <1>8. CASE UNCHANGED allVars
    BY <1>8 DEF allVars, hostVars, Records, Logged, EndVersion
  <1> QED
    BY <1>1, <1>2, <1>3, <1>4, <1>5, <1>6, <1>7, <1>8 DEF HostNext, Deliver

\* Every record of a delta that is under way carries the version the wavelet
\* still has; an answered one has the version its client was told.
THEOREM HostInvariant == HostSpec => []HostIInv
  <1>1. HostInit => HostIInv
    BY HostInitPhases, HostInitRecords DEF HostIInv
  <1>2. HostIInv /\ [HostNext]_allVars => HostIInv'
    BY HostNextPhases, HostNextRecords DEF HostIInv
  <1> QED
    BY <1>1, <1>2, PTL DEF HostSpec

\* Whatever fails, and however often: the version a client has been told is the
\* version the log records for its delta.
THEOREM HostAnsweredAsLogged == HostSpec => []AnsweredAsLogged
  <1>1. HostIInv => AnsweredAsLogged
    BY DEF HostIInv, Records, AnsweredAsLogged
  <1> QED
    BY <1>1, HostInvariant, PTL

-----------------------------------------------------------------------------
(* Whatever fails: the history in RAM. *)

\* The actors that have ended.  They alone are in a history.
Done == {a \in Actors : pc[a] = "done"}

\* What each delta is based on.
BaseOf == [a \in Actors |-> delta[a].base.hash]

\* The delta of an actor.
IsDeltaOf(a, d, Ids) ==
    /\ d \in [id : Actors, base : HashedVersions(Ids), ops : Nat \ {0}, fits : BOOLEAN]
    /\ d.id = a

\* An update in the store's memory.
IsStored(u) ==
    /\ u.actor \in Actors
    /\ u.delta = delta[u.actor]
    /\ pc[u.actor] \in {"persisting", "done"}

Behind ==
    /\ announced \subseteq HashedVersions(Done)
    /\ \A a \in Actors : pc[a] # "idle" => IsDeltaOf(a, delta[a], Done)
    /\ GoodHistory(Done, BaseOf, wavelet)
    /\ \A a \in Actors :
          pc[a] = "persisting" => IsPrefix(delta[a].base.hash, wavelet.hash)
    /\ IsSequence(stored) /\ \A u \in ToSet(stored) : IsStored(u)

HistoryIInv == HostIInv /\ Behind

-----------------------------------------------------------------------------
(* Reading the log. *)

LoadStep(r, u) ==
    IF r.reading /\ Readable(u) /\ Follows(r.chain, u)
    THEN [r EXCEPT !.chain = Append(@, u)]
    ELSE [r EXCEPT !.reading = FALSE]

Loads(log) == [reading : BOOLEAN, chain : Seq(ToSet(log) \ {Torn})]

\* What the constructor of Store reads is a run of its steps over the log.
IsLoad(run, log) ==
    /\ run[0] = [reading |-> TRUE, chain |-> <<>>]
    /\ \A i \in 1..Len(log) : run[i] = LoadStep(run[i - 1], log[i])
    /\ ReadLog(log) = run[Len(log)].chain

LEMMA LoadStepType ==
    ASSUME NEW log, NEW r \in Loads(log), NEW u \in ToSet(log)
    PROVE  LoadStep(r, u) \in Loads(log)
  <1>1. CASE r.reading /\ Readable(u) /\ Follows(r.chain, u)
    <2>1. u \in ToSet(log) \ {Torn}
      BY <1>1 DEF Readable
    <2>2. Append(r.chain, u) \in Seq(ToSet(log) \ {Torn})
      BY <2>1, AppendProperties DEF Loads
    <2>3. LoadStep(r, u) = [r EXCEPT !.chain = Append(r.chain, u)]
      BY <1>1 DEF LoadStep
    <2> QED
      BY <2>2, <2>3 DEF Loads
  <1>2. CASE ~(r.reading /\ Readable(u) /\ Follows(r.chain, u))
    <2>1. LoadStep(r, u) = [r EXCEPT !.reading = FALSE]
      BY <1>2 DEF LoadStep
    <2> QED
      BY <2>1 DEF Loads
  <1> QED
    BY <1>1, <1>2

LEMMA ReadLogRuns ==
    ASSUME NEW log, IsSequence(log)
    PROVE  \E run \in [0..Len(log) -> Loads(log)] : IsLoad(run, log)
  <1> DEFINE S == Loads(log)
             n == Len(log)
             start == [reading |-> TRUE, chain |-> <<>>]
             step == [i \in 1..n |-> [r \in S |-> LoadStep(r, log[i])]]
             after[i \in 0..n] ==
                IF i = 0 THEN start ELSE LoadStep(after[i - 1], log[i])
  <1>1. n \in Nat /\ \A i \in 1..n : log[i] \in ToSet(log)
    BY LenProperties, ElementOfSeq DEF IsSequence
  <1>2. start \in S
    BY EmptySeq DEF Loads
  <1>3. \A r \in S, i \in 1..n : step[i][r] = LoadStep(r, log[i])
    OBVIOUS
  <1>4. \A i \in 1..n : \A r \in S : step[i][r] \in S
    BY <1>1, <1>3, LoadStepType
  <1>5. ReadLog(log) = after[n].chain
    BY DEF ReadLog, LoadStep
  <1> HIDE DEF S, n, start, step
  <1>6. PICK f : IsRecursion(f, S, start, step, n)
    BY <1>1, <1>2, <1>4, RecursionExists
  <1>7. f = [i \in 0..n |-> IF i = 0 THEN start ELSE LoadStep(f[i - 1], log[i])]
    <2>1. ASSUME NEW i \in 0..n, i # 0
          PROVE  step[i][f[i - 1]] = LoadStep(f[i - 1], log[i])
      <3>1. i \in 1..n /\ i - 1 \in 0..n
        BY <1>1, <2>1
      <3>2. f[i - 1] \in S
        BY <1>6, <3>1 DEF IsRecursion
      <3> QED
        BY <1>3, <3>1, <3>2
    <2> QED
      BY <1>6, <2>1 DEF IsRecursion
  <1>8. after = [i \in 0..n |-> IF i = 0 THEN start ELSE LoadStep(after[i - 1], log[i])]
    BY <1>7
  <1>9. \A i \in 1..n : after[i] = LoadStep(after[i - 1], log[i])
    <2>1. \A i \in 1..n : i \in 0..n /\ i # 0
      BY <1>1
    <2> HIDE DEF after
    <2> QED
      BY <1>8, <2>1
  <1>10. after[0] = start
    <2>1. 0 \in 0..n
      BY <1>1
    <2> HIDE DEF after
    <2> QED
      BY <1>8, <2>1
  <1>11. after \in [0..n -> S]
    <2> DEFINE T == {i \in Nat : i <= n => after[i] \in S}
    <2> HIDE DEF after
    <2>1. 0 \in T
      BY <1>2, <1>10
    <2>2. ASSUME NEW i \in Nat, i \in T
          PROVE  i + 1 \in T
      <3> SUFFICES ASSUME i + 1 <= n
                   PROVE  after[i + 1] \in S
        OBVIOUS
      <3>1. after[i] \in S /\ i + 1 \in 1..n /\ (i + 1) - 1 = i
        BY <1>1, <2>2
      <3>2. after[i + 1] = step[i + 1][after[i]]
        BY <1>3, <1>9, <3>1
      <3> QED
        BY <1>4, <3>1, <3>2
    <2>3. \A i \in Nat : i \in T
      <3> HIDE DEF T
      <3> QED
        BY <2>1, <2>2, SetInduction
    <2>4. \A i \in 0..n : after[i] \in S
      BY <1>1, <2>3
    <2> QED
      BY <1>8, <2>4
  <1> QED
    <2> HIDE DEF after
    <2>1. IsLoad(after, log)
      BY <1>5, <1>9, <1>10 DEF IsLoad, n, start
    <2> QED
      BY <1>11, <2>1 DEF n, S

LEMMA ReadLogIsFromLog ==
    ASSUME NEW log, IsSequence(log)
    PROVE  /\ IsSequence(ReadLog(log))
           /\ ToSet(ReadLog(log)) \subseteq ToSet(log) \ {Torn}
  <1>1. PICK run \in [0..Len(log) -> Loads(log)] : IsLoad(run, log)
    BY ReadLogRuns
  <1>2. Len(log) \in 0..Len(log)
    BY LenProperties DEF IsSequence
  <1>3. ReadLog(log) \in Seq(ToSet(log) \ {Torn})
    BY <1>1, <1>2 DEF IsLoad, Loads
  <1>4. IsSequence(ReadLog(log))
    BY <1>3, SequenceOfItsElements
  <1>5. ToSet(ReadLog(log)) \subseteq ToSet(log) \ {Torn}
    BY <1>3, ElementOfSeq, LenProperties DEF ToSet
  <1> QED
    BY <1>4, <1>5

-----------------------------------------------------------------------------
(* Histories. *)

\* What is known of hashed versions and deltas stays known when more actors
\* have ended.
LEMMA IdsGrow ==
    ASSUME NEW Ids, NEW More, Ids \subseteq More
    PROVE  /\ HashedVersions(Ids) \subseteq HashedVersions(More)
           /\ \A a \in Actors :
                \A d : IsDeltaOf(a, d, Ids) => IsDeltaOf(a, d, More)
  <1>1. Seq(Ids) \subseteq Seq(More)
    BY SeqMonotonic
  <1>2. HashedVersions(Ids) \subseteq HashedVersions(More)
    BY <1>1 DEF HashedVersions
  <1> QED
    BY <1>2 DEF IsDeltaOf

\* The part of Behind that speaks of the wavelet survives a step that changes
\* nothing in it and lets no actor but those that have been idle get a delta.
LEMMA BehindKept ==
    ASSUME Behind, HostPhaseInv, UNCHANGED <<wavelet, announced, stored>>,
           pc' = [a \in Actors |-> pc'[a]],
           \A a \in Actors : pc[a] = "done" => pc'[a] = "done",
           \A a \in Actors : pc[a] = "persisting" => pc'[a] \in {"persisting", "done"},
           \A a \in Actors : pc[a] # "idle" => delta'[a] = delta[a],
           \A a \in Actors : pc[a] = "idle" /\ pc'[a] # "idle"
                                => IsDeltaOf(a, delta'[a], Done),
           \A a \in Actors : pc[a] # "persisting" /\ pc'[a] = "persisting"
                                => IsPrefix(delta'[a].base.hash, wavelet.hash)
    PROVE  Behind'
  <1>1. Done \subseteq Done'
    BY DEF Done
  <1>2. \A a \in Done : BaseOf'[a] = BaseOf[a]
    BY DEF Done, BaseOf
  <1>3. GoodHistory(Done', BaseOf', wavelet')
    BY <1>1, <1>2, GoodHistoryOfMore DEF Behind
  <1>4. announced' \subseteq HashedVersions(Done')
    BY <1>1, IdsGrow DEF Behind
  <1>5. ASSUME NEW a \in Actors, pc'[a] # "idle"
        PROVE  IsDeltaOf(a, delta'[a], Done')
    <2>1. IsDeltaOf(a, delta'[a], Done)
      BY <1>5 DEF Behind
    <2> QED
      BY <1>1, <2>1, IdsGrow
  <1>6. ASSUME NEW a \in Actors, pc'[a] = "persisting"
        PROVE  IsPrefix(delta'[a].base.hash, wavelet'.hash)
    BY <1>6 DEF Behind
  <1>7. \A u \in ToSet(stored) : u.actor \in Actors /\ IsStored(u)
    BY DEF Behind, IsStored
  <1>8. \A u \in ToSet(stored') : IsStored(u)'
    BY <1>7 DEF IsStored
  <1> QED
    BY <1>3, <1>4, <1>5, <1>6, <1>8 DEF Behind, IsDeltaOf

LEMMA HostInitBehind == HostInit => Behind
  <1> SUFFICES ASSUME HostInit
               PROVE  Behind
    OBVIOUS
  <1>1. Done = {}
    BY DEF HostInit, Done
  <1>2. announced \subseteq HashedVersions(Done)
    BY EmptySeq DEF HostInit, HashedVersions, Version0, UrlHash
  <1>3. GoodHistory(Done, BaseOf, wavelet)
    BY NewWaveletIsGood DEF HostInit
  <1>4. IsSequence(stored) /\ ToSet(stored) = {}
    BY EmptySeq DEF HostInit, IsSequence, ToSet
  <1> QED
    BY <1>2, <1>3, <1>4 DEF HostInit, Behind

\* A delta that a client may send.
LEMMA DeltaByIsDeltaOf ==
    ASSUME Behind, NEW a \in Actors, NEW d \in DeltasBy(a)
    PROVE  IsDeltaOf(a, d, Done)
  BY HostAssumption DEF Behind, DeltasBy, IsDeltaOf

LEMMA ProcessedIsPrefix ==
    ASSUME Behind, NEW d, Processable(wavelet, d)
    PROVE  IsPrefix(d.base.hash, wavelet.hash)
  BY CheckedIsPrefix DEF Behind, Processable

LEMMA SubmitRequestBehind ==
    ASSUME HistoryIInv, NEW a \in Actors, NEW d \in DeltasBy(a), SubmitRequest(a, d)
    PROVE  Behind'
  <1> USE DEF HistoryIInv, HostIInv
  <1>1. /\ pc[a] = "idle" /\ delta' = [delta EXCEPT ![a] = d]
        /\ UNCHANGED <<wavelet, announced, stored>>
    BY DEF SubmitRequest
  <1>2. delta'[a] = d /\ \A b \in Actors \ {a} : delta'[b] = delta[b]
    BY <1>1 DEF Records
  <1>3. /\ \E s \in {"persisting", "done", "queued"} : pc' = [pc EXCEPT ![a] = s]
        /\ pc'[a] = "persisting" => Processable(wavelet, d)
    BY DEF SubmitRequest, Process, Refuse, SendFailed, HostPhaseInv, Phases
  <1>4. pc'[a] = "persisting" => IsPrefix(d.base.hash, wavelet.hash)
    BY <1>3, ProcessedIsPrefix
  <1>5. IsDeltaOf(a, d, Done)
    BY DeltaByIsDeltaOf
  <1>6. /\ pc' = [b \in Actors |-> pc'[b]]
        /\ \A b \in Actors \ {a} : pc'[b] = pc[b]
    BY <1>3 DEF HostPhaseInv, Phases
  <1> QED
    BY <1>1, <1>2, <1>4, <1>5, <1>6, BehindKept

LEMMA SubmitEntersBehind ==
    ASSUME HistoryIInv, NEW a \in Actors, SubmitEnters(a)
    PROVE  Behind'
  <1> USE DEF HistoryIInv, HostIInv
  <1>1. pc[a] = "queued" /\ UNCHANGED <<delta, wavelet, announced, stored>>
    BY DEF SubmitEnters
  <1>2. /\ \E s \in {"persisting", "done"} : pc' = [pc EXCEPT ![a] = s]
        /\ pc'[a] = "persisting" => Processable(wavelet, delta[a])
    BY DEF SubmitEnters, Process, Refuse, SendFailed, HostPhaseInv, Phases
  <1>3. pc'[a] = "persisting" => IsPrefix(delta[a].base.hash, wavelet.hash)
    BY <1>2, ProcessedIsPrefix
  <1>4. /\ pc' = [b \in Actors |-> pc'[b]]
        /\ \A b \in Actors \ {a} : pc'[b] = pc[b]
    BY <1>2 DEF HostPhaseInv, Phases
  <1> QED
    BY <1>1, <1>3, <1>4, BehindKept

\* A persisting actor ends: it is among those that may be in a history now, and
\* nobody else is persisting.
LEMMA EndsPersisting ==
    ASSUME HistoryIInv, NEW a \in Actors, pc[a] = "persisting",
           pc' = [pc EXCEPT ![a] = "done"], UNCHANGED delta
    PROVE  /\ Done' = Done \cup {a} /\ BaseOf' = BaseOf
           /\ \A b \in Actors : pc'[b] # "persisting"
           /\ GoodHistory(Done', BaseOf', wavelet)
           /\ delta[a] \in DeltasOn(Done', BaseOf')
           /\ announced \subseteq HashedVersions(Done')
           /\ \A b \in Actors : pc'[b] # "idle" => IsDeltaOf(b, delta[b], Done')
  <1> USE DEF HistoryIInv, HostIInv
  <1>1. Done' = Done \cup {a} /\ BaseOf' = BaseOf
    BY DEF Done, BaseOf, HostPhaseInv, Phases
  <1>2. \A b \in Actors : pc'[b] # "persisting"
    BY PersistingIsAlone DEF OneDeltaInProgress, HostPhaseInv, Phases
  <1>3. GoodHistory(Done', BaseOf', wavelet)
    BY <1>1, GoodHistoryOfMore DEF Behind
  <1>4. \A b \in Actors : pc'[b] # "idle" => IsDeltaOf(b, delta[b], Done')
    BY <1>1, IdsGrow DEF Behind, HostPhaseInv, Phases
  <1>5. delta[a] \in DeltasOn(Done', BaseOf')
    <2>1. IsDeltaOf(a, delta[a], Done')
      BY <1>4 DEF HostPhaseInv, Phases
    <2>2. BaseOf'[a] = delta[a].base.hash /\ a \in Done'
      BY <1>1 DEF BaseOf
    <2> QED
      BY <2>1, <2>2 DEF IsDeltaOf, DeltasOn
  <1>6. announced \subseteq HashedVersions(Done')
    BY <1>1, IdsGrow DEF Behind
  <1> QED
    BY <1>1, <1>2, <1>3, <1>4, <1>5, <1>6

LEMMA SubmitAppliesBehind ==
    ASSUME HistoryIInv, NEW a \in Actors, SubmitApplies(a)
    PROVE  Behind'
  <1> USE DEF HistoryIInv, HostIInv
  <1>1. /\ pc[a] = "persisting" /\ pc' = [pc EXCEPT ![a] = "done"]
        /\ wavelet' = Applied(wavelet, delta[a])
        /\ announced' = announced \cup {HashedVersion(wavelet')}
        /\ UNCHANGED <<delta, stored>>
    BY DEF SubmitApplies
  <1>2. IsPrefix(delta[a].base.hash, wavelet.hash)
    BY <1>1 DEF Behind
  <1>3. GoodHistory(Done', BaseOf', wavelet')
    BY <1>1, <1>2, EndsPersisting, AppliedIsGood
  <1>4. HashedVersion(wavelet') \in HashedVersions(Done')
    BY <1>3 DEF GoodHistory, Histories, HashedVersion, HashedVersions
  <1>5. announced' \subseteq HashedVersions(Done')
    BY <1>1, <1>4, EndsPersisting
  <1>6. \A u \in ToSet(stored') : IsStored(u)'
    BY <1>1 DEF Behind, IsStored, HostPhaseInv, Phases
  <1> QED
    BY <1>1, <1>3, <1>5, <1>6, EndsPersisting DEF Behind

LEMMA SubmitMisappliesBehind ==
    ASSUME HistoryIInv, NEW a \in Actors, SubmitMisapplies(a)
    PROVE  Behind'
  <1> USE DEF HistoryIInv, HostIInv
  <1>1. /\ pc[a] = "persisting" /\ pc' = [pc EXCEPT ![a] = "done"]
        /\ \E k \in 0..(delta[a].ops - 1) : wavelet' = AppliedPartly(wavelet, delta[a], k)
        /\ UNCHANGED <<delta, stored, announced>>
    BY DEF SubmitMisapplies, SendFailed
  <1>2. delta[a].id \in Done' /\ delta[a].ops \in Nat
    BY <1>1, EndsPersisting DEF DeltasOn
  <1>3. PICK k \in Nat : wavelet' = AppliedPartly(wavelet, delta[a], k)
    BY <1>1, <1>2
  <1>4. GoodHistory(Done', BaseOf', wavelet')
    BY <1>1, <1>2, <1>3, EndsPersisting, AppliedPartlyIsGood
  <1>5. \A u \in ToSet(stored') : IsStored(u)'
    BY <1>1 DEF Behind, IsStored, HostPhaseInv, Phases
  <1> QED
    BY <1>1, <1>4, <1>5, EndsPersisting DEF Behind

LEMMA SubmitTimesOutBehind ==
    ASSUME HistoryIInv, NEW a \in Actors, SubmitTimesOut(a)
    PROVE  Behind'
  <1> USE DEF HistoryIInv, HostIInv
  <1>1. /\ pc[a] = "persisting" /\ pc' = [pc EXCEPT ![a] = "done"]
        /\ UNCHANGED <<delta, stored, wavelet, announced>>
    BY DEF SubmitTimesOut, SendFailed
  <1> QED
    BY <1>1, BehindKept DEF HostPhaseInv, Phases

LEMMA StorePersistsBehind ==
    ASSUME HistoryIInv, StorePersists
    PROVE  Behind'
  <1> USE DEF HistoryIInv, HostIInv
  <1>1. /\ mailbox # <<>> /\ stored' = WriteToMemory(stored, Head(mailbox))
        /\ UNCHANGED <<wavelet, pc, delta, announced>>
    BY DEF StorePersists
  <1>2. Head(mailbox) \in ToSet(mailbox)
    BY <1>1, TailToSet DEF Records
  <1>3. IsStored(Head(mailbox))
    BY <1>2 DEF Records, IsStored
  <1>4. IsSequence(stored') /\ ToSet(stored') \subseteq ToSet(stored) \cup {Head(mailbox)}
    BY <1>1, AppendToSet DEF WriteToMemory, Behind
  <1>5. \A u \in ToSet(stored') : IsStored(u)'
    BY <1>1, <1>3, <1>4 DEF Behind, IsStored
  <1>6. Done' = Done /\ BaseOf' = BaseOf
    BY <1>1 DEF Done, BaseOf
  <1> QED
    BY <1>1, <1>4, <1>5, <1>6 DEF Behind

\* While the history is replayed nobody waits for the store, so that what it
\* holds are deltas of actors that have ended.
LEMMA StoredDeltas ==
    ASSUME HistoryIInv, initActor = "running"
    PROVE  /\ DeltasOf(stored) \in Seq(DeltasOn(Done, BaseOf))
           /\ Len(DeltasOf(stored)) = Len(stored)
           /\ \A i \in 1..Len(stored) :
                 /\ DeltasOf(stored)[i] = stored[i].delta
                 /\ stored[i].delta \in DeltasOn(Done, BaseOf)
  <1> USE DEF HistoryIInv, HostIInv
  <1>1. \A a \in Actors : pc[a] # "persisting"
    BY DEF HostPhaseInv, Phases, LockIInv, OwnerServed, DisabledIdle
  <1> DEFINE n == Len(stored)
             deltas == DeltasOf(stored)
  <1>2. n \in Nat /\ DOMAIN stored = 1..n /\ \A i \in 1..n : stored[i] \in ToSet(stored)
    BY LenProperties, ElementOfSeq DEF Behind, IsSequence
  <1>3. ASSUME NEW i \in 1..n
        PROVE  stored[i].delta \in DeltasOn(Done, BaseOf)
    <2>1. PICK a \in Actors : a = stored[i].actor /\ stored[i].delta = delta[a]
                                 /\ pc[a] = "done"
      BY <1>1, <1>2 DEF Behind, IsStored
    <2>2. IsDeltaOf(a, delta[a], Done)
      BY <2>1 DEF Behind
    <2>3. a \in Done /\ BaseOf[a] = delta[a].base.hash
      BY <2>1 DEF Done, BaseOf
    <2> QED
      BY <2>1, <2>2, <2>3 DEF IsDeltaOf, DeltasOn
  <1>4. /\ deltas \in Seq(DeltasOn(Done, BaseOf)) /\ Len(deltas) = n
        /\ \A i \in 1..n : deltas[i] = stored[i].delta
    <2>1. deltas = [i \in 1..n |-> stored[i].delta]
      BY <1>2 DEF DeltasOf
    <2> HIDE DEF deltas
    <2> QED
      BY <1>2, <1>3, <2>1
  <1> QED
    BY <1>3, <1>4

\* Whatever the store holds can be replayed into a good history.
LEMMA ReplayBehind ==
    ASSUME HistoryIInv, initActor = "running",
           wavelet' = Replay(DeltasOf(stored)).wavelet,
           UNCHANGED <<pc, delta, stored, announced>>
    PROVE  Behind'
  <1> USE DEF HistoryIInv, HostIInv
  <1>1. \A a \in Actors : pc[a] # "persisting"
    BY DEF HostPhaseInv, Phases, LockIInv, OwnerServed, DisabledIdle
  <1> DEFINE deltas == DeltasOf(stored)
  <1>4. deltas \in Seq(DeltasOn(Done, BaseOf))
    BY StoredDeltas
  <1> HIDE DEF deltas
  <1>5. PICK run \in [0..Len(deltas) -> Replays(Done, BaseOf)] : IsReplay(run, deltas)
    BY <1>4, ReplayRuns
  <1>6. Len(deltas) \in 0..Len(deltas)
    BY <1>4, LenProperties
  <1>7. Replay(deltas) \in Replays(Done, BaseOf)
    BY <1>5, <1>6 DEF IsReplay
  <1>8. GoodHistory(Done, BaseOf, wavelet')
    BY <1>7 DEF Replays, deltas
  <1>9. Done' = Done /\ BaseOf' = BaseOf
    BY DEF Done, BaseOf
  <1>10. \A u \in ToSet(stored') : IsStored(u)'
    BY DEF Behind, IsStored
  <1> QED
    BY <1>1, <1>8, <1>9, <1>10 DEF Behind

LEMMA CrashBehind ==
    ASSUME HistoryIInv, Crash
    PROVE  Behind'
  <1> USE DEF HistoryIInv, HostIInv
  <1>1. /\ wavelet' = NewWavelet /\ stored' = ReadLog(commitLog)
        /\ \A a \in Actors : pc'[a] = IF pc[a] = "idle" THEN "idle" ELSE "done"
        /\ UNCHANGED <<delta, announced>>
    BY DEF Crash
  <1>2. Done \subseteq Done'
    BY <1>1 DEF Done
  <1>3. GoodHistory(Done', BaseOf', wavelet')
    BY <1>1, NewWaveletIsGood
  <1>4. IsSequence(stored') /\ ToSet(stored') \subseteq Logged
    BY <1>1, ReadLogIsFromLog DEF Records, Logged
  <1>5. \A u \in ToSet(stored') : IsStored(u)'
    BY <1>1, <1>4 DEF Records, IsStored
  <1>6. /\ announced' \subseteq HashedVersions(Done')
        /\ \A a \in Actors : pc'[a] # "idle" => IsDeltaOf(a, delta'[a], Done')
    BY <1>1, <1>2, IdsGrow DEF Behind
  <1> QED
    BY <1>1, <1>3, <1>4, <1>5, <1>6 DEF Behind

LEMMA HostNextBehind == HistoryIInv /\ [HostNext]_allVars => Behind'
  <1> SUFFICES ASSUME HistoryIInv, [HostNext]_allVars
               PROVE  Behind'
    OBVIOUS
  <1>1. CASE \E a \in Actors : \E d \in DeltasBy(a) : SubmitRequest(a, d)
    BY <1>1, SubmitRequestBehind
  <1>2. CASE \E a \in Actors : SubmitEnters(a)
    BY <1>2, SubmitEntersBehind
  <1>3. CASE \E a \in Actors : SubmitApplies(a) \/ SubmitMisapplies(a)
    BY <1>3, SubmitAppliesBehind, SubmitMisappliesBehind
  <1>4. CASE \E a \in Actors : SubmitTimesOut(a)
    BY <1>4, SubmitTimesOutBehind
  <1>5. CASE StorePersists
    BY <1>5, StorePersistsBehind
  <1>6. CASE ReplaySucceeds \/ ReplayFails
    BY <1>6, ReplayBehind DEF ReplaySucceeds, ReplayFails, InitSucceeds, InitFails
  <1>7. CASE ReplayTimesOut \/ UNCHANGED allVars
    <2>1. UNCHANGED <<wavelet, pc, delta, stored, announced>>
      BY <1>7 DEF ReplayTimesOut, allVars, hostVars
    <2>2. Done' = Done /\ BaseOf' = BaseOf
      BY <2>1 DEF Done, BaseOf
    <2> QED
      BY <2>1, <2>2 DEF HistoryIInv, Behind, IsStored
  <1>8. CASE Crash
    BY <1>8, CrashBehind
  <1> QED
    BY <1>1, <1>2, <1>3, <1>4, <1>5, <1>6, <1>7, <1>8 DEF HostNext, Deliver

\* Announced versions, the bases of deltas under way, the history and the store's
\* memory only name actors that have ended, and whoever persists a delta based it
\* on a history the wavelet still begins with.
THEOREM HistoryInvariant == HostSpec => []HistoryIInv
  <1>1. HostInit => HistoryIInv
    BY HostInitPhases, HostInitRecords, HostInitBehind DEF HistoryIInv, HostIInv
  <1>2. HistoryIInv /\ [HostNext]_allVars => HistoryIInv'
    BY HostNextPhases, HostNextRecords, HostNextBehind DEF HistoryIInv, HostIInv
  <1> QED
    BY <1>1, <1>2, PTL DEF HostSpec

\* Whatever fails, torn records and the forks they cause included: a delta is
\* only applied behind the very history its author based it on.
THEOREM HostAppliedBehindItsBase == HostSpec => []AppliedBehindItsBase
  <1>1. HistoryIInv => AppliedBehindItsBase
    <2> SUFFICES ASSUME HistoryIInv, NEW i \in DOMAIN wavelet.hash
                 PROVE  IsPrefix(delta[wavelet.hash[i]].base.hash,
                                 SubSeq(wavelet.hash, 1, i - 1))
      BY DEF AppliedBehindItsBase
    <2>1. wavelet.hash \in Seq(Done) /\ BehindBase(wavelet.hash, BaseOf)
      BY DEF HistoryIInv, Behind, GoodHistory, Histories
    <2>2. wavelet.hash[i] \in Done
      BY <2>1, LenProperties, ElementOfSeq
    <2> QED
      BY <2>1, <2>2 DEF BehindBase, BaseOf, Done
  <1> QED
    BY <1>1, HistoryInvariant, PTL

-----------------------------------------------------------------------------
(* When nothing fails but the process. *)

EndOf(log) == IF log = <<>> THEN 0 ELSE EndVersion(log[Len(log)])

\* Every record of the log begins where the one before it ends.
Chained(log) ==
    /\ IsSequence(log)
    /\ \A i \in 1..Len(log) :
          /\ log[i] # Torn
          /\ log[i].at = IF i = 1 THEN 0 ELSE EndVersion(log[i - 1])
          /\ log[i].delta.base.version <= log[i].at

\* The wavelet in RAM is what the log says.
InSync ==
    wavelet.version = EndOf(commitLog) /\ wavelet.hash = IdsOf(commitLog)

\* The delta of a persisting actor is on its way to the store ...
Sent(a) ==
    /\ mailbox = <<PersistMsg(a, delta[a])>> /\ acks = {}
    /\ delta[a].base.version <= wavelet.version
    /\ \A i \in 1..Len(commitLog) : commitLog[i].actor # a
    /\ InSync

\* ... or in the log, and the ack on its way to the actor.
Acked(a) ==
    /\ mailbox = <<>> /\ acks = {a}
    /\ EndOf(commitLog) = wavelet.version + delta[a].ops
    /\ IdsOf(commitLog) = Append(wavelet.hash, a)

Quiet == \A a \in Actors : pc[a] # "persisting"

Told ==
    \A a \in Actors :
        /\ answer[a].status \in {"none", "ok", "failed"}
        /\ pc[a] # "done" => answer[a].status = "none"
        /\ answer[a].status = "ok" => /\ answer[a].hash \in Seq(Actors)
                                      /\ IsPrefix(answer[a].hash, IdsOf(commitLog))

Synced ==
    /\ faults.timeouts = 0 /\ faults.torn = 0
    /\ \A a \in Actors : pc[a] # "idle" => delta[a].fits
    /\ stored = commitLog /\ Chained(commitLog)
    /\ Quiet => /\ mailbox = <<>> /\ acks = {}
                /\ initActor = "done" => InSync
    /\ \A a \in Actors : pc[a] = "persisting" => Sent(a) \/ Acked(a)
    /\ Told

SyncedIInv == HistoryIInv /\ Synced

\* Nothing fails but the process itself: no record is torn, no actor gives up
\* waiting, every delta fits.
OnlyCrashes == MaxTimeouts = 0 /\ MaxTornWrites = 0 /\ ~Misfits

-----------------------------------------------------------------------------
LEMMA IdsOfAppend ==
    ASSUME NEW s, IsSequence(s), NEW e, e.delta.id \in Actors,
           \A i \in 1..Len(s) : s[i].delta.id \in Actors
    PROVE  /\ IdsOf(s) \in Seq(Actors) /\ Len(IdsOf(s)) = Len(s)
           /\ IdsOf(Append(s, e)) = Append(IdsOf(s), e.delta.id)
  <1> DEFINE t == Append(s, e)
             n == Len(s)
             ids == [i \in 1..n |-> s[i].delta.id]
             more == [i \in 1..(n + 1) |-> t[i].delta.id]
             longer == Append(ids, e.delta.id)
  <1>1. s \in Seq(ToSet(s)) /\ n \in Nat
    BY LenProperties DEF IsSequence
  <1>2. /\ t \in Seq(ToSet(s) \cup {e}) /\ Len(t) = n + 1
        /\ \A i \in 1..n : t[i] = s[i]
        /\ t[n + 1] = e
    <2>1. s \in Seq(ToSet(s) \cup {e})
      BY <1>1, SeqMonotonic
    <2> QED
      BY <2>1, AppendProperties
  <1>3. DOMAIN s = 1..n /\ DOMAIN t = 1..(n + 1)
    BY <1>1, <1>2, LenProperties
  <1>4. IdsOf(s) = ids /\ IdsOf(t) = more
    BY <1>3 DEF IdsOf
  <1>5. ids \in Seq(Actors) /\ Len(ids) = n /\ \A i \in 1..n : ids[i] = s[i].delta.id
    BY <1>1
  <1>6. /\ longer \in Seq(Actors) /\ Len(longer) = n + 1
        /\ \A i \in 1..n : longer[i] = ids[i]
        /\ longer[n + 1] = e.delta.id
    <2> HIDE DEF ids
    <2> QED
      BY <1>5, AppendProperties
  <1>7. /\ more \in Seq(Actors) /\ Len(more) = n + 1
        /\ \A i \in 1..(n + 1) : more[i] = t[i].delta.id
    <2>1. \A i \in 1..(n + 1) : t[i].delta.id \in Actors
      <3> HIDE DEF t
      <3> QED
        BY <1>1, <1>2
    <2> HIDE DEF t
    <2> QED
      BY <1>1, <2>1
  <1>8. more = longer
    <2>1. \A i \in 1..(n + 1) : more[i] = longer[i]
      <3> HIDE DEF t, more, longer, ids
      <3> QED
        BY <1>1, <1>2, <1>5, <1>6, <1>7, SMTT(30)
    <2> HIDE DEF t, more, longer, ids
    <2> QED
      BY <1>6, <1>7, <2>1, SeqEqual
  <1> QED
    BY <1>4, <1>5, <1>8

LEMMA EmptyIds == IdsOf(<<>>) = <<>>
  BY DEF IdsOf

\* A record that begins where the log ends makes a longer log.
LEMMA ChainedAppend ==
    ASSUME NEW log, Chained(log), NEW u, u # Torn, u.at = EndOf(log),
           u.delta.base.version <= u.at
    PROVE  /\ Chained(Append(log, u))
           /\ EndOf(Append(log, u)) = EndVersion(u)
           /\ Follows(log, u)
  <1> DEFINE t == Append(log, u)
             n == Len(log)
  <1>1. log \in Seq(ToSet(log)) /\ n \in Nat /\ (log = <<>> <=> n = 0)
    BY LenProperties, EmptySeq DEF Chained, IsSequence
  <1>2. /\ IsSequence(t) /\ t # <<>> /\ Len(t) = n + 1
        /\ \A i \in 1..n : t[i] = log[i]
        /\ t[n + 1] = u
    <2>1. log \in Seq(ToSet(log) \cup {u})
      BY <1>1, SeqMonotonic
    <2>2. /\ t \in Seq(ToSet(log) \cup {u}) /\ Len(t) = n + 1
          /\ \A i \in 1..n : t[i] = log[i]
          /\ t[n + 1] = u
      BY <2>1, AppendProperties
    <2>3. IsSequence(t)
      BY AppendToSet DEF Chained
    <2> HIDE DEF t
    <2>4. t # <<>>
      BY <1>1, <2>2, EmptySeq
    <2> QED
      BY <2>2, <2>3, <2>4
  <1>3. EndOf(log) = IF n = 0 THEN 0 ELSE EndVersion(log[n])
    BY <1>1 DEF EndOf
  <1> HIDE DEF t
  <1>4. EndOf(t) = EndVersion(u)
    BY <1>2 DEF EndOf
  <1>5. ASSUME NEW i \in 1..(n + 1)
        PROVE  /\ t[i] # Torn
               /\ t[i].at = IF i = 1 THEN 0 ELSE EndVersion(t[i - 1])
               /\ t[i].delta.base.version <= t[i].at
    <2>1. CASE i \in 1..n
      <3>1. i # 1 => i - 1 \in 1..n
        BY <1>1, <2>1
      <3>2. i # 1 => t[i - 1] = log[i - 1]
        BY <1>2, <3>1
      <3> QED
        BY <1>2, <2>1, <3>2 DEF Chained
    <2>2. CASE i = n + 1
      <3>1. n # 0 => t[n] = log[n]
        BY <1>1, <1>2
      <3> QED
        BY <1>1, <1>2, <1>3, <2>2, <3>1
    <2> QED
      BY <1>1, <2>1, <2>2
  <1>6. Chained(t)
    BY <1>2, <1>5 DEF Chained
  <1>7. Follows(log, u)
    <2>1. ASSUME log # <<>>
          PROVE  Last(log) = log[n]
      BY DEF Last
    <2> QED
      BY <1>1, <1>3, <2>1 DEF Follows
  <1> QED
    BY <1>4, <1>6, <1>7 DEF t

\* A log whose records follow each other is read to its end.
LEMMA ChainedIsRead ==
    ASSUME NEW log, Chained(log)
    PROVE  ReadLog(log) = log
  <1> DEFINE n == Len(log)
             E == ToSet(log)
  <1>1. log \in Seq(E) /\ n \in Nat /\ DOMAIN log = 1..n
    BY LenProperties DEF Chained, IsSequence
  <1>2. PICK run \in [0..n -> Loads(log)] : IsLoad(run, log)
    BY ReadLogRuns DEF Chained
  <1> DEFINE T == {i \in Nat : i <= n => /\ run[i].reading
                                         /\ run[i].chain = SubSeq(log, 1, i)}
  <1>3. 0 \in T
    <2>1. SubSeq(log, 1, 0) = <<>>
      BY SubSeqEmpty
    <2>2. run[0].reading /\ run[0].chain = <<>>
      BY <1>2 DEF IsLoad
    <2> QED
      BY <2>1, <2>2
  <1>4. ASSUME NEW i \in Nat, i \in T
        PROVE  i + 1 \in T
    <2> SUFFICES ASSUME i + 1 <= n
                 PROVE  /\ run[i + 1].reading
                        /\ run[i + 1].chain = SubSeq(log, 1, i + 1)
      OBVIOUS
    <2> DEFINE u == log[i + 1]
               s == SubSeq(log, 1, i)
    <2>1. run[i].reading /\ run[i].chain = s /\ run[i] \in Loads(log)
      BY <1>1, <1>2, <1>4
    <2>2. i + 1 \in 1..n /\ (i + 1) - 1 = i
      BY <1>1
    <2>3. run[i + 1] = LoadStep(run[i], u)
      BY <1>2, <2>2 DEF IsLoad
    <2>4. s \in Seq(E) /\ Len(s) = i /\ \A j \in 1..i : s[j] = log[j]
      BY <1>1, <2>2
    <2>5. u # Torn /\ u.at = (IF i = 0 THEN 0 ELSE EndVersion(log[i]))
             /\ u.delta.base.version <= u.at
      BY <2>2 DEF Chained
    <2>6. Follows(s, u)
      <3>1. ASSUME s # <<>>
            PROVE  i # 0 /\ Last(s) = log[i]
        <4>1. i # 0
          BY <2>4, <3>1, EmptySeq
        <4> HIDE DEF s
        <4> QED
          BY <2>4, <4>1 DEF Last
      <3> HIDE DEF s
      <3> QED
        BY <2>5, <3>1 DEF Follows
    <2>7. SubSeq(log, 1, i + 1) = Append(s, u)
      <3>1. u \in E
        BY <1>1, <2>2, ElementOfSeq
      <3>2. /\ Append(s, u) \in Seq(E) /\ Len(Append(s, u)) = i + 1
            /\ \A j \in 1..i : Append(s, u)[j] = s[j]
            /\ Append(s, u)[i + 1] = u
        <4> HIDE DEF s, u
        <4> QED
          BY <2>4, <3>1, AppendProperties
      <3>3. /\ SubSeq(log, 1, i + 1) \in Seq(E) /\ Len(SubSeq(log, 1, i + 1)) = i + 1
            /\ \A j \in 1..(i + 1) : SubSeq(log, 1, i + 1)[j] = log[j]
        BY <1>1, <2>2
      <3>4. \A j \in 1..(i + 1) : SubSeq(log, 1, i + 1)[j] = Append(s, u)[j]
        <4>1. ASSUME NEW j \in 1..(i + 1)
              PROVE  SubSeq(log, 1, i + 1)[j] = Append(s, u)[j]
          <5>1. CASE j \in 1..i
            BY <2>4, <3>2, <3>3, <5>1
          <5>2. CASE j = i + 1
            BY <3>2, <3>3, <5>2
          <5> QED
            BY <5>1, <5>2
        <4> QED
          BY <4>1
      <3> HIDE DEF s, u
      <3> QED
        BY <3>2, <3>3, <3>4, SeqEqual
    <2>8. LoadStep(run[i], u) = [run[i] EXCEPT !.chain = Append(run[i].chain, u)]
      BY <2>1, <2>5, <2>6 DEF LoadStep, Readable
    <2> QED
      BY <2>1, <2>3, <2>7, <2>8 DEF Loads
  <1>5. n \in T
    <2> HIDE DEF T
    <2> QED
      BY <1>1, <1>3, <1>4, SetInduction
  <1>6. ReadLog(log) = SubSeq(log, 1, n)
    BY <1>1, <1>2, <1>5 DEF IsLoad
  <1> QED
    BY <1>1, <1>6, SubSeqFull

-----------------------------------------------------------------------------
LEMMA HostInitSynced == HostInit => Synced
  <1> SUFFICES ASSUME HostInit
               PROVE  Synced
    OBVIOUS
  <1>1. IsSequence(commitLog) /\ Len(commitLog) = 0
    BY EmptySeq DEF HostInit, IsSequence
  <1>2. Chained(commitLog)
    BY <1>1 DEF Chained
  <1>3. /\ Quiet /\ mailbox = <<>> /\ acks = {} /\ initActor # "done"
        /\ \A a \in Actors : pc[a] = "idle" /\ answer[a].status = "none"
    BY DEF HostInit, LockInit, Quiet, NotAnswered, Answer
  <1>4. stored = commitLog /\ faults.timeouts = 0 /\ faults.torn = 0
    BY DEF HostInit
  <1>5. Told
    BY <1>3 DEF Told
  <1> QED
    BY <1>2, <1>3, <1>4, <1>5 DEF Synced

\* Whoever is let in finds nothing on its way and the wavelet as in the log.
LEMMA LetInIsQuiet ==
    ASSUME SyncedIInv, NEW a \in Actors, IsFree \/ a \in posted
    PROVE  Quiet /\ mailbox = <<>> /\ acks = {} /\ InSync
  <1> USE DEF SyncedIInv, HistoryIInv, HostIInv
  <1>1. Quiet
    <2>1. \A b \in inside : a \notin posted /\ ~IsFree
      BY NoActorAssumption DEF HostPhaseInv, LockIInv, OwnerServed, LockTypeOK, IsFree
    <2> QED
      BY <2>1 DEF Quiet, HostPhaseInv, Phases
  <1>2. m_enabled
    BY DEF HostPhaseInv, LockIInv, OwnerServed, DisabledIdle, IsFree
  <1>3. initActor = "done"
    BY <1>2 DEF HostPhaseInv, LockIInv, DisabledIdle
  <1> QED
    BY <1>1, <1>3 DEF Synced

\* A step that moves nothing between the wavelet, the store and the actors that
\* wait for it.
LEMMA SyncedKept ==
    ASSUME Synced, UNCHANGED <<wavelet, mailbox, acks, stored, commitLog, faults>>,
           initActor' = "done" => initActor = "done",
           \A b \in Actors : pc'[b] = "persisting" <=> pc[b] = "persisting",
           \A b \in Actors : pc[b] = "persisting" => delta'[b] = delta[b],
           \A b \in Actors : pc'[b] # "idle" => delta'[b].fits,
           Told'
    PROVE  Synced'
  <1>1. (Quiet => InSync \/ initActor # "done") => (Quiet' => InSync' \/ initActor' # "done")
    BY DEF Quiet, InSync
  <1>2. ASSUME NEW b \in Actors, pc'[b] = "persisting"
        PROVE  Sent(b)' \/ Acked(b)'
    BY <1>2 DEF Synced, Sent, Acked, InSync, PersistMsg
  <1>3. Quiet' => mailbox' = <<>> /\ acks' = {}
    BY DEF Synced, Quiet
  <1> QED
    BY <1>1, <1>2, <1>3 DEF Synced

\* A delta that has been checked is posted to the store.
LEMMA ProcessSynced ==
    ASSUME SyncedIInv, NEW a \in Actors, NEW d, IsDeltaOf(a, d, Done), d.fits,
           IsFree \/ a \in posted, pc[a] \in {"idle", "queued"}, Process(a, d),
           delta' = [delta EXCEPT ![a] = d],
           UNCHANGED <<wavelet, acks, stored, commitLog, faults>>
    PROVE  Synced'
  <1> USE DEF SyncedIInv, HistoryIInv, HostIInv
  <1>1. Quiet /\ mailbox = <<>> /\ acks = {} /\ InSync
    BY LetInIsQuiet
  <1>2. /\ pc' = [pc EXCEPT ![a] = "persisting"] /\ answer' = answer
        /\ mailbox' = Append(<<>>, PersistMsg(a, d))
    BY <1>1 DEF Process
  <1>3. pc'[a] = "persisting" /\ \A b \in Actors \ {a} : pc'[b] = pc[b]
    BY <1>2 DEF HostPhaseInv, Phases
  <1>4. delta'[a] = d /\ \A b \in Actors \ {a} : delta'[b] = delta[b]
    BY DEF Records
  <1>5. mailbox' = <<PersistMsg(a, d)>>
    <2> DEFINE m == PersistMsg(a, d)
    <2> HIDE DEF m
    <2>1. Append(<<>>, m) = <<m>>
      OBVIOUS
    <2> QED
      BY <1>2, <2>1 DEF m
  <1>6. d.base.version <= wavelet.version
    <2>1. d.base.version \in Nat /\ wavelet.version \in Nat
      BY DEF IsDeltaOf, HashedVersions, Behind, GoodHistory, Histories
    <2>2. CheckHashedVersion(wavelet, d.base)
      BY DEF Process, Processable
    <2>3. d.base = Version0 => d.base.version = 0
      BY DEF Version0
    <2>4. d.base = HashedVersion(wavelet) => d.base.version = wavelet.version
      BY DEF HashedVersion
    <2> QED
      BY <2>1, <2>2, <2>3, <2>4 DEF CheckHashedVersion
  <1>7. \A i \in 1..Len(commitLog) : commitLog[i].actor # a
    <2>1. \A i \in 1..Len(commitLog) : commitLog[i] \in Logged
      BY ElementOfSeq DEF Synced, Chained, IsSequence, Logged
    <2> QED
      BY <2>1 DEF Records
  <1>8. Sent(a)'
    <2>1. PersistMsg(a, d)' = PersistMsg(a, d)
      BY DEF PersistMsg
    <2> QED
      BY <1>1, <1>4, <1>5, <1>6, <1>7, <2>1 DEF Sent, InSync, PersistMsg
  <1>9. \A b \in Actors : pc'[b] = "persisting" => b = a
    BY <1>1, <1>3 DEF Quiet
  <1>10. ~Quiet'
    BY <1>3 DEF Quiet
  <1>11. Told'
    BY <1>2, <1>3 DEF Synced, Told
  <1>12. \A b \in Actors : pc'[b] # "idle" => delta'[b].fits
    BY <1>3, <1>4 DEF Synced
  <1> QED
    BY <1>8, <1>9, <1>10, <1>11, <1>12 DEF Synced

\* A delta that is refused.
LEMMA RefuseSynced ==
    ASSUME SyncedIInv, NEW a \in Actors, SendFailed(a), pc[a] \in {"idle", "queued"},
           delta'[a].fits, \A b \in Actors \ {a} : delta'[b] = delta[b],
           initActor' = initActor,
           UNCHANGED <<wavelet, mailbox, acks, stored, commitLog, faults>>
    PROVE  Synced'
  <1> USE DEF SyncedIInv, HistoryIInv, HostIInv
  <1>1. pc' = [pc EXCEPT ![a] = "done"] /\ answer' = [answer EXCEPT ![a] = Failed]
    BY DEF SendFailed
  <1>2. /\ pc'[a] = "done" /\ answer'[a].status = "failed"
        /\ \A b \in Actors \ {a} : pc'[b] = pc[b] /\ answer'[b] = answer[b]
    BY <1>1 DEF Failed, Answer, Records, HostPhaseInv, Phases
  <1>3. Told'
    BY <1>2 DEF Synced, Told
  <1>4. \A b \in Actors : pc'[b] = "persisting" <=> pc[b] = "persisting"
    BY <1>2
  <1>5. \A b \in Actors : pc[b] = "persisting" => delta'[b] = delta[b]
    OBVIOUS
  <1>6. \A b \in Actors : pc'[b] # "idle" => delta'[b].fits
    BY <1>2 DEF Synced
  <1> QED
    BY <1>3, <1>4, <1>5, <1>6, SyncedKept

LEMMA SubmitRequestSynced ==
    ASSUME SyncedIInv, OnlyCrashes, NEW a \in Actors, NEW d \in DeltasBy(a),
           SubmitRequest(a, d)
    PROVE  Synced'
  <1> USE DEF SyncedIInv, HistoryIInv, HostIInv
  <1>1. /\ pc[a] = "idle" /\ delta' = [delta EXCEPT ![a] = d]
        /\ initActor' = initActor
        /\ UNCHANGED <<wavelet, acks, stored, commitLog, faults>>
    BY DEF SubmitRequest
  <1>2. IsDeltaOf(a, d, Done) /\ d.fits
    BY DeltaByIsDeltaOf DEF OnlyCrashes, DeltasBy
  <1>3. delta'[a] = d /\ \A b \in Actors \ {a} : delta'[b] = delta[b]
    BY <1>1 DEF Records
  <1>4. CASE Process(a, d) /\ TryEnter(a)
    BY <1>1, <1>2, <1>4, ProcessSynced DEF TryEnter
  <1>5. CASE Refuse(a, d)
    BY <1>1, <1>2, <1>3, <1>5, RefuseSynced DEF Refuse
  <1>6. CASE pc' = [pc EXCEPT ![a] = "queued"] /\ UNCHANGED <<answer, mailbox>>
    <2>1. pc'[a] = "queued" /\ \A b \in Actors \ {a} : pc'[b] = pc[b]
      BY <1>6 DEF HostPhaseInv, Phases
    <2>2. Told'
      BY <1>1, <1>6, <2>1 DEF Synced, Told
    <2>3. \A b \in Actors : pc'[b] = "persisting" <=> pc[b] = "persisting"
      BY <1>1, <2>1
    <2>4. \A b \in Actors : pc[b] = "persisting" => delta'[b] = delta[b]
      BY <1>1, <1>3
    <2>5. \A b \in Actors : pc'[b] # "idle" => delta'[b].fits
      BY <1>2, <1>3, <2>1 DEF Synced
    <2> QED
      BY <1>1, <1>6, <2>2, <2>3, <2>4, <2>5, SyncedKept
  <1> QED
    BY <1>4, <1>5, <1>6 DEF SubmitRequest

LEMMA SubmitEntersSynced ==
    ASSUME SyncedIInv, OnlyCrashes, NEW a \in Actors, SubmitEnters(a)
    PROVE  Synced'
  <1> USE DEF SyncedIInv, HistoryIInv, HostIInv
  <1>1. /\ pc[a] = "queued" /\ a \in posted /\ initActor' = initActor
        /\ UNCHANGED <<delta, wavelet, acks, stored, commitLog, faults>>
    BY DEF SubmitEnters, Resume, Depart
  <1>2. IsDeltaOf(a, delta[a], Done) /\ delta[a].fits
    BY <1>1 DEF Behind, Synced
  <1>3. delta' = [delta EXCEPT ![a] = delta[a]]
    BY <1>1 DEF Records
  <1>4. CASE Process(a, delta[a])
    BY <1>1, <1>2, <1>3, <1>4, ProcessSynced
  <1>5. CASE Refuse(a, delta[a])
    BY <1>1, <1>2, <1>5, RefuseSynced DEF Refuse
  <1> QED
    BY <1>4, <1>5 DEF SubmitEnters

LEMMA SubmitAppliesSynced ==
    ASSUME SyncedIInv, OnlyCrashes, NEW a \in Actors, SubmitApplies(a)
    PROVE  /\ Synced' /\ answer[a].status = "none"
           /\ IdsOf(commitLog) = Append(wavelet.hash, a)
  <1> USE DEF SyncedIInv, HistoryIInv, HostIInv
  <1>1. /\ pc[a] = "persisting" /\ a \in acks /\ acks' = acks \ {a}
        /\ pc' = [pc EXCEPT ![a] = "done"]
        /\ wavelet' = Applied(wavelet, delta[a])
        /\ answer' = [answer EXCEPT ![a] = Answer("ok", wavelet')]
        /\ UNCHANGED <<delta, mailbox, stored, commitLog, faults>>
    BY DEF SubmitApplies
  <1>2. Acked(a)
    BY <1>1 DEF Synced, Sent
  <1>3. delta[a].id = a
    BY <1>1 DEF Behind, IsDeltaOf
  <1>4. InSync'
    BY <1>1, <1>2, <1>3 DEF Acked, InSync, Applied
  <1>5. /\ pc'[a] = "done" /\ answer'[a].status = "ok"
        /\ answer'[a].hash = IdsOf(commitLog)
        /\ \A b \in Actors \ {a} : pc'[b] = pc[b] /\ answer'[b] = answer[b]
    BY <1>1, <1>4 DEF Answer, InSync, Records, HostPhaseInv, Phases
  <1>6. Quiet'
    BY <1>1, <1>5, PersistingIsAlone DEF Quiet, OneDeltaInProgress
  <1>7. IdsOf(commitLog) \in Seq(Actors)
    <2>1. wavelet.hash \in Seq(Actors)
      <3>1. wavelet.hash \in Seq(Done) /\ Done \subseteq Actors
        BY DEF Behind, GoodHistory, Histories, Done
      <3> QED
        BY <3>1, SeqMonotonic
    <2> QED
      BY <1>2, <2>1, AppendProperties DEF Acked
  <1>8. Told'
    <2>1. IsPrefix(IdsOf(commitLog), IdsOf(commitLog))
      BY <1>7, PrefixReflexive
    <2> QED
      BY <1>1, <1>5, <1>7, <2>1 DEF Synced, Told
  <1>9. mailbox' = <<>> /\ acks' = {}
    BY <1>1, <1>2 DEF Acked
  <1>10. Synced'
    BY <1>1, <1>4, <1>5, <1>6, <1>8, <1>9 DEF Synced, Quiet
  <1>11. answer[a].status = "none"
    BY <1>1 DEF Synced, Told
  <1> QED
    BY <1>2, <1>10, <1>11 DEF Acked

\* Everything in the log is the delta of an actor that is named in it.
LEMMA LoggedIds ==
    ASSUME HistoryIInv
    PROVE  \A i \in 1..Len(commitLog) :
              commitLog[i] # Torn => /\ commitLog[i].actor \in Actors
                                     /\ commitLog[i].delta.id = commitLog[i].actor
                                     /\ pc[commitLog[i].actor] \in {"persisting", "done"}
  <1> USE DEF HistoryIInv, HostIInv
  <1>1. \A i \in 1..Len(commitLog) : commitLog[i] # Torn => commitLog[i] \in Logged
    BY ElementOfSeq DEF Records, IsSequence, Logged
  <1> QED
    BY <1>1 DEF Records, Behind, IsDeltaOf

\* A message to the store is a record, and not a part of one.
LEMMA NotTorn ==
    ASSUME HistoryIInv, NEW a \in Actors, pc[a] = "persisting"
    PROVE  PersistMsg(a, delta[a]) # Torn
  <1> USE DEF HistoryIInv, HostIInv
  <1>1. IsDeltaOf(a, delta[a], Done) /\ wavelet.version \in Nat
    BY DEF Behind, GoodHistory, Histories
  <1>2. HashedVersions(Done) \subseteq HashedVersions(Actors)
    BY IdsGrow DEF Done
  <1>3. PersistMsg(a, delta[a]) \in
           [actor : Actors, at : Nat,
            delta : [id : Actors, base : [version : Nat, hash : Seq(Actors)],
                     ops : Nat \ {0}, fits : BOOLEAN]]
    BY <1>1, <1>2 DEF PersistMsg, IsDeltaOf, HashedVersions
  <1> QED
    BY <1>3, HostAssumption

LEMMA StorePersistsSynced ==
    ASSUME SyncedIInv, OnlyCrashes, StorePersists
    PROVE  /\ Synced'
           /\ \E a \in Actors : /\ answer[a].status = "none"
                                /\ a \notin ToSet(IdsOf(commitLog))
                                /\ IdsOf(commitLog') = Append(IdsOf(commitLog), a)
  <1> USE DEF SyncedIInv, HistoryIInv, HostIInv
  <1>1. /\ mailbox # <<>> /\ mailbox' = Tail(mailbox)
        /\ stored' = WriteToMemory(stored, Head(mailbox))
        /\ Ack(Head(mailbox)) /\ WriteLog(Head(mailbox))
        /\ UNCHANGED <<csVars, wavelet, pc, delta, answer>>
    BY DEF StorePersists
  <1>2. PICK a \in Actors : pc[a] = "persisting"
    BY <1>1 DEF Synced, Quiet
  <1>3. Sent(a)
    BY <1>1, <1>2 DEF Synced, Acked
  <1> DEFINE u == PersistMsg(a, delta[a])
             ids == IdsOf(commitLog)
  <1>4. /\ u.actor = a /\ u.delta = delta[a] /\ u.at = wavelet.version
        /\ u # Torn
    BY <1>2, NotTorn DEF PersistMsg
  <1> HIDE DEF u
  <1>5. Head(mailbox) = u /\ mailbox' = <<>>
    <2>1. mailbox = <<u>>
      BY <1>3 DEF Sent, u
    <2>2. Head(<<u>>) = u /\ Tail(<<u>>) = <<>>
      OBVIOUS
    <2> QED
      BY <1>1, <2>1, <2>2
  <1>6. commitLog' = Append(commitLog, u) /\ UNCHANGED faults
    <2>1. ~(faults.torn < MaxTornWrites)
      BY DEF Synced, OnlyCrashes
    <2> QED
      BY <1>1, <1>5, <2>1 DEF WriteLog
  <1>7. acks' = {a}
    BY <1>1, <1>2, <1>3, <1>4, <1>5 DEF Ack, Sent
  <1>8. /\ Chained(commitLog') /\ EndOf(commitLog') = EndVersion(u)
        /\ Follows(commitLog, u)
    BY <1>3, <1>4, <1>6, ChainedAppend DEF Synced, Sent, InSync
  <1>9. stored' = commitLog'
    BY <1>1, <1>5, <1>6, <1>8 DEF WriteToMemory, Synced
  <1>10. /\ delta[a].id = a
         /\ \A i \in 1..Len(commitLog) : commitLog[i].delta.id = commitLog[i].actor
         /\ \A i \in 1..Len(commitLog) : commitLog[i].delta.id \in Actors
    BY <1>2, LoggedIds DEF Synced, Chained, Behind, IsDeltaOf
  <1>11. /\ ids \in Seq(Actors) /\ Len(ids) = Len(commitLog)
         /\ IdsOf(commitLog') = Append(ids, a)
    BY <1>4, <1>6, <1>10, IdsOfAppend DEF Synced, Chained
  <1>12. Acked(a)'
    BY <1>1, <1>3, <1>4, <1>5, <1>7, <1>8, <1>11 DEF Acked, Sent, InSync, EndVersion
  <1>13. Told'
    <2>1. ids \in Seq(Actors) /\ Append(ids, a) \in Seq(Actors)
             /\ IsPrefix(ids, Append(ids, a))
      BY <1>11, PrefixOfAppend, AppendProperties
    <2>2. ASSUME NEW b \in Actors, answer[b].status = "ok"
          PROVE  IsPrefix(answer[b].hash, Append(ids, a))
      <3>1. answer[b].hash \in Seq(Actors) /\ IsPrefix(answer[b].hash, ids)
        BY <2>2 DEF Synced, Told
      <3> HIDE DEF ids
      <3> QED
        BY <2>1, <3>1, PrefixTransitive
    <2> QED
      BY <1>1, <1>11, <2>2 DEF Synced, Told
  <1>14. \A b \in Actors : pc'[b] = "persisting" => b = a
    BY <1>1, <1>2, PersistingIsAlone DEF OneDeltaInProgress
  <1>15. ~Quiet'
    BY <1>1, <1>2 DEF Quiet
  <1>16. Synced'
    BY <1>1, <1>6, <1>8, <1>9, <1>12, <1>13, <1>14, <1>15 DEF Synced
  <1>17. answer[a].status = "none"
    BY <1>2 DEF Synced, Told
  <1>18. a \notin ToSet(ids)
    <2>1. \A i \in 1..Len(commitLog) : commitLog[i].delta.id # a
      BY <1>3, <1>10 DEF Sent
    <2>2. DOMAIN commitLog = 1..Len(commitLog)
      BY LenProperties DEF Synced, Chained, IsSequence
    <2> QED
      BY <2>1, <2>2 DEF ToSet, IdsOf
  <1> QED
    BY <1>11, <1>16, <1>17, <1>18

-----------------------------------------------------------------------------
(* The replay, when every record of the log follows the one before it. *)

LEMMA ReplayIsLog ==
    ASSUME HistoryIInv, Chained(stored), initActor = "running",
           Replay(DeltasOf(stored)).ok
    PROVE  /\ Replay(DeltasOf(stored)).wavelet.version = EndOf(stored)
           /\ Replay(DeltasOf(stored)).wavelet.hash = IdsOf(stored)
  <1> USE DEF HistoryIInv, HostIInv
  <1> DEFINE n == Len(stored)
             deltas == DeltasOf(stored)
             Good == DeltasOn(Done, BaseOf)
  <1>1. n \in Nat /\ DOMAIN stored = 1..n
    BY LenProperties DEF Chained, IsSequence
  <1>2. /\ deltas \in Seq(Good) /\ Len(deltas) = n
        /\ \A i \in 1..n : deltas[i] = stored[i].delta /\ stored[i].delta \in Good
    BY StoredDeltas
  <1> HIDE DEF deltas
  <1>3. PICK run \in [0..n -> Replays(Done, BaseOf)] : IsReplay(run, deltas)
    BY <1>2, ReplayRuns
  <1> DEFINE T == {i \in Nat : i <= n /\ run[i].ok =>
                     /\ run[i].wavelet.version = IF i = 0 THEN 0 ELSE EndVersion(stored[i])
                     /\ Len(run[i].wavelet.hash) = i
                     /\ \A j \in 1..i : run[i].wavelet.hash[j] = stored[j].delta.id}
  <1>4. 0 \in T
    <2>1. run[0].wavelet = NewWavelet
      BY <1>3 DEF IsReplay
    <2> QED
      BY <2>1 DEF NewWavelet, UrlHash
  <1>5. ASSUME NEW i \in Nat, i \in T
        PROVE  i + 1 \in T
    <2> SUFFICES ASSUME i + 1 <= n, run[i + 1].ok
                 PROVE  /\ run[i + 1].wavelet.version = EndVersion(stored[i + 1])
                        /\ Len(run[i + 1].wavelet.hash) = i + 1
                        /\ \A j \in 1..(i + 1) :
                              run[i + 1].wavelet.hash[j] = stored[j].delta.id
      <3>1. i + 1 \in Nat /\ i + 1 # 0
        OBVIOUS
      <3> QED
        BY <3>1
    <2> DEFINE d == stored[i + 1].delta
               w == run[i].wavelet
               v == run[i + 1].wavelet
    <2>1. i \in 0..n /\ i + 1 \in 1..n /\ (i + 1) - 1 = i
      BY <1>1
    <2>2. run[i + 1] = ReplayStep(run[i], d) /\ d \in Good
             /\ run[i] \in Replays(Done, BaseOf)
      BY <1>2, <1>3, <2>1 DEF IsReplay
    <2>3. run[i].ok /\ run[i + 1] = [run[i] EXCEPT !.wavelet = Applied(w, d)]
      <3>1. CASE run[i].ok /\ CheckHashedVersion(w, d.base) /\ d.fits
        BY <2>2, <3>1 DEF ReplayStep
      <3>2. CASE ~(run[i].ok /\ CheckHashedVersion(w, d.base) /\ d.fits)
        <4>1. run[i + 1] = [run[i] EXCEPT !.ok = FALSE]
          BY <2>2, <3>2 DEF ReplayStep
        <4> QED
          BY <2>2, <4>1 DEF Replays
      <3> QED
        BY <3>1, <3>2
    <2>4. v = Applied(w, d)
      BY <2>2, <2>3 DEF Replays
    <2>5. /\ w.version = IF i = 0 THEN 0 ELSE EndVersion(stored[i])
          /\ Len(w.hash) = i
          /\ \A j \in 1..i : w.hash[j] = stored[j].delta.id
      BY <1>5, <2>1, <2>3
    <2>6. w.hash \in Seq(Done) /\ w.version \in Nat
      BY <2>2 DEF Replays, Histories
    <2>7. d.id \in Done /\ d.ops \in Nat
      BY <2>2 DEF DeltasOn
    <2>8. v.version = w.version + d.ops /\ v.hash = Append(w.hash, d.id)
      <3> HIDE DEF d, w, v, T
      <3>1. /\ Applied(w, d).version = w.version + d.ops
            /\ Applied(w, d).hash = Append(w.hash, d.id)
        BY DEF Applied
      <3> QED
        BY <2>4, <3>1
    <2>9. stored[i + 1].at = IF i = 0 THEN 0 ELSE EndVersion(stored[i])
      BY <2>1 DEF Chained
    <2>10. v.version = EndVersion(stored[i + 1])
      BY <2>5, <2>8, <2>9 DEF EndVersion
    <2> HIDE DEF d, w, v
    <2>11. /\ Len(v.hash) = i + 1
           /\ \A j \in 1..i : v.hash[j] = w.hash[j]
           /\ v.hash[i + 1] = d.id
      BY <2>5, <2>6, <2>7, <2>8, AppendProperties
    <2>12. ASSUME NEW j \in 1..(i + 1)
           PROVE  v.hash[j] = stored[j].delta.id
      <3> HIDE DEF T
      <3>1. j \in 1..i \/ j = i + 1
        BY <2>1
      <3>2. CASE j \in 1..i
        BY <2>5, <2>11, <3>2
      <3>3. CASE j = i + 1
        BY <2>11, <3>3 DEF d
      <3> QED
        BY <3>1, <3>2, <3>3
    <2> QED
      BY <2>10, <2>11, <2>12 DEF v
  <1>6. n \in T
    <2> HIDE DEF T
    <2> QED
      BY <1>1, <1>4, <1>5, SetInduction
  <1>7. Replay(deltas) = run[n] /\ run[n] \in Replays(Done, BaseOf)
    BY <1>1, <1>2, <1>3 DEF IsReplay
  <1>8. run[n].ok
    BY <1>7 DEF deltas
  <1>9. run[n].wavelet.version = EndOf(stored)
    <2>1. n = 0 <=> stored = <<>>
      BY EmptySeq DEF Chained, IsSequence
    <2> QED
      BY <1>1, <1>6, <1>8, <2>1 DEF EndOf
  <1>10. run[n].wavelet.hash = IdsOf(stored)
    <2>1. IdsOf(stored) = [i \in 1..n |-> stored[i].delta.id]
      BY <1>1 DEF IdsOf
    <2>2. \A i \in 1..n : stored[i].delta.id \in Done
      BY <1>2 DEF DeltasOn
    <2>3. IdsOf(stored) \in Seq(Done) /\ Len(IdsOf(stored)) = n
      BY <1>1, <2>1, <2>2
    <2>4. run[n].wavelet.hash \in Seq(Done)
      BY <1>7 DEF Replays, Histories
    <2>5. /\ Len(run[n].wavelet.hash) = n
          /\ \A j \in 1..n : run[n].wavelet.hash[j] = IdsOf(stored)[j]
      BY <1>1, <1>6, <1>8, <2>1
    <2> QED
      BY <2>3, <2>4, <2>5, SeqEqual
  <1> QED
    BY <1>7, <1>9, <1>10 DEF deltas

LEMMA ReplaySynced ==
    ASSUME SyncedIInv, ReplaySucceeds \/ ReplayFails
    PROVE  Synced'
  <1> USE DEF SyncedIInv, HistoryIInv, HostIInv
  <1>1. /\ initActor = "running"
        /\ UNCHANGED <<pc, delta, mailbox, acks, stored, commitLog, answer, faults>>
    BY DEF ReplaySucceeds, ReplayFails, InitSucceeds, InitFails
  <1>2. Quiet /\ Quiet'
    BY <1>1 DEF Quiet, HostPhaseInv, Phases, LockIInv, OwnerServed, DisabledIdle
  <1>3. initActor' = "done" => InSync'
    <2>1. CASE ReplayFails
      BY <2>1 DEF ReplayFails, InitFails
    <2>2. CASE ReplaySucceeds
      <3>1. Replay(DeltasOf(stored)).ok /\ wavelet' = Replay(DeltasOf(stored)).wavelet
        BY <2>2 DEF ReplaySucceeds
      <3>2. Chained(stored) /\ stored = commitLog
        BY DEF Synced
      <3> QED
        BY <1>1, <3>1, <3>2, ReplayIsLog DEF InSync
    <2> QED
      BY <2>1, <2>2
  <1>4. Told'
    BY <1>1 DEF Synced, Told
  <1> QED
    BY <1>1, <1>2, <1>3, <1>4 DEF Synced, Quiet

LEMMA CrashSynced ==
    ASSUME SyncedIInv, Crash
    PROVE  Synced' /\ UNCHANGED <<commitLog, answer>>
  <1> USE DEF SyncedIInv, HistoryIInv, HostIInv
  <1>1. /\ pc' = [a \in Actors |-> IF pc[a] = "idle" THEN "idle" ELSE "done"]
        /\ mailbox' = <<>> /\ acks' = {} /\ stored' = ReadLog(commitLog)
        /\ UNCHANGED <<delta, commitLog, answer>>
        /\ initActor' = "running"
        /\ faults' = [faults EXCEPT !.crashes = @ + 1]
    BY DEF Crash, LockRestart
  <1>2. stored' = commitLog'
    BY <1>1, ChainedIsRead DEF Synced
  <1>3. Quiet'
    BY <1>1 DEF Quiet
  <1>4. Told'
    BY <1>1 DEF Synced, Told
  <1>5. faults'.timeouts = faults.timeouts /\ faults'.torn = faults.torn
    BY <1>1
  <1> QED
    BY <1>1, <1>2, <1>3, <1>4, <1>5 DEF Synced, Quiet

LEMMA HostNextSynced ==
    ASSUME OnlyCrashes
    PROVE  SyncedIInv /\ [HostNext]_allVars => Synced'
  <1> SUFFICES ASSUME SyncedIInv, [HostNext]_allVars
               PROVE  Synced'
    OBVIOUS
  <1>1. CASE \E a \in Actors : \E d \in DeltasBy(a) : SubmitRequest(a, d)
    BY <1>1, SubmitRequestSynced
  <1>2. CASE \E a \in Actors : SubmitEnters(a)
    BY <1>2, SubmitEntersSynced
  <1>3. CASE \E a \in Actors : SubmitApplies(a)
    BY <1>3, SubmitAppliesSynced
  <1>4. CASE \E a \in Actors : SubmitMisapplies(a) \/ SubmitTimesOut(a)
    BY <1>4 DEF SubmitMisapplies, SubmitTimesOut, SyncedIInv, Synced, OnlyCrashes
  <1>5. CASE StorePersists
    BY <1>5, StorePersistsSynced
  <1>6. CASE ReplaySucceeds \/ ReplayFails
    BY <1>6, ReplaySynced
  <1>7. CASE ReplayTimesOut
    BY <1>7 DEF ReplayTimesOut, SyncedIInv, Synced, OnlyCrashes
  <1>8. CASE Crash
    BY <1>8, CrashSynced
  <1>9. CASE UNCHANGED allVars
    <2>1. UNCHANGED <<initActor, wavelet, pc, delta, mailbox, acks, stored, commitLog,
                      answer, faults>>
      BY <1>9 DEF allVars, csVars, hostVars
    <2>2. Told'
      BY <2>1 DEF SyncedIInv, Synced, Told
    <2> QED
      BY <2>1, <2>2, SyncedKept DEF SyncedIInv, Synced
  <1> QED
    BY <1>1, <1>2, <1>3, <1>4, <1>5, <1>6, <1>7, <1>8, <1>9 DEF HostNext, Deliver

\* As long as nothing fails but the process itself, the log, the store's memory
\* and the wavelet agree up to the one record that is under way.
THEOREM SyncedInvariant ==
    ASSUME OnlyCrashes
    PROVE  HostSpec => []SyncedIInv
  <1>1. HostInit => SyncedIInv
    BY HostInitPhases, HostInitRecords, HostInitBehind, HostInitSynced
       DEF SyncedIInv, HistoryIInv, HostIInv
  <1>2. SyncedIInv /\ [HostNext]_allVars => SyncedIInv'
    BY HostNextPhases, HostNextRecords, HostNextBehind, HostNextSynced
       DEF SyncedIInv, HistoryIInv, HostIInv
  <1> QED
    BY <1>1, <1>2, PTL DEF HostSpec

\* However often the process is killed and restarted: whoever has been told "ok"
\* finds its delta in the log again, behind the very history it was told.
THEOREM HostAnsweredIsRecoverable ==
    ASSUME OnlyCrashes
    PROVE  HostSpec => []AnsweredIsRecoverable
  <1>1. SyncedIInv => AnsweredIsRecoverable
    BY ChainedIsRead DEF SyncedIInv, Synced, Told, AnsweredIsRecoverable
  <1> QED
    BY <1>1, SyncedInvariant, PTL

-----------------------------------------------------------------------------
(* The wavelet implements DurableHistory. *)

\* One step of the wavelet is one step of the promise, or none.
LEMMA HostStepIsPromised ==
    ASSUME OnlyCrashes, SyncedIInv, SyncedIInv', [HostNext]_allVars
    PROVE  [Promise!PromiseNext]_(Promise!promiseVars)
  <1> USE DEF SyncedIInv, HistoryIInv, HostIInv
  <1> DEFINE outcome == [a \in Actors |-> answer[a].status]
             history == IdsOf(ReadLog(commitLog))
  <1>1. history = IdsOf(commitLog) /\ history' = IdsOf(commitLog')
    <2>1. Chained(commitLog) /\ Chained(commitLog')
      BY DEF Synced, Chained, EndVersion
    <2> QED
      BY <2>1, ChainedIsRead
  <1> HIDE DEF history
  <1>2. ASSUME UNCHANGED <<commitLog, answer>>
        PROVE  UNCHANGED <<history, outcome>>
    BY <1>1, <1>2
  <1>3. ASSUME NEW a \in Actors, outcome[a] = "none", a \notin ToSet(history),
               history' = Append(history, a), UNCHANGED outcome
        PROVE  Promise!PromiseNext
    <2>1. Promise!Commit(a)
      BY <1>3 DEF history, Promise!Commit, Promise!Committed, Promise!ToSet, ToSet
    <2> QED
      BY <2>1 DEF Promise!PromiseNext
  <1>4. ASSUME NEW a \in Actors, outcome[a] = "none", a \in ToSet(history),
               outcome' = [outcome EXCEPT ![a] = "ok"], UNCHANGED history
        PROVE  Promise!PromiseNext
    <2>1. Promise!Accept(a)
      BY <1>4 DEF history, Promise!Accept, Promise!Committed, Promise!ToSet, ToSet
    <2> QED
      BY <2>1 DEF Promise!PromiseNext
  <1>5. ASSUME NEW a \in Actors, outcome[a] = "none", a \notin ToSet(history),
               outcome' = [outcome EXCEPT ![a] = "failed"], UNCHANGED history
        PROVE  Promise!PromiseNext
    <2>1. Promise!Reject(a)
      BY <1>5 DEF history, Promise!Reject, Promise!Committed, Promise!ToSet, ToSet
    <2> QED
      BY <2>1 DEF Promise!PromiseNext
  <1>6. ASSUME UNCHANGED <<history, outcome>>
        PROVE  UNCHANGED Promise!promiseVars
    BY <1>6 DEF history, Promise!promiseVars
  <1>7. ASSUME NEW a \in Actors, pc[a] \in {"idle", "queued"}, SendFailed(a),
               UNCHANGED commitLog
        PROVE  Promise!PromiseNext
    <2>1. outcome[a] = "none"
      BY <1>7 DEF Synced, Told
    <2>2. a \notin ToSet(history)
      <3>1. \A i \in 1..Len(commitLog) : commitLog[i].delta.id # a
        BY <1>7, LoggedIds DEF Synced, Chained
      <3>2. DOMAIN commitLog = 1..Len(commitLog)
        BY LenProperties DEF Synced, Chained, IsSequence
      <3> QED
        BY <1>1, <3>1, <3>2 DEF ToSet, IdsOf
    <2>3. outcome' = [outcome EXCEPT ![a] = "failed"]
      <3>1. answer' = [answer EXCEPT ![a] = Failed] /\ Failed.status = "failed"
        BY <1>7 DEF SendFailed, Failed, Answer
      <3>2. \A b \in Actors :
               answer'[b].status = IF b = a THEN "failed" ELSE answer[b].status
        BY <3>1 DEF Records
      <3> QED
        BY <3>2
    <2>4. UNCHANGED history
      BY <1>1, <1>7
    <2> QED
      BY <1>5, <2>1, <2>2, <2>3, <2>4
  <1>8. ASSUME NEW a \in Actors, NEW d, SubmitRequest(a, d)
        PROVE  [Promise!PromiseNext]_(Promise!promiseVars)
    BY <1>2, <1>6, <1>7, <1>8 DEF SubmitRequest, Process, Refuse
  <1>9. ASSUME NEW a \in Actors, SubmitEnters(a)
        PROVE  [Promise!PromiseNext]_(Promise!promiseVars)
    BY <1>2, <1>6, <1>7, <1>9 DEF SubmitEnters, Process, Refuse
  <1>10. ASSUME NEW a \in Actors, SubmitApplies(a)
         PROVE  Promise!PromiseNext
    <2>1. /\ answer[a].status = "none" /\ UNCHANGED commitLog
          /\ IdsOf(commitLog) = Append(wavelet.hash, a)
          /\ answer' = [answer EXCEPT ![a] = Answer("ok", wavelet')]
      BY <1>10, SubmitAppliesSynced DEF SubmitApplies
    <2>2. a \in ToSet(history)
      <3>1. IsSequence(wavelet.hash)
        BY SequenceOfItsElements DEF Behind, GoodHistory, Histories
      <3> QED
        BY <1>1, <2>1, <3>1, AppendToSet
    <2>3. outcome' = [outcome EXCEPT ![a] = "ok"]
      <3>1. Answer("ok", wavelet').status = "ok"
        BY DEF Answer
      <3>2. \A b \in Actors :
               answer'[b] = IF b = a THEN Answer("ok", wavelet') ELSE answer[b]
        BY <2>1 DEF Records
      <3> QED
        BY <3>1, <3>2
    <2>4. UNCHANGED history
      BY <1>1, <2>1
    <2> QED
      BY <1>4, <2>1, <2>2, <2>3, <2>4
  <1>11. CASE StorePersists
    <2>1. PICK a \in Actors : /\ answer[a].status = "none"
                              /\ a \notin ToSet(IdsOf(commitLog))
                              /\ IdsOf(commitLog') = Append(IdsOf(commitLog), a)
      BY <1>11, StorePersistsSynced
    <2>2. UNCHANGED outcome
      BY <1>11 DEF StorePersists
    <2> QED
      BY <1>1, <1>3, <2>1, <2>2
  <1>12. CASE \E a \in Actors : SubmitMisapplies(a) \/ SubmitTimesOut(a)
    BY <1>12 DEF SubmitMisapplies, SubmitTimesOut, Synced, OnlyCrashes
  <1>13. CASE ReplaySucceeds \/ ReplayFails \/ ReplayTimesOut \/ Crash
                \/ UNCHANGED allVars
    <2>1. UNCHANGED <<commitLog, answer>>
      BY <1>13 DEF ReplaySucceeds, ReplayFails, ReplayTimesOut, Crash, allVars, hostVars
    <2> QED
      BY <1>2, <1>6, <2>1
  <1> QED
    BY <1>8, <1>9, <1>10, <1>11, <1>12, <1>13 DEF HostNext, Deliver

\* The wavelet, its store and its log keep the promise of DurableHistory: a delta
\* is committed when its record is in the log, whoever is told "ok" has been
\* committed, whoever is told "failed" never is, and no crash takes a commit back.
THEOREM HostKeepsPromise ==
    ASSUME OnlyCrashes
    PROVE  HostSpec => KeepsPromise
  <1>1. HostInit => Promise!PromiseInit
    <2> SUFFICES ASSUME HostInit
                 PROVE  Promise!PromiseInit
      OBVIOUS
    <2>1. SyncedIInv
      BY HostInitPhases, HostInitRecords, HostInitBehind, HostInitSynced
         DEF SyncedIInv, HistoryIInv, HostIInv
    <2>2. ReadLog(commitLog) = commitLog
      BY <2>1, ChainedIsRead DEF SyncedIInv, Synced
    <2>3. IdsOf(ReadLog(commitLog)) = <<>>
      BY <2>2, EmptyIds DEF HostInit
    <2>4. [a \in Actors |-> answer[a].status] = [a \in Actors |-> "none"]
      BY DEF HostInit, NotAnswered, Answer
    <2> QED
      BY <2>3, <2>4 DEF Promise!PromiseInit
  <1>2. SyncedIInv /\ SyncedIInv' /\ [HostNext]_allVars
            => [Promise!PromiseNext]_(Promise!promiseVars)
    BY HostStepIsPromised
  <1> QED
    BY <1>1, <1>2, SyncedInvariant, PTL DEF HostSpec, KeepsPromise, Promise!PromiseSpec

-----------------------------------------------------------------------------
\* The two parts of HostTypeOK that the other invariants do not need.
Bounds ==
    /\ acks \in SUBSET Actors
    /\ faults \in [crashes : 0..MaxCrashes, timeouts : 0..MaxTimeouts,
                   torn : 0..MaxTornWrites]

LEMMA HostNextBounds == HistoryIInv /\ Bounds /\ [HostNext]_allVars => Bounds'
  <1> SUFFICES ASSUME HistoryIInv, Bounds, [HostNext]_allVars
               PROVE  Bounds'
    OBVIOUS
  <1> USE HostAssumption DEF Bounds
  <1>1. ASSUME NEW a \in Actors, NEW d, SubmitRequest(a, d) \/ SubmitEnters(a)
        PROVE  Bounds'
    BY <1>1 DEF SubmitRequest, SubmitEnters
  <1>2. ASSUME NEW a \in Actors, SubmitApplies(a) \/ SubmitMisapplies(a)
        PROVE  Bounds'
    BY <1>2 DEF SubmitApplies, SubmitMisapplies
  <1>3. ASSUME NEW a \in Actors, SubmitTimesOut(a)
        PROVE  Bounds'
    BY <1>3 DEF SubmitTimesOut
  <1>4. CASE StorePersists
    <2>1. Head(mailbox) \in ToSet(mailbox)
      BY <1>4, TailToSet DEF StorePersists, HistoryIInv, HostIInv, Records
    <2>2. Head(mailbox).actor \in Actors
      BY <2>1 DEF HistoryIInv, HostIInv, Records
    <2>3. acks' \in SUBSET Actors
      BY <1>4, <2>2 DEF StorePersists, Ack
    <2> QED
      BY <1>4, <2>3 DEF StorePersists, WriteLog
  <1>5. CASE ReplaySucceeds \/ ReplayFails \/ ReplayTimesOut
    BY <1>5 DEF ReplaySucceeds, ReplayFails, ReplayTimesOut
  <1>6. CASE Crash
    BY <1>6 DEF Crash
  <1>7. CASE UNCHANGED allVars
    BY <1>7 DEF allVars, hostVars
  <1> QED
    BY <1>1, <1>2, <1>3, <1>4, <1>5, <1>6, <1>7 DEF HostNext, Deliver

\* Type correctness of a hosted wavelet; above all, whatever fails, m_deltas has
\* exactly one entry per version.
THEOREM HostTyping == HostSpec => []HostTypeOK
  <1>1. HostInit => Bounds
    BY HostAssumption DEF HostInit, Bounds
  <1>2. HistoryIInv /\ Bounds => HostTypeOK
    <2> SUFFICES ASSUME HistoryIInv, Bounds
                 PROVE  HostTypeOK
      OBVIOUS
    <2>1. wavelet.hash \in Seq(Done) /\ Done \subseteq Actors
      BY DEF HistoryIInv, Behind, GoodHistory, Histories, Done
    <2>2. wavelet.hash \in Seq(Actors)
      BY <2>1, SeqMonotonic
    <2> QED
      BY <2>2 DEF HistoryIInv, HostIInv, HostPhaseInv, Phases, Behind, GoodHistory,
            Histories, Remembers, Bounds, HostTypeOK
  <1> QED
    BY <1>1, <1>2, HistoryInvariant, HostNextBounds, PTL DEF HostSpec
=============================================================================
