---------------------------- MODULE LocalWavelet ----------------------------
(***************************************************************************)
(* One wavelet hosted by the server, from the submit of a delta to its     *)
(* durable application: LocalWavelet::SubmitRequestActor, the wavelet's    *)
(* history in RAM, the Store with its memory and commit log, crashes of    *)
(* the server process and Wavelet::InitActor, which replays the store.     *)
(*                                                                         *)
(* The process is one event loop.  An action is one event: what an actor   *)
(* executes up to its next yield, or one message handled by the store.     *)
(* Between the PersistWaveletUpdate message and its PersistAck any other   *)
(* event may happen; the critical section (module CriticalSection) is what *)
(* keeps other actors away from the wavelet meanwhile.                     *)
(*                                                                         *)
(* Faults are bounded: MaxCrashes restarts of the process, MaxTimeouts     *)
(* expiries of a 10 s Timeout, MaxTornWrites records of which only a part  *)
(* reaches the log file, and, if Misfits, deltas whose operations do not   *)
(* fit the documents.                                                      *)
(***************************************************************************)
EXTENDS Integers, FiniteSets, CriticalSection, WaveletHistory

CONSTANTS
    Torn,           \* what a reader finds where a record was written partly
    OpCounts,       \* numbers of operations a delta may have
    Misfits,        \* may a delta contain an operation that does not fit?
    MaxCrashes, MaxTimeouts, MaxTornWrites

ASSUME HostAssumption ==
    /\ OpCounts \subseteq Nat \ {0}
    /\ Misfits \in BOOLEAN
    /\ Torn \notin [actor : Actors, at : Nat,
                    delta : [id : Actors, base : [version : Nat, hash : Seq(Actors)],
                             ops : Nat \ {0}, fits : BOOLEAN]]
    /\ MaxCrashes \in Nat /\ MaxTimeouts \in Nat /\ MaxTornWrites \in Nat

VARIABLES
    wavelet,    \* the Wavelet object: version, hash, m_deltas, documents
    pc,         \* per SubmitRequestActor: "idle", "queued", "persisting", "done"
    delta,      \* m_message: the submitted delta
    mailbox,    \* PersistWaveletUpdate messages on their way to the store
    acks,       \* actors with a PersistAck on its way to them
    stored,     \* the store's chain of updates of this wavelet, in memory
    commitLog,  \* the log file: updates, and Torn
    answer,     \* per actor, the SubmitResponse sent to its client
    announced,  \* hashed versions the server has told to somebody
    faults      \* how many crashes, timeouts and torn writes there have been

hostVars == <<wavelet, pc, delta, mailbox, acks, stored, commitLog, answer,
              announced, faults>>
allVars == <<csVars, hostVars>>

Answer(s, w) == [status |-> s, version |-> w.version, hash |-> w.hash]
NotAnswered == Answer("none", NewWavelet)
Failed == Answer("failed", NewWavelet)     \* carries no hashed version

DeltasBy(a) ==
    [id : {a}, base : announced, ops : OpCounts,
     fits : IF Misfits THEN BOOLEAN ELSE {TRUE}]

-----------------------------------------------------------------------------
(* The store. *)

\* The version after an update (PersistWaveletUpdate names the version the
\* delta was applied at).
EndVersion(u) == u.at + u.delta.ops

\* The checks of Store::writeToMemory.
Follows(chain, u) ==
    /\ chain # <<>> => EndVersion(Last(chain)) = u.at
    /\ u.delta.base.version <= u.at

WriteToMemory(chain, u) == IF Follows(chain, u) THEN Append(chain, u) ELSE chain

\* Mutated form: takes the last record for the end of the file.
ReadLogButLast(log) ==
    [i \in 1..(IF log = <<>> THEN 0 ELSE Len(log) - 1) |-> log[i]]

\* CommitLog::read gets a whole record.
Readable(u) == u # Torn

\* The constructor of Store reads the log until a record cannot be read or is
\* refused.  Behind a torn record the framing is lost.
ReadLog(log) ==
    LET LoadStep(r, u) ==
            IF r.reading /\ Readable(u) /\ Follows(r.chain, u)
            THEN [r EXCEPT !.chain = Append(@, u)]
            ELSE [r EXCEPT !.reading = FALSE]
        after[i \in 0..Len(log)] ==
            IF i = 0 THEN [reading |-> TRUE, chain |-> <<>>]
                     ELSE LoadStep(after[i - 1], log[i])
    IN  after[Len(log)].chain

\* What the store returns for the query of all versions.
DeltasOf(chain) == [i \in DOMAIN chain |-> chain[i].delta]

-----------------------------------------------------------------------------
(* SubmitRequestActor. *)

\* process(): the hashed version must be known, and a delta that has to be
\* transformed may be found not to fit already then.
Processable(w, d) == CheckHashedVersion(w, d.base)
Refusable(w, d) ==
    \/ ~CheckHashedVersion(w, d.base)
    \/ ~d.fits /\ d.base # HashedVersion(w)

\* Mutated form: applies_to_version in the place of applied_at_version.
PersistMsgAtBase(a, d) == [actor |-> a, delta |-> d, at |-> d.base.version]

PersistMsg(a, d) == [actor |-> a, delta |-> d, at |-> wavelet.version]

\* Process the delta, post it to the store and wait for the ack.
Process(a, d) ==
    /\ Processable(wavelet, d)
    /\ mailbox' = Append(mailbox, PersistMsg(a, d))
    /\ pc' = [pc EXCEPT ![a] = "persisting"]
    /\ UNCHANGED answer

\* The ERROR macro: a failed response is sent and the actor terminates.
SendFailed(a) ==
    /\ answer' = [answer EXCEPT ![a] = Failed]
    /\ pc' = [pc EXCEPT ![a] = "done"]

Refuse(a, d) ==
    /\ Refusable(wavelet, d)
    /\ SendFailed(a)
    /\ UNCHANGED mailbox

\* A LocalSubmitRequest arrives; the new actor runs up to its first yield.
SubmitRequest(a, d) ==
    /\ pc[a] = "idle"
    /\ delta' = [delta EXCEPT ![a] = d]
    /\ \/ Process(a, d) /\ TryEnter(a)
       \/ Refuse(a, d) /\ IsFree /\ UNCHANGED lockVars
       \/ /\ EnterIntern(a)
          /\ pc' = [pc EXCEPT ![a] = "queued"]
          /\ UNCHANGED <<answer, mailbox>>
    /\ UNCHANGED <<initActor, wavelet, acks, stored, commitLog, announced,
                   faults>>

\* The EnterCriticalSection event ends the first yield.
SubmitEnters(a) ==
    /\ pc[a] = "queued"
    /\ a \in posted
    /\ \/ Process(a, delta[a]) /\ Resume(a)
       \/ Refuse(a, delta[a]) /\ Depart(a)
    /\ UNCHANGED <<delta, wavelet, acks, stored, commitLog, announced, faults>>

\* The PersistAck ends the second yield and the delta fits: apply it, broadcast
\* it to the subscribers and answer with the new hashed version.
SubmitApplies(a) ==
    /\ pc[a] = "persisting"
    /\ a \in acks
    /\ delta[a].fits
    /\ wavelet' = Applied(wavelet, delta[a])
    /\ answer' = [answer EXCEPT ![a] = Answer("ok", wavelet')]
    /\ announced' = announced \cup {HashedVersion(wavelet')}
    /\ pc' = [pc EXCEPT ![a] = "done"]
    /\ acks' = acks \ {a}
    /\ Depart(a)
    /\ UNCHANGED <<delta, mailbox, stored, commitLog, faults>>

\* The PersistAck ends the second yield, but one of the operations does not fit.
\* Those before it stay applied, and the store keeps the delta.
SubmitMisapplies(a) ==
    /\ pc[a] = "persisting"
    /\ a \in acks
    /\ ~delta[a].fits
    /\ \E k \in 0..(delta[a].ops - 1) :
          wavelet' = AppliedPartly(wavelet, delta[a], k)
    /\ SendFailed(a)
    /\ acks' = acks \ {a}
    /\ Depart(a)
    /\ UNCHANGED <<delta, mailbox, stored, commitLog, announced, faults>>

\* The Timeout ends the second yield.  The message to the store is not revoked;
\* an ack that is on its way is dropped with the actor.
SubmitTimesOut(a) ==
    /\ pc[a] = "persisting"
    /\ faults.timeouts < MaxTimeouts
    /\ faults' = [faults EXCEPT !.timeouts = @ + 1]
    /\ SendFailed(a)
    /\ acks' = acks \ {a}
    /\ Depart(a)
    /\ UNCHANGED <<delta, wavelet, mailbox, stored, commitLog, announced>>

-----------------------------------------------------------------------------
(* Store::customEvent: whatever the outcome of writeToMemory and of the log   *)
(* write, the ack says ok.  An actor that has terminated gets no ack.         *)

Ack(u) == acks' = acks \cup (IF pc[u.actor] = "persisting" THEN {u.actor} ELSE {})

\* CommitLog::write, which may fail after a part of the record.
WriteLog(u) ==
    \/ commitLog' = Append(commitLog, u) /\ UNCHANGED faults
    \/ /\ faults.torn < MaxTornWrites
       /\ faults' = [faults EXCEPT !.torn = @ + 1]
       /\ commitLog' = Append(commitLog, Torn)

StorePersists ==
    /\ mailbox # <<>>
    /\ mailbox' = Tail(mailbox)
    /\ stored' = WriteToMemory(stored, Head(mailbox))
    /\ Ack(Head(mailbox))
    /\ WriteLog(Head(mailbox))
    /\ UNCHANGED <<csVars, wavelet, pc, delta, answer, announced>>

-----------------------------------------------------------------------------
(* Start and crash of the server. *)

\* InitActor gets the answer to QueryWaveletUpdates.
ReplaySucceeds ==
    LET r == Replay(DeltasOf(stored))
    IN  /\ r.ok
        /\ wavelet' = r.wavelet
        /\ InitSucceeds
        /\ UNCHANGED <<pc, delta, mailbox, acks, stored, commitLog, answer,
                       announced, faults>>

\* Mutated form: the section is enabled although the replay has failed.
ReplayFailsEnabling ==
    LET r == Replay(DeltasOf(stored))
    IN  /\ ~r.ok
        /\ wavelet' = r.wavelet
        /\ initActor = "running" /\ initActor' = "failed"
        /\ Enable
        /\ UNCHANGED <<pc, delta, mailbox, acks, stored, commitLog, answer,
                       announced, faults>>

\* A stored delta is refused; what came before it stays in RAM, behind a
\* section that nobody will ever enter.
ReplayFails ==
    LET r == Replay(DeltasOf(stored))
    IN  /\ ~r.ok
        /\ wavelet' = r.wavelet
        /\ InitFails
        /\ UNCHANGED <<pc, delta, mailbox, acks, stored, commitLog, answer,
                       announced, faults>>

ReplayTimesOut ==
    /\ faults.timeouts < MaxTimeouts
    /\ faults' = [faults EXCEPT !.timeouts = @ + 1]
    /\ InitFails
    /\ UNCHANGED <<wavelet, pc, delta, mailbox, acks, stored, commitLog, answer,
                   announced>>

\* The process dies and is started again: the log file is all that is left, and
\* the store reads it.  Requests under way are never answered.
Crash ==
    /\ faults.crashes < MaxCrashes
    /\ faults' = [faults EXCEPT !.crashes = @ + 1]
    /\ LockRestart
    /\ wavelet' = NewWavelet
    /\ pc' = [a \in Actors |-> IF pc[a] = "idle" THEN "idle" ELSE "done"]
    /\ mailbox' = <<>>
    /\ acks' = {}
    /\ stored' = ReadLog(commitLog)
    /\ UNCHANGED <<delta, commitLog, answer, announced>>

-----------------------------------------------------------------------------
HostInit ==
    /\ LockInit
    /\ wavelet = NewWavelet
    /\ pc = [a \in Actors |-> "idle"]
    /\ delta = [a \in Actors |-> NoDelta]
    /\ mailbox = <<>>
    /\ acks = {}
    /\ stored = <<>>
    /\ commitLog = <<>>
    /\ answer = [a \in Actors |-> NotAnswered]
    /\ announced = {Version0}
    /\ faults = [crashes |-> 0, timeouts |-> 0, torn |-> 0]

\* What the event loop owes: events and messages that have been posted.
Deliver ==
    \/ \E a \in Actors :
          SubmitEnters(a) \/ SubmitApplies(a) \/ SubmitMisapplies(a)
    \/ StorePersists
    \/ ReplaySucceeds
    \/ ReplayFails

HostNext ==
    \/ \E a \in Actors : \E d \in DeltasBy(a) : SubmitRequest(a, d)
    \/ Deliver
    \/ \E a \in Actors : SubmitTimesOut(a)
    \/ ReplayTimesOut
    \/ Crash

HostSpec == HostInit /\ [][HostNext]_allVars

\* The event loop never stops delivering.
HostFairness == WF_allVars(Deliver)

FairHostSpec == HostSpec /\ HostFairness

-----------------------------------------------------------------------------
(* Properties. *)

IdsOf(chain) == [i \in DOMAIN chain |-> chain[i].delta.id]

Logged == ToSet(commitLog) \ {Torn}

\* Every variable has its type.
HostTypeOK ==
    /\ wavelet.version \in Nat /\ wavelet.hash \in Seq(Actors)
    /\ Len(wavelet.deltas) = wavelet.version
    /\ pc \in [Actors -> {"idle", "queued", "persisting", "done"}]
    /\ acks \in SUBSET Actors
    /\ faults \in [crashes : 0..MaxCrashes, timeouts : 0..MaxTimeouts,
                   torn : 0..MaxTornWrites]

\* At most one delta is between its check against the history and its
\* application to it, although the actor yields in between.
OneDeltaInProgress ==
    \A a, b \in Actors :
        pc[a] = "persisting" /\ pc[b] = "persisting" => a = b

\* Whatever fails: the version at which a client has been told its delta was
\* applied is the version the log records for it.
AnsweredAsLogged ==
    \A u \in Logged :
        answer[u.actor].status = "ok"
            => answer[u.actor].version = EndVersion(u)

\* Store::customEvent acks an update as "accepted and committed": a delta whose
\* client got the ok can be read back from the log, with exactly the history
\* the client was told.
AnsweredIsRecoverable ==
    \A a \in Actors :
        answer[a].status = "ok"
            => IsPrefix(answer[a].hash, IdsOf(ReadLog(commitLog)))

\* The wavelet keeps the promise of module DurableHistory: a delta is committed
\* the moment its record is in the log, and no crash takes that back.
Promise == INSTANCE DurableHistory
    WITH Clients <- Actors,
         history <- IdsOf(ReadLog(commitLog)),
         outcome <- [a \in Actors |-> answer[a].status]

KeepsPromise == Promise!PromiseSpec

\* Whatever fails, torn records and the forks they cause included: the wavelet
\* only applies a delta behind the very history its author based it on.
AppliedBehindItsBase ==
    \A i \in DOMAIN wavelet.hash :
        IsPrefix(delta[wavelet.hash[i]].base.hash, SubSeq(wavelet.hash, 1, i - 1))

\* Whoever submits gets through: its actor terminates, with an answer unless
\* the server crashes under it, or the replay has failed and nobody is let in.
EveryRequestEnds ==
    \A a \in Actors :
        pc[a] \in {"queued", "persisting"} ~> pc[a] = "done" \/ initActor = "failed"
=============================================================================
