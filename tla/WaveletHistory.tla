--------------------------- MODULE WaveletHistory ---------------------------
(***************************************************************************)
(* What Wavelet::checkHashedVersion, process and apply                     *)
(* (src/waveserver/model/wavelet.cpp) do to the in-memory history of one   *)
(* wavelet, as functions of that history.                                  *)
(*                                                                         *)
(* A delta is abstracted to the record                                     *)
(*   [id, base, ops, fits]                                                 *)
(* its identity, the hashed version its author based it on, its number of  *)
(* operations, and whether its operations fit the documents: apply() gives *)
(* up at an operation that does not (a mutation StructuredDocument::apply  *)
(* refuses, a JID that is not valid).  The rolling SHA-256 hash over the   *)
(* applied deltas is the sequence of their ids: two histories have the     *)
(* same hash exactly if they are the same.                                 *)
(***************************************************************************)
EXTENDS Naturals, Sequences, SequencesExt

CONSTANT NoDelta    \* a default-constructed WaveletDelta, isNull()

\* Hashes, and the hash of version 0 (the wave URL).
UrlHash == <<>>
Version0 == [version |-> 0, hash |-> UrlHash]

\* m_deltas is indexed by version, from 0.
NewWavelet == [version |-> 0, hash |-> UrlHash, deltas |-> <<>>, docs |-> <<>>]

Slot(w, v) == w.deltas[v + 1]

HashedVersion(w) == [version |-> w.version, hash |-> w.hash]

-----------------------------------------------------------------------------
\* Mutated form: compares the hash only at the head of the history.
CheckHeadOnly(w, base) ==
    \/ base = Version0
    \/ base = HashedVersion(w)
    \/ base.version \in 1..(w.version - 1) /\ Slot(w, base.version) # NoDelta

\* May a delta based on this hashed version be transformed and applied?
CheckHashedVersion(w, base) ==
    \/ base = Version0
    \/ base.version > 0 /\ base = HashedVersion(w)
    \/ /\ base.version \in 1..(w.version - 1)
       /\ Slot(w, base.version) # NoDelta
       /\ base.hash = Slot(w, base.version).hash

\* The delta as it is remembered: transform() has stamped it with the hashed
\* version of the wavelet, and an untransformed delta carries that one anyway.
AppliedSlot(w) == HashedVersion(w)

\* apply() of a delta that fits: ops - 1 null deltas are appended first, then
\* the delta itself.
Applied(w, d) ==
    [version |-> w.version + d.ops,
     hash    |-> Append(w.hash, d.id),
     deltas  |-> w.deltas \o [i \in 1..(d.ops - 1) |-> NoDelta]
                          \o <<AppliedSlot(w)>>,
     docs    |-> w.docs \o [i \in 1..d.ops |-> d.id]]

\* apply() of a delta whose operation number k + 1 does not fit: the first k
\* operations stay in the documents and nothing else has changed.
AppliedPartly(w, d, k) ==
    [w EXCEPT !.docs = @ \o [i \in 1..k |-> d.id]]

-----------------------------------------------------------------------------
\* InitActor: process() and apply() every delta the store returned, in order,
\* until one is refused.
ReplayStep(r, d) ==
    IF r.ok /\ CheckHashedVersion(r.wavelet, d.base) /\ d.fits
    THEN [r EXCEPT !.wavelet = Applied(r.wavelet, d)]
    ELSE [r EXCEPT !.ok = FALSE]

Replay(deltas) ==
    LET after[i \in 0..Len(deltas)] ==
            IF i = 0 THEN [ok |-> TRUE, wavelet |-> NewWavelet]
                     ELSE ReplayStep(after[i - 1], deltas[i])
    IN  after[Len(deltas)]
=============================================================================
