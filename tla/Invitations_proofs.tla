-------------------------- MODULE Invitations_proofs --------------------------
(***************************************************************************)
(* Nobody is forgotten: a further proof about module Sessions.             *)
(*                                                                         *)
(* Sessions_proofs says where a wavelet's actor and the requests are; this *)
(* adds what the server owes.  What is posted is not lost (Grows), and     *)
(* every participant who has asked for his index is subscribed to its      *)
(* digests, or a waiting actor or an event will see to it (PromisesKept).  *)
(***************************************************************************)
EXTENDS Sessions_proofs

-----------------------------------------------------------------------------
(* What is posted is not lost, and who becomes a participant is told.        *)

\* The first element, and the others.
LEMMA FirstAndOthers ==
    ASSUME NEW q, IsSequence(q), q # <<>>
    PROVE  ToSet(q) = {Head(q)} \cup ToSet(Tail(q)) /\ IsSequence(Tail(q))
  <1> DEFINE r == Tail(q)
             n == Len(q)
  <1>1. /\ IsSequence(r) /\ n \in Nat \ {0} /\ Len(r) = n - 1
        /\ \A i \in 1..Len(r) : r[i] = q[i + 1]
        /\ Head(q) = q[1]
    BY QueueTail
  <1>2. DOMAIN q = 1..n /\ DOMAIN r = 1..Len(r)
    BY <1>1 DEF IsSequence
  <1>3. \A i \in 1..n : i = 1 \/ (i - 1 \in 1..(n - 1) /\ (i - 1) + 1 = i)
    BY <1>1
  <1>4. \A i \in 1..(n - 1) : i + 1 \in 1..n
    BY <1>1
  <1>5. 1 \in 1..n
    BY <1>1
  <1>6. ToSet(q) = {q[i] : i \in 1..n} /\ ToSet(r) = {r[i] : i \in 1..(n - 1)}
    BY <1>1, <1>2 DEF ToSet
  <1> HIDE DEF r, n
  <1>7. \A x : x \in ToSet(q) <=> x = q[1] \/ x \in ToSet(r)
    <2>1. ASSUME NEW i \in 1..n
          PROVE  q[i] = q[1] \/ q[i] \in {r[j] : j \in 1..(n - 1)}
      <3>1. CASE i = 1
        BY <3>1
      <3>2. CASE i # 1
        <4>1. i - 1 \in 1..(n - 1) /\ (i - 1) + 1 = i
          BY <1>3, <3>2
        <4>2. r[i - 1] = q[i]
          BY <1>1, <4>1
        <4> QED
          BY <4>1, <4>2
      <3> QED
        BY <3>1, <3>2
    <2>2. ASSUME NEW i \in 1..(n - 1)
          PROVE  r[i] \in {q[j] : j \in 1..n}
      BY <1>1, <1>4
    <2> QED
      BY <1>5, <1>6, <2>1, <2>2
  <1> QED
    BY <1>1, <1>7 DEF r

\* More elements.
LEMMA ElementsOfBoth ==
    ASSUME NEW q, IsSequence(q), NEW r, IsSequence(r)
    PROVE  ToSet(q \o r) = ToSet(q) \cup ToSet(r) /\ IsSequence(q \o r)
  <1> DEFINE p == q \o r
             m == Len(q)
             n == Len(r)
  <1>1. /\ IsSequence(p) /\ m \in Nat /\ n \in Nat /\ Len(p) = m + n
        /\ \A i \in 1..m : p[i] = q[i]
        /\ \A i \in 1..n : p[m + i] = r[i]
    BY QueueConcat
  <1>2. DOMAIN p = 1..(m + n) /\ DOMAIN q = 1..m /\ DOMAIN r = 1..n
    BY <1>1 DEF IsSequence
  <1>3. /\ ToSet(p) = {p[i] : i \in 1..(m + n)}
        /\ ToSet(q) = {q[i] : i \in 1..m} /\ ToSet(r) = {r[i] : i \in 1..n}
    BY <1>2 DEF ToSet
  <1> HIDE DEF p, m, n
  <1>4. ASSUME NEW i \in 1..(m + n)
        PROVE  p[i] \in ToSet(q) \cup ToSet(r)
    <2>1. CASE i \in 1..m
      BY <1>1, <1>3, <2>1
    <2>2. CASE i \notin 1..m
      <3>1. i - m \in 1..n /\ m + (i - m) = i
        BY <1>1, <2>2
      <3>2. p[i] = r[i - m]
        BY <1>1, <3>1
      <3> QED
        BY <1>3, <3>1, <3>2
    <2> QED
      BY <2>1, <2>2
  <1>5. ASSUME NEW i \in 1..m
        PROVE  q[i] \in ToSet(p)
    <2>1. i \in 1..(m + n)
      BY <1>1
    <2> QED
      BY <1>1, <1>3, <2>1
  <1>6. ASSUME NEW i \in 1..n
        PROVE  r[i] \in ToSet(p)
    <2>1. m + i \in 1..(m + n)
      BY <1>1
    <2> QED
      BY <1>1, <1>3, <2>1
  <1>7. ToSet(p) = ToSet(q) \cup ToSet(r)
    BY <1>3, <1>4, <1>5, <1>6
  <1> QED
    BY <1>1, <1>7 DEF p

\* The event brings a message to its wavelet, or to the section of it.
Carries(e, m) ==
    \/ e.to = "wavelet" /\ e.message = m
    \/ e.to \in {"actor", "enter"} /\ e.job = m

\* Only connections that are gone unsubscribe.
Fit(m, gone) == m.kind = "subscribe" /\ ~m.on => m.conn \in gone

\* Messages are for wavelets that are there; one that is not has nothing.
Tidy(s, gone) ==
    /\ \A e \in ToSet(s.events) : \A m \in Messages :
          Carries(e, m) => Fit(m, gone) /\ s.wavelets[m.wavelet].loaded
    /\ \A w \in Wavelets : \A m \in ToSet(s.wavelets[w].queue) : Fit(m, gone)
    /\ \A w \in Wavelets :
          ~s.wavelets[w].loaded => s.wavelets[w].index = {} /\ s.wavelets[w].queue = <<>>

\* Somebody waits although nobody is inside.
Stuck(wv) == wv.enabled /\ ~wv.busy /\ wv.queue # <<>>

\* A wavelet goes on: it stays in RAM, subscribers stay but for those that are
\* gone, who waits goes on waiting or is let in, and who has become a participant
\* is told by one of the events E.
WaveletGrows(wv, x, E, w, gone) ==
    /\ wv.loaded => x.loaded
    /\ Stuck(x) => Stuck(wv)
    /\ \A c \in wv.index : c \notin gone => c \in x.index
    /\ \A m \in ToSet(wv.queue) : m \in ToSet(x.queue) \/ [to |-> "enter", job |-> m] \in E
    /\ \A u \in Users : u \in x.participants => u \in wv.participants \/ Notify(u, w) \in E

Grows(s, t, gone) ==
    Tidy(s, gone) =>
        /\ Tidy(t, gone)
        /\ ToSet(s.events) \subseteq ToSet(t.events)
        /\ \A w \in Wavelets :
              WaveletGrows(s.wavelets[w], t.wavelets[w], ToSet(t.events), w, gone)

\* Nothing happens.
LEMMA GrowsNot ==
    ASSUME NEW s, NEW gone
    PROVE  Grows(s, s, gone)
  BY DEF Grows, WaveletGrows

\* One after the other.
LEMMA GrowsFurther ==
    ASSUME NEW s, NEW t, NEW r, NEW gone, Grows(s, t, gone), Grows(t, r, gone)
    PROVE  Grows(s, r, gone)
  <1> SUFFICES ASSUME Tidy(s, gone)
               PROVE  /\ Tidy(r, gone)
                      /\ ToSet(s.events) \subseteq ToSet(r.events)
                      /\ \A w \in Wavelets :
                            WaveletGrows(s.wavelets[w], r.wavelets[w], ToSet(r.events), w, gone)
    BY DEF Grows
  <1> DEFINE D == ToSet(t.events)
             E == ToSet(r.events)
  <1>1. /\ Tidy(t, gone) /\ ToSet(s.events) \subseteq D
        /\ \A w \in Wavelets : WaveletGrows(s.wavelets[w], t.wavelets[w], D, w, gone)
    BY DEF Grows
  <1>2. /\ Tidy(r, gone) /\ D \subseteq E
        /\ \A w \in Wavelets : WaveletGrows(t.wavelets[w], r.wavelets[w], E, w, gone)
    BY <1>1 DEF Grows
  <1> HIDE DEF D, E
  <1>3. ASSUME NEW w \in Wavelets
        PROVE  WaveletGrows(s.wavelets[w], r.wavelets[w], E, w, gone)
    <2> DEFINE wv == s.wavelets[w]
               x == t.wavelets[w]
               y == r.wavelets[w]
    <2>1. WaveletGrows(wv, x, D, w, gone) /\ WaveletGrows(x, y, E, w, gone)
      BY <1>1, <1>2
    <2> HIDE DEF wv, x, y
    <2>2. WaveletGrows(wv, y, E, w, gone)
      BY <1>2, <2>1 DEF WaveletGrows
    <2> QED
      BY <2>2 DEF wv, y
  <1> QED
    BY <1>1, <1>2, <1>3 DEF E

\* One wavelet changes, and some events are posted.
LEMMA GrowsTo ==
    ASSUME NEW s, NEW t, NEW gone, NEW w \in Wavelets,
           ToSet(s.events) \subseteq ToSet(t.events),
           \A e \in ToSet(t.events) : e \notin ToSet(s.events) =>
               \A m \in Messages : Carries(e, m) => Fit(m, gone) /\ t.wavelets[m.wavelet].loaded,
           \A v \in Wavelets : v # w => t.wavelets[v] = s.wavelets[v],
           WaveletGrows(s.wavelets[w], t.wavelets[w], ToSet(t.events), w, gone),
           \A m \in ToSet(t.wavelets[w].queue) :
               m \in ToSet(s.wavelets[w].queue) \/ Fit(m, gone),
           t.wavelets[w].loaded
    PROVE  Grows(s, t, gone)
  <1> SUFFICES ASSUME Tidy(s, gone)
               PROVE  /\ Tidy(t, gone)
                      /\ \A v \in Wavelets :
                            WaveletGrows(s.wavelets[v], t.wavelets[v], ToSet(t.events), v, gone)
    BY DEF Grows
  <1>1. \A v \in Wavelets :
           WaveletGrows(s.wavelets[v], t.wavelets[v], ToSet(t.events), v, gone)
    <2> SUFFICES ASSUME NEW v \in Wavelets, v # w
                 PROVE  WaveletGrows(s.wavelets[v], t.wavelets[v], ToSet(t.events), v, gone)
      OBVIOUS
    <2>1. t.wavelets[v] = s.wavelets[v]
      OBVIOUS
    <2> QED
      BY <2>1 DEF WaveletGrows
  <1>2. ASSUME NEW e \in ToSet(t.events), NEW m \in Messages, Carries(e, m)
        PROVE  Fit(m, gone) /\ t.wavelets[m.wavelet].loaded
    <2>1. CASE e \in ToSet(s.events)
      <3>1. Fit(m, gone) /\ s.wavelets[m.wavelet].loaded
        BY <1>2, <2>1 DEF Tidy
      <3>2. m.wavelet \in Wavelets
        BY JobFacts
      <3>3. s.wavelets[m.wavelet].loaded => t.wavelets[m.wavelet].loaded
        BY <1>1, <3>2 DEF WaveletGrows
      <3> QED
        BY <3>1, <3>3
    <2>2. CASE e \notin ToSet(s.events)
      BY <1>2, <2>2
    <2> QED
      BY <2>1, <2>2
  <1>3. ASSUME NEW v \in Wavelets
        PROVE  /\ \A m \in ToSet(t.wavelets[v].queue) : Fit(m, gone)
               /\ ~t.wavelets[v].loaded => t.wavelets[v].index = {} /\ t.wavelets[v].queue = <<>>
    BY DEF Tidy
  <1>4. Tidy(t, gone)
    BY <1>2, <1>3 DEF Tidy
  <1> QED
    BY <1>1, <1>4

\* An event is posted.
LEMMA GrowsPost ==
    ASSUME NEW s, IsServer(s), NEW e, NEW gone,
           \A m \in Messages : Carries(e, m) => Fit(m, gone) /\ s.wavelets[m.wavelet].loaded
    PROVE  LET t == Post(s, e)
           IN  /\ Grows(s, t, gone) /\ t.wavelets = s.wavelets
               /\ ToSet(t.events) = ToSet(s.events) \cup {e}
  <1> DEFINE t == Post(s, e)
  <1>1. t.wavelets = s.wavelets /\ t.events = Append(s.events, e) /\ IsSequence(s.events)
    BY DEF Post, IsServer, IsQueue
  <1> HIDE DEF t
  <1>2. ToSet(t.events) = ToSet(s.events) \cup {e}
    BY <1>1, AppendToSet
  <1>3. Grows(s, t, gone)
    BY <1>1, <1>2 DEF Grows, Tidy, WaveletGrows
  <1> QED
    BY <1>1, <1>2, <1>3 DEF t

\* Another state of one wavelet, with the same queue.
LEMMA GrowsOne ==
    ASSUME NEW s, IsServer(s), NEW gone, NEW w \in Wavelets, NEW x, IsWavelet(x, w),
           x.loaded, x.queue = s.wavelets[w].queue, Stuck(x) => Stuck(s.wavelets[w]),
           \A c \in s.wavelets[w].index : c \notin gone => c \in x.index,
           x.participants \subseteq s.wavelets[w].participants
    PROVE  Grows(s, [s EXCEPT !.wavelets[w] = x], gone)
  <1> DEFINE t == [s EXCEPT !.wavelets[w] = x]
  <1>1. /\ t.events = s.events /\ t.wavelets[w] = x
        /\ \A v \in Wavelets : v # w => t.wavelets[v] = s.wavelets[v]
    BY DEF IsServer
  <1> HIDE DEF t
  <1>2. WaveletGrows(s.wavelets[w], x, ToSet(t.events), w, gone)
    BY DEF WaveletGrows
  <1>3. Grows(s, t, gone)
    BY <1>1, <1>2, GrowsTo
  <1> QED
    BY <1>3 DEF t

\* A wavelet that is not there is made.
LEMMA GrowsLookup ==
    ASSUME NEW s, IsServer(s), NEW gone, NEW w \in Wavelets
    PROVE  LET t == Lookup(s, w)
           IN  Grows(s, t, gone) /\ t.wavelets[w].loaded
  <1>1. CASE s.wavelets[w].loaded
    BY <1>1, GrowsNot DEF Lookup
  <1>2. CASE ~s.wavelets[w].loaded
    <2> DEFINE x == Created
               r == [s EXCEPT !.wavelets[w] = x]
               e == ToActor([kind |-> "init", wavelet |-> w])
               t == Post(r, e)
    <2>1. Lookup(s, w) = t
      BY <1>2 DEF Lookup
    <2>2. /\ IsWavelet(x, w) /\ x.loaded /\ x.queue = <<>> /\ x.participants = {}
          /\ ~Stuck(x)
      BY FreshWavelets DEF Created, Unloaded, Stuck
    <2> HIDE DEF x
    <2>3. IsServer(r) /\ r.wavelets[w] = x
      BY <2>2, WaveletBecomes
    <2>4. Grows(s, r, gone)
      <3>1. CASE Tidy(s, gone)
        <4>1. s.wavelets[w].index = {} /\ s.wavelets[w].queue = <<>>
          BY <1>2, <3>1 DEF Tidy
        <4> QED
          BY <2>2, <4>1, GrowsOne
      <3>2. CASE ~Tidy(s, gone)
        BY <3>2 DEF Grows
      <3> QED
        BY <3>1, <3>2
    <2>5. \A m \in Messages : ~Carries(e, m)
      BY JobFacts DEF Carries, ToActor
    <2> HIDE DEF r, e
    <2>6. Grows(r, t, gone) /\ t.wavelets = r.wavelets
      BY <2>3, <2>5, GrowsPost
    <2> HIDE DEF t
    <2>7. Grows(s, t, gone)
      BY <2>4, <2>6, GrowsFurther
    <2> QED
      BY <2>1, <2>2, <2>3, <2>6, <2>7
  <1> QED
    BY <1>1, <1>2

\* A message is posted to a wavelet, which is there or is made.
LEMMA GrowsToWavelet ==
    ASSUME NEW s, NEW logs, ServerOK(s, logs), NEW gone, NEW onDemand, NEW m \in Messages,
           Fit(m, gone)
    PROVE  LET t == PostToWavelet(s, onDemand, m)
           IN  /\ Grows(s, t, gone)
               /\ Found(s, m.wavelet, onDemand) =>
                     [to |-> "wavelet", message |-> m] \in ToSet(t.events)
  <1> DEFINE w == m.wavelet
             r == Lookup(s, w)
             e == [to |-> "wavelet", message |-> m]
             t == Post(r, e)
  <1>1. w \in Wavelets
    BY JobFacts
  <1>2. IsServer(s) /\ IsServer(r)
    BY <1>1, LookupKeeps DEF ServerOK
  <1>3. Grows(s, r, gone) /\ r.wavelets[w].loaded
    BY <1>1, <1>2, GrowsLookup
  <1>4. \A n \in Messages : Carries(e, n) => n = m
    BY DEF Carries
  <1>5. PostToWavelet(s, onDemand, m) = IF Found(s, w, onDemand) THEN t ELSE s
    BY DEF PostToWavelet
  <1>6. \A n \in Messages : Carries(e, n) => Fit(n, gone) /\ r.wavelets[n.wavelet].loaded
    BY <1>3, <1>4
  <1> HIDE DEF e, r, w
  <1>7. Grows(r, t, gone) /\ ToSet(t.events) = ToSet(r.events) \cup {e}
    BY <1>2, <1>6, GrowsPost
  <1> HIDE DEF t
  <1>8. Grows(s, t, gone)
    BY <1>3, <1>7, GrowsFurther
  <1>9. e \in ToSet(t.events)
    BY <1>7
  <1>10. Grows(s, s, gone)
    BY GrowsNot
  <1> QED
    BY <1>5, <1>8, <1>9, <1>10 DEF e, w

\* What becomes of the wavelet when an actor leaves.
LEMMA LeavesMeans ==
    ASSUME NEW s, IsServer(s), NEW w \in Wavelets
    PROVE  LET wv == s.wavelets[w]
           IN  Leaves(s, w) =
                  IF wv.queue = <<>> THEN [s EXCEPT !.wavelets[w] = [wv EXCEPT !.busy = FALSE]]
                  ELSE Post([s EXCEPT !.wavelets[w] = [wv EXCEPT !.busy = TRUE, !.queue = Tail(@)]],
                            [to |-> "enter", job |-> Head(wv.queue)])
  BY DEF Leaves, Post, IsServer

\* An actor leaves: who waited longest is let in.
LEMMA GrowsLeaves ==
    ASSUME NEW s, IsServer(s), NEW gone, NEW w \in Wavelets, s.wavelets[w].loaded
    PROVE  LET t == Leaves(s, w)
           IN  /\ Grows(s, t, gone)
               /\ t.wavelets[w].participants = s.wavelets[w].participants
  <1> DEFINE wv == s.wavelets[w]
             q == wv.queue
  <1>1. IsWavelet(wv, w) /\ q \in Seq(MessagesOf(w))
    BY DEF IsServer, IsWavelet
  <1>2. CASE q = <<>>
    <2> DEFINE x == [wv EXCEPT !.busy = FALSE]
               t == [s EXCEPT !.wavelets[w] = x]
    <2>1. Leaves(s, w) = t
      BY <1>2 DEF Leaves
    <2>2. /\ IsWavelet(x, w) /\ x.loaded /\ x.participants = wv.participants
          /\ x.queue = q /\ x.index = wv.index /\ ~Stuck(x)
      BY <1>1, <1>2 DEF IsWavelet, WaveletFields, Stuck
    <2> HIDE DEF x
    <2>3. t.wavelets[w] = x
      BY DEF IsServer
    <2>4. Grows(s, t, gone)
      BY <2>2, GrowsOne
    <2> QED
      BY <2>1, <2>2, <2>3, <2>4
  <1>3. CASE q # <<>>
    <2> DEFINE m == Head(q)
               x == [wv EXCEPT !.busy = TRUE, !.queue = Tail(@)]
               r == [s EXCEPT !.wavelets[w] = x]
               e == [to |-> "enter", job |-> m]
               t == Post(r, e)
    <2>1. Leaves(s, w) = t
      BY <1>3 DEF Leaves, Post, IsServer
    <2>2. m \in MessagesOf(w) /\ Tail(q) \in Seq(MessagesOf(w))
      BY <1>1, <1>3, HeadTailProperties
    <2>3. IsSequence(q) /\ ToSet(q) = {m} \cup ToSet(Tail(q))
      BY <1>1, <1>3, FirstAndOthers, SequenceOfItsElements
    <2>4. /\ IsWavelet(x, w) /\ x.loaded /\ x.participants = wv.participants
          /\ x.queue = Tail(q) /\ x.index = wv.index /\ ~Stuck(x)
      BY <1>1, <2>2 DEF IsWavelet, WaveletFields, Stuck
    <2> HIDE DEF x
    <2>5. /\ IsServer(r) /\ r.events = s.events /\ r.wavelets[w] = x
          /\ \A v \in Wavelets : v # w => r.wavelets[v] = s.wavelets[v]
      BY <2>4, WaveletBecomes
    <2> HIDE DEF r
    <2>6. /\ t.wavelets = r.wavelets /\ t.events = Append(s.events, e)
          /\ IsSequence(s.events)
      BY <2>5 DEF Post, IsServer, IsQueue
    <2> HIDE DEF t, e
    <2>7. ToSet(t.events) = ToSet(s.events) \cup {e}
      BY <2>6, AppendToSet
    <2>8. Grows(s, t, gone)
      <3>1. CASE Tidy(s, gone)
        <4>1. \A n \in ToSet(q) : Fit(n, gone)
          BY <3>1 DEF Tidy
        <4>2. WaveletGrows(wv, x, ToSet(t.events), w, gone)
          BY <2>3, <2>4, <2>7 DEF WaveletGrows, e
        <4>3. \A n \in Messages : Carries(e, n) => Fit(n, gone) /\ x.loaded /\ n.wavelet = w
          BY <2>2, <2>3, <2>4, <4>1 DEF Carries, e, MessagesOf
        <4>4. \A f \in ToSet(t.events) : f \notin ToSet(s.events) => f = e
          BY <2>7
        <4>5. \A n \in ToSet(x.queue) : n \in ToSet(q)
          BY <2>3, <2>4
        <4> HIDE DEF wv
        <4>6. /\ t.wavelets[w] = x /\ ToSet(s.events) \subseteq ToSet(t.events)
              /\ \A v \in Wavelets : v # w => t.wavelets[v] = s.wavelets[v]
          BY <2>5, <2>6, <2>7
        <4>7. \A f \in ToSet(t.events) : f \notin ToSet(s.events) =>
                 \A n \in Messages : Carries(f, n) => Fit(n, gone) /\ t.wavelets[n.wavelet].loaded
          BY <4>3, <4>4, <4>6
        <4>8. t.wavelets[w].loaded
          BY <2>4, <4>6
        <4>9. \A n \in ToSet(t.wavelets[w].queue) : n \in ToSet(s.wavelets[w].queue)
          BY <4>5, <4>6 DEF wv
        <4>10. WaveletGrows(s.wavelets[w], t.wavelets[w], ToSet(t.events), w, gone)
          BY <4>2, <4>6 DEF wv
        <4> QED
          BY <4>6, <4>7, <4>8, <4>9, <4>10, GrowsTo
      <3>2. CASE ~Tidy(s, gone)
        BY <3>2 DEF Grows
      <3> QED
        BY <3>1, <3>2
    <2> QED
      BY <2>1, <2>4, <2>5, <2>6, <2>8
  <1> QED
    BY <1>2, <1>3

\* Whoever subscribes is a subscriber then.
LEMMA GrowsSent ==
    ASSUME NEW s, NEW logs, NEW w \in Wavelets, Inside(s, logs, w), NEW gone,
           NEW c \in Connections, NEW member \in {"index", "content"}, NEW message
    PROVE  LET t == Sent(s, c, w, member, message)
           IN  Grows(s, t, gone) /\ (member = "index" => c \in t.wavelets[w].index)
  <1> DEFINE wv == s.wavelets[w]
             x == [wv EXCEPT ![member] = @ \cup {c}]
             told == [s EXCEPT !.wavelets[w] = x]
             e == ToConn(c, message)
             t == Sent(s, c, w, member, message)
             y == Post(told, e)
  <1>1. t = told \/ t = y \/ (t = s /\ c \in wv[member])
    BY DEF Sent
  <1>2. IsServer(s) /\ IsWavelet(wv, w) /\ wv.loaded
    BY DEF Inside, IsServer
  <1>3. /\ IsWavelet(x, w) /\ x.loaded /\ x.queue = wv.queue
        /\ x.participants = wv.participants /\ (Stuck(x) <=> Stuck(wv))
        /\ wv.index \subseteq x.index
        /\ member = "index" => c \in x.index
    <2>1. IsFiniteSet(wv.index \cup {c}) /\ IsFiniteSet(wv.content \cup {c})
      BY <1>2, FS_AddElement DEF IsWavelet
    <2>2. /\ DOMAIN x = WaveletFields /\ x = [f \in DOMAIN x |-> x[f]]
          /\ x.loaded = wv.loaded /\ x.enabled = wv.enabled /\ x.busy = wv.busy
          /\ x.queue = wv.queue /\ x.participants = wv.participants
          /\ x.index = wv.index \/ x.index = wv.index \cup {c}
          /\ x.content = wv.content \/ x.content = wv.content \cup {c}
          /\ member = "index" => c \in x.index
      BY <1>2 DEF IsWavelet, WaveletFields
    <2> HIDE DEF x, wv
    <2> QED
      BY <1>2, <2>1, <2>2 DEF IsWavelet, Stuck
  <1>4. \A m \in Messages : ~Carries(e, m)
    BY DEF Carries, ToConn
  <1> HIDE DEF x, e, t
  <1>5. Grows(s, told, gone)
    BY <1>2, <1>3, GrowsOne
  <1>6. IsServer(told) /\ told.wavelets[w] = x
    <2> HIDE DEF y, wv
    <2> QED
      BY <1>2, <1>3, WaveletBecomes
  <1> HIDE DEF told
  <1>7. Grows(told, y, gone) /\ y.wavelets = told.wavelets
    BY <1>4, <1>6, GrowsPost
  <1> HIDE DEF y
  <1>8. Grows(s, y, gone) /\ Grows(s, s, gone)
    BY <1>5, <1>7, GrowsFurther, GrowsNot
  <1>9. member = "index" => c \in t.wavelets[w].index
    BY <1>1, <1>3, <1>6, <1>7
  <1>10. Grows(s, t, gone)
    BY <1>1, <1>5, <1>8
  <1> QED
    BY <1>9, <1>10 DEF t

\* So it is with both kinds of subscription.
LEMMA GrowsSubscribed ==
    ASSUME NEW s, NEW logs, NEW w \in Wavelets, Inside(s, logs, w), NEW gone,
           NEW m \in Subscriptions
    PROVE  LET t == Subscribed(s, w, m)
           IN  Grows(s, t, gone) /\ (m.index => m.conn \in t.wavelets[w].index)
  <1> DEFINE c == m.conn
             r == IF m.content THEN SubscribeContent(s, c, w) ELSE s
             t == IF m.index THEN SubscribeIndex(r, c, w) ELSE r
  <1>1. c \in Connections
    BY JobFacts
  <1>2. Subscribed(s, w, m) = t
    BY DEF Subscribed
  <1> HIDE DEF c
  <1>3. Inside(r, logs, w)
    BY <1>1, SentKeeps DEF SubscribeContent
  <1>4. Grows(s, r, gone)
    BY <1>1, GrowsSent, GrowsNot DEF SubscribeContent
  <1> HIDE DEF r
  <1>5. Grows(r, t, gone) /\ (m.index => c \in t.wavelets[w].index)
    BY <1>1, <1>3, GrowsSent, GrowsNot DEF SubscribeIndex
  <1> HIDE DEF t
  <1>6. Grows(s, t, gone)
    BY <1>4, <1>5, GrowsFurther
  <1> QED
    BY <1>2, <1>5, <1>6 DEF c

\* Only who is gone is taken from the subscribers.
LEMMA GrowsUnsubscribed ==
    ASSUME NEW s, NEW logs, NEW w \in Wavelets, Inside(s, logs, w), NEW gone,
           NEW m, m.conn \in gone
    PROVE  Grows(s, Unsubscribed(s, w, m), gone)
  <1> DEFINE wv == s.wavelets[w]
             x == [wv EXCEPT !.content = IF m.content THEN @ \ {m.conn} ELSE @,
                             !.index = IF m.index THEN @ \ {m.conn} ELSE @]
             t == [s EXCEPT !.wavelets[w] = x]
  <1>1. IsWavelet(wv, w) /\ IsServer(s) /\ wv.loaded
    BY DEF Inside, IsServer
  <1>2. Unsubscribed(s, w, m) = t
    BY <1>1, ZenonT(60) DEF Unsubscribed, IsServer
  <1>3. /\ IsWavelet(x, w) /\ x.loaded /\ x.queue = wv.queue
        /\ x.participants = wv.participants /\ (Stuck(x) <=> Stuck(wv))
        /\ x.index = wv.index \/ x.index = wv.index \ {m.conn}
    <2>1. IsFiniteSet(wv.index \ {m.conn}) /\ IsFiniteSet(wv.content \ {m.conn})
      BY <1>1, FS_RemoveElement DEF IsWavelet
    <2>2. /\ DOMAIN x = WaveletFields /\ x = [f \in DOMAIN x |-> x[f]]
          /\ x.loaded = wv.loaded /\ x.enabled = wv.enabled /\ x.busy = wv.busy
          /\ x.queue = wv.queue /\ x.participants = wv.participants
          /\ x.index = wv.index \/ x.index = wv.index \ {m.conn}
          /\ x.content = wv.content \/ x.content = wv.content \ {m.conn}
      BY <1>1 DEF IsWavelet, WaveletFields
    <2> HIDE DEF x, wv
    <2> QED
      BY <1>1, <2>1, <2>2 DEF IsWavelet, Stuck
  <1> HIDE DEF x
  <1>4. \A c \in wv.index : c \notin gone => c \in x.index
    BY <1>3
  <1>5. Grows(s, t, gone)
    BY <1>1, <1>3, <1>4, GrowsOne
  <1> QED
    BY <1>2, <1>5

\* A job subscribes the connection to the digests of the wavelet.
Asking(m, w, c) ==
    m.kind = "subscribe" /\ m.wavelet = w /\ m.conn = c /\ m.on /\ m.index

\* Who is inside runs: if he subscribes, and is not gone, he is a subscriber then.
LEMMA GrowsRuns ==
    ASSUME NEW s, NEW logs, NEW job \in Messages, Inside(s, logs, job.wavelet), NEW gone,
           Fit(job, gone)
    PROVE  LET t == Runs(s, job)
           IN  /\ Grows(s, t, gone)
               /\ \A c, w : Tidy(s, gone) /\ Asking(job, w, c) /\ c \notin gone =>
                               c \in t.wavelets[w].index
  <1> DEFINE w == job.wavelet
             t == Runs(s, job)
  <1>1. w \in Wavelets
    BY JobFacts
  <1>2. CASE job.kind = "subscribe"
    <2> DEFINE r == IF job.on THEN Subscribed(s, w, job) ELSE Unsubscribed(s, w, job)
    <2>1. job \in Subscriptions
      BY <1>2, JobFacts
    <2>2. Inside(r, logs, w)
      BY <1>1, <2>1, SubscribedKeeps, UnsubscribedKeeps
    <2>3. t = Leaves(r, w)
      BY <1>2 DEF Runs, SubscribeRuns
    <2>4. Grows(s, r, gone) /\ (job.on /\ job.index => job.conn \in r.wavelets[w].index)
      <3>1. CASE job.on
        BY <1>1, <2>1, <3>1, GrowsSubscribed
      <3>2. CASE ~job.on
        <4>1. job.conn \in gone
          BY <1>2, <3>2 DEF Fit
        <4> QED
          BY <1>1, <3>2, <4>1, GrowsUnsubscribed
      <3> QED
        BY <3>1, <3>2
    <2> HIDE DEF r, w, t
    <2>5. Grows(r, t, gone)
      BY <1>1, <2>2, <2>3, GrowsLeaves DEF Inside
    <2>6. Grows(s, t, gone)
      BY <2>4, <2>5, GrowsFurther
    <2>7. ASSUME Tidy(s, gone), NEW c \in r.wavelets[w].index, c \notin gone
          PROVE  c \in t.wavelets[w].index
      <3>1. Tidy(r, gone)
        BY <2>4, <2>7 DEF Grows
      <3>2. WaveletGrows(r.wavelets[w], t.wavelets[w], ToSet(t.events), w, gone)
        BY <1>1, <2>5, <3>1 DEF Grows
      <3> QED
        BY <2>7, <3>2 DEF WaveletGrows
    <2> QED
      BY <2>4, <2>6, <2>7 DEF Asking, w, t
  <1>3. CASE job.kind = "submit"
    <2> DEFINE e == Persist(job)
    <2>1. t = Post(s, e)
      BY <1>3, JobFacts DEF Runs
    <2>2. \A m \in Messages : ~Carries(e, m)
      BY DEF Carries, Persist, ToStore
    <2> HIDE DEF e
    <2>3. Grows(s, Post(s, e), gone)
      BY <2>2, GrowsPost DEF Inside
    <2> HIDE DEF t
    <2>4. Grows(s, t, gone)
      BY <2>1, <2>3
    <2> QED
      BY <1>3, <2>4 DEF Asking, t
  <1> QED
    BY <1>2, <1>3, JobFacts

\* An actor comes: if he subscribes, he is a subscriber then, or waits for it.
LEMMA GrowsEnters ==
    ASSUME NEW s, NEW logs, ServerOK(s, logs), NEW job \in Messages, NEW gone,
           Fit(job, gone), s.wavelets[job.wavelet].loaded
    PROVE  LET t == Enters(s, job)
           IN  /\ Grows(s, t, gone)
               /\ \A c, w : Tidy(s, gone) /\ Asking(job, w, c) /\ c \notin gone =>
                               \/ c \in t.wavelets[w].index
                               \/ job \in ToSet(t.wavelets[w].queue)
  <1> DEFINE w == job.wavelet
             wv == s.wavelets[w]
  <1>1. w \in Wavelets /\ job \in MessagesOf(w)
    BY JobFacts DEF MessagesOf
  <1>2. IsServer(s) /\ IsWavelet(wv, w) /\ Steady(wv, s.events, logs[w], w)
    BY <1>1 DEF ServerOK, IsServer
  <1>3. CASE Free(wv)
    <2> DEFINE x == [wv EXCEPT !.busy = TRUE]
               r == [s EXCEPT !.wavelets[w] = x]
               t == Runs(r, job)
    <2>1. Enters(s, job) = t
      BY <1>2, <1>3 DEF Enters
    <2>2. IsWavelet(x, w) /\ x.busy /\ x.loaded = wv.loaded /\ x.enabled = wv.enabled
          /\ x.participants = wv.participants /\ x.queue = wv.queue /\ x.index = wv.index
          /\ ~Stuck(x)
      BY <1>2 DEF IsWavelet, WaveletFields, Stuck
    <2> HIDE DEF x
    <2>3. /\ IsServer(r) /\ r.events = s.events /\ r.wavelets[w] = x
          /\ \A v \in Wavelets : v # w => r.wavelets[v] = s.wavelets[v]
      BY <1>1, <1>2, <2>2, WaveletBecomes
    <2>4. Grows(s, r, gone)
      BY <1>1, <1>2, <2>2, GrowsOne
    <2> HIDE DEF r
    <2>5. Resting(wv, s.events, logs[w], w)
      BY <1>2, <1>3 DEF Steady, Absent, Opening, Occupied, Free
    <2>6. \A v \in Wavelets : v # w => /\ r.wavelets[v] = s.wavelets[v]
                                       /\ Quiet(s.events, r.events, v)
      BY <2>3, QuietSame
    <2>7. \A v \in Wavelets : v # w => Steady(r.wavelets[v], r.events, logs[v], v)
      BY <1>1, <2>3, <2>6, OneChanges DEF ServerOK
    <2>8. Inside(r, logs, w)
      BY <2>2, <2>3, <2>5, <2>7 DEF Inside, Resting
    <2>9. /\ Grows(r, t, gone)
          /\ \A c, v : Tidy(r, gone) /\ Asking(job, v, c) /\ c \notin gone =>
                          c \in t.wavelets[v].index
      <3> HIDE DEF w
      <3> QED
        BY <2>8, GrowsRuns DEF w
    <2> HIDE DEF t
    <2>10. Grows(s, t, gone)
      BY <2>4, <2>9, GrowsFurther
    <2>11. Tidy(s, gone) => Tidy(r, gone)
      BY <2>4 DEF Grows
    <2> QED
      BY <2>1, <2>9, <2>10, <2>11
  <1>4. CASE ~Free(wv)
    <2> DEFINE q == wv.queue
               x == [wv EXCEPT !.queue = Append(@, job)]
               t == [s EXCEPT !.wavelets[w] = x]
    <2>1. Enters(s, job) = t
      BY <1>2, <1>4 DEF Enters
    <2>2. Append(q, job) \in Seq(MessagesOf(w)) /\ ToSet(Append(q, job)) = ToSet(q) \cup {job}
      <3>1. q \in Seq(MessagesOf(w))
        BY <1>2 DEF IsWavelet
      <3> HIDE DEF q, w
      <3> QED
        BY <1>1, <3>1, SequenceOfItsElements, AppendToSet, AppendProperties
    <2>3. IsWavelet(x, w) /\ x.loaded /\ x.queue = Append(q, job) /\ x.index = wv.index
          /\ x.participants = wv.participants /\ (Stuck(x) => Stuck(wv))
      BY <1>2, <1>4, <2>2 DEF IsWavelet, WaveletFields, Stuck, Free
    <2> HIDE DEF x
    <2>4. /\ IsServer(t) /\ t.events = s.events /\ t.wavelets[w] = x
          /\ \A v \in Wavelets : v # w => t.wavelets[v] = s.wavelets[v]
      BY <1>1, <1>2, <2>3, WaveletBecomes
    <2> HIDE DEF t
    <2>5. WaveletGrows(wv, x, ToSet(t.events), w, gone)
      BY <2>2, <2>3 DEF WaveletGrows
    <2>6. \A m \in ToSet(x.queue) : m \in ToSet(q) \/ Fit(m, gone)
      BY <2>2, <2>3
    <2>7. WaveletGrows(s.wavelets[w], t.wavelets[w], ToSet(t.events), w, gone)
      BY <2>4, <2>5
    <2>8. \A m \in ToSet(t.wavelets[w].queue) : m \in ToSet(s.wavelets[w].queue) \/ Fit(m, gone)
      BY <2>4, <2>6
    <2>9. t.wavelets[w].loaded /\ ToSet(t.events) = ToSet(s.events)
      BY <2>3, <2>4
    <2>10. job \in ToSet(t.wavelets[w].queue)
      BY <2>2, <2>3, <2>4
    <2> HIDE DEF w
    <2>11. Grows(s, t, gone)
      BY <1>1, <2>4, <2>7, <2>8, <2>9, GrowsTo
    <2> QED
      BY <2>1, <2>10, <2>11 DEF Asking, w
  <1> QED
    BY <1>3, <1>4

-----------------------------------------------------------------------------
(* A delta, and the history.                                                 *)

\* One operation: nobody is taken from the subscribers, and who is new is told.
LEMMA GrowsOp ==
    ASSUME NEW s, NEW logs, NEW w \in Wavelets, Around(s, logs, w), NEW op \in Ops, NEW gone
    PROVE  Grows(s, OpApplied(s, w, op), gone)
  <1> DEFINE wv == s.wavelets[w]
             t == OpApplied(s, w, op)
  <1>1. IsServer(s) /\ IsWavelet(wv, w) /\ wv.loaded
    BY DEF Around, IsServer
  <1>2. CASE \E u \in Users : op = Add(u)
    <2>1. PICK u \in Users : op = Add(u)
      BY <1>2
    <2>2. t = ParticipantAdded(s, w, u)
      BY <2>1 DEF OpApplied, Add
    <2>3. CASE u \in wv.participants
      <3>1. t = s
        BY <2>2, <2>3 DEF ParticipantAdded
      <3> QED
        BY <3>1, GrowsNot
    <2>4. CASE u \notin wv.participants
      <3> DEFINE x == [wv EXCEPT !.participants = @ \cup {u}]
                 r == [s EXCEPT !.wavelets[w] = x]
                 e == Notify(u, w)
                 y == Post(r, e)
      <3>1. t = y
        BY <2>2, <2>4 DEF ParticipantAdded
      <3>2. /\ IsWavelet(x, w) /\ x.loaded /\ x.queue = wv.queue /\ x.index = wv.index
            /\ x.participants = wv.participants \cup {u} /\ (Stuck(x) <=> Stuck(wv))
        BY <1>1 DEF IsWavelet, WaveletFields, Stuck
      <3>3. \A m \in Messages : ~Carries(e, m)
        BY DEF Carries, Notify
      <3> HIDE DEF x, t
      <3>4. /\ IsServer(r) /\ r.events = s.events /\ r.wavelets[w] = x
            /\ \A v \in Wavelets : v # w => r.wavelets[v] = s.wavelets[v]
        <4> HIDE DEF y, wv
        <4> QED
          BY <1>1, <3>2, WaveletBecomes
      <3> HIDE DEF r
      <3>5. /\ y.wavelets = r.wavelets /\ y.events = Append(s.events, e)
            /\ IsSequence(s.events)
        BY <3>4 DEF Post, IsServer, IsQueue
      <3> HIDE DEF y
      <3>6. ToSet(y.events) = ToSet(s.events) \cup {e}
        BY <3>5, AppendToSet
      <3>7. WaveletGrows(wv, x, ToSet(y.events), w, gone)
        BY <3>2, <3>6 DEF WaveletGrows
      <3> HIDE DEF e, wv
      <3>8. /\ y.wavelets[w] = x /\ ToSet(s.events) \subseteq ToSet(y.events)
            /\ \A v \in Wavelets : v # w => y.wavelets[v] = s.wavelets[v]
            /\ \A f \in ToSet(y.events) : f \notin ToSet(s.events) => f = e
        BY <3>4, <3>5, <3>6
      <3>9. WaveletGrows(s.wavelets[w], y.wavelets[w], ToSet(y.events), w, gone)
        BY <3>7, <3>8 DEF wv
      <3>10. y.wavelets[w].loaded /\ y.wavelets[w].queue = s.wavelets[w].queue
        BY <3>2, <3>8 DEF wv
      <3>11. Grows(s, y, gone)
        BY <3>3, <3>8, <3>9, <3>10, GrowsTo
      <3> QED
        BY <3>1, <3>11 DEF t
    <2> QED
      BY <2>3, <2>4
  <1>3. CASE \E u \in Users : op = Expel(u)
    <2>1. PICK u \in Users : op = Expel(u)
      BY <1>3
    <2>2. t = ParticipantRemoved(s, w, u)
      BY <2>1 DEF OpApplied, Expel
    <2>3. u \notin wv.index
      <3>1. u \notin Connections
        BY UsersAreNoConnections DEF Connections
      <3> QED
        BY <1>1, <3>1 DEF IsWavelet
    <2> DEFINE r == t.wavelets[w]
    <2>4. /\ t.events = s.events
          /\ \A v \in Wavelets : v # w => t.wavelets[v] = s.wavelets[v]
          /\ r.loaded /\ r.queue = wv.queue /\ r.participants \subseteq wv.participants
          /\ r.index = UnsubscribeAllClients(wv.index, u) /\ (Stuck(r) <=> Stuck(wv))
      BY <1>1, <2>2 DEF ParticipantRemoved, IsServer, IsWavelet, WaveletFields, Stuck
    <2>5. wv.index \subseteq r.index
      BY <2>3, <2>4 DEF UnsubscribeAllClients
    <2> HIDE DEF t
    <2>6. WaveletGrows(wv, r, ToSet(t.events), w, gone)
      BY <2>4, <2>5 DEF WaveletGrows
    <2>7. Grows(s, t, gone)
      BY <2>4, <2>6, GrowsTo
    <2> QED
      BY <2>7 DEF t
  <1>4. CASE op \in {Start, Type}
    <2> DEFINE x == IF op = Start THEN [wv EXCEPT !.blip = TRUE]
                    ELSE [wv EXCEPT !.text = Append(@, "x")]
               r == [s EXCEPT !.wavelets[w] = x]
    <2>1. t = r
      <3>1. CASE op = Start
        <4>1. t = [s EXCEPT !.wavelets[w].blip = TRUE]
          BY <3>1 DEF OpApplied, Start
        <4>2. x = [wv EXCEPT !.blip = TRUE]
          BY <3>1
        <4> QED
          BY <4>1, <4>2
      <3>2. CASE op = Type
        <4>1. t = [s EXCEPT !.wavelets[w].text = Append(@, "x")] /\ op # Start
          BY <3>2 DEF OpApplied, Start, Type
        <4>2. x = [wv EXCEPT !.text = Append(@, "x")]
          BY <4>1
        <4> QED
          BY <4>1, <4>2
      <3> QED
        BY <1>4, <3>1, <3>2
    <2>2. /\ IsWavelet(x, w) /\ x.loaded /\ x.queue = wv.queue /\ x.index = wv.index
          /\ x.participants = wv.participants /\ (Stuck(x) <=> Stuck(wv))
      BY <1>1 DEF IsWavelet, WaveletFields, Stuck
    <2> HIDE DEF x, t
    <2>3. Grows(s, r, gone)
      BY <1>1, <2>2, GrowsOne
    <2> QED
      BY <2>1, <2>3 DEF t
  <1> QED
    BY <1>2, <1>3, <1>4 DEF Ops

\* So it is with all of them.
LEMMA GrowsOps ==
    ASSUME NEW s, NEW logs, NEW w \in Wavelets, Around(s, logs, w), NEW delta \in DeltaSet,
           NEW gone
    PROVE  Grows(s, OpsApplied(s, w, delta), gone)
  <1>1. PICK f : OpsBy(f, s, w, delta)
    BY OpsRun
  <1> DEFINE n == Len(delta)
             State(r) == Around(r, logs, w) /\ Grows(s, r, gone)
             T == {k \in Nat : k <= n => State(f[k])}
  <1>2. n \in Nat /\ \A k \in 1..n : delta[k] \in Ops
    BY LenProperties DEF DeltaSet
  <1>3. 0 \in T
    BY <1>1, GrowsNot DEF OpsBy
  <1>4. ASSUME NEW k \in Nat, k \in T
        PROVE  k + 1 \in T
    <2> SUFFICES ASSUME k + 1 <= n
                 PROVE  State(f[k + 1])
      OBVIOUS
    <2> DEFINE r == f[k]
               op == delta[k + 1]
               t == f[k + 1]
    <2>1. k + 1 \in 1..n /\ (k + 1) - 1 = k /\ k <= n
      BY <1>2
    <2>2. t = OpApplied(r, w, op) /\ op \in Ops
      BY <1>1, <1>2, <2>1 DEF OpsBy
    <2>3. Around(r, logs, w) /\ Grows(s, r, gone)
      BY <1>4, <2>1
    <2> HIDE DEF r, t, op
    <2>4. Around(t, logs, w)
      BY <2>2, <2>3, OpAppliedKeeps
    <2>5. Grows(r, t, gone)
      BY <2>2, <2>3, GrowsOp
    <2>6. Grows(s, t, gone)
      BY <2>3, <2>5, GrowsFurther
    <2> QED
      BY <2>4, <2>6 DEF t
  <1> HIDE DEF State
  <1>5. n \in T
    <2> HIDE DEF T, n
    <2> QED
      BY <1>2, <1>3, <1>4, SetInduction
  <1>6. State(f[n])
    BY <1>2, <1>5
  <1> DEFINE r == f[n]
             wv == r.wavelets[w]
             x == [wv EXCEPT !.version = @ + 1]
             t == [r EXCEPT !.wavelets[w] = x]
  <1>7. OpsApplied(s, w, delta) = t
    BY <1>1 DEF OpsBy
  <1>8. Around(r, logs, w) /\ Grows(s, r, gone)
    BY <1>6 DEF State
  <1> HIDE DEF r
  <1>9. IsServer(r) /\ IsWavelet(wv, w) /\ wv.loaded
    BY <1>8 DEF Around, IsServer
  <1>10. /\ IsWavelet(x, w) /\ x.loaded /\ x.queue = wv.queue /\ x.index = wv.index
         /\ x.participants = wv.participants /\ (Stuck(x) <=> Stuck(wv))
    BY <1>9 DEF IsWavelet, WaveletFields, Stuck
  <1> HIDE DEF x
  <1>11. Grows(r, t, gone)
    BY <1>9, <1>10, GrowsOne
  <1> HIDE DEF t
  <1>12. Grows(s, t, gone)
    BY <1>8, <1>11, GrowsFurther
  <1> QED
    BY <1>7, <1>12

\* Something is sent to several connections.
LEMMA GrowsPostAll ==
    ASSUME NEW s, IsServer(s), NEW S, IsFiniteSet(S), \A e \in S : e.to = "conn", NEW gone
    PROVE  Grows(s, PostAll(s, SetToSeq(S)), gone)
  <1> DEFINE p == SetToSeq(S)
             t == PostAll(s, p)
  <1>1. p \in Seq(S)
    BY SetToSeqIsSequence
  <1> HIDE DEF p
  <1>2. IsSequence(p) /\ \A e \in ToSet(p) : e.to = "conn"
    BY <1>1, SequenceOfItsElements DEF ToSet
  <1>3. t.wavelets = s.wavelets /\ t.events = s.events \o p /\ IsSequence(s.events)
    BY DEF PostAll, IsServer, IsQueue
  <1> HIDE DEF t
  <1>4. ToSet(t.events) = ToSet(s.events) \cup ToSet(p)
    BY <1>2, <1>3, ElementsOfBoth
  <1>5. \A e \in ToSet(p) : \A m : ~Carries(e, m)
    BY <1>2 DEF Carries
  <1>6. Grows(s, t, gone)
    BY <1>3, <1>4, <1>5 DEF Grows, Tidy, WaveletGrows
  <1> QED
    BY <1>6 DEF t, p

\* A delta is applied, and what has changed is sent.
LEMMA GrowsApply ==
    ASSUME NEW s, NEW logs, NEW w \in Wavelets, Around(s, logs, w), NEW delta \in DeltaSet,
           NEW gone
    PROVE  Grows(s, Apply(s, w, delta), gone)
  <1> DEFINE r == OpsApplied(s, w, delta)
             S == {ToConn(c, Update(w, r.wavelets[w])) : c \in r.wavelets[w].content}
             b == PostAll(r, SetToSeq(S))
             wv == b.wavelets[w]
             digest == NextDigest(w, wv, delta)
             x == [wv EXCEPT !.digest = digest.text]
             d == [b EXCEPT !.wavelets[w] = x]
             D == {ToConn(c, digest) : c \in wv.index}
             t == PostAll(d, SetToSeq(D))
  <1>1. Around(r, logs, w) /\ Grows(s, r, gone)
    BY OpsAppliedKeeps, GrowsOps
  <1>2. Apply(s, w, delta) = t
    BY DEF Apply, Broadcast, BroadcastDigest
  <1> HIDE DEF r
  <1>3. IsFiniteSet(S) /\ \A e \in S : e.to = "conn"
    <2> DEFINE C == r.wavelets[w].content
               f == [c \in C |-> ToConn(c, Update(w, r.wavelets[w]))]
    <2>1. IsFiniteSet(C)
      BY <1>1 DEF Around, IsServer, IsWavelet
    <2>2. S = {f[c] : c \in C}
      OBVIOUS
    <2>3. \A e \in S : e.to = "conn"
      BY DEF ToConn
    <2> HIDE DEF f, C, S
    <2> QED
      BY <2>1, <2>2, <2>3, ImageIsFinite
  <1> HIDE DEF S
  <1>4. Around(b, logs, w)
    BY <1>1, <1>3, AroundPostsAll
  <1>5. Grows(r, b, gone)
    BY <1>1, <1>3, GrowsPostAll DEF Around
  <1> HIDE DEF b
  <1>6. IsServer(b) /\ IsWavelet(wv, w) /\ wv.loaded
    BY <1>4 DEF Around, IsServer
  <1>7. IsFiniteSet(D) /\ \A e \in D : e.to = "conn"
    <2> DEFINE C == wv.index
               f == [c \in C |-> ToConn(c, digest)]
    <2>1. IsFiniteSet(C)
      BY <1>6 DEF IsWavelet
    <2>2. D = {f[c] : c \in C}
      OBVIOUS
    <2>3. \A e \in D : e.to = "conn"
      BY DEF ToConn
    <2> HIDE DEF f, C, D
    <2> QED
      BY <2>1, <2>2, <2>3, ImageIsFinite
  <1> HIDE DEF digest, D
  <1>8. /\ IsWavelet(x, w) /\ x.loaded /\ x.queue = wv.queue /\ x.index = wv.index
        /\ x.participants = wv.participants /\ (Stuck(x) <=> Stuck(wv))
    BY <1>6 DEF IsWavelet, WaveletFields, Stuck
  <1> HIDE DEF x
  <1>9. Grows(b, d, gone)
    BY <1>6, <1>8, GrowsOne
  <1>10. IsServer(d)
    <2> HIDE DEF t, wv
    <2> QED
      BY <1>6, <1>8, WaveletBecomes
  <1> HIDE DEF d
  <1>11. Grows(d, t, gone)
    BY <1>7, <1>10, GrowsPostAll
  <1> HIDE DEF t
  <1>12. Grows(s, b, gone) /\ Grows(b, t, gone)
    BY <1>1, <1>5, <1>9, <1>11, GrowsFurther
  <1>13. Grows(s, t, gone)
    BY <1>12, GrowsFurther
  <1> QED
    BY <1>2, <1>13

\* A wavelet that is changed twice.
LEMMA TwiceTheSame ==
    ASSUME NEW s, IsServer(s), NEW w \in Wavelets, NEW x, NEW y,
           NEW r, r = [s EXCEPT !.wavelets[w] = x]
    PROVE  [r EXCEPT !.wavelets[w] = y] = [s EXCEPT !.wavelets[w] = y]
  <1> DEFINE f == s.wavelets
             a == [f EXCEPT ![w] = x]
             b == [f EXCEPT ![w] = y]
  <1>1. /\ DOMAIN s = {"wavelets", "events"} /\ s = [g \in DOMAIN s |-> s[g]]
        /\ f = [v \in Wavelets |-> f[v]]
    BY DEF IsServer
  <1>2. r = [s EXCEPT !.wavelets = a] /\ [s EXCEPT !.wavelets[w] = y] = [s EXCEPT !.wavelets = b]
    OBVIOUS
  <1>3. a[w] = x /\ [a EXCEPT ![w] = y] = b
    BY <1>1
  <1> HIDE DEF a, b, f
  <1>4. r.wavelets = a
    BY <1>1, <1>2
  <1>5. [r EXCEPT !.wavelets[w] = y] = [r EXCEPT !.wavelets = [a EXCEPT ![w] = y]]
    BY <1>4
  <1>6. [[s EXCEPT !.wavelets = a] EXCEPT !.wavelets = b] = [s EXCEPT !.wavelets = b]
    BY <1>1
  <1> QED
    BY <1>2, <1>3, <1>5, <1>6

\* Who enables the section leaves it, as if he had been inside.
LEMMA EnablesMeans ==
    ASSUME NEW s, IsServer(s), NEW w \in Wavelets
    PROVE  LET x == [s.wavelets[w] EXCEPT !.enabled = TRUE, !.busy = TRUE]
           IN  Enables(s, w) = Leaves([s EXCEPT !.wavelets[w] = x], w)
  <1> DEFINE wv == s.wavelets[w]
             k == [wv EXCEPT !.enabled = TRUE]
             x == [wv EXCEPT !.enabled = TRUE, !.busy = TRUE]
             y == [wv EXCEPT !.enabled = TRUE, !.busy = FALSE]
             z == [wv EXCEPT !.enabled = TRUE, !.busy = TRUE, !.queue = Tail(@)]
             a == [s EXCEPT !.wavelets[w] = k]
             d == [s EXCEPT !.wavelets[w] = x]
             e == [to |-> "enter", job |-> Head(wv.queue)]
             t == IF wv.queue = <<>> THEN [s EXCEPT !.wavelets[w] = y]
                  ELSE Post([s EXCEPT !.wavelets[w] = z], e)
  <1>1. IsWavelet(wv, w)
    BY DEF IsServer
  <1>2. /\ IsWavelet(k, w) /\ k.queue = wv.queue /\ IsWavelet(x, w) /\ x.queue = wv.queue
        /\ y = [k EXCEPT !.busy = FALSE] /\ y = [x EXCEPT !.busy = FALSE]
        /\ z = [k EXCEPT !.busy = TRUE, !.queue = Tail(@)]
        /\ z = [x EXCEPT !.busy = TRUE, !.queue = Tail(@)]
    BY <1>1 DEF IsWavelet, WaveletFields
  <1>3. Enables(s, w) = Leaves(a, w)
    BY DEF Enables
  <1> HIDE DEF k, x, y, z, e
  <1>4. IsServer(a) /\ a.wavelets[w] = k /\ IsServer(d) /\ d.wavelets[w] = x
    <2> HIDE DEF wv, t
    <2> QED
      BY <1>2, WaveletBecomes
  <1>5. [a EXCEPT !.wavelets[w] = y] = [s EXCEPT !.wavelets[w] = y]
    BY TwiceTheSame
  <1>6. [a EXCEPT !.wavelets[w] = z] = [s EXCEPT !.wavelets[w] = z]
    BY TwiceTheSame
  <1>7. [d EXCEPT !.wavelets[w] = y] = [s EXCEPT !.wavelets[w] = y]
    BY TwiceTheSame
  <1>8. [d EXCEPT !.wavelets[w] = z] = [s EXCEPT !.wavelets[w] = z]
    BY TwiceTheSame
  <1> HIDE DEF a, d
  <1>9. Leaves(a, w) = t
    <2> DEFINE v == a.wavelets[w]
               yv == [v EXCEPT !.busy = FALSE]
               zv == [v EXCEPT !.busy = TRUE, !.queue = Tail(@)]
    <2>1. Leaves(a, w) = IF v.queue = <<>> THEN [a EXCEPT !.wavelets[w] = yv]
                         ELSE Post([a EXCEPT !.wavelets[w] = zv],
                                   [to |-> "enter", job |-> Head(v.queue)])
      BY <1>4, LeavesMeans
    <2>2. v.queue = wv.queue /\ yv = y /\ zv = z
      BY <1>2, <1>4
    <2> HIDE DEF v, yv, zv
    <2> QED
      BY <1>5, <1>6, <2>1, <2>2 DEF e
  <1>10. Leaves(d, w) = t
    <2> DEFINE v == d.wavelets[w]
               yv == [v EXCEPT !.busy = FALSE]
               zv == [v EXCEPT !.busy = TRUE, !.queue = Tail(@)]
    <2>1. Leaves(d, w) = IF v.queue = <<>> THEN [d EXCEPT !.wavelets[w] = yv]
                         ELSE Post([d EXCEPT !.wavelets[w] = zv],
                                   [to |-> "enter", job |-> Head(v.queue)])
      BY <1>4, LeavesMeans
    <2>2. v.queue = wv.queue /\ yv = y /\ zv = z
      BY <1>2, <1>4
    <2> HIDE DEF v, yv, zv
    <2> QED
      BY <1>7, <1>8, <2>1, <2>2 DEF e
  <1> QED
    BY <1>3, <1>9, <1>10 DEF d, x

\* So it is with the history, after which those that waited come in.
LEMMA GrowsReplay ==
    ASSUME NEW s, NEW logs, NEW w \in Wavelets, Around(s, logs, w), NEW deltas \in Logs,
           NEW gone
    PROVE  Grows(s, Replay(s, w, deltas), gone)
  <1> DEFINE n == Len(deltas)
  <1>1. PICK f : ReplayBy(f, s, w, deltas)
    BY HistoryRuns
  <1>2. n \in Nat /\ \A k \in 1..n : deltas[k] \in DeltaSet
    BY LenProperties DEF Logs
  <1> DEFINE State(r) == Around(r, logs, w) /\ Grows(s, r, gone)
             T == {k \in Nat : k <= n => State(f[k])}
  <1>3. 0 \in T
    BY <1>1, GrowsNot DEF ReplayBy
  <1>4. ASSUME NEW k \in Nat, k \in T
        PROVE  k + 1 \in T
    <2> SUFFICES ASSUME k + 1 <= n
                 PROVE  State(f[k + 1])
      OBVIOUS
    <2> DEFINE r == f[k]
               delta == deltas[k + 1]
               t == f[k + 1]
    <2>1. k + 1 \in 1..n /\ (k + 1) - 1 = k /\ k <= n
      BY <1>2
    <2>2. t = Apply(r, w, delta) /\ delta \in DeltaSet
      BY <1>1, <1>2, <2>1 DEF ReplayBy
    <2>3. Around(r, logs, w) /\ Grows(s, r, gone)
      BY <1>4, <2>1
    <2> HIDE DEF r, t, delta
    <2>4. Around(t, logs, w)
      BY <2>2, <2>3, ApplyKeeps
    <2>5. Grows(r, t, gone)
      BY <2>2, <2>3, GrowsApply
    <2>6. Grows(s, t, gone)
      BY <2>3, <2>5, GrowsFurther
    <2> QED
      BY <2>4, <2>6 DEF t
  <1> HIDE DEF State
  <1>5. n \in T
    <2> HIDE DEF T, n
    <2> QED
      BY <1>2, <1>3, <1>4, SetInduction
  <1>6. State(f[n])
    BY <1>2, <1>5
  <1> DEFINE r == f[n]
             wv == r.wavelets[w]
             x == [wv EXCEPT !.enabled = TRUE, !.busy = TRUE]
             d == [r EXCEPT !.wavelets[w] = x]
             t == Leaves(d, w)
  <1>7. Around(r, logs, w) /\ Grows(s, r, gone)
    BY <1>6 DEF State
  <1> HIDE DEF r
  <1>8. IsServer(r) /\ IsWavelet(wv, w) /\ wv.loaded
    BY <1>7 DEF Around, IsServer
  <1>9. Replay(s, w, deltas) = t
    <2>1. Replay(s, w, deltas) = Enables(r, w)
      BY <1>1 DEF ReplayBy, r
    <2> QED
      BY <1>8, <2>1, EnablesMeans
  <1>10. /\ IsWavelet(x, w) /\ x.loaded /\ x.queue = wv.queue /\ x.index = wv.index
         /\ x.participants = wv.participants /\ ~Stuck(x)
    BY <1>8 DEF IsWavelet, WaveletFields, Stuck
  <1> HIDE DEF x
  <1>11. Grows(r, d, gone)
    BY <1>8, <1>10, GrowsOne
  <1>12. IsServer(d) /\ d.wavelets[w] = x
    <2> HIDE DEF t, wv
    <2> QED
      BY <1>8, <1>10, WaveletBecomes
  <1> HIDE DEF d
  <1>13. Grows(d, t, gone)
    BY <1>10, <1>12, GrowsLeaves
  <1> HIDE DEF t
  <1>14. Grows(s, d, gone)
    BY <1>7, <1>11, GrowsFurther
  <1>15. Grows(s, t, gone)
    BY <1>13, <1>14, GrowsFurther
  <1> QED
    BY <1>9, <1>15

-----------------------------------------------------------------------------
(* Several messages, and the requests.                                       *)

\* The messages are posted, all of those that find their wavelet.
LEMMA GrowsPosts ==
    ASSUME NEW s, NEW logs, ServerOK(s, logs), NEW onDemand, NEW n \in Nat, NEW m, NEW f,
           PostsBy(f, s, onDemand, m, n), NEW gone, \A i \in 1..n : Fit(m[i], gone)
    PROVE  /\ Grows(s, f[n], gone)
           /\ Tidy(s, gone) =>
                 \A i \in 1..n : Found(s, m[i].wavelet, onDemand) =>
                     [to |-> "wavelet", message |-> m[i]] \in ToSet(f[n].events)
  <1> DEFINE e(i) == [to |-> "wavelet", message |-> m[i]]
             Has(r, k) == \A i \in 1..k : Found(s, m[i].wavelet, onDemand) => e(i) \in ToSet(r.events)
             State(r, k) == /\ ServerOK(r, logs) /\ Grows(s, r, gone)
                            /\ Tidy(s, gone) => Has(r, k)
             T == {k \in Nat : k <= n => State(f[k], k)}
  <1>1. 0 \in T
    BY GrowsNot DEF PostsBy
  <1>2. ASSUME NEW k \in Nat, k \in T
        PROVE  k + 1 \in T
    <2> SUFFICES ASSUME k + 1 <= n
                 PROVE  State(f[k + 1], k + 1)
      OBVIOUS
    <2> DEFINE r == f[k]
               x == m[k + 1]
               t == f[k + 1]
    <2>1. k + 1 \in 1..n /\ (k + 1) - 1 = k /\ k <= n
      OBVIOUS
    <2>2. t = PostToWavelet(r, onDemand, x) /\ x \in Messages /\ Fit(x, gone)
      BY <2>1 DEF PostsBy
    <2>3. State(r, k)
      BY <1>2, <2>1
    <2> HIDE DEF r, t, x, e
    <2>4. ServerOK(t, logs)
      BY <2>2, <2>3, PostToWaveletKeeps
    <2>5. /\ Grows(r, t, gone)
          /\ Found(r, x.wavelet, onDemand) => [to |-> "wavelet", message |-> x] \in ToSet(t.events)
      <3> HIDE DEF Has
      <3> QED
        BY <2>2, <2>3, GrowsToWavelet
    <2>6. Grows(s, t, gone)
      BY <2>3, <2>5, GrowsFurther
    <2>7. ASSUME Tidy(s, gone)
          PROVE  Has(t, k + 1)
      <3>1. Tidy(r, gone)
        BY <2>3, <2>7 DEF Grows
      <3>2. ToSet(r.events) \subseteq ToSet(t.events)
        BY <2>5, <3>1 DEF Grows
      <3>3. x.wavelet \in Wavelets
        BY <2>2, JobFacts
      <3>4. Found(s, x.wavelet, onDemand) => Found(r, x.wavelet, onDemand)
        <4>1. WaveletGrows(s.wavelets[x.wavelet], r.wavelets[x.wavelet], ToSet(r.events),
                           x.wavelet, gone)
          BY <2>3, <2>7, <3>3 DEF Grows
        <4> QED
          BY <4>1 DEF WaveletGrows, Found
      <3>5. Found(s, x.wavelet, onDemand) => e(k + 1) \in ToSet(t.events)
        BY <2>5, <3>4 DEF e, x
      <3>6. Has(r, k)
        BY <2>3, <2>7
      <3>7. \A i \in 1..(k + 1) : i \in 1..k \/ i = k + 1
        OBVIOUS
      <3> QED
        BY <3>2, <3>5, <3>6, <3>7 DEF x
    <2> HIDE DEF Has
    <2> QED
      BY <2>4, <2>6, <2>7 DEF t
  <1> HIDE DEF State
  <1>3. n \in T
    <2> HIDE DEF T
    <2> QED
      BY <1>1, <1>2, SetInduction
  <1>4. State(f[n], n)
    BY <1>3
  <1> QED
    BY <1>4 DEF State

\* The client asks for his index.
ListingFor(c) == ToActor([kind |-> "listing", conn |-> c])

\* A request is handled; if it is for the index, that is posted.
LEMMA GrowsRequested ==
    ASSUME NEW s, NEW logs, ServerOK(s, logs), NEW u, Conn(u) \in Connections,
           NEW m \in Requests, NEW gone
    PROVE  LET t == Requested(s, u, m)
           IN  /\ Grows(s, t, gone)
               /\ m = OpenIndex => ListingFor(Conn(u)) \in ToSet(t.events)
  <1> DEFINE c == Conn(u)
             t == Requested(s, u, m)
  <1>1. CASE m = OpenIndex
    <2> DEFINE x == ListingFor(c)
    <2>1. t = Post(s, x)
      BY <1>1 DEF Requested, OpenIndex, ListingFor
    <2>2. \A n \in Messages : ~Carries(x, n)
      BY JobFacts DEF ListingFor, Carries, ToActor
    <2> HIDE DEF x, t
    <2>3. Grows(s, Post(s, x), gone) /\ ToSet(Post(s, x).events) = ToSet(s.events) \cup {x}
      BY <2>2, GrowsPost DEF ServerOK
    <2>4. Grows(s, t, gone) /\ x \in ToSet(t.events)
      BY <2>1, <2>3
    <2> QED
      BY <2>4 DEF x, t
  <1>2. ASSUME NEW w \in Wavelets, m = OpenWavelet(w)
        PROVE  Grows(s, t, gone) /\ m # OpenIndex
    <2> DEFINE x == Subscribe(c, w, TRUE, TRUE)
    <2>1. t = PostToWavelet(s, TRUE, x) /\ m # OpenIndex
      BY <1>2 DEF Requested, OpenWavelet, OpenIndex
    <2> HIDE DEF c, t
    <2>2. x \in Messages
      BY SubscribeTyped DEF c
    <2>3. Fit(x, gone)
      BY DEF Fit, Subscribe
    <2> HIDE DEF x
    <2>4. Grows(s, PostToWavelet(s, TRUE, x), gone)
      BY <2>2, <2>3, GrowsToWavelet
    <2> QED
      BY <2>1, <2>4
  <1> QED
    BY <1>1, <1>2 DEF Requests

\* So it is with all the requests that are complete.
LEMMA GrowsHandled ==
    ASSUME NEW logs, ServerOK(Server, logs), NEW u, Conn(u) \in Connections, NEW conn,
           NEW q \in Seq(Requests), NEW gone
    PROVE  LET t == HandleAll(u, conn, q).server
           IN  /\ Grows(Server, t, gone)
               /\ Tidy(Server, gone) /\ q # <<>> /\ q[1] = OpenIndex =>
                     ListingFor(Conn(u)) \in ToSet(t.events)
  <1> DEFINE x == ListingFor(Conn(u))
             n == Len(q)
             State(r, k) == /\ ServerOK(r, logs) /\ Grows(Server, r, gone)
                            /\ Tidy(Server, gone) /\ k > 0 /\ q[1] = OpenIndex =>
                                  x \in ToSet(r.events)
  <1>1. PICK f : HandlesBy(f, u, conn, q)
    BY HandleAllRuns
  <1>2. n \in Nat /\ (q # <<>> => n > 0) /\ \A i \in 1..n : q[i] \in Requests
    BY LenProperties, EmptySeq
  <1>3. /\ f[0].server = Server
        /\ \A i \in 1..n : f[i].server = Requested(f[i - 1].server, u, q[i])
        /\ HandleAll(u, conn, q) = f[n]
    <2>1. f[0].server = Server /\ HandleAll(u, conn, q) = f[n]
      BY <1>1 DEF HandlesBy
    <2>2. ASSUME NEW i \in 1..n
          PROVE  f[i].server = Requested(f[i - 1].server, u, q[i])
      <3> DEFINE a == Requested(f[i - 1].server, u, q[i])
                 b == OpenRequest(f[i - 1].conn, q[i])
      <3>1. f[i] = [server |-> a, conn |-> b]
        BY <1>1 DEF HandlesBy
      <3> HIDE DEF a, b
      <3>2. f[i].server = a
        BY <3>1
      <3> QED
        BY <3>2 DEF a
    <2> QED
      BY <2>1, <2>2
  <1> DEFINE T == {k \in Nat : k <= n => State(f[k].server, k)}
  <1>4. 0 \in T
    BY <1>3, GrowsNot
  <1>5. ASSUME NEW k \in Nat, k \in T
        PROVE  k + 1 \in T
    <2> SUFFICES ASSUME k + 1 <= n
                 PROVE  State(f[k + 1].server, k + 1)
      OBVIOUS
    <2> DEFINE s == f[k].server
               t == f[k + 1].server
               m == q[k + 1]
    <2>1. k + 1 \in 1..n /\ (k + 1) - 1 = k /\ k <= n
      BY <1>2
    <2>2. t = Requested(s, u, m) /\ m \in Requests
      BY <1>2, <1>3, <2>1
    <2>3. State(s, k)
      BY <1>5, <2>1
    <2>4. k = 0 => m = q[1]
      OBVIOUS
    <2> HIDE DEF s, t, m, x
    <2>5. ServerOK(t, logs)
      BY <2>2, <2>3, RequestedKeeps
    <2>6. Grows(s, t, gone) /\ (m = OpenIndex => x \in ToSet(t.events))
      BY <2>2, <2>3, GrowsRequested DEF x
    <2>7. Grows(Server, t, gone)
      BY <2>3, <2>6, GrowsFurther
    <2>8. ASSUME Tidy(Server, gone), q[1] = OpenIndex
          PROVE  x \in ToSet(t.events)
      <3>1. CASE k = 0
        BY <2>4, <2>6, <2>8, <3>1
      <3>2. CASE k > 0
        <4>1. x \in ToSet(s.events) /\ Tidy(s, gone)
          BY <2>3, <2>8, <3>2 DEF Grows
        <4>2. ToSet(s.events) \subseteq ToSet(t.events)
          BY <2>6, <4>1 DEF Grows
        <4> QED
          BY <4>1, <4>2
      <3> QED
        BY <3>1, <3>2
    <2>9. State(t, k + 1)
      BY <2>5, <2>7, <2>8
    <2> QED
      BY <2>9 DEF t
  <1> HIDE DEF State
  <1>6. n \in T
    <2> HIDE DEF T, n
    <2> QED
      BY <1>2, <1>4, <1>5, SetInduction
  <1>7. State(f[n].server, n)
    BY <1>2, <1>6
  <1>8. State(HandleAll(u, conn, q).server, n)
    BY <1>3, <1>7
  <1> QED
    BY <1>2, <1>8 DEF State

-----------------------------------------------------------------------------
(* Who is owed a subscription, and the invariant.                            *)

\* Connections there were, and are no more.
Gone == {c \in Connections : c[2] <= conns[c[1]].session /\ ~Alive(c)}

\* When the event has been dealt with, connection c of u will be subscribed to
\* the digests of w, or a further event has been posted that brings that about,
\* or u is no participant any more.
Owes(e, u, c, w) ==
    \/ \E m \in Messages : Carries(e, m) /\ Asking(m, w, c)
    \/ e = ListingFor(c) \/ e = ToStore([kind |-> "listing", conn |-> c])
    \/ e.to = "listed" /\ e.conn = c /\ w \in ToSet(e.wavelets)
    \/ e = Notify(u, w)
    \/ e.to = "ack" /\ e.job.wavelet = w /\ Expels(e.job.delta, u)

Due(s, u, c, w) ==
    \/ c \in s.wavelets[w].index
    \/ \E m \in ToSet(s.wavelets[w].queue) : Asking(m, w, c)
    \/ \E e \in ToSet(s.events) : Owes(e, u, c, w)

\* Who is connected has asked for his index first, and is known by name when he
\* has been heard.
Greeted(c) ==
    c.up => /\ c.asked # <<>> /\ c.asked[1] = OpenIndex
            /\ c.handled # <<>> => c.named

Heard(c) == c.up /\ c.handled # <<>>

\* The index query and the invitation do not miss each other.
PromisesKept ==
    /\ Tidy(Server, Gone)
    /\ \A w \in Wavelets : ~Stuck(wavelets[w])
    /\ \A u \in Users : Greeted(conns[u])
    /\ \A u \in Users : \A w \in Wavelets :
          Heard(conns[u]) /\ u \in wavelets[w].participants =>
              Due(Server, u, Conn(u), w) \/ EverSwapped(u, w)

\* What is owed is owed as the server goes on.
LEMMA DueGrows ==
    ASSUME NEW s, IsServer(s), NEW t, NEW gone, Tidy(s, gone), Grows(s, t, gone),
           NEW u, NEW c, c \notin gone, NEW w \in Wavelets, Due(s, u, c, w)
    PROVE  Due(t, u, c, w)
  <1>1. /\ WaveletGrows(s.wavelets[w], t.wavelets[w], ToSet(t.events), w, gone)
        /\ ToSet(s.events) \subseteq ToSet(t.events)
    BY DEF Grows
  <1>2. CASE c \in s.wavelets[w].index
    BY <1>1, <1>2 DEF WaveletGrows, Due
  <1>3. ASSUME NEW m \in ToSet(s.wavelets[w].queue), Asking(m, w, c)
        PROVE  Due(t, u, c, w)
    <2>1. CASE m \in ToSet(t.wavelets[w].queue)
      BY <1>3, <2>1 DEF Due
    <2>2. CASE [to |-> "enter", job |-> m] \in ToSet(t.events)
      <3> DEFINE e == [to |-> "enter", job |-> m]
                 q == s.wavelets[w].queue
      <3>1. m \in Messages
        <4>1. q \in Seq(MessagesOf(w))
          BY DEF IsServer, IsWavelet
        <4>2. m \in MessagesOf(w)
          <5>1. m \in ToSet(q)
            BY <1>3
          <5> HIDE DEF q
          <5> QED
            BY <4>1, <5>1 DEF ToSet
        <4> QED
          BY <4>2 DEF MessagesOf
      <3>2. Carries(e, m)
        BY DEF Carries
      <3> HIDE DEF e
      <3>3. Owes(e, u, c, w)
        BY <1>3, <3>1, <3>2 DEF Owes
      <3>4. e \in ToSet(t.events)
        BY <2>2 DEF e
      <3> QED
        BY <3>3, <3>4 DEF Due
    <2> QED
      BY <1>1, <2>1, <2>2 DEF WaveletGrows
  <1>4. CASE \E e \in ToSet(s.events) : Owes(e, u, c, w)
    BY <1>1, <1>4 DEF Due
  <1> QED
    BY <1>2, <1>3, <1>4 DEF Due

\* Who becomes a participant is owed it.
LEMMA DueNew ==
    ASSUME NEW s, NEW t, NEW gone, Tidy(s, gone), Grows(s, t, gone),
           NEW w \in Wavelets, NEW u \in Users, u \in t.wavelets[w].participants
    PROVE  u \in s.wavelets[w].participants \/ \A c : Due(t, u, c, w)
  <1>1. WaveletGrows(s.wavelets[w], t.wavelets[w], ToSet(t.events), w, gone)
    BY DEF Grows
  <1>2. u \in s.wavelets[w].participants \/ Notify(u, w) \in ToSet(t.events)
    BY <1>1 DEF WaveletGrows
  <1>3. \A c : Owes(Notify(u, w), u, c, w)
    BY DEF Owes
  <1> QED
    BY <1>2, <1>3 DEF Due

\* The first event is taken, and the others are there.
LEMMA RestIsTidy ==
    ASSUME NEW logs, ServerOK(Server, logs), events # <<>>
    PROVE  /\ \A gone : Tidy(Server, gone) =>
                  /\ Tidy(Rest, gone)
                  /\ \A m \in Messages : Carries(Head(events), m) =>
                        Fit(m, gone) /\ wavelets[m.wavelet].loaded
           /\ \A u, c, w : Due(Server, u, c, w) =>
                  Due(Rest, u, c, w) \/ Owes(Head(events), u, c, w)
           /\ Rest.wavelets = wavelets /\ IsServer(Rest)
  <1> DEFINE e == Head(events)
  <1>1. Server.events = events /\ Server.wavelets = wavelets
    BY DEF Server
  <1>2. Rest.events = Tail(events) /\ Rest.wavelets = wavelets
    BY DEF Rest
  <1>3. IsSequence(events)
    BY <1>1 DEF ServerOK, IsServer, IsQueue
  <1>4. ToSet(events) = {e} \cup ToSet(Rest.events)
    BY <1>2, <1>3, FirstAndOthers
  <1>5. IsServer(Rest)
    BY HeadTaken
  <1> HIDE DEF e
  <1>6. \A u, c, w : Due(Server, u, c, w) => Due(Rest, u, c, w) \/ Owes(e, u, c, w)
    BY <1>1, <1>2, <1>4 DEF Due
  <1>7. \A gone : Tidy(Server, gone) =>
            /\ Tidy(Rest, gone)
            /\ \A m \in Messages : Carries(e, m) => Fit(m, gone) /\ wavelets[m.wavelet].loaded
    BY <1>1, <1>2, <1>4 DEF Tidy
  <1> QED
    BY <1>2, <1>5, <1>6, <1>7 DEF e

\* When more connections are gone, what fitted fits.
LEMMA TidyLonger ==
    ASSUME NEW s, NEW gone, NEW more, gone \subseteq more, Tidy(s, gone)
    PROVE  Tidy(s, more)
  BY DEF Tidy, Fit

\* A step: first s becomes r, the wavelets being the same, and then t.
LEMMA PromisesGoOn ==
    ASSUME PromisesKept, NEW r, IsServer(r), r.wavelets = wavelets, NEW t, Becomes(t),
           Tidy(r, Gone'), Grows(r, t, Gone'),
           \A u \in Users : Greeted(conns'[u]),
           \A u \in Users : \A w \in Wavelets :
               /\ Heard(conns'[u])
               /\ u \in wavelets[w].participants /\ u \in t.wavelets[w].participants
               => \/ Due(r, u, Conn(u)', w) \/ Due(t, u, Conn(u)', w)
                  \/ EverSwapped(u, w)'
    PROVE  PromisesKept'
  <1> DEFINE gone == Gone'
  <1>1. /\ Tidy(t, gone) /\ wavelets' = t.wavelets /\ events' = t.events
        /\ Server'.wavelets = wavelets' /\ Server'.events = events'
    BY DEF Grows, Becomes, Server
  <1>2. ASSUME NEW w \in Wavelets
        PROVE  ~Stuck(t.wavelets[w])
    <2>1. WaveletGrows(wavelets[w], t.wavelets[w], ToSet(t.events), w, gone)
      BY DEF Grows
    <2> QED
      BY <2>1 DEF WaveletGrows, PromisesKept
  <1>3. ASSUME NEW u \in Users, NEW w \in Wavelets, Heard(conns'[u]),
               u \in t.wavelets[w].participants
        PROVE  Due(t, u, Conn(u)', w) \/ EverSwapped(u, w)'
    <2>0. PICK c : c = Conn(u)'
      OBVIOUS
    <2>1. c \notin gone
      <3>1. c = <<u, conns'[u].session>>
        BY <2>0 DEF Conn
      <3>2. Alive(c)'
        BY <1>3, <3>1 DEF Alive, Heard, Conn
      <3> QED
        BY <3>2 DEF Gone
    <2> HIDE DEF gone
    <2>2. CASE u \in wavelets[w].participants
      <3>1. Due(r, u, c, w) => Due(t, u, c, w)
        BY <2>1, DueGrows DEF gone
      <3> QED
        BY <1>3, <2>0, <2>2, <3>1
    <2>3. CASE u \notin wavelets[w].participants
      <3>1. Due(t, u, c, w)
        BY <1>3, <2>3, DueNew DEF gone
      <3> QED
        BY <2>0, <3>1
    <2> QED
      BY <2>2, <2>3
  <1>4. Tidy(Server', gone)
    BY <1>1 DEF Tidy
  <1>5. \A u, c, w : Due(t, u, c, w) => Due(Server', u, c, w)
    BY <1>1 DEF Due
  <1>6. \A u \in Users : \A w \in Wavelets :
           Heard(conns'[u]) /\ u \in wavelets'[w].participants =>
               Due(Server', u, Conn(u)', w) \/ EverSwapped(u, w)'
    BY <1>1, <1>3, <1>5
  <1> HIDE DEF gone
  <1> QED
    BY <1>1, <1>2, <1>4, <1>6 DEF PromisesKept, gone

\* The connection is the same, but for what it has subscribed to.
SameConnection(c, d) ==
    /\ d.up = c.up /\ d.session = c.session /\ d.named = c.named
    /\ d.asked = c.asked /\ d.handled = c.handled

\* Then the same connections are gone.
LEMMA SameGone ==
    ASSUME \A u \in Users : SameConnection(conns[u], conns'[u])
    PROVE  /\ Gone' = Gone /\ \A u \in Users : Conn(u)' = Conn(u)
           /\ \A u \in Users : /\ Heard(conns'[u]) <=> Heard(conns[u])
                               /\ Greeted(conns'[u]) <=> Greeted(conns[u])
  <1>1. \A u \in Users : Conn(u)' = Conn(u)
    BY DEF Conn, SameConnection
  <1>2. \A c \in Connections : Alive(c)' <=> Alive(c)
    <2> SUFFICES ASSUME NEW c \in Connections
                 PROVE  Alive(c)' <=> Alive(c)
      OBVIOUS
    <2>1. c[1] \in Users
      BY DEF Connections
    <2> QED
      BY <1>1, <2>1 DEF Alive, SameConnection
  <1>3. Gone' = Gone
    <2>1. \A c \in Connections : conns'[c[1]].session = conns[c[1]].session
      BY DEF Connections, SameConnection
    <2> QED
      BY <1>2, <2>1 DEF Gone
  <1> QED
    BY <1>1, <1>3 DEF Heard, Greeted, SameConnection

\* An event is dealt with: what it owes must be done, or be owed further.
LEMMA PromisesAtEvent ==
    ASSUME PromisesKept, ListsKept, events # <<>>, NEW t, Becomes(t),
           Grows(Rest, t, Gone),
           \A u \in Users : SameConnection(conns[u], conns'[u]),
           \A u \in Users : \A w \in Wavelets : EverSwapped(u, w) => EverSwapped(u, w)',
           \A u \in Users : \A w \in Wavelets :
               /\ Heard(conns[u]) /\ Owes(Head(events), u, Conn(u), w)
               /\ u \in wavelets[w].participants /\ u \in t.wavelets[w].participants
               => Due(t, u, Conn(u), w) \/ EverSwapped(u, w)'
    PROVE  PromisesKept'
  <1>2. /\ Gone' = Gone /\ \A u \in Users : Conn(u)' = Conn(u)
        /\ \A u \in Users : /\ Heard(conns'[u]) <=> Heard(conns[u])
                            /\ Greeted(conns'[u]) <=> Greeted(conns[u])
    BY SameGone
  <1>3. /\ \A gone : Tidy(Server, gone) => Tidy(Rest, gone)
        /\ \A u, c, w : Due(Server, u, c, w) =>
               Due(Rest, u, c, w) \/ Owes(Head(events), u, c, w)
        /\ Rest.wavelets = wavelets /\ IsServer(Rest)
    BY RestIsTidy DEF ListsKept
  <1>4. Tidy(Rest, Gone')
    BY <1>2, <1>3 DEF PromisesKept
  <1>5. ASSUME NEW u \in Users, NEW w \in Wavelets, Heard(conns'[u]),
               u \in wavelets[w].participants, u \in t.wavelets[w].participants
        PROVE  Due(Rest, u, Conn(u)', w) \/ Due(t, u, Conn(u)', w) \/ EverSwapped(u, w)'
    <2>1. Due(Server, u, Conn(u), w) \/ EverSwapped(u, w)
      BY <1>2, <1>5 DEF PromisesKept
    <2>2. Due(Rest, u, Conn(u), w) \/ Owes(Head(events), u, Conn(u), w) \/ EverSwapped(u, w)'
      BY <1>3, <2>1
    <2>3. Conn(u)' = Conn(u)
      BY <1>2
    <2> QED
      BY <1>2, <1>5, <2>2, <2>3
  <1>6. Grows(Rest, t, Gone') /\ \A u \in Users : Greeted(conns'[u])
    BY <1>2 DEF PromisesKept
  <1> QED
    BY <1>3, <1>4, <1>5, <1>6, PromisesGoOn

\* What an event owes, by the kind it is of.
LEMMA OwesMeans ==
    ASSUME NEW e, NEW u, NEW c, NEW w, Owes(e, u, c, w)
    PROVE  /\ e.to = "wavelet" => Asking(e.message, w, c)
           /\ e.to = "actor" => Asking(e.job, w, c) \/ e = ListingFor(c)
           /\ e.to = "enter" => Asking(e.job, w, c)
           /\ e.to = "store" => e = ToStore([kind |-> "listing", conn |-> c])
           /\ e.to = "ack" => e.job.wavelet = w /\ Expels(e.job.delta, u)
           /\ e.to = "listed" => e.conn = c /\ w \in ToSet(e.wavelets)
           /\ e.to = "participant" => e = Notify(u, w)
           /\ e.to # "replay" /\ e.to # "conn"
  <1>1. ListingFor(c).to = "actor" /\ ToStore([kind |-> "listing", conn |-> c]).to = "store"
        /\ Notify(u, w).to = "participant"
    BY DEF ListingFor, ToActor, ToStore, Notify
  <1>2. CASE \E m \in Messages : Carries(e, m) /\ Asking(m, w, c)
    BY <1>2 DEF Carries
  <1>3. CASE e = ListingFor(c)
    BY <1>1, <1>3
  <1>4. CASE e = ToStore([kind |-> "listing", conn |-> c])
    BY <1>1, <1>4
  <1>5. CASE e = Notify(u, w)
    BY <1>1, <1>5
  <1>6. CASE e.to = "listed" /\ e.conn = c /\ w \in ToSet(e.wavelets)
    BY <1>6
  <1>7. CASE e.to = "ack" /\ e.job.wavelet = w /\ Expels(e.job.delta, u)
    BY <1>7
  <1> QED
    BY <1>2, <1>3, <1>4, <1>5, <1>6, <1>7 DEF Owes

\* What is known of the first event, and of the others.
LEMMA AtTheHead ==
    ASSUME PromisesKept, ListsKept, events # <<>>
    PROVE  /\ IsEvent(Head(events)) /\ ServerOK(Server, store.log) /\ StoreOK(store)
           /\ Tidy(Rest, Gone) /\ Rest.wavelets = wavelets /\ IsServer(Rest)
           /\ \A m \in Messages : Carries(Head(events), m) =>
                 Fit(m, Gone) /\ wavelets[m.wavelet].loaded
  <1>1. Tidy(Server, Gone) /\ ServerOK(Server, store.log) /\ StoreOK(store)
    BY DEF PromisesKept, ListsKept
  <1> QED
    BY <1>1, HeadIs, RestIsTidy

\* The store and the connections are left alone.
LEMMA NothingElse ==
    ASSUME store' = store, conns' = conns
    PROVE  /\ \A u \in Users : SameConnection(conns[u], conns'[u])
           /\ \A u \in Users : \A w \in Wavelets : EverSwapped(u, w) => EverSwapped(u, w)'
  BY DEF SameConnection, EverSwapped

\* A wavelet or a connection makes an actor for its message.
LEMMA WaveletGetsPromises ==
    ASSUME PromisesKept, ListsKept, WaveletGets
    PROVE  PromisesKept'
  <1> DEFINE e == Head(events)
             m == e.message
             x == ToActor(m)
             t == Post(Rest, x)
  <1>1. events # <<>> /\ e.to = "wavelet" /\ Becomes(t) /\ store' = store /\ conns' = conns
    BY DEF WaveletGets, Event
  <1>2. m \in Messages
    BY <1>1, HeadIs, EventFacts
  <1>3. Carries(e, m) /\ \A n \in Messages : Carries(x, n) <=> n = m
    BY <1>1 DEF Carries, ToActor
  <1> HIDE DEF m, x
  <1>4. /\ Fit(m, Gone) /\ wavelets[m.wavelet].loaded
        /\ Rest.wavelets = wavelets /\ IsServer(Rest)
    BY <1>1, <1>2, <1>3, AtTheHead
  <1>5. Grows(Rest, t, Gone) /\ ToSet(t.events) = ToSet(Rest.events) \cup {x}
    BY <1>3, <1>4, GrowsPost
  <1> HIDE DEF e
  <1>6. ASSUME NEW u \in Users, NEW w \in Wavelets, Owes(e, u, Conn(u), w)
        PROVE  Due(t, u, Conn(u), w)
    <2>1. Asking(m, w, Conn(u))
      BY <1>1, <1>6, OwesMeans DEF m
    <2>2. Owes(x, u, Conn(u), w)
      BY <1>2, <1>3, <2>1 DEF Owes
    <2> HIDE DEF t
    <2> QED
      BY <1>5, <2>2 DEF Due
  <1> HIDE DEF t
  <1> QED
    BY <1>1, <1>5, <1>6, NothingElse, PromisesAtEvent DEF e

\* An actor starts: who asks for his index, or for digests, goes on asking.
LEMMA ActorStartsPromises ==
    ASSUME PromisesKept, ListsKept, ActorStarts
    PROVE  PromisesKept'
  <1> DEFINE e == Head(events)
             job == e.job
             logs == store.log
  <1>1. /\ events # <<>> /\ e.to = "actor"
        /\ store' = store /\ conns' = conns
        /\ Becomes(IF job.kind = "listing" /\ ~Alive(job.conn) THEN Rest ELSE Started(Rest, job))
    BY DEF ActorStarts, Event
  <1>2. /\ IsEvent(e) /\ Rest.wavelets = wavelets /\ IsServer(Rest)
        /\ \A m \in Messages : Carries(e, m) => Fit(m, Gone) /\ wavelets[m.wavelet].loaded
    BY <1>1, AtTheHead
  <1>3. job \in Messages \cup Inits \cup Listings
    <2> HIDE DEF e
    <2> QED
      BY <1>1, <1>2, EventFacts
  <1>4. ASSUME NEW u, NEW c, NEW w, Owes(e, u, c, w)
        PROVE  Asking(job, w, c) \/ job = [kind |-> "listing", conn |-> c]
    <2>1. Asking(job, w, c) \/ e = ListingFor(c)
      <3> HIDE DEF e
      <3> QED
        BY <1>1, <1>4, OwesMeans
    <2> QED
      BY <2>1 DEF ListingFor, ToActor
  <1>5. CASE job \in Listings
    <2>1. job.kind = "listing" /\ ~(job.kind = "subscribe")
      BY <1>5, JobFacts
    <2>2. CASE ~Alive(job.conn)
      <3>1. Becomes(Rest)
        BY <1>1, <2>1, <2>2
      <3>2. ASSUME NEW u \in Users, NEW w \in Wavelets, Heard(conns[u]),
                   Owes(e, u, Conn(u), w)
            PROVE  FALSE
        <4>1. job.conn = Conn(u)
          <5>1. Asking(job, w, Conn(u)) \/ job = [kind |-> "listing", conn |-> Conn(u)]
            BY <1>4, <3>2
          <5> HIDE DEF job
          <5> QED
            BY <2>1, <5>1 DEF Asking
        <4>2. Alive(Conn(u))
          BY <3>2 DEF Alive, Heard, Conn
        <4> QED
          BY <2>2, <4>1, <4>2
      <3>3. Grows(Rest, Rest, Gone)
        BY GrowsNot
      <3> QED
        BY <1>1, <3>1, <3>2, <3>3, NothingElse, PromisesAtEvent
    <2>3. CASE Alive(job.conn)
      <3> DEFINE x == ToStore(job)
                 t == Post(Rest, x)
      <3>1. Becomes(t)
        BY <1>1, <2>1, <2>3 DEF Started
      <3>2. \A n \in Messages : ~Carries(x, n)
        BY DEF Carries, ToStore
      <3> HIDE DEF x, job
      <3>3. Grows(Rest, t, Gone) /\ ToSet(t.events) = ToSet(Rest.events) \cup {x}
        BY <1>2, <3>2, GrowsPost
      <3>4. ASSUME NEW u \in Users, NEW w \in Wavelets, Owes(e, u, Conn(u), w)
            PROVE  Due(t, u, Conn(u), w)
        <4>1. job = [kind |-> "listing", conn |-> Conn(u)]
          BY <1>4, <2>1, <3>4 DEF Asking
        <4>2. Owes(x, u, Conn(u), w)
          BY <4>1 DEF Owes, x
        <4> HIDE DEF t
        <4> QED
          BY <3>3, <4>2 DEF Due
      <3> HIDE DEF t
      <3> QED
        BY <1>1, <3>1, <3>3, <3>4, NothingElse, PromisesAtEvent
    <2> QED
      BY <2>2, <2>3
  <1>6. CASE job \in Inits
    <2> DEFINE x == ToStore([kind |-> "history", wavelet |-> job.wavelet])
               t == Post(Rest, x)
    <2>1. job.kind = "init"
      BY <1>6, JobFacts
    <2>2. Becomes(t)
      BY <1>1, <2>1 DEF Started
    <2>3. \A n \in Messages : ~Carries(x, n)
      BY DEF Carries, ToStore
    <2> HIDE DEF x, job
    <2>4. Grows(Rest, t, Gone)
      BY <1>2, <2>3, GrowsPost
    <2>5. \A u \in Users : \A w \in Wavelets : ~Owes(e, u, Conn(u), w)
      BY <1>4, <2>1 DEF Asking
    <2> HIDE DEF t, e
    <2> QED
      BY <1>1, <2>2, <2>4, <2>5, NothingElse, PromisesAtEvent DEF e
  <1>7. CASE job \in Messages
    <2> DEFINE t == Enters(Rest, job)
    <2>1. job.kind \notin {"init", "listing"}
      BY <1>7, JobFacts
    <2>2. Becomes(t)
      BY <1>1, <2>1 DEF Started
    <2>3. Fit(job, Gone) /\ Rest.wavelets[job.wavelet].loaded
      <3>1. Carries(e, job)
        BY <1>1 DEF Carries
      <3> HIDE DEF e, job
      <3> QED
        BY <1>2, <1>7, <3>1
    <2>4. ServerOK(Rest, logs)
      <3>1. \A w \in Wavelets : ~Token(e, w)
        BY <1>1, <2>1 DEF Token, Working, Loading
      <3> QED
        BY <1>1, <3>1, HeadIs
    <2>5. Tidy(Rest, Gone)
      BY <1>1, AtTheHead
    <2> HIDE DEF job, logs
    <2>6. /\ Grows(Rest, t, Gone)
          /\ \A c, w : Asking(job, w, c) /\ c \notin Gone =>
                c \in t.wavelets[w].index \/ job \in ToSet(t.wavelets[w].queue)
      BY <1>7, <2>3, <2>4, <2>5, GrowsEnters
    <2>7. ASSUME NEW u \in Users, NEW w \in Wavelets, Heard(conns[u]),
                 Owes(e, u, Conn(u), w)
          PROVE  Due(t, u, Conn(u), w)
      <3>1. Conn(u) \notin Gone
        BY <2>7 DEF Gone, Alive, Heard, Conn
      <3>2. Asking(job, w, Conn(u))
        BY <1>4, <2>1, <2>7
      <3> HIDE DEF t
      <3> QED
        BY <2>6, <3>1, <3>2 DEF Due
    <2> HIDE DEF t, e
    <2> QED
      BY <1>1, <2>2, <2>6, <2>7, NothingElse, PromisesAtEvent DEF e
  <1> QED
    BY <1>3, <1>5, <1>6, <1>7

\* An actor that waited is let in: who subscribes is a subscriber then.
LEMMA ActorEntersPromises ==
    ASSUME PromisesKept, ListsKept, ActorEnters
    PROVE  PromisesKept'
  <1> DEFINE e == Head(events)
             logs == store.log
             job == e.job
             t == Runs(Rest, job)
  <1>1. /\ events # <<>> /\ e.to = "enter"
        /\ store' = store /\ conns' = conns /\ Becomes(t)
    BY DEF ActorEnters, Event
  <1>2. /\ IsEvent(e) /\ ServerOK(Server, logs) /\ Tidy(Rest, Gone)
        /\ \A m \in Messages : Carries(e, m) => Fit(m, Gone)
    BY <1>1, AtTheHead
  <1>3. job \in Messages
    <2> HIDE DEF e
    <2> QED
      BY <1>1, <1>2, EventFacts
  <1>4. Carries(e, job)
    BY <1>1 DEF Carries
  <1>5. Fit(job, Gone)
    <2> HIDE DEF e, job
    <2> QED
      BY <1>2, <1>3, <1>4
  <1> DEFINE w == job.wavelet
  <1>6. w \in Wavelets /\ Working(e, w) /\ Token(e, w)
    BY <1>1, <1>3, JobFacts DEF Working, Token
  <1> HIDE DEF w, logs
  <1>7. /\ Around(Rest, logs, w) /\ Rest.wavelets[w].enabled
        /\ AgreesBut(Rest.wavelets[w].participants, logs[w], e)
    BY <1>1, <1>2, <1>6, TokenComes
  <1>8. Inside(Rest, logs, w)
    BY <1>1, <1>7 DEF Inside, Around, AgreesBut
  <1>9. ASSUME NEW u, NEW c, NEW v, Owes(e, u, c, v)
        PROVE  Asking(job, v, c)
    <2> HIDE DEF e
    <2> QED
      BY <1>1, <1>9, OwesMeans
  <1>10. /\ Grows(Rest, t, Gone)
         /\ \A c, v : Asking(job, v, c) /\ c \notin Gone => c \in t.wavelets[v].index
    <2>1. Inside(Rest, logs, job.wavelet)
      BY <1>8 DEF w
    <2> HIDE DEF job
    <2> QED
      BY <1>2, <1>3, <1>5, <2>1, GrowsRuns
  <1> HIDE DEF t, job
  <1>11. ASSUME NEW u \in Users, NEW v \in Wavelets, Heard(conns[u]), Owes(e, u, Conn(u), v)
         PROVE  Due(t, u, Conn(u), v)
    <2>1. Conn(u) \notin Gone
      BY <1>11 DEF Gone, Alive, Heard, Conn
    <2> QED
      BY <1>9, <1>10, <1>11, <2>1 DEF Due
  <1> HIDE DEF e
  <1> QED
    BY <1>1, <1>10, <1>11, NothingElse, PromisesAtEvent DEF e

\* A participant is in the store's list, or a delta is about to be applied that
\* removes him.
LEMMA ListingSays ==
    ASSUME ListsKept, NEW u \in Users, NEW w \in Wavelets, u \in wavelets[w].participants
    PROVE  \/ w \in store.index[u]
           \/ EverSwapped(u, w)
           \/ \E e \in ToSet(events) : /\ e.to = "ack" /\ e.job.wavelet = w
                                       /\ Expels(e.job.delta, u)
  <1> DEFINE log == store.log[w]
             wv == wavelets[w]
             says == w \in store.index[u]
  <1>1. /\ Steady(wv, events, log, w) /\ IsQueue(events)
        /\ log \in Logs /\ (says <=> IndexSays(u, log))
    BY DEF ListsKept, ServerOK, Server, StoreOK, IsServer
  <1>2. SwappedLast(u, log) => EverSwapped(u, w)
    BY DEF SwappedLast, EverSwapped
  <1> HIDE DEF says
  <1>3. Agrees(wv.participants, log) => says \/ EverSwapped(u, w)
    BY <1>1, <1>2 DEF Agrees
  <1>4. CASE Resting(wv, events, log, w)
    BY <1>3, <1>4 DEF Resting, says
  <1>5. CASE Occupied(wv, events, log, w)
    <2>1. PICK e : /\ Only(events, w, e) /\ Working(e, w)
                   /\ AgreesBut(wv.participants, log, e)
      BY <1>5 DEF Occupied
    <2>2. CASE e.to # "ack"
      BY <1>3, <2>1, <2>2 DEF AgreesBut, says
    <2>3. CASE e.to = "ack"
      <3>1. PICK before \in Logs : /\ log = Append(before, e.job.delta)
                                   /\ Agrees(wv.participants, before)
        BY <2>1, <2>3 DEF AgreesBut
      <3>2. e \in ToSet(events) /\ IsEvent(e)
        BY <1>1, <2>1 DEF Only, IsQueue, IsSequence, ToSet
      <3> DEFINE delta == e.job.delta
      <3>3. e.job.wavelet = w /\ delta \in DeltaSet
        BY <2>1, <2>3, <3>2, EventFacts, JobFacts DEF Working
      <3> HIDE DEF log, delta
      <3>4. /\ IndexSays(u, log) <=> ~Expels(delta, u) /\ (Adds(delta, u) \/ IndexSays(u, before))
        BY <3>1, <3>3, LogGrows DEF delta
      <3>5. CASE IndexSays(u, before)
        <4>1. says \/ Expels(delta, u)
          BY <1>1, <3>4, <3>5
        <4> QED
          BY <2>3, <3>2, <3>3, <4>1 DEF delta, says
      <3>6. CASE SwappedLast(u, before)
        <4>1. PICK i \in DOMAIN before : Swaps(before[i], u)
          BY <3>6 DEF SwappedLast
        <4>2. i \in DOMAIN log /\ log[i] = before[i]
          <5>1. log = Append(before, delta) /\ before \in Seq(DeltaSet)
            BY <3>1 DEF delta, Logs
          <5> HIDE DEF delta
          <5> QED
            BY <3>3, <5>1, AppendProperties
        <4>3. EverSwapped(u, w)
          BY <4>1, <4>2 DEF EverSwapped, log
        <4> QED
          BY <4>3
      <3> QED
        BY <3>1, <3>5, <3>6 DEF Agrees
    <2> QED
      BY <2>2, <2>3
  <1>6. CASE Absent(wv, events, w) \/ Opening(wv, events, log, w)
    BY <1>6 DEF Absent, Opening
  <1> QED
    BY <1>1, <1>4, <1>5, <1>6 DEF Steady

\* The store appends to its log, or answers: a listing has all the wavelets of
\* the user, but those that a delta is about to take from him.
LEMMA StoreGetsPromises ==
    ASSUME PromisesKept, ListsKept, StoreGets
    PROVE  PromisesKept'
  <1> DEFINE e == Head(events)
             m == e.message
             t == Answered(Rest, m)
             st == [log |-> [store.log EXCEPT ![m.job.wavelet] = Append(@, m.job.delta)],
                    index |-> Indexed(store.index, m.job.wavelet, m.job.delta)]
  <1>1. /\ events # <<>> /\ e.to = "store" /\ Becomes(t) /\ conns' = conns
        /\ store' = IF m.kind # "persist" THEN store ELSE st
    BY DEF StoreGets, Event
  <1>2. IsEvent(e) /\ ServerOK(Server, store.log) /\ StoreOK(store) /\ IsServer(Rest)
    BY <1>1, AtTheHead
  <1>3. m \in Persists \cup Histories \cup Listings
    <2> HIDE DEF e
    <2> QED
      BY <1>1, <1>2, EventFacts
  <1>4. \A u \in Users : SameConnection(conns[u], conns'[u])
    BY <1>1 DEF SameConnection
  <1>5. \A u \in Users : \A w \in Wavelets : EverSwapped(u, w) => EverSwapped(u, w)'
    <2>1. CASE m \in Persists
      <3> DEFINE delta == m.job.delta
                 v == m.job.wavelet
      <3>1. store' = st /\ v \in Wavelets /\ delta \in DeltaSet
        BY <1>1, <2>1, JobFacts
      <3>2. store'.log = [store.log EXCEPT ![v] = Append(@, delta)]
        BY <3>1
      <3> HIDE DEF v, delta
      <3>3. ASSUME NEW u \in Users, NEW w \in Wavelets, EverSwapped(u, w)
            PROVE  EverSwapped(u, w)'
        <4>1. PICK i \in DOMAIN store.log[w] : Swaps(store.log[w][i], u)
          BY <3>3 DEF EverSwapped
        <4>2. i \in DOMAIN store'.log[w] /\ store'.log[w][i] = store.log[w][i]
          <5> DEFINE log == store.log[w]
          <5>1. log \in Seq(DeltaSet)
            BY <1>2 DEF StoreOK, Logs
          <5>2. store'.log[w] = log \/ store'.log[w] = Append(log, delta)
            BY <1>2, <3>2 DEF StoreOK
          <5> HIDE DEF log
          <5>3. i \in DOMAIN log => /\ i \in DOMAIN Append(log, delta)
                                    /\ Append(log, delta)[i] = log[i]
            <6> DEFINE longer == Append(log, delta)
            <6>1. /\ longer \in Seq(DeltaSet) /\ Len(longer) = Len(log) + 1
                  /\ \A j \in 1..Len(log) : longer[j] = log[j]
              <7>1. delta \in DeltaSet
                BY <3>1
              <7> QED
                BY <5>1, <7>1, AppendProperties
            <6>2. DOMAIN log = 1..Len(log) /\ DOMAIN longer = 1..Len(longer) /\ Len(log) \in Nat
              BY <5>1, <6>1
            <6> HIDE DEF longer
            <6> QED
              BY <6>1, <6>2
          <5> QED
            BY <4>1, <5>2, <5>3 DEF log
        <4> QED
          BY <4>1, <4>2 DEF EverSwapped
      <3> QED
        BY <3>3
    <2>2. CASE m \notin Persists
      <3>1. store' = store
        BY <1>1, <1>3, <2>2, JobFacts
      <3> QED
        BY <3>1 DEF EverSwapped
    <2> QED
      BY <2>1, <2>2
  <1>6. ASSUME NEW u, NEW c, NEW w, Owes(e, u, c, w)
        PROVE  m = [kind |-> "listing", conn |-> c]
    <2>1. e = ToStore([kind |-> "listing", conn |-> c])
      <3> HIDE DEF e
      <3> QED
        BY <1>1, <1>6, OwesMeans
    <2> QED
      BY <2>1 DEF ToStore
  <1> HIDE DEF st, m
  <1>7. CASE m \in Persists \cup Histories
    <2> DEFINE x == IF m.kind = "persist" THEN [to |-> "ack", job |-> m.job]
                    ELSE [to |-> "replay", wavelet |-> m.wavelet, deltas |-> store.log[m.wavelet]]
    <2>1. m.kind \in {"persist", "history"}
      BY <1>7, JobFacts
    <2> HIDE DEF e
    <2>2. t = Post(Rest, x)
      BY <2>1 DEF Answered
    <2>3. \A n \in Messages : ~Carries(x, n)
      BY DEF Carries
    <2> HIDE DEF x, t
    <2>4. Grows(Rest, t, Gone)
      BY <1>2, <2>2, <2>3, GrowsPost
    <2>5. \A u \in Users : \A w \in Wavelets : ~Owes(e, u, Conn(u), w)
      <3> SUFFICES ASSUME NEW u \in Users, NEW w \in Wavelets, Owes(e, u, Conn(u), w)
                   PROVE  FALSE
        OBVIOUS
      <3>1. m = [kind |-> "listing", conn |-> Conn(u)]
        BY <1>6
      <3> QED
        BY <2>1, <3>1
    <2> QED
      BY <1>1, <1>4, <1>5, <2>4, <2>5, PromisesAtEvent DEF e
  <1>8. CASE m \in Listings
    <2> DEFINE S == store.index[m.conn[1]]
               q == SetToSeq(S)
               x == [to |-> "listed", conn |-> m.conn, wavelets |-> q]
    <2>1. m.kind = "listing" /\ m.conn[1] \in Users
      <3>1. m.kind = "listing" /\ m.conn \in Connections
        BY <1>8, JobFacts
      <3> QED
        BY <3>1 DEF Connections
    <2>2. t = Post(Rest, x)
      BY <2>1 DEF Answered
    <2>3. ToSet(q) = S
      <3>1. IsFiniteSet(S)
        BY <1>2, <2>1 DEF StoreOK
      <3> HIDE DEF S
      <3> QED
        BY <3>1, SetToSeqIsSequence
    <2>4. \A n \in Messages : ~Carries(x, n)
      BY DEF Carries
    <2>5. \A u, w : m.conn = Conn(u) /\ w \in store.index[u] => Owes(x, u, Conn(u), w)
      <3>1. x.to = "listed" /\ x.conn = m.conn /\ x.wavelets = q
        OBVIOUS
      <3>2. \A u : m.conn = Conn(u) => S = store.index[u]
        BY DEF Conn
      <3> HIDE DEF x, q, S, e
      <3> QED
        BY <2>3, <3>1, <3>2 DEF Owes
    <2> HIDE DEF x, t, e
    <2>6. Grows(Rest, t, Gone) /\ ToSet(t.events) = ToSet(Rest.events) \cup {x}
      BY <1>2, <2>2, <2>4, GrowsPost
    <2>7. ToSet(events) \subseteq {e} \cup ToSet(Rest.events)
      <3>1. IsSequence(events)
        BY <1>2 DEF ServerOK, Server, IsServer, IsQueue
      <3> QED
        BY <1>1, <3>1, FirstAndOthers DEF e, Rest
    <2>8. ASSUME NEW u \in Users, NEW w \in Wavelets, Owes(e, u, Conn(u), w),
                 u \in wavelets[w].participants
          PROVE  Due(t, u, Conn(u), w) \/ EverSwapped(u, w)'
      <3>1. m.conn = Conn(u)
        <4>1. m = [kind |-> "listing", conn |-> Conn(u)]
          BY <1>6, <2>8
        <4> QED
          BY <4>1
      <3>2. CASE w \in store.index[u]
        BY <2>5, <2>6, <3>1, <3>2 DEF Due
      <3>3. CASE EverSwapped(u, w)
        BY <1>5, <3>3
      <3>4. ASSUME NEW d \in ToSet(events), d.to = "ack", d.job.wavelet = w,
                   Expels(d.job.delta, u)
            PROVE  Due(t, u, Conn(u), w)
        <4>1. d \in ToSet(t.events)
          BY <1>1, <2>6, <2>7, <3>4
        <4>2. Owes(d, u, Conn(u), w)
          BY <3>4 DEF Owes
        <4> QED
          BY <4>1, <4>2 DEF Due
      <3> QED
        BY <2>8, <3>2, <3>3, <3>4, ListingSays
    <2> QED
      BY <1>1, <1>4, <1>5, <2>6, <2>8, PromisesAtEvent DEF e
  <1> QED
    BY <1>3, <1>7, <1>8

\* A delta is applied: who is removed by it is no participant any more.
LEMMA SubmitCommitsPromises ==
    ASSUME PromisesKept, ListsKept, SubmitCommits
    PROVE  PromisesKept'
  <1> DEFINE e == Head(events)
             logs == store.log
             job == e.job
             w == job.wavelet
             delta == job.delta
             r == Apply(Rest, w, delta)
             t == Leaves(r, w)
  <1>1. /\ events # <<>> /\ e.to = "ack"
        /\ store' = store /\ conns' = conns /\ Becomes(t)
    BY DEF SubmitCommits, Event
  <1>2. IsEvent(e) /\ ServerOK(Server, logs)
    BY <1>1, AtTheHead
  <1>3. job \in Submits
    <2> HIDE DEF e
    <2> QED
      BY <1>1, <1>2, EventFacts
  <1>4. w \in Wavelets /\ Working(e, w) /\ Token(e, w) /\ delta \in DeltaSet
    BY <1>1, <1>3, JobFacts DEF Working, Token
  <1>5. \A u, c, v : Owes(e, u, c, v) => v = w /\ Expels(delta, u)
    <2>1. \A u, c, v : Owes(e, u, c, v) => e.job.wavelet = v /\ Expels(e.job.delta, u)
      <3> HIDE DEF e
      <3> QED
        BY <1>1, OwesMeans
    <2> QED
      BY <2>1
  <1> HIDE DEF w, logs
  <1>6. /\ Around(Rest, logs, w) /\ AgreesBut(Rest.wavelets[w].participants, logs[w], e)
    BY <1>1, <1>2, <1>4, TokenComes
  <1>7. PICK before \in Logs : logs[w] = Append(before, delta)
    BY <1>1, <1>6 DEF AgreesBut
  <1> HIDE DEF delta
  <1>8. \A u : Swaps(delta, u) => EverSwapped(u, w)
    <2>1. \E i \in DOMAIN logs[w] : logs[w][i] = delta
      <3>1. before \in Seq(DeltaSet)
        BY <1>7 DEF Logs
      <3>2. Len(before) + 1 \in DOMAIN Append(before, delta)
            /\ Append(before, delta)[Len(before) + 1] = delta
        BY <1>4, <3>1, AppendProperties, LenProperties
      <3> QED
        BY <1>7, <3>2
    <2> QED
      BY <2>1 DEF EverSwapped, logs
  <1>9. /\ Around(r, logs, w)
        /\ Follows(r.wavelets[w].participants, Rest.wavelets[w].participants, delta)
        /\ Grows(Rest, r, Gone)
    BY <1>4, <1>6, ApplyKeeps, GrowsApply
  <1> HIDE DEF r
  <1>10. Grows(r, t, Gone) /\ t.wavelets[w].participants = r.wavelets[w].participants
    BY <1>4, <1>9, GrowsLeaves DEF Around
  <1>11. Grows(Rest, t, Gone)
    BY <1>9, <1>10, GrowsFurther
  <1>12. ASSUME NEW u \in Users, NEW v \in Wavelets, Owes(e, u, Conn(u), v),
                u \in t.wavelets[v].participants
         PROVE  EverSwapped(u, v)
    <2>1. v = w /\ Expels(delta, u)
      BY <1>5, <1>12
    <2>2. CASE Adds(delta, u)
      <3>1. Swaps(delta, u)
        BY <1>4, <2>1, <2>2, SwapsAndTouches
      <3> QED
        BY <1>8, <2>1, <3>1
    <2>3. CASE ~Adds(delta, u)
      <3>1. u \notin r.wavelets[w].participants
        BY <1>9, <2>1, <2>3 DEF Follows
      <3> QED
        BY <1>10, <1>12, <2>1, <3>1
    <2> QED
      BY <2>2, <2>3
  <1> HIDE DEF t, e
  <1> QED
    BY <1>1, <1>11, <1>12, NothingElse, PromisesAtEvent DEF e

\* The history comes, and owes nothing.
LEMMA HistoryComesPromises ==
    ASSUME PromisesKept, ListsKept, HistoryComes
    PROVE  PromisesKept'
  <1> DEFINE e == Head(events)
             logs == store.log
             w == e.wavelet
             t == Replay(Rest, w, e.deltas)
  <1>1. /\ events # <<>> /\ e.to = "replay"
        /\ store' = store /\ conns' = conns /\ Becomes(t)
    BY DEF HistoryComes, Event
  <1>2. IsEvent(e) /\ ServerOK(Server, logs)
    BY <1>1, AtTheHead
  <1>3. w \in Wavelets /\ e.deltas \in Logs
    <2> HIDE DEF e
    <2> QED
      BY <1>1, <1>2, EventFacts
  <1>4. Token(e, w)
    BY <1>1 DEF Loading, Token
  <1>5. \A u, c, v : ~Owes(e, u, c, v)
    <2> HIDE DEF e
    <2> QED
      BY <1>1, OwesMeans
  <1> HIDE DEF w, logs
  <1>6. Around(Rest, logs, w)
    BY <1>1, <1>2, <1>3, <1>4, TokenComes
  <1> HIDE DEF e
  <1>7. Grows(Rest, t, Gone)
    BY <1>3, <1>6, GrowsReplay
  <1> HIDE DEF t
  <1> QED
    BY <1>1, <1>5, <1>7, NothingElse, PromisesAtEvent DEF e

\* What a connection gets is not owed to it any further.
LEMMA ConnectionGetsPromises ==
    ASSUME PromisesKept, ListsKept, ConnectionGets
    PROVE  PromisesKept'
  <1> DEFINE e == Head(events)
  <1>1. /\ events # <<>> /\ e.to = "conn"
        /\ store' = store /\ conns' = conns /\ Becomes(Rest)
    BY DEF ConnectionGets, Event
  <1> HIDE DEF e
  <1>2. \A u, c, w : ~Owes(e, u, c, w)
    BY <1>1, OwesMeans
  <1>3. Grows(Rest, Rest, Gone)
    BY GrowsNot
  <1> QED
    BY <1>1, <1>2, <1>3, NothingElse, PromisesAtEvent DEF e

\* A connection has subscribed to more, or to nothing more.
LEMMA SubscribesSame ==
    ASSUME SocketsUnbroken, NEW v, NEW x,
           \/ conns' = conns
           \/ conns' = [conns EXCEPT ![v].subscriptions = x]
    PROVE  \A u \in Users : SameConnection(conns[u], conns'[u])
  <1> SUFFICES ASSUME NEW u \in Users
               PROVE  SameConnection(conns[u], conns'[u])
    OBVIOUS
  <1>1. CASE conns' = conns
    BY <1>1 DEF SameConnection
  <1>2. CASE conns' = [conns EXCEPT ![v].subscriptions = x]
    <2> DEFINE c == conns[v]
               t == [c EXCEPT !.subscriptions = x]
    <2>1. conns = [k \in Users |-> conns[k]] /\ IsConnection(conns[u])
      BY DEF SocketsUnbroken, Unbroken
    <2>2. conns'[u] = IF u = v THEN t ELSE conns[u]
      BY <1>2, <2>1
    <2>3. CASE u = v
      <3>1. IsConnection(c)
        BY <2>1, <2>3
      <3> HIDE DEF c
      <3>2. SameConnection(c, t)
        BY <3>1, ConnectionWithSubscriptions DEF SameConnection
      <3> HIDE DEF t
      <3> QED
        BY <2>2, <2>3, <3>2 DEF c
    <2>4. CASE u # v
      BY <2>2, <2>4 DEF SameConnection
    <2> QED
      BY <2>3, <2>4
  <1> QED
    BY <1>1, <1>2

\* Who has participants is in RAM.
LEMMA ParticipatedIsThere ==
    ASSUME ListsKept, NEW w \in Wavelets, NEW u, u \in wavelets[w].participants
    PROVE  wavelets[w].loaded
  <1> DEFINE logs == store.log
             wv == wavelets[w]
  <1>1. Steady(wv, events, logs[w], w)
    BY DEF ListsKept, ServerOK, Server
  <1> QED
    BY <1>1 DEF Steady, Absent, Opening, Resting, Occupied

\* A message asks for it on its way to the wavelet.
LEMMA AskingIsOwed ==
    ASSUME NEW c, NEW w, NEW content, Subscribe(c, w, TRUE, content) \in Messages, NEW u
    PROVE  Owes([to |-> "wavelet", message |-> Subscribe(c, w, TRUE, content)], u, c, w)
  <1> DEFINE m == Subscribe(c, w, TRUE, content)
             e == [to |-> "wavelet", message |-> m]
  <1>1. Asking(m, w, c)
    BY DEF Asking, Subscribe
  <1>2. Carries(e, m)
    BY DEF Carries
  <1> HIDE DEF m, e
  <1>3. Owes(e, u, c, w)
    BY <1>1, <1>2 DEF Owes, m
  <1> QED
    BY <1>3 DEF e, m

\* The list of a user's wavelets comes: he subscribes to all of them that are
\* there; if his connection is gone, nobody is owed anything.
LEMMA ListingComesPromises ==
    ASSUME SocketsUnbroken, PromisesKept, ListsKept, ListingComes
    PROVE  PromisesKept'
  <1> DEFINE e == Head(events)
             logs == store.log
             u == e.conn[1]
             q == e.wavelets
             found == IF u \in WebUsers THEN {w \in ToSet(q) : wavelets[w].loaded} ELSE {}
  <1>1. /\ events # <<>> /\ e.to = "listed" /\ store' = store
        /\ \/ conns' = conns
           \/ conns' = [conns EXCEPT ![u].subscriptions = conns[u].subscriptions \cup found]
    BY DEF ListingComes, Event
  <1>2. IsEvent(e) /\ Tidy(Rest, Gone) /\ Rest.wavelets = wavelets
    BY <1>1, AtTheHead
  <1>3. e.conn \in Connections /\ q \in Seq(Wavelets)
    <2> HIDE DEF e
    <2> QED
      BY <1>1, <1>2, EventFacts
  <1>4. \A v \in Users : SameConnection(conns[v], conns'[v])
    <2> HIDE DEF u, found
    <2> QED
      BY <1>1, SubscribesSame
  <1>5. \A v \in Wavelets : ~Token(e, v)
    BY <1>1 DEF Token, Working, Loading
  <1>6. ServerOK(Rest, logs)
    BY <1>1, <1>5, HeadIs
  <1>7. \A v, c, w : Owes(e, v, c, w) => e.conn = c /\ w \in ToSet(q)
    <2> HIDE DEF e
    <2> QED
      BY <1>1, OwesMeans DEF q
  <1>8. \A v \in Users : \A w \in Wavelets : EverSwapped(v, w) => EverSwapped(v, w)'
    BY <1>1 DEF EverSwapped
  <1>9. CASE Alive(e.conn)
    <2>1. PICK f : ListingBy(f, e)
      BY <1>3, <1>9, ListingRuns
    <2> DEFINE onDemand == u \notin WebUsers
               n == Len(q)
               m == [i \in 1..n |-> Subscribe(e.conn, q[i], TRUE, FALSE)]
               t == f[n]
    <2>2. n \in Nat /\ \A i \in 1..n : q[i] \in Wavelets
      BY <1>3, LenProperties
    <2>3. ASSUME NEW i \in 1..n
          PROVE  /\ m[i] \in Messages /\ f[i] = PostToWavelet(f[i - 1], onDemand, m[i])
                 /\ m[i] = Subscribe(e.conn, q[i], TRUE, FALSE)
      <3>1. m[i] = Subscribe(e.conn, q[i], TRUE, FALSE)
        OBVIOUS
      <3>2. f[i] = PostToWavelet(f[i - 1], onDemand, m[i])
        BY <2>1, <3>1 DEF ListingBy
      <3> HIDE DEF m, e
      <3> QED
        BY <1>3, <2>2, <3>1, <3>2, SubscribeTyped
    <2>4. f[0] = Rest /\ Becomes(t)
      BY <2>1 DEF ListingBy
    <2>5. q = [i \in 1..n |-> q[i]]
      BY <1>3, LenProperties
    <2> HIDE DEF onDemand, n, m, logs, e
    <2>6. PostsBy(f, Rest, onDemand, m, n)
      BY <2>3, <2>4 DEF PostsBy
    <2>7. ASSUME NEW i \in 1..n
          PROVE  Fit(m[i], Gone) /\ m[i].wavelet = q[i]
      <3> DEFINE x == Subscribe(e.conn, q[i], TRUE, FALSE)
      <3>1. x.on /\ x.wavelet = q[i]
        BY DEF Subscribe
      <3>2. m[i] = x
        BY <2>3
      <3> HIDE DEF x
      <3> QED
        BY <3>1, <3>2 DEF Fit
    <2>8. /\ Grows(Rest, t, Gone)
          /\ \A i \in 1..n : Found(Rest, q[i], onDemand) =>
                [to |-> "wavelet", message |-> m[i]] \in ToSet(t.events)
      BY <1>2, <1>6, <2>2, <2>6, <2>7, GrowsPosts
    <2> HIDE DEF t, q
    <2>9. ASSUME NEW v \in Users, NEW w \in Wavelets, Owes(e, v, Conn(v), w),
                 v \in wavelets[w].participants
          PROVE  Due(t, v, Conn(v), w)
      <3>1. e.conn = Conn(v) /\ w \in ToSet(q)
        BY <1>7, <2>9
      <3>2. PICK i \in 1..n : q[i] = w
        BY <2>5, <3>1 DEF ToSet
      <3>3. Found(Rest, w, onDemand)
        BY <1>2, <2>9, ParticipatedIsThere DEF Found
      <3> DEFINE x == Subscribe(Conn(v), w, TRUE, FALSE)
                 a == [to |-> "wavelet", message |-> x]
      <3>4. m[i] = x /\ x \in Messages
        BY <2>3, <3>1, <3>2
      <3>5. a \in ToSet(t.events)
        BY <2>8, <3>2, <3>3, <3>4
      <3>6. Owes(a, v, Conn(v), w)
        BY <3>4, AskingIsOwed
      <3> HIDE DEF a
      <3> QED
        BY <3>5, <3>6 DEF Due
    <2> QED
      BY <1>1, <1>4, <1>8, <2>4, <2>8, <2>9, PromisesAtEvent DEF e
  <1>10. CASE ~Alive(e.conn)
    <2>1. Becomes(Rest)
      BY <1>10 DEF ListingComes
    <2>2. Grows(Rest, Rest, Gone)
      BY GrowsNot
    <2>3. ASSUME NEW v \in Users, NEW w \in Wavelets, Heard(conns[v])
          PROVE  ~Owes(e, v, Conn(v), w)
      <3>1. Alive(Conn(v))
        BY <2>3 DEF Alive, Heard, Conn
      <3> HIDE DEF e
      <3> QED
        BY <1>7, <1>10, <3>1
    <2> HIDE DEF e
    <2> QED
      BY <1>1, <1>4, <1>8, <2>1, <2>2, <2>3, PromisesAtEvent DEF e
  <1> QED
    BY <1>9, <1>10

\* The invitation comes: who is there is known by name, and is subscribed.
LEMMA InvitationComesPromises ==
    ASSUME SocketsUnbroken, PromisesKept, ListsKept, InvitationComes
    PROVE  PromisesKept'
  <1> DEFINE e == Head(events)
             logs == store.log
             u == e.user
             w == e.wavelet
             content == ~(u \in WebUsers) /\ conns[u].opened
             m == Subscribe(Conn(u), w, TRUE, content)
             x == [to |-> "wavelet", message |-> m]
             s == PostToWavelet(Rest, FALSE, m)
             t == IF conns[u].up /\ conns[u].named THEN s ELSE Rest
  <1>1. /\ events # <<>> /\ e.to = "participant" /\ store' = store
        /\ Becomes(t)
        /\ \/ conns' = conns
           \/ conns' = [conns EXCEPT ![u].subscriptions = conns[u].subscriptions \cup {w}]
    BY DEF InvitationComes, Event
  <1>2. IsEvent(e) /\ Tidy(Rest, Gone) /\ Rest.wavelets = wavelets
    BY <1>1, AtTheHead
  <1>3. u \in Users /\ w \in Wavelets
    <2> HIDE DEF e
    <2> QED
      BY <1>1, <1>2, EventFacts
  <1>4. \A v \in Wavelets : ~Token(e, v)
    BY <1>1 DEF Token, Working, Loading
  <1>5. ServerOK(Rest, logs)
    BY <1>1, <1>4, HeadIs
  <1>6. m \in Messages
    <2>1. Conn(u) \in Connections
      BY <1>3 DEF ListsKept, Subscribing, Conn, Connections
    <2>2. content \in BOOLEAN
      OBVIOUS
    <2> HIDE DEF u, w, content
    <2> QED
      BY <1>3, <2>1, <2>2, SubscribeTyped
  <1>7. \A v \in Users : SameConnection(conns[v], conns'[v])
    <2> HIDE DEF u, w
    <2> QED
      BY <1>1, SubscribesSame
  <1>8. Fit(m, Gone) /\ m.wavelet = w
    BY DEF Fit, Subscribe
  <1>9. \A v \in Users : \A y \in Wavelets : EverSwapped(v, y) => EverSwapped(v, y)'
    BY <1>1 DEF EverSwapped
  <1>10. \A v, y : Owes(e, v, Conn(v), y) => v = u /\ y = w
    <2> HIDE DEF e
    <2>1. ASSUME NEW v, NEW y, Owes(e, v, Conn(v), y)
          PROVE  e = Notify(v, y)
      BY <1>1, <2>1, OwesMeans
    <2> QED
      BY <2>1 DEF Notify, u, w
  <1>11. \A v : Owes(x, v, Conn(u), w)
    <2> HIDE DEF u, w, content
    <2> QED
      BY <1>6, AskingIsOwed
  <1> HIDE DEF m, logs
  <1>12. /\ Grows(Rest, s, Gone)
         /\ Found(Rest, w, FALSE) => x \in ToSet(s.events)
    BY <1>5, <1>6, <1>8, GrowsToWavelet
  <1>13. Grows(Rest, t, Gone)
    BY <1>12, GrowsNot
  <1> HIDE DEF s, x, e, u, w
  <1>14. ASSUME NEW v \in Users, NEW y \in Wavelets, Heard(conns[v]), Owes(e, v, Conn(v), y),
                v \in wavelets[y].participants
         PROVE  Due(t, v, Conn(v), y)
    <2>1. v = u /\ y = w
      BY <1>10, <1>14
    <2>2. conns[u].up /\ conns[u].named
      BY <1>3, <1>14, <2>1 DEF PromisesKept, Greeted, Heard
    <2>3. Found(Rest, w, FALSE)
      BY <1>2, <1>14, <2>1, ParticipatedIsThere DEF Found
    <2>4. x \in ToSet(t.events)
      BY <1>12, <2>2, <2>3
    <2> HIDE DEF t
    <2> QED
      BY <1>11, <2>1, <2>4 DEF Due
  <1> HIDE DEF t
  <1> QED
    BY <1>1, <1>7, <1>9, <1>13, <1>14, PromisesAtEvent DEF e

\* Connections go on as they were, or are gone: what is gone stays gone.
LEMMA GoneGrows ==
    ASSUME \A u \in Users :
               /\ conns[u].session \in Nat /\ conns'[u].session \in Nat
               /\ conns[u].session <= conns'[u].session
               /\ conns'[u].up /\ conns'[u].session = conns[u].session => conns[u].up
    PROVE  Gone \subseteq Gone'
  <1> SUFFICES ASSUME NEW c \in Connections, c \in Gone
               PROVE  c \in Gone'
    BY DEF Gone
  <1> DEFINE u == c[1]
             n == conns[u].session
             k == conns'[u].session
  <1>1. u \in Users /\ c[2] \in Nat /\ c = <<u, c[2]>>
    BY DEF Connections
  <1>2. n \in Nat /\ k \in Nat /\ n <= k /\ (conns'[u].up /\ k = n => conns[u].up)
    BY <1>1
  <1>3. c[2] <= n /\ ~(conns[u].up /\ <<u, n>> = c)
    BY DEF Gone, Alive, Conn
  <1>4. c[2] <= k /\ ~(conns'[u].up /\ <<u, k>> = c)
    BY <1>1, <1>2, <1>3
  <1>5. Alive(c)' <=> conns'[u].up /\ <<u, k>> = c
    BY DEF Alive, Conn
  <1> QED
    BY <1>4, <1>5 DEF Gone

\* A step that deals with no event: who is heard had been heard, or is owed what
\* he is to get.
LEMMA PromisesOutside ==
    ASSUME PromisesKept, ListsKept, NEW t, Becomes(t), store' = store,
           Gone \subseteq Gone', Grows(Server, t, Gone'),
           \A u \in Users : Greeted(conns'[u]),
           \A u \in Users : Heard(conns'[u]) =>
               \/ Heard(conns[u]) /\ Conn(u)' = Conn(u)
               \/ \A w \in Wavelets : Due(t, u, Conn(u)', w)
    PROVE  PromisesKept'
  <1>1. Server.wavelets = wavelets /\ IsServer(Server) /\ Tidy(Server, Gone')
    BY TidyLonger DEF PromisesKept, ListsKept, ServerOK, Server
  <1>2. ASSUME NEW u \in Users, NEW w \in Wavelets, Heard(conns'[u]),
               u \in wavelets[w].participants
        PROVE  Due(Server, u, Conn(u)', w) \/ Due(t, u, Conn(u)', w) \/ EverSwapped(u, w)'
    <2>1. EverSwapped(u, w)' <=> EverSwapped(u, w)
      BY DEF EverSwapped
    <2>2. CASE Heard(conns[u]) /\ Conn(u)' = Conn(u)
      BY <1>2, <2>1, <2>2 DEF PromisesKept
    <2>3. CASE \A x \in Wavelets : Due(t, u, Conn(u)', x)
      BY <2>3
    <2> QED
      BY <1>2, <2>2, <2>3
  <1> QED
    BY <1>1, <1>2, PromisesGoOn

\* Nothing is done, or nothing but with connections.
LEMMA ServerAsItWas ==
    ASSUME UNCHANGED <<wavelets, events>>, NEW gone
    PROVE  Becomes(Server) /\ Grows(Server, Server, gone)
  BY GrowsNot DEF Becomes, Server

\* The author sends a delta.
LEMMA AuthorSubmitsPromises ==
    ASSUME PromisesKept, ListsKept, NEW w \in Wavelets, AuthorSubmits(w)
    PROVE  PromisesKept'
  <1> DEFINE logs == store.log
             m(d) == [kind |-> "submit", wavelet |-> w, delta |-> d]
  <1>1. store' = store /\ conns' = conns
    BY DEF AuthorSubmits
  <1>2. PICK delta \in Deltas(w) : Becomes(PostToWavelet(Server, TRUE, m(delta)))
    BY DEF AuthorSubmits
  <1>3. delta \in DeltaSet
    BY DeltasTyped
  <1> DEFINE x == m(delta)
             t == PostToWavelet(Server, TRUE, x)
  <1>4. x \in Messages
    BY <1>3 DEF Messages, Submits
  <1>5. ServerOK(Server, logs)
    BY DEF ListsKept
  <1>6. Fit(x, Gone)
    BY DEF Fit
  <1>7. Grows(Server, t, Gone)
    <2> HIDE DEF x, logs
    <2> QED
      BY <1>4, <1>5, <1>6, GrowsToWavelet
  <1>8. Becomes(t)
    BY <1>2
  <1>9. /\ Gone' = Gone /\ \A u \in Users : Conn(u)' = Conn(u)
        /\ \A u \in Users : /\ Heard(conns'[u]) <=> Heard(conns[u])
                            /\ Greeted(conns'[u]) <=> Greeted(conns[u])
    BY <1>1, NothingElse, SameGone
  <1> HIDE DEF t
  <1>10. Grows(Server, t, Gone') /\ \A u \in Users : Greeted(conns'[u])
    BY <1>7, <1>9 DEF PromisesKept
  <1> QED
    BY <1>1, <1>8, <1>9, <1>10, PromisesOutside

\* Requests are handled: the first of all is the one for the index.
LEMMA TakesPromises ==
    ASSUME SocketsUnbroken, SocketsUnbroken', PromisesKept, ListsKept, NEW u \in Users, NEW n,
           NEW conn, NEW q \in Seq(Requests), Takes(u, n, conn, q),
           conn.up = conns[u].up, conn.session = conns[u].session,
           conn.named = conns[u].named, conn.asked = conns[u].asked,
           conn.handled = conns[u].handled,
           Handled(HandleAll(u, conn, q).conn, conn, q)
    PROVE  PromisesKept'
  <1> DEFINE logs == store.log
             end == HandleAll(u, conn, q)
             t == end.server
             c == conns[u]
             d == end.conn
  <1>1. store' = store /\ conns' = [conns EXCEPT ![u] = d] /\ Becomes(t)
    BY DEF Takes
  <1>2. Conn(u) \in Connections /\ ServerOK(Server, logs)
    BY DEF ListsKept, Subscribing, Conn, Connections
  <1>3. /\ d.handled = c.handled \o q /\ d.asked = c.asked /\ d.up = c.up
        /\ d.session = c.session
        /\ q # <<>> => d.named
        /\ q = <<>> => d.named = c.named
    BY DEF Handled
  <1>4. c.handled \in Seq(Requests) /\ c.asked \in Seq(Requests)
    BY DEF SocketsUnbroken, Unbroken
  <1>5. q = <<>> => d.handled = c.handled
    <2> HIDE DEF c, d
    <2> QED
      BY <1>3, <1>4, ConcatEmptySeq
  <1> HIDE DEF d
  <1>6. \A v \in Users : conns'[v] = IF v = u THEN d ELSE conns[v]
    BY <1>1 DEF SocketsUnbroken
  <1>7. Gone \subseteq Gone' /\ \A v \in Users : Conn(v)' = Conn(v)
    <2>1. \A v \in Users : /\ conns[v].session \in Nat /\ conns'[v].session = conns[v].session
                           /\ conns'[v].up = conns[v].up
      BY <1>3, <1>6 DEF ListsKept, Subscribing
    <2> QED
      BY <2>1, GoneGrows DEF Conn
  <1>8. /\ Grows(Server, t, Gone')
        /\ Tidy(Server, Gone') /\ q # <<>> /\ q[1] = OpenIndex =>
              ListingFor(Conn(u)) \in ToSet(t.events)
    <2> HIDE DEF logs
    <2> QED
      BY <1>2, GrowsHandled
  <1>9. Tidy(Server, Gone')
    BY <1>7, TidyLonger DEF PromisesKept
  <1>10. Greeted(c)
    BY DEF PromisesKept
  <1>11. Greeted(d)
    BY <1>3, <1>5, <1>10 DEF Greeted
  <1>12. ASSUME Heard(d), ~Heard(c)
         PROVE  \A w \in Wavelets : Due(t, u, Conn(u), w)
    <2>1. c.up /\ c.handled = <<>> /\ q # <<>>
      BY <1>3, <1>5, <1>12 DEF Heard
    <2>2. d.handled = q
      <3> HIDE DEF c
      <3> QED
        BY <1>3, <2>1, ConcatEmptySeq
    <2>3. PICK p \in Seq(Requests) : d.asked = q \o p
      <3>1. conns'[u] = d
        BY <1>6
      <3>2. Unbroken(conns'[u], wires'[u], u)
        BY DEF SocketsUnbroken
      <3>3. PICK p \in Seq(Requests) : UnderWay(conns'[u], wires'[u], u, p)
        BY <3>2 DEF Unbroken
      <3> QED
        BY <2>2, <3>1, <3>3 DEF UnderWay
    <2>4. q[1] = d.asked[1]
      <3>1. Len(q) > 0
        BY <2>1, EmptySeq, LenProperties
      <3> QED
        BY <2>3, <3>1, ConcatProperties
    <2>5. q[1] = OpenIndex
      BY <1>3, <1>10, <2>1, <2>4 DEF Greeted
    <2>6. ListingFor(Conn(u)) \in ToSet(t.events)
      BY <1>8, <1>9, <2>1, <2>5
    <2>7. \A w : Owes(ListingFor(Conn(u)), u, Conn(u), w)
      BY DEF Owes
    <2> HIDE DEF t
    <2> QED
      BY <2>6, <2>7 DEF Due
  <1> HIDE DEF t, c
  <1>13. ASSUME NEW v \in Users
         PROVE  /\ Greeted(conns'[v])
                /\ Heard(conns'[v]) =>
                      \/ Heard(conns[v]) /\ Conn(v)' = Conn(v)
                      \/ \A w \in Wavelets : Due(t, v, Conn(v)', w)
    <2>1. CASE v = u
      <3>1. conns'[v] = d /\ conns[v] = c
        BY <1>6, <2>1 DEF c
      <3> QED
        BY <1>7, <1>11, <1>12, <2>1, <3>1
    <2>2. CASE v # u
      BY <1>6, <1>7, <2>2 DEF PromisesKept
    <2> QED
      BY <2>1, <2>2
  <1> QED
    BY <1>1, <1>7, <1>8, <1>13, PromisesOutside

\* A part of a desktop client's bytes arrives.
LEMMA ServerReadsPromises ==
    ASSUME SocketsUnbroken, SocketsUnbroken', PromisesKept, ListsKept, NEW u \in Users,
           ServerReads(u)
    PROVE  PromisesKept'
  <1> DEFINE wire == wires[u]
             c == conns[u]
             rpc(n) == Arrived(c.rpc, SubSeq(wire, 1, n))
             conn(n) == [c EXCEPT !.rpc = rpc(n)]
  <1>1. u \notin WebUsers /\ c.up /\ Unbroken(c, wire, u)
    BY DEF ServerReads, SocketsUnbroken
  <1>2. PICK n \in 1..Len(wire) : Takes(u, n, conn(n), rpc(n).received)
    BY DEF ServerReads
  <1> HIDE DEF c, wire
  <1>3. /\ rpc(n).received \in Seq(Requests)
        /\ Handled(HandleAll(u, conn(n), rpc(n).received).conn, conn(n), rpc(n).received)
    BY <1>1, ServerReadsUnbroken
  <1>4. /\ conn(n).up = c.up /\ conn(n).session = c.session /\ conn(n).named = c.named
        /\ conn(n).asked = c.asked /\ conn(n).handled = c.handled
    <2> DEFINE x == rpc(n)
               t == [c EXCEPT !.rpc = x]
    <2>1. IsConnection(c)
      BY <1>1 DEF Unbroken
    <2> HIDE DEF x
    <2>2. /\ t.up = c.up /\ t.session = c.session /\ t.named = c.named
          /\ t.asked = c.asked /\ t.handled = c.handled
      BY <2>1, ConnectionWithRpc
    <2> QED
      BY <2>2 DEF x
  <1> DEFINE d == conn(n)
             q == rpc(n).received
  <1>5. /\ q \in Seq(Requests) /\ Takes(u, n, d, q)
        /\ d.up = conns[u].up /\ d.session = conns[u].session /\ d.named = conns[u].named
        /\ d.asked = conns[u].asked /\ d.handled = conns[u].handled
        /\ Handled(HandleAll(u, d, q).conn, d, q)
    BY <1>2, <1>3, <1>4 DEF c
  <1> HIDE DEF d, q
  <1> QED
    BY <1>5, TakesPromises

\* The records of a browser's request arrive.
LEMMA ServerTakesPromises ==
    ASSUME SocketsUnbroken, SocketsUnbroken', PromisesKept, ListsKept, NEW u \in Users,
           ServerTakes(u)
    PROVE  PromisesKept'
  <1> DEFINE wire == wires[u]
             c == conns[u]
             records == Web!RecordsOf(Head(wire).id, Head(wire).request)
             fcgi(n) == Web!ArrivedCut(c.fcgi, records, n)
             conn(n) == [c EXCEPT !.fcgi = fcgi(n)]
  <1>1. u \in WebUsers /\ c.up /\ wire # <<>> /\ Unbroken(c, wire, u)
    BY DEF ServerTakes, SocketsUnbroken
  <1>2. PICK n \in 1..Len(records) : Takes(u, 1, conn(n), fcgi(n).received)
    BY DEF ServerTakes
  <1> HIDE DEF c, wire
  <1>3. /\ fcgi(n).received \in Seq(Requests)
        /\ Handled(HandleAll(u, conn(n), fcgi(n).received).conn, conn(n), fcgi(n).received)
    BY <1>1, ServerTakesUnbroken
  <1>4. /\ conn(n).up = c.up /\ conn(n).session = c.session /\ conn(n).named = c.named
        /\ conn(n).asked = c.asked /\ conn(n).handled = c.handled
    <2> DEFINE x == fcgi(n)
               t == [c EXCEPT !.fcgi = x]
    <2>1. IsConnection(c)
      BY <1>1 DEF Unbroken
    <2> HIDE DEF x
    <2>2. /\ t.up = c.up /\ t.session = c.session /\ t.named = c.named
          /\ t.asked = c.asked /\ t.handled = c.handled
      BY <2>1, ConnectionWithFcgi
    <2> QED
      BY <2>2 DEF x
  <1> DEFINE d == conn(n)
             q == fcgi(n).received
  <1>5. /\ q \in Seq(Requests) /\ Takes(u, 1, d, q)
        /\ d.up = conns[u].up /\ d.session = conns[u].session /\ d.named = conns[u].named
        /\ d.asked = conns[u].asked /\ d.handled = conns[u].handled
        /\ Handled(HandleAll(u, d, q).conn, d, q)
    BY <1>2, <1>3, <1>4 DEF c
  <1> HIDE DEF d, q
  <1> QED
    BY <1>5, TakesPromises

\* Only what is asked changes.
LEMMA ConnectionWithAsked ==
    ASSUME NEW c, IsConnection(c), NEW y
    PROVE  LET t == [c EXCEPT !.asked = y]
           IN  /\ t.asked = y /\ t.up = c.up /\ t.session = c.session /\ t.named = c.named
               /\ t.handled = c.handled
  <1> DEFINE up == c.up
             session == c.session
             named == c.named
             opened == c.opened
             rpc == c.rpc
             fcgi == c.fcgi
             subscriptions == c.subscriptions
             asked == c.asked
             handled == c.handled
             t == [c EXCEPT !.asked = y]
  <1>1. c = [up |-> up, session |-> session, named |-> named, opened |-> opened, rpc |-> rpc,
             fcgi |-> fcgi, subscriptions |-> subscriptions, asked |-> asked, handled |-> handled]
    BY DEF IsConnection
  <1>2. t = [c EXCEPT !.asked = y]
    OBVIOUS
  <1> HIDE DEF up, session, named, opened, rpc, fcgi, subscriptions, asked, handled, t
  <1>3. t = [up |-> up, session |-> session, named |-> named, opened |-> opened, rpc |-> rpc,
             fcgi |-> fcgi, subscriptions |-> subscriptions, asked |-> y, handled |-> handled]
    BY <1>1, <1>2
  <1>4. t.asked = y /\ t.up = up /\ t.session = session /\ t.named = named /\ t.handled = handled
    BY <1>3
  <1> QED
    BY <1>4 DEF t, up, session, named, handled

\* What the next step has to show when one connection becomes another one: it goes
\* on, or nobody is heard on it.
LEMMA OneConnection ==
    ASSUME SocketsUnbroken, PromisesKept, ListsKept, NEW u \in Users, NEW d,
           conns' = [conns EXCEPT ![u] = d], store' = store,
           d.session \in Nat, conns[u].session <= d.session,
           d.up /\ d.session = conns[u].session => conns[u].up,
           Greeted(d), Heard(d) => Heard(conns[u]) /\ d.session = conns[u].session,
           NEW t, Becomes(t), Grows(Server, t, Gone')
    PROVE  PromisesKept'
  <1>1. \A v \in Users : conns'[v] = IF v = u THEN d ELSE conns[v]
    BY DEF SocketsUnbroken
  <1>2. \A v \in Users : conns[v].session \in Nat
    BY DEF ListsKept, Subscribing
  <1>3. Gone \subseteq Gone'
    <2>1. ASSUME NEW v \in Users
          PROVE  /\ conns[v].session \in Nat /\ conns'[v].session \in Nat
                 /\ conns[v].session <= conns'[v].session
                 /\ conns'[v].up /\ conns'[v].session = conns[v].session => conns[v].up
      <3>1. CASE v = u
        BY <1>1, <1>2, <3>1
      <3>2. CASE v # u
        BY <1>1, <1>2, <3>2
      <3> QED
        BY <3>1, <3>2
    <2> QED
      BY <2>1, GoneGrows
  <1>4. ASSUME NEW v \in Users
        PROVE  /\ Greeted(conns'[v])
               /\ Heard(conns'[v]) => Heard(conns[v]) /\ Conn(v)' = Conn(v)
    <2>1. CASE v = u
      BY <1>1, <2>1 DEF Conn
    <2>2. CASE v # u
      BY <1>1, <2>2 DEF PromisesKept, Conn
    <2> QED
      BY <2>1, <2>2
  <1> QED
    BY <1>3, <1>4, PromisesOutside

\* A user connects: he asks for his index, and has not been heard yet.
LEMMA UserConnectsPromises ==
    ASSUME SocketsUnbroken, PromisesKept, ListsKept, NEW u \in Users, UserConnects(u)
    PROVE  PromisesKept'
  <1> DEFINE n == conns[u].session + 1
             web == u \in WebUsers
             c == [NoConnection(n) EXCEPT !.up = TRUE, !.named = web]
             y == Append(c.asked, OpenIndex)
             t == [c EXCEPT !.asked = y]
  <1>1. conns' = [conns EXCEPT ![u] = t] /\ UNCHANGED <<wavelets, store, events>>
    BY DEF UserConnects, Asks
  <1>2. conns[u].session \in Nat /\ n \in Nat /\ conns[u].session <= n /\ n # conns[u].session
    BY DEF ListsKept, Subscribing
  <1>3. NoConnection(n).asked = <<>> /\ NoConnection(n).handled = <<>>
    BY DEF NoConnection
  <1> HIDE DEF n, web
  <1>4. IsConnection(c) /\ c.session = n /\ c.asked = <<>> /\ c.handled = <<>>
    <2>1. /\ IsConnection(c) /\ c.session = n /\ c.asked = NoConnection(n).asked
          /\ c.handled = NoConnection(n).handled
      BY FreshConnection, ZenonT(60)
    <2> HIDE DEF c
    <2> QED
      BY <1>3, <2>1
  <1>5. y = <<OpenIndex>>
    <2> HIDE DEF c
    <2> QED
      BY <1>4
  <1>6. y # <<>> /\ y[1] = OpenIndex
    BY <1>5
  <1> HIDE DEF c, y
  <1>7. t.asked = y /\ t.session = n /\ t.handled = <<>>
    BY <1>4, ConnectionWithAsked
  <1> HIDE DEF t
  <1>8. Greeted(t) /\ ~Heard(t)
    BY <1>6, <1>7 DEF Greeted, Heard
  <1>9. Becomes(Server) /\ Grows(Server, Server, Gone')
    BY <1>1, ServerAsItWas
  <1> QED
    BY <1>1, <1>2, <1>7, <1>8, <1>9, OneConnection

\* A user opens a wavelet: what he asked for first stays the first.
LEMMA UserOpensPromises ==
    ASSUME SocketsUnbroken, PromisesKept, ListsKept, NEW u \in Users, NEW w \in Wavelets,
           UserOpens(u, w)
    PROVE  PromisesKept'
  <1> DEFINE c == conns[u]
             m == OpenWavelet(w)
             y == Append(c.asked, m)
             t == [c EXCEPT !.asked = y]
  <1>1. conns' = [conns EXCEPT ![u] = t] /\ UNCHANGED <<wavelets, store, events>>
    BY DEF UserOpens, Asks
  <1>2. IsConnection(c) /\ c.asked \in Seq(Requests) /\ c.session \in Nat /\ Greeted(c)
    BY DEF SocketsUnbroken, Unbroken, ListsKept, Subscribing, PromisesKept
  <1>3. m \in Requests
    BY DEF Requests
  <1> HIDE DEF m
  <1>4. c.asked # <<>> => y # <<>> /\ y[1] = c.asked[1]
    <2> DEFINE q == c.asked
    <2>1. q \in Seq(Requests) /\ y = Append(q, m)
      BY <1>2
    <2> HIDE DEF q
    <2>2. ASSUME q # <<>>
          PROVE  Append(q, m) # <<>> /\ Append(q, m)[1] = q[1]
      <3>1. Len(q) \in Nat /\ Len(q) > 0
        BY <2>1, <2>2, EmptySeq, LenProperties
      <3> QED
        BY <1>3, <2>1, <3>1, AppendProperties
    <2> QED
      BY <2>1, <2>2 DEF q
  <1> HIDE DEF c, y
  <1>5. /\ t.asked = y /\ t.up = c.up /\ t.session = c.session /\ t.named = c.named
        /\ t.handled = c.handled
    BY <1>2, ConnectionWithAsked
  <1> HIDE DEF t
  <1>6. Greeted(t) /\ (Heard(t) => Heard(c))
    BY <1>2, <1>4, <1>5 DEF Greeted, Heard
  <1>7. Becomes(Server) /\ Grows(Server, Server, Gone')
    BY <1>1, ServerAsItWas
  <1>8. t.session \in Nat /\ conns[u].session <= t.session
    BY <1>2, <1>5 DEF c
  <1> QED
    BY <1>1, <1>5, <1>6, <1>7, <1>8, OneConnection DEF c

\* A connection goes, and takes back what it subscribed to.
LEMMA UserLeavesPromises ==
    ASSUME SocketsUnbroken, PromisesKept, ListsKept, NEW u \in Users, UserLeaves(u)
    PROVE  PromisesKept'
  <1> DEFINE logs == store.log
             S == conns[u].subscriptions
             left == SetToSeq(S)
             c == Conn(u)
             d == NoConnection(conns[u].session)
  <1>1. store' = store /\ conns' = [conns EXCEPT ![u] = d]
    BY DEF UserLeaves
  <1>2. S \in SUBSET Wavelets /\ IsFiniteSet(S) /\ c \in Connections /\ ServerOK(Server, logs)
    BY DEF ListsKept, Subscribing, Conn, Connections
  <1>3. left \in Seq(Wavelets)
    <2> HIDE DEF S
    <2>1. left \in Seq(S)
      BY <1>2, SetToSeqIsSequence
    <2> HIDE DEF left
    <2> QED
      BY <1>2, <2>1, SeqMonotonic
  <1>4. PICK f : LeavingBy(f, u, left)
    BY <1>3, LeavingRuns
  <1> DEFINE n == Len(left)
             m == [i \in 1..n |-> Unsubscribe(c, left[i])]
             t == f[n]
  <1>5. n \in Nat /\ \A i \in 1..n : left[i] \in Wavelets
    BY <1>3, LenProperties
  <1>6. ~d.up /\ d.session = conns[u].session /\ d.session \in Nat
    BY DEF NoConnection, ListsKept, Subscribing
  <1>7. c \in Gone'
    <2> HIDE DEF d
    <2>1. conns'[u] = d
      BY <1>1 DEF SocketsUnbroken
    <2>2. c = <<u, conns[u].session>>
      BY DEF Conn
    <2>3. c[1] = u /\ c[2] = conns[u].session
      BY <2>2
    <2> HIDE DEF c
    <2>4. PICK b : b = c
      OBVIOUS
    <2>5. ~Alive(b)'
      BY <1>6, <2>1, <2>3, <2>4 DEF Alive
    <2>6. b[2] <= conns'[b[1]].session
      BY <1>6, <2>1, <2>3, <2>4
    <2>7. b \in Connections
      BY <1>2, <2>4
    <2>8. b \in Gone'
      BY <2>5, <2>6, <2>7 DEF Gone
    <2> QED
      BY <2>4, <2>8
  <1>8. ASSUME NEW i \in 1..n
        PROVE  m[i] \in Messages /\ f[i] = PostToWavelet(f[i - 1], FALSE, m[i]) /\ Fit(m[i], Gone')
    <2> DEFINE x == Unsubscribe(c, left[i])
    <2>1. m[i] = x
      OBVIOUS
    <2>2. f[i] = PostToWavelet(f[i - 1], FALSE, m[i])
      BY <1>4, <2>1 DEF LeavingBy
    <2>3. x.conn = c
      BY DEF Unsubscribe, Subscribe
    <2> HIDE DEF m, c, left
    <2>4. x \in Messages
      BY <1>2, <1>5, SubscribeTyped
    <2> HIDE DEF x
    <2> QED
      BY <1>7, <2>1, <2>2, <2>3, <2>4 DEF Fit
  <1>9. f[0] = Server /\ Becomes(t)
    BY <1>4 DEF LeavingBy
  <1>10. Grows(Server, t, Gone')
    <2> HIDE DEF n, m, logs
    <2>1. PostsBy(f, Server, FALSE, m, n)
      BY <1>8, <1>9 DEF PostsBy
    <2> QED
      BY <1>2, <1>5, <1>8, <2>1, GrowsPosts
  <1>11. Greeted(d) /\ ~Heard(d)
    BY <1>6 DEF Greeted, Heard
  <1> HIDE DEF t, d, m, n, left, c, logs
  <1>12. conns[u].session <= d.session
    BY <1>6
  <1> QED
    BY <1>1, <1>6, <1>9, <1>10, <1>11, <1>12, OneConnection

\* A server that has just been started owes nothing.
LEMMA FreshPromises ==
    ASSUME NEW s, s.wavelets = [w \in Wavelets |-> Unloaded], s.events = <<>>, NEW gone
    PROVE  Tidy(s, gone) /\ \A w \in Wavelets : ~Stuck(s.wavelets[w])
  <1>1. ToSet(s.events) = {}
    BY EmptySeq DEF ToSet
  <1>2. ToSet(<<>>) = {}
    BY EmptySeq DEF ToSet
  <1>3. \A w \in Wavelets : s.wavelets[w] = Unloaded
    OBVIOUS
  <1>4. Unloaded.queue = <<>> /\ Unloaded.index = {} /\ ~Unloaded.enabled
    BY DEF Unloaded
  <1> QED
    BY <1>1, <1>2, <1>3, <1>4 DEF Tidy, Stuck

\* The server starts again: nobody is connected.
LEMMA RestartPromises ==
    ASSUME Restart
    PROVE  PromisesKept'
  <1>1. /\ Server'.wavelets = [w \in Wavelets |-> Unloaded] /\ Server'.events = <<>>
        /\ wavelets' = [w \in Wavelets |-> Unloaded]
        /\ \A u \in Users : conns'[u] = NoConnection(conns[u].session)
    BY DEF Restart, Server
  <1>2. \A u \in Users : ~conns'[u].up
    <2>1. \A n : ~NoConnection(n).up
      BY DEF NoConnection
    <2> QED
      BY <1>1, <2>1
  <1>3. Tidy(Server', Gone') /\ \A w \in Wavelets : ~Stuck(Server'.wavelets[w])
    BY <1>1, FreshPromises
  <1> QED
    BY <1>1, <1>2, <1>3 DEF PromisesKept, Greeted, Heard

\* At the beginning.
LEMMA PromisesStart == Init => PromisesKept
  <1> SUFFICES ASSUME Init
               PROVE  PromisesKept
    OBVIOUS
  <1>1. /\ Server.wavelets = [w \in Wavelets |-> Unloaded] /\ Server.events = <<>>
        /\ wavelets = [w \in Wavelets |-> Unloaded]
        /\ \A u \in Users : conns[u] = NoConnection(0)
    BY DEF Init, Server
  <1>2. \A u \in Users : ~conns[u].up
    BY <1>1 DEF NoConnection
  <1>3. Tidy(Server, Gone) /\ \A w \in Wavelets : ~Stuck(Server.wavelets[w])
    BY <1>1, FreshPromises
  <1> QED
    BY <1>1, <1>2, <1>3 DEF PromisesKept, Greeted, Heard

\* Every step keeps what has been promised.
LEMMA PromisesStep ==
    ASSUME SocketsUnbroken, SocketsUnbroken', ListsKept, PromisesKept, [Next]_sessionVars
    PROVE  PromisesKept'
  <1>1. CASE WaveletGets
    BY <1>1, WaveletGetsPromises
  <1>2. CASE ActorStarts
    BY <1>2, ActorStartsPromises
  <1>3. CASE ActorEnters
    BY <1>3, ActorEntersPromises
  <1>4. CASE StoreGets
    BY <1>4, StoreGetsPromises
  <1>5. CASE SubmitCommits
    BY <1>5, SubmitCommitsPromises
  <1>6. CASE HistoryComes
    BY <1>6, HistoryComesPromises
  <1>7. CASE ListingComes
    BY <1>7, ListingComesPromises
  <1>8. CASE InvitationComes
    BY <1>8, InvitationComesPromises
  <1>9. CASE ConnectionGets
    BY <1>9, ConnectionGetsPromises
  <1>10. CASE Restart
    BY <1>10, RestartPromises
  <1>11. ASSUME NEW w \in Wavelets, AuthorSubmits(w)
         PROVE  PromisesKept'
    BY <1>11, AuthorSubmitsPromises
  <1>12. ASSUME NEW u \in Users, ServerReads(u)
         PROVE  PromisesKept'
    BY <1>12, ServerReadsPromises
  <1>13. ASSUME NEW u \in Users, ServerTakes(u)
         PROVE  PromisesKept'
    BY <1>13, ServerTakesPromises
  <1>14. ASSUME NEW u \in Users, UserConnects(u)
         PROVE  PromisesKept'
    BY <1>14, UserConnectsPromises
  <1>15. ASSUME NEW u \in Users, UserLeaves(u)
         PROVE  PromisesKept'
    BY <1>15, UserLeavesPromises
  <1>16. ASSUME NEW u \in Users, NEW w \in Wavelets, UserOpens(u, w)
         PROVE  PromisesKept'
    BY <1>16, UserOpensPromises
  <1>17. CASE UNCHANGED sessionVars
    <2>1. UNCHANGED <<wavelets, events>> /\ conns' = conns /\ store' = store
      BY <1>17 DEF sessionVars
    <2>2. /\ Gone' = Gone /\ \A u \in Users : Conn(u)' = Conn(u)
          /\ \A u \in Users : /\ Heard(conns'[u]) <=> Heard(conns[u])
                              /\ Greeted(conns'[u]) <=> Greeted(conns[u])
      BY <2>1, NothingElse, SameGone
    <2>3. Becomes(Server) /\ Grows(Server, Server, Gone')
      BY <2>1, ServerAsItWas
    <2>4. \A u \in Users : Greeted(conns'[u])
      BY <2>2 DEF PromisesKept
    <2> QED
      BY <2>1, <2>2, <2>3, <2>4, PromisesOutside
  <1> QED
    BY <1>1, <1>2, <1>3, <1>4, <1>5, <1>6, <1>7, <1>8, <1>9, <1>10, <1>11, <1>12, <1>13,
       <1>14, <1>15, <1>16, <1>17 DEF Next

\* When the server is idle nothing is owed any more.
LEMMA PromisesShow == ListsKept /\ PromisesKept => NobodyIsForgotten
  <1> SUFFICES ASSUME ListsKept, PromisesKept, NEW u \in Users, NEW w \in Wavelets, Idle(w),
                      conns[u].up, conns[u].handled # <<>>, u \in wavelets[w].participants
               PROVE  Conn(u) \in wavelets[w].index \/ EverSwapped(u, w)
    BY DEF NobodyIsForgotten
  <1> DEFINE logs == store.log
             wv == wavelets[w]
  <1>1. Steady(wv, events, logs[w], w)
    BY DEF ListsKept, ServerOK, Server
  <1>2. events = <<>> /\ wv.enabled
    BY DEF Idle
  <1>3. Len(events) = 0 /\ ToSet(events) = {} /\ ToSet(<<>>) = {}
    BY <1>2, EmptySeq DEF ToSet
  <1>4. ~wv.busy
    <2>1. \A e : ~Only(events, w, e)
      BY <1>3 DEF Only
    <2> QED
      BY <1>1, <1>2, <2>1 DEF Steady, Absent, Opening, Resting, Occupied
  <1>5. wv.queue = <<>>
    BY <1>2, <1>4 DEF PromisesKept, Stuck
  <1>6. Due(Server, u, Conn(u), w) \/ EverSwapped(u, w)
    BY DEF PromisesKept, Heard
  <1>7. Due(Server, u, Conn(u), w) => Conn(u) \in wv.index
    BY <1>3, <1>5 DEF Due, Server
  <1> QED
    BY <1>6, <1>7

\* The index query and the invitation do not miss each other: whenever the server is
\* idle, who has asked for his index is subscribed to every wavelet in RAM that he
\* is a participant of, unless one delta removed him and added him again.  For any
\* users, wavelets, deltas and sessions, restarts included (clientactor.cpp,
\* clientconnection.cpp, clientparticipant.cpp, localwavelet.cpp).
THEOREM NobodyIsLeftOut == SessionsSpec => []NobodyIsForgotten
  <1>1. Init => SocketsUnbroken /\ ListsKept /\ PromisesKept
    BY SocketsStart, ListsStart, PromisesStart
  <1>2. SocketsUnbroken /\ ListsKept /\ PromisesKept /\ [Next]_sessionVars
           => (SocketsUnbroken /\ ListsKept /\ PromisesKept)'
    BY SocketsStep, ListsStep, PromisesStep
  <1>3. SocketsUnbroken /\ ListsKept /\ PromisesKept => NobodyIsForgotten
    BY PromisesShow
  <1> QED
    BY <1>1, <1>2, <1>3, PTL DEF SessionsSpec
=============================================================================
