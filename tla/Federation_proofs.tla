-------------------------- MODULE Federation_proofs --------------------------
(***************************************************************************)
(* What holds of the virtual connections of two servers for any number of  *)
(* deltas, submits, failures, restarts and users: messages to the peer's   *)
(* domain and stanzas from its component use the same connection, and one  *)
(* that is ready can be reached; of the host's count of subscriptions; of  *)
(* the answers to submits; and of the copy.                                *)
(*                                                                         *)
(* The argument is about the discovery.  It renames the connection it was  *)
(* created with, so both facts rest on there being one discovery per       *)
(* connection, on the connection not being ready until the discovery has   *)
(* ended, and on a route, once made, leading to the same connection until  *)
(* a restart.  The count rests on no delta both adding and removing a      *)
(* participant, those under way from the copy included.  The answers rest  *)
(* on a request being answered by the handler that has its number, and on  *)
(* the handler telling of the delta it submitted.  Last, what the copy has *)
(* applied is the beginning of the host's history: the deltas in its       *)
(* messages, and in the answers to its requests, follow one another.       *)
(***************************************************************************)
EXTENDS Federation, FiniteSetTheorems, SequenceLemmas, TLAPS

\* A delta adds a participant, or removes one, or does neither.
ChangesOne(d) ==
    /\ d.adds \in Users \cup {Nobody} /\ d.removes \in Users \cup {Nobody}
    /\ d.adds = Nobody \/ d.removes = Nobody

IsStanza(m) ==
    /\ {"kind", "reply", "from", "to", "deltas"} \subseteq DOMAIN m
    /\ m.from \in Names /\ m.to \in Names

\* A stanza on a wire asks for something that has a responder.
OnWire(m) ==
    /\ IsStanza(m)
    /\ m.reply = "none" => m.kind \in Asked
    /\ m.reply = "none" /\ m.kind = "submit" => ChangesOne(m.deltas[1])

StanzaSeq(q) == \E S : q \in Seq(S) /\ \A m \in S : OnWire(m)

Wired(w) == w = [s \in Servers |-> w[s]] /\ \A s \in Servers : StanzaSeq(w[s])

\* The steps that only one kind of actor takes.
Takes(kind, step) ==
    /\ step \in {"items", "info"} => kind = "Disco"
    /\ step \in {"signer", "submit"} => kind = "SubmitRequest"
    /\ step \in {"commit", "late"} => kind = "SubmitResponse"

IsActor(a) ==
    /\ {"kind", "at", "con", "step", "deltas", "request"} \subseteq DOMAIN a
    /\ a.at \in Servers /\ a.con \in Names /\ IsStanza(a.request)
    /\ Takes(a.kind, a.step)
    /\ a.kind \in {"SubmitRequest", "SubmitResponse"} => ChangesOne(a.deltas[1])

Connections == [exists : BOOLEAN, address : Names \cup {NoConnection},
                ready : BOOLEAN, postedSigner : BOOLEAN]

LinkTypeOK ==
    /\ con \in [Servers -> [Names -> Connections]]
    /\ route \in [Servers -> [Names -> Names \cup {NoConnection}]]
    /\ \A a \in actors : IsActor(a)
    /\ Wired(wire)

Address(s, n) == con[s][n].address

\* Actors and routes lead to connections that have been created.
LeadsSomewhere ==
    /\ \A a \in actors : Address(a.at, a.con) # NoConnection
    /\ \A s \in Servers, n \in Names :
          route[s][n] # NoConnection => Address(s, route[s][n]) # NoConnection
    /\ \A s \in Servers, n \in Names :
          Address(s, n) # NoConnection => route[s][n] # NoConnection
    /\ \A s \in Servers :
          Address(s, "component") # NoConnection => route[s]["component"] = "component"

\* Until it has renamed its connection, the discovery is the only one, and the
\* connection is not ready.
Discovers(a) ==
    /\ a.con = "domain" /\ route[a.at]["domain"] # NoConnection
    /\ a.step # "info" =>
          /\ Address(a.at, "domain") = "domain" /\ ~con[a.at]["domain"].ready
          /\ route[a.at]["domain"] = "domain"

Discos(S) == {a \in S : a.kind = "Disco"}

OneDiscovery ==
    /\ \A a \in Discos(actors) : Discovers(a)
    /\ \A a, b \in Discos(actors) : a.at = b.at => a = b

LinkInv ==
    LinkTypeOK /\ LeadsSomewhere /\ OneDiscovery /\ RoutesAgree /\ ReadyIsReachable

-----------------------------------------------------------------------------
(* Stanzas and wires.                                                       *)

LEMMA RequestOnWire ==
    ASSUME LinkTypeOK, LeadsSomewhere, NEW a \in actors, NEW kind \in Asked,
           kind = "submit" => a.kind = "SubmitRequest"
    PROVE  OnWire(Request(kind, a))
  BY FederationAssumption
  DEF LinkTypeOK, LeadsSomewhere, IsActor, Address, OnWire, IsStanza, Request, NoStanza,
      Connections, Names, Servers

LEMMA ResultOnWire ==
    ASSUME LinkTypeOK, LeadsSomewhere, NEW a \in actors
    PROVE  OnWire(Result(a)) /\ Result(a).reply = "result"
  BY FederationAssumption
  DEF LinkTypeOK, LeadsSomewhere, IsActor, Address, OnWire, IsStanza, Result,
      Connections, Names, Servers

LEMMA AppendedIsWired ==
    ASSUME NEW w, Wired(w), NEW s \in Servers, NEW m, OnWire(m)
    PROVE  Wired([w EXCEPT ![s] = Append(@, m)])
  <1>1. PICK S : w[s] \in Seq(S) /\ \A x \in S : OnWire(x)
    BY DEF Wired, StanzaSeq
  <1>2. w[s] \in Seq(S \cup {m})
    BY <1>1
  <1>3. Append(w[s], m) \in Seq(S \cup {m})
    BY <1>2
  <1>4. StanzaSeq(Append(w[s], m))
    BY <1>1, <1>3 DEF StanzaSeq
  <1> QED
    BY <1>4 DEF Wired

LEMMA SentIsWired ==
    ASSUME NEW w, Wired(w), NEW s \in Servers, NEW m, OnWire(m)
    PROVE  Wired(Sent(s, w, m))
  BY AppendedIsWired DEF Sent

LEMMA RestIsWired ==
    ASSUME Wired(wire), NEW s \in Servers, wire[s] # <<>>
    PROVE  OnWire(Head(wire[s])) /\ Wired([wire EXCEPT ![s] = Tail(@)])
  <1>1. PICK S : wire[s] \in Seq(S) /\ \A x \in S : OnWire(x)
    BY DEF Wired, StanzaSeq
  <1>2. Head(wire[s]) \in S /\ Tail(wire[s]) \in Seq(S)
    BY <1>1
  <1>3. StanzaSeq(Tail(wire[s]))
    BY <1>1, <1>2 DEF StanzaSeq
  <1> QED
    BY <1>1, <1>2, <1>3 DEF Wired

LEMMA PeerIsServer == \A s \in Servers : Peer(s) \in Servers
  BY DEF Peer, Servers

LEMMA IncomingOnWire ==
    ASSUME LinkTypeOK, NEW t \in Servers, CanRead(t)
    PROVE  OnWire(Incoming(t)) /\ Wired(Rest(t))
  BY RestIsWired, PeerIsServer DEF LinkTypeOK, CanRead, Incoming, Rest

-----------------------------------------------------------------------------
(* Steps that leave the routes alone, and make no connection ready.         *)

KeepsLinks ==
    /\ con' \in [Servers -> [Names -> Connections]] /\ route' = route
    /\ \A s \in Servers, n \in Names :
          /\ con'[s][n].address = con[s][n].address
          /\ con'[s][n].ready => con[s][n].ready

LEMMA ActorEnds ==
    ASSUME LinkInv, KeepsLinks, actors' \subseteq actors, Wired(wire)'
    PROVE  LinkInv'
  <1>1. LinkTypeOK'
    BY DEF LinkInv, LinkTypeOK, KeepsLinks
  <1>2. LeadsSomewhere'
    <2>1. \A s \in Servers, n \in Names : Address(s, n)' = Address(s, n)
      BY DEF KeepsLinks, Address
    <2>2. \A c \in actors' : Address(c.at, c.con)' # NoConnection
      BY <2>1 DEF LinkInv, LinkTypeOK, LeadsSomewhere, IsActor, Address
    <2>3. \A s \in Servers, n \in Names : route[s][n] # NoConnection => route[s][n] \in Names
      BY DEF LinkInv, LinkTypeOK
    <2> QED
      BY <2>1, <2>2, <2>3 DEF LinkInv, LeadsSomewhere, KeepsLinks, Names, Address
  <1>3. ASSUME NEW c \in Discos(actors') PROVE Discovers(c)'
    <2>1. c \in actors /\ c.kind = "Disco" /\ Discovers(c) /\ c.at \in Servers
      BY DEF LinkInv, LinkTypeOK, OneDiscovery, Discos, IsActor
    <2> QED
      BY <2>1 DEF Discovers, KeepsLinks, Address, Names
  <1>4. \A c, d \in Discos(actors') : c.at = d.at => c = d
    BY DEF LinkInv, OneDiscovery, Discos
  <1>5. RoutesAgree' /\ ReadyIsReachable'
    BY DEF LinkInv, RoutesAgree, ReadyIsReachable, KeepsLinks, Names
  <1> QED
    BY <1>1, <1>2, <1>3, <1>4, <1>5 DEF LinkInv, OneDiscovery, Discos

LEMMA ActorGoesOn ==
    ASSUME LinkInv, KeepsLinks, Wired(wire)', NEW a \in actors, NEW b, Become(a, b),
           IsActor(b), b.kind = a.kind, b.at = a.at, b.con = a.con,
           a.kind = "Disco" /\ a.step = "info" => b.step = "info"
    PROVE  LinkInv'
  <1> USE DEF Become
  <1>1. LinkTypeOK'
    BY DEF LinkInv, LinkTypeOK, KeepsLinks
  <1>2. LeadsSomewhere'
    <2>1. \A s \in Servers, n \in Names : Address(s, n)' = Address(s, n)
      BY DEF KeepsLinks, Address
    <2>2. \A c \in actors' : Address(c.at, c.con)' # NoConnection
      BY <2>1 DEF LinkInv, LinkTypeOK, LeadsSomewhere, IsActor, Address
    <2>3. \A s \in Servers, n \in Names : route[s][n] # NoConnection => route[s][n] \in Names
      BY DEF LinkInv, LinkTypeOK
    <2> QED
      BY <2>1, <2>2, <2>3 DEF LinkInv, LeadsSomewhere, KeepsLinks, Names, Address
  <1>3. ASSUME NEW c \in Discos(actors') PROVE Discovers(c)'
    <2>1. PICK d \in actors : /\ d.kind = "Disco" /\ d.at = c.at /\ d.con = c.con
                              /\ d.step = "info" => c.step = "info"
      BY DEF Discos
    <2>2. Discovers(d) /\ d.at \in Servers
      BY <2>1 DEF LinkInv, LinkTypeOK, OneDiscovery, Discos, IsActor
    <2> QED
      BY <2>1, <2>2 DEF Discovers, KeepsLinks, Address, Names
  <1>4. \A c, d \in Discos(actors') : c.at = d.at => c = d
    BY DEF LinkInv, OneDiscovery, Discos
  <1>5. RoutesAgree' /\ ReadyIsReachable'
    BY DEF LinkInv, RoutesAgree, ReadyIsReachable, KeepsLinks, Names
  <1> QED
    BY <1>1, <1>2, <1>3, <1>4, <1>5 DEF LinkInv, OneDiscovery, Discos

LEMMA SameLinks ==
    ASSUME LinkTypeOK, con' = con, route' = route
    PROVE  KeepsLinks
  BY DEF LinkTypeOK, KeepsLinks

LEMMA ErrorKeepsLinks ==
    ASSUME LinkTypeOK, NEW a \in actors, XmppError(a.at, a.con), route' = route
    PROVE  KeepsLinks
  <1>1. a.at \in Servers /\ a.con \in Names
    BY DEF LinkTypeOK, IsActor
  <1>2. con \in [Servers -> [Names -> Connections]]
    BY DEF LinkTypeOK
  <1>3. \A s \in Servers, n \in Names :
           con'[s][n] = IF s = a.at /\ n = a.con THEN [con[s][n] EXCEPT !.ready = FALSE]
                        ELSE con[s][n]
    BY <1>1, <1>2 DEF XmppError
  <1>4. \A c \in Connections : /\ [c EXCEPT !.ready = FALSE] \in Connections
                                /\ [c EXCEPT !.ready = FALSE].address = c.address
                                /\ ~[c EXCEPT !.ready = FALSE].ready
    BY DEF Connections
  <1>5. con' = [s \in Servers |-> [n \in Names |-> con'[s][n]]]
    BY <1>1, <1>2 DEF XmppError
  <1>6. \A s \in Servers, n \in Names : con[s][n] \in Connections
    BY <1>2
  <1>7. ASSUME NEW s \in Servers, NEW n \in Names PROVE con'[s][n] \in Connections
    <2>1. con[s][n] \in Connections /\ [con[s][n] EXCEPT !.ready = FALSE] \in Connections
      BY <1>4, <1>6
    <2> QED
      BY <1>3, <2>1
  <1>8. con' \in [Servers -> [Names -> Connections]]
    BY <1>5, <1>7
  <1>9. ASSUME NEW s \in Servers, NEW n \in Names
        PROVE  con'[s][n].address = con[s][n].address /\ (con'[s][n].ready => con[s][n].ready)
    <2>1. CASE con'[s][n] = con[s][n]
      BY <2>1
    <2>2. CASE con'[s][n] = [con[s][n] EXCEPT !.ready = FALSE]
      BY <2>2, <1>4, <1>6
    <2> QED
      BY <1>3, <2>1, <2>2
  <1> QED
    BY <1>8, <1>9 DEF KeepsLinks

-----------------------------------------------------------------------------
(* Connections that are found or made.                                      *)

Gets(s, name, resolve) ==
    con' = ConsWith(s, name, resolve) /\ route' = RoutesWith(s, name)

LEMMA GetsConnection ==
    ASSUME LinkInv, NEW s \in Servers, NEW name \in Names, NEW resolve \in BOOLEAN,
           Gets(s, name, resolve)
    PROVE  /\ con' \in [Servers -> [Names -> Connections]]
           /\ route' \in [Servers -> [Names -> Names \cup {NoConnection}]]
           /\ \A r \in Servers, n \in Names : con[r][n].address # NoConnection =>
                                                con'[r][n] = con[r][n]
           /\ \A r \in Servers, n \in Names : route[r][n] # NoConnection =>
                                                route'[r][n] = route[r][n]
           /\ Found(s, name) \in Names /\ con'[s][Found(s, name)].address # NoConnection
           /\ \A r \in Servers, n \in Names :
                route'[r][n] # NoConnection => con'[r][route'[r][n]].address # NoConnection
           /\ \A r \in Servers, n \in Names :
                con'[r][n].address # NoConnection =>
                    route'[r][n] # NoConnection /\ (n = "component" => route'[r][n] = n)
           /\ RoutesAgree' /\ ReadyIsReachable'
  <1> USE FederationAssumption DEF Names
  <1>1. /\ con \in [Servers -> [Names -> Connections]]
        /\ route \in [Servers -> [Names -> Names \cup {NoConnection}]]
    BY DEF LinkInv, LinkTypeOK
  <1>2. CASE Lookup(s, name) # NoConnection
    <2>1. con' = con /\ route' = route /\ Found(s, name) = Lookup(s, name)
      BY <1>2 DEF Gets, ConsWith, RoutesWith, Found
    <2>2. \E n \in Names : Lookup(s, name) = route[s][n]
      BY DEF Lookup
    <2>3. Found(s, name) \in Names /\ Address(s, Found(s, name)) # NoConnection
      BY <1>1, <1>2, <2>1, <2>2 DEF LinkInv, LeadsSomewhere
    <2> QED
      BY <1>1, <2>1, <2>3 DEF LinkInv, LeadsSomewhere, Address, RoutesAgree, ReadyIsReachable
  <1>3. CASE Lookup(s, name) = NoConnection
    <2>1. /\ con' = [con EXCEPT ![s][name] = NewConnection(name, resolve)]
          /\ route' = [route EXCEPT ![s][name] = name] /\ Found(s, name) = name
      BY <1>3 DEF Gets, ConsWith, RoutesWith, Found
    <2>2. /\ NewConnection(name, resolve) \in Connections
          /\ NewConnection(name, resolve).address = name
      BY DEF NewConnection, Connections
    <2>3. /\ route[s][name] = NoConnection
          /\ name = "domain" => route[s]["component"] = NoConnection
      BY <1>3, <1>1 DEF Lookup
    <2>4. con[s][name].address = NoConnection
      BY <2>3 DEF LinkInv, LeadsSomewhere, Address
    <2>5. /\ \A r \in Servers, n \in Names : r # s \/ n # name => con'[r][n] = con[r][n]
          /\ con'[s][name] = NewConnection(name, resolve)
      BY <1>1, <2>1
    <2>6. /\ \A r \in Servers, n \in Names : r # s \/ n # name => route'[r][n] = route[r][n]
          /\ route'[s][name] = name
      BY <1>1, <2>1
    <2>7. con' \in [Servers -> [Names -> Connections]]
      BY <1>1, <2>1, <2>2
    <2>8. route' \in [Servers -> [Names -> Names \cup {NoConnection}]]
      BY <1>1, <2>1
    <2>9. \A r \in Servers, n \in Names :
             con[r][n].address # NoConnection => con'[r][n] = con[r][n]
      BY <2>4, <2>5
    <2>10. \A r \in Servers, n \in Names :
              route[r][n] # NoConnection => route'[r][n] = route[r][n]
      BY <2>3, <2>6
    <2>11. ASSUME NEW r \in Servers, NEW n \in Names, route'[r][n] # NoConnection
           PROVE  con'[r][route'[r][n]].address # NoConnection
      <3>1. CASE r = s /\ n = name
        BY <3>1, <2>2, <2>5, <2>6 DEF Address
      <3>2. CASE r # s \/ n # name
        <4>1. route[r][n] \in Names /\ con[r][route[r][n]].address # NoConnection
          BY <1>1, <2>6, <2>11, <3>2 DEF LinkInv, LeadsSomewhere, Address
        <4> QED
          BY <4>1, <2>6, <2>9, <3>2 DEF Address
      <3> QED
        BY <3>1, <3>2
    <2>12. ASSUME NEW r \in Servers, NEW n \in Names, con'[r][n].address # NoConnection
           PROVE  route'[r][n] # NoConnection /\ (n = "component" => route'[r][n] = n)
      BY <2>12, <2>5, <2>6 DEF LinkInv, LeadsSomewhere, Address
    <2>13. RoutesAgree'
      BY <2>2, <2>3, <2>5, <2>6 DEF LinkInv, RoutesAgree
    <2>14. ReadyIsReachable'
      BY <2>2, <2>3, <2>5, <2>6 DEF LinkInv, ReadyIsReachable
    <2>15. Found(s, name) \in Names /\ con'[s][Found(s, name)].address # NoConnection
      BY <2>1, <2>2, <2>5 DEF Address
    <2> QED
      BY <2>7, <2>8, <2>9, <2>10, <2>11, <2>12, <2>13, <2>14, <2>15
  <1> QED
    BY <1>2, <1>3

\* New actors use the connection; one of them may discover it, if it is new and
\* made for a message.
IsNewActor(c, s, name, resolve) ==
    /\ IsActor(c) /\ c.at = s /\ c.con = Found(s, name)
    /\ c.kind = "Disco" => name = "domain" /\ Lookup(s, name) = NoConnection /\ resolve

LEMMA ActorsCreated ==
    ASSUME LinkInv, NEW s \in Servers, NEW name \in Names, NEW resolve \in BOOLEAN,
           Gets(s, name, resolve), Wired(wire)',
           \A c \in actors' : c \in actors \/ IsNewActor(c, s, name, resolve),
           \A c, d \in Discos(actors') : c \in actors \/ d \in actors \/ c = d
    PROVE  LinkInv'
  <1> USE FederationAssumption DEF Names
  <1>1. /\ con' \in [Servers -> [Names -> Connections]]
        /\ route' \in [Servers -> [Names -> Names \cup {NoConnection}]]
        /\ \A r \in Servers, n \in Names : con[r][n].address # NoConnection =>
                                             con'[r][n] = con[r][n]
        /\ \A r \in Servers, n \in Names : route[r][n] # NoConnection =>
                                             route'[r][n] = route[r][n]
        /\ Found(s, name) \in Names /\ con'[s][Found(s, name)].address # NoConnection
        /\ \A r \in Servers, n \in Names :
             route'[r][n] # NoConnection => con'[r][route'[r][n]].address # NoConnection
        /\ \A r \in Servers, n \in Names :
             con'[r][n].address # NoConnection =>
                 route'[r][n] # NoConnection /\ (n = "component" => route'[r][n] = n)
        /\ RoutesAgree' /\ ReadyIsReachable'
    BY GetsConnection
  <1>2. \A c \in actors : IsActor(c) /\ c.at \in Servers /\ c.con \in Names
    BY DEF LinkInv, LinkTypeOK, IsActor
  <1>3. LinkTypeOK'
    BY <1>1, <1>2 DEF LinkTypeOK, IsNewActor
  <1>4. \A c \in actors' : con'[c.at][c.con].address # NoConnection
    BY <1>1, <1>2 DEF LinkInv, LeadsSomewhere, Address, IsNewActor
  <1>5. LeadsSomewhere'
    BY <1>1, <1>4 DEF LeadsSomewhere, Address
  <1>6. ASSUME NEW c \in Discos(actors') PROVE Discovers(c)'
    <2>1. CASE c \in actors
      BY <1>1, <1>2, <2>1 DEF LinkInv, OneDiscovery, Discos, Discovers, Address
    <2>2. CASE IsNewActor(c, s, name, resolve)
      <3>1. /\ name = "domain" /\ Lookup(s, name) = NoConnection /\ resolve
            /\ c.at = s /\ c.con = "domain"
        BY <2>2 DEF IsNewActor, Discos, Found
      <3>2. /\ con' = [con EXCEPT ![s]["domain"] = NewConnection("domain", resolve)]
            /\ route' = [route EXCEPT ![s]["domain"] = "domain"]
        BY <3>1 DEF Gets, ConsWith, RoutesWith
      <3>3. /\ con'[s]["domain"] = NewConnection("domain", resolve)
            /\ route'[s]["domain"] = "domain"
        BY <3>2 DEF LinkInv, LinkTypeOK
      <3>4. NewConnection("domain", resolve).address = "domain"
        BY DEF NewConnection
      <3>5. ~NewConnection("domain", resolve).ready
        BY <3>1 DEF NewConnection
      <3> QED
        BY <3>1, <3>3, <3>4, <3>5 DEF Discovers, Address
    <2> QED
      BY <2>1, <2>2 DEF Discos
  <1>7. ASSUME NEW c \in Discos(actors'), NEW d \in Discos(actors'), c.at = d.at,
               c \in actors, d \notin actors
        PROVE  FALSE
    <2>1. Lookup(s, "domain") = NoConnection /\ d.at = s
      BY <1>7 DEF Discos, IsNewActor
    <2>2. route[s]["domain"] # NoConnection
      BY <1>7, <2>1 DEF LinkInv, OneDiscovery, Discos, Discovers
    <2> QED
      BY <2>1, <2>2 DEF Lookup
  <1>8. \A c, d \in Discos(actors') : c.at = d.at => c = d
    <2> SUFFICES ASSUME NEW c \in Discos(actors'), NEW d \in Discos(actors'), c.at = d.at
                 PROVE  c = d
      OBVIOUS
    <2>1. CASE c \in actors /\ d \in actors
      BY <2>1 DEF LinkInv, OneDiscovery, Discos
    <2> QED
      BY <1>7, <2>1
  <1> QED
    BY <1>1, <1>3, <1>5, <1>6, <1>8 DEF LinkInv, OneDiscovery, Discos

-----------------------------------------------------------------------------
(* The steps. *)

LEMMA InitLinks == FedInit => LinkInv
  <1> SUFFICES ASSUME FedInit PROVE LinkInv
    OBVIOUS
  <1> USE FederationAssumption DEF FedInit
  <1>1. StanzaSeq(<<>>)
    <2> DEFINE S == {}
    <2>1. <<>> \in Seq(S)
      OBVIOUS
    <2>2. \A m \in S : OnWire(m)
      OBVIOUS
    <2> HIDE DEF S
    <2> QED
      BY <2>1, <2>2, Zenon DEF StanzaSeq
  <1>2. LinkTypeOK
    BY <1>1 DEF LinkTypeOK, Wired, Connections, NotThere
  <1>3. LeadsSomewhere /\ OneDiscovery
    BY DEF LeadsSomewhere, OneDiscovery, Discos, Address, NotThere, Names
  <1>4. RoutesAgree /\ ReadyIsReachable
    BY DEF RoutesAgree, ReadyIsReachable, NotThere, Names
  <1> QED
    BY <1>2, <1>3, <1>4 DEF LinkInv

LEMMA PostsKeeps ==
    ASSUME LinkInv, Wired(wire)', NEW s \in Servers, NEW kind, kind # "Disco", NEW d,
           kind \in {"SubmitRequest", "SubmitResponse"} => ChangesOne(d),
           NEW set, set \subseteq actors, Posts(s, kind, d, set)
    PROVE  LinkInv'
  <1> DEFINE a == NewActor(kind, s, Found(s, "domain"), d.id, <<d>>)
             disco == NewActor("Disco", s, Found(s, "domain"), 0, <<>>)
  <1>1. Gets(s, "domain", TRUE)
    BY DEF Posts, Gets
  <1>2. Found(s, "domain") \in Names
    BY <1>1, GetsConnection DEF Names
  <1>3. /\ a.kind = kind /\ a.at = s /\ a.con = Found(s, "domain") /\ IsActor(a)
        /\ disco.kind = "Disco" /\ disco.at = s /\ disco.con = Found(s, "domain") /\ IsActor(disco)
    <2>1. IsStanza(NoStanza) /\ <<d>>[1] = d
      BY DEF IsStanza, NoStanza, Names
    <2> QED
      BY <1>2, <2>1 DEF NewActor, IsActor, Takes
  <1>4. actors' \subseteq set \cup (IF Lookup(s, "domain") # NoConnection THEN {a} ELSE {a, disco})
    BY DEF Posts
  <1>5. \A c \in actors' : c \in actors \/ IsNewActor(c, s, "domain", TRUE)
    BY <1>3, <1>4 DEF IsNewActor
  <1>6. \A c, e \in Discos(actors') : c \in actors \/ e \in actors \/ c = e
    BY <1>3, <1>4 DEF Discos
  <1> QED
    BY <1>1, <1>5, <1>6, ActorsCreated DEF Names

LEMMA ActorTyped ==
    ASSUME LinkInv, NEW a \in actors
    PROVE  IsActor(a) /\ a.at \in Servers /\ a.con \in Names
  BY DEF LinkInv, LinkTypeOK, IsActor

LEMMA StepTaken ==
    ASSUME NEW a, IsActor(a), NEW step, Takes(a.kind, step)
    PROVE  /\ IsActor([a EXCEPT !.step = step])
           /\ [a EXCEPT !.step = step].kind = a.kind
           /\ [a EXCEPT !.step = step].at = a.at
           /\ [a EXCEPT !.step = step].con = a.con
           /\ [a EXCEPT !.step = step].step = step
  BY DEF IsActor

\* An actor goes on to its next step, and nothing changes but the wires.
LEMMA StepKeeps ==
    ASSUME LinkInv, con' = con, route' = route, Wired(wire)', NEW a \in actors, NEW step,
           Takes(a.kind, step), a.kind = "Disco" /\ a.step = "info" => step = "info",
           Become(a, [a EXCEPT !.step = step])
    PROVE  LinkInv'
  <1>1. KeepsLinks
    BY SameLinks DEF LinkInv
  <1> QED
    BY <1>1, ActorTyped, StepTaken, ActorGoesOn

LEMMA SentBySomeone ==
    ASSUME LinkInv, NEW a \in actors, NEW m, OnWire(m)
    PROVE  Wired(Sent(a.at, wire, m))
  BY ActorTyped, SentIsWired DEF LinkInv, LinkTypeOK

LEMMA WiredPrime ==
    ASSUME NEW w, Wired(w), wire' = w
    PROVE  Wired(wire)'
  BY DEF Wired

LEMMA ComponentSteps ==
    ASSUME LinkInv, NEW s \in Servers,
           ComponentNext(s) \/ ComponentBreaks(s) \/ CopyLoads \/ CopyUpdates
    PROVE  LinkInv'
  <1>1. UNCHANGED <<con, route, actors, wire>>
    BY DEF ComponentNext, ComponentBreaks, ComponentConnects, ComponentReads, ComponentFails,
           ComponentStops, CopyLoads, CopyUpdates, linkVars
  <1>2. KeepsLinks /\ Wired(wire)'
    BY <1>1, SameLinks, WiredPrime DEF LinkInv, LinkTypeOK
  <1> QED
    BY <1>1, <1>2, ActorEnds

LEMMA BouncedOnWire ==
    ASSUME NEW m, OnWire(m)
    PROVE  OnWire(Bounced(m))
  BY DEF OnWire, IsStanza, Bounced, Names

LEMMA ServerStep ==
    ASSUME LinkInv, NEW s \in Servers, ServerAnswers(s)
    PROVE  LinkInv'
  <1> DEFINE stanza == Head(wire[s])
             rest == [wire EXCEPT ![s] = Tail(@)]
  <1>1. UNCHANGED <<con, route, actors>>
    BY DEF ServerAnswers, linkVars
  <1>2. OnWire(stanza) /\ Wired(rest)
    BY RestIsWired DEF LinkInv, LinkTypeOK, ServerAnswers
  <1>3. wire' = rest \/ wire' = [rest EXCEPT ![Peer(s)] = Append(@, Bounced(stanza))]
    BY DEF ServerAnswers
  <1>4. CASE wire' = rest
    <2>1. Wired(wire)'
      BY <1>2, <1>4, WiredPrime
    <2> QED
      BY <1>1, <2>1, SameLinks, ActorEnds DEF LinkInv
  <1>5. CASE wire' = [rest EXCEPT ![Peer(s)] = Append(@, Bounced(stanza))]
    <2> HIDE DEF stanza, rest
    <2>1. OnWire(Bounced(stanza)) /\ Peer(s) \in Servers
      BY <1>2, BouncedOnWire, PeerIsServer
    <2>2. Wired([rest EXCEPT ![Peer(s)] = Append(@, Bounced(stanza))])
      BY <1>2, <2>1, AppendedIsWired
    <2>3. Wired(wire)'
      BY <1>5, <2>2, WiredPrime
    <2> QED
      BY <1>1, <2>3, SameLinks, ActorEnds DEF LinkInv
  <1> QED
    BY <1>3, <1>4, <1>5

LEMMA RequestStep ==
    ASSUME LinkInv, NEW t \in Servers, RequestArrives(t)
    PROVE  LinkInv'
  <1> DEFINE m == Incoming(t)
             new == [NewActor(Responder[m.kind], t, Handler(t), m.key[3], m.deltas)
                        EXCEPT !.request = m]
  <1>1. OnWire(m) /\ Wired(wire)' /\ m.reply = "none"
    BY IncomingOnWire, WiredPrime DEF LinkInv, RequestArrives
  <1>2. m.from \in Names /\ m.kind \in Asked /\ IsStanza(m)
    BY <1>1 DEF OnWire, IsStanza
  <1>3. Gets(t, m.from, FALSE)
    BY DEF RequestArrives, Gets
  <1>4. Found(t, m.from) \in Names
    BY <1>2, <1>3, GetsConnection
  <1>5. Responder[m.kind] \notin {"Disco"}
    BY <1>2 DEF Responder, Asked
  <1>6. /\ new.kind = Responder[m.kind] /\ new.at = t /\ new.con = Found(t, m.from)
        /\ new.step = "new" /\ new.request = m /\ new.deltas = m.deltas
        /\ {"kind", "at", "con", "step", "deltas", "request"} \subseteq DOMAIN new
    BY DEF NewActor, Handler
  <1>7. IsNewActor(new, t, m.from, FALSE)
    <2>1. new.kind \in {"SubmitRequest", "SubmitResponse"} => m.kind = "submit"
      BY <1>2, <1>6 DEF Responder, Asked
    <2>2. new.kind \in {"SubmitRequest", "SubmitResponse"} => ChangesOne(m.deltas[1])
      BY <1>1, <2>1 DEF OnWire
    <2> QED
      BY <1>2, <1>4, <1>5, <1>6, <2>2 DEF IsNewActor, IsActor, Takes
  <1>8. actors' \subseteq actors \cup {new}
    BY DEF RequestArrives, Create
  <1> HIDE DEF m, new
  <1>9. \A c \in actors' : c \in actors \/ IsNewActor(c, t, m.from, FALSE)
    BY <1>7, <1>8
  <1>10. \A c, d \in Discos(actors') : c \in actors \/ d \in actors \/ c = d
    BY <1>8 DEF Discos
  <1> QED
    BY <1>1, <1>2, <1>3, <1>9, <1>10, ActorsCreated

LEMMA ReplyStep ==
    ASSUME LinkInv, NEW t \in Servers, ReplyIgnored(t)
    PROVE  LinkInv'
  <1>1. OnWire(Incoming(t)) /\ Wired(wire)'
    BY IncomingOnWire, WiredPrime DEF LinkInv, ReplyIgnored
  <1>2. Incoming(t).from \in Names
    BY <1>1 DEF OnWire, IsStanza
  <1>3. Gets(t, Incoming(t).from, FALSE) /\ actors' = actors
    BY DEF ReplyIgnored, Gets
  <1> QED
    BY <1>1, <1>2, <1>3, ActorsCreated DEF Discos

LEMMA VariedOnWire ==
    ASSUME NEW m, OnWire(m), NEW d, NEW i, NEW j, NEW n \in Names
    PROVE  /\ m.reply # "none" \/ m.kind # "submit" =>
                  /\ OnWire([m EXCEPT !.deltas = d])
                  /\ OnWire([m EXCEPT !.deltas = d, !.start = i, !.end = j])
           /\ OnWire([m EXCEPT !.told = d])
           /\ OnWire([m EXCEPT !.from = n]) /\ OnWire([m EXCEPT !.to = n])
  BY DEF OnWire, IsStanza

\* An actor ends, or none does, and nothing else changes but the wires.
LEMMA EndKeeps ==
    ASSUME LinkInv, con' = con, route' = route, Wired(wire)', actors' \subseteq actors
    PROVE  LinkInv'
  BY SameLinks, ActorEnds DEF LinkInv

LEMMA SentPrime ==
    ASSUME LinkInv, NEW a \in actors, NEW m, OnWire(m), Send(a.at, m)
    PROVE  Wired(wire)'
  BY SentBySomeone, WiredPrime DEF Send

\* Connections and actors of the two servers when no more is known of an address
\* than whether there is one.
LEMMA SameAddresses ==
    ASSUME LinkInv, con' \in [Servers -> [Names -> Connections]], route' = route,
           \A s \in Servers, n \in Names : con'[s][n].address = con[s][n].address
    PROVE  /\ \A a \in actors : con'[a.at][a.con].address # NoConnection
           /\ \A s \in Servers, n \in Names :
                route[s][n] # NoConnection => con'[s][route[s][n]].address # NoConnection
  <1>1. \A a \in actors : a.at \in Servers /\ a.con \in Names
    BY ActorTyped
  <1>2. \A s \in Servers, n \in Names : route[s][n] # NoConnection => route[s][n] \in Names
    BY DEF LinkInv, LinkTypeOK
  <1> QED
    BY <1>1, <1>2 DEF LinkInv, LeadsSomewhere, Address

LEMMA AnswersFor ==
    ASSUME LinkInv, NEW t \in Servers, NEW kind, NEW a, Answers(t, kind, a)
    PROVE  /\ a \in actors /\ a.at = t /\ a.con = Found(t, Incoming(t).from)
           /\ Incoming(t).from \in Names
           /\ a.step = kind /\ Wired(Rest(t))
  <1>1. OnWire(Incoming(t)) /\ Wired(Rest(t))
    BY IncomingOnWire DEF Answers, LinkInv
  <1> QED
    BY <1>1 DEF Answers, IsFor, Handler, OnWire, IsStanza

\* What a discovery that has an answer knows of its connection.
LEMMA DiscoveryOf ==
    ASSUME LinkInv, NEW a \in actors, a.step \in {"items", "info"}
    PROVE  /\ a.kind = "Disco" /\ Discovers(a) /\ a.con = "domain"
           /\ \A c \in Discos(actors) : c.at = a.at => c = a
  <1>1. a.kind = "Disco"
    BY ActorTyped DEF IsActor, Takes
  <1>2. a \in Discos(actors)
    BY <1>1 DEF Discos
  <1> QED
    BY <1>1, <1>2 DEF LinkInv, OneDiscovery, Discovers

LEMMA ItemsStep ==
    ASSUME LinkInv, NEW t \in Servers, NEW a, DiscoGetsItems(t, a)
    PROVE  LinkInv'
  <1> USE FederationAssumption DEF Names
  <1> DEFINE b == [a EXCEPT !.step = "info"]
  <1>1. a \in actors /\ a.at = t /\ a.step = "items" /\ Wired(Rest(t)) /\ IsActor(a)
    BY AnswersFor, ActorTyped DEF DiscoGetsItems
  <1>2. /\ a.kind = "Disco" /\ a.con = "domain"
        /\ \A c \in Discos(actors) : c.at = t => c = a
        /\ con[t]["domain"].address = "domain" /\ ~con[t]["domain"].ready
        /\ route[t]["domain"] = "domain"
    BY <1>1, DiscoveryOf DEF Discovers, Address
  <1>3. /\ con \in [Servers -> [Names -> Connections]]
        /\ route \in [Servers -> [Names -> Names \cup {NoConnection}]]
        /\ \A c \in actors : IsActor(c)
    BY DEF LinkInv, LinkTypeOK
  <1>4. con' = [con EXCEPT ![t]["domain"].address = "component"]
    BY <1>2 DEF DiscoGetsItems
  <1>5. /\ con'[t]["domain"] = [con[t]["domain"] EXCEPT !.address = "component"]
        /\ \A r \in Servers, n \in Names : r # t \/ n # "domain" => con'[r][n] = con[r][n]
    BY <1>3, <1>4
  <1>6. /\ [con[t]["domain"] EXCEPT !.address = "component"] \in Connections
        /\ [con[t]["domain"] EXCEPT !.address = "component"].address = "component"
        /\ [con[t]["domain"] EXCEPT !.address = "component"].ready = con[t]["domain"].ready
    BY <1>3 DEF Connections
  <1>7. con' \in [Servers -> [Names -> Connections]]
    BY <1>3, <1>4, <1>6
  <1>8. \A r \in Servers, n \in Names :
           con'[r][n].address # NoConnection <=> con[r][n].address # NoConnection
    BY <1>2, <1>5, <1>6
  <1>9. /\ route' \in [Servers -> [Names -> Names \cup {NoConnection}]]
        /\ \A r \in Servers, n \in Names : r # t => route'[r][n] = route[r][n]
        /\ \/ /\ route[t]["component"] # NoConnection
              /\ route'[t]["domain"] = route[t]["component"]
              /\ route'[t]["component"] = route[t]["component"]
           \/ /\ route[t]["component"] = NoConnection
              /\ route'[t]["component"] = "domain" /\ route'[t]["domain"] = "domain"
    <2>1. CASE route[t]["component"] # NoConnection
      <3>1. route' = [route EXCEPT ![t]["domain"] = route[t]["component"]]
        BY <1>2, <2>1 DEF DiscoGetsItems, Renamed
      <3> QED
        BY <1>3, <2>1, <3>1
    <2>2. CASE route[t]["component"] = NoConnection
      <3>1. route' = [route EXCEPT ![t]["component"] = "domain"]
        BY <1>2, <2>2 DEF DiscoGetsItems, Renamed
      <3> QED
        BY <1>2, <1>3, <2>2, <3>1
    <2> QED
      BY <2>1, <2>2
  <1>10. /\ IsActor(b) /\ b.kind = "Disco" /\ b.at = t /\ b.con = "domain" /\ b.step = "info"
         /\ actors' = (actors \ {a}) \cup {b}
    BY <1>1, <1>2, StepTaken DEF DiscoGetsItems, Become, Takes
  <1> HIDE DEF b
  <1>11. Wired(wire)'
    <2>1. OnWire(Request("info", a))
      BY <1>1, RequestOnWire DEF LinkInv, Asked
    <2>2. OnWire([Request("info", a) EXCEPT !.to = "component"])
      BY <2>1, VariedOnWire
    <2>3. wire' = Sent(t, Rest(t), [Request("info", a) EXCEPT !.to = "component"])
      BY DEF DiscoGetsItems
    <2>4. Wired(Sent(t, Rest(t), [Request("info", a) EXCEPT !.to = "component"]))
      BY <1>1, <2>2, SentIsWired
    <2> QED
      BY <2>3, <2>4, WiredPrime
  <1>12. LinkTypeOK'
    BY <1>3, <1>7, <1>9, <1>10, <1>11 DEF LinkTypeOK
  <1>13. LeadsSomewhere'
    <2>1. \A c \in actors' : con'[c.at][c.con].address # NoConnection
      <3>1. \A c \in actors : con[c.at][c.con].address # NoConnection
        BY DEF LinkInv, LeadsSomewhere, Address
      <3>2. \A c \in actors : c.at \in Servers /\ c.con \in Names
        BY <1>3 DEF IsActor
      <3>3. \A c \in actors : con'[c.at][c.con].address # NoConnection
        BY <1>8, <3>1, <3>2
      <3>4. con'[b.at][b.con].address # NoConnection
        <4>1. con'[t]["domain"].address # NoConnection
          BY <1>5, <1>6
        <4> QED
          BY <1>10, <4>1
      <3> QED
        BY <1>10, <3>3, <3>4
    <2>2. ASSUME NEW r \in Servers, NEW n \in Names, route'[r][n] # NoConnection
          PROVE  con'[r][route'[r][n]].address # NoConnection
      <3>1. \/ \E k \in Names : route[r][k] # NoConnection /\ route'[r][n] = route[r][k]
            \/ r = t /\ route'[r][n] = "domain"
        BY <1>9, <2>2
      <3>2. route'[r][n] \in Names /\ con[r][route'[r][n]].address # NoConnection
        BY <1>2, <1>9, <2>2, <3>1 DEF LinkInv, LeadsSomewhere, Address
      <3> QED
        BY <1>8, <3>2
    <2>3. ASSUME NEW r \in Servers, NEW n \in Names, con'[r][n].address # NoConnection
          PROVE  route'[r][n] # NoConnection
      <3>1. route[r][n] # NoConnection
        BY <1>8, <2>3 DEF LinkInv, LeadsSomewhere, Address
      <3> QED
        BY <1>9, <3>1
    <2>4. ASSUME NEW r \in Servers, con'[r]["component"].address # NoConnection
          PROVE  route'[r]["component"] = "component"
      <3>1. route[r]["component"] = "component"
        BY <1>8, <2>4 DEF LinkInv, LeadsSomewhere, Address
      <3> QED
        BY <1>9, <3>1
    <2> QED
      BY <2>1, <2>2, <2>3, <2>4 DEF LeadsSomewhere, Address
  <1>14. ASSUME NEW c \in Discos(actors')
         PROVE  Discovers(c)' /\ (c.at = t => c = b)
    <2>1. CASE c = b
      BY <1>9, <1>10, <2>1 DEF Discovers
    <2>2. CASE c # b
      <3>1. c \in Discos(actors) /\ c.at # t /\ c.at \in Servers
        BY <1>2, <1>3, <1>10, <2>2 DEF Discos, IsActor
      <3> QED
        BY <3>1, <1>5, <1>9 DEF LinkInv, OneDiscovery, Discovers, Address
    <2> QED
      BY <2>1, <2>2
  <1>15. \A c, d \in Discos(actors') : c.at = d.at => c = d
    <2> SUFFICES ASSUME NEW c \in Discos(actors'), NEW d \in Discos(actors'), c.at = d.at
                 PROVE  c = d
      OBVIOUS
    <2>1. CASE c.at = t
      BY <1>14, <2>1
    <2>2. CASE c.at # t
      <3>1. c \in Discos(actors) /\ d \in Discos(actors)
        BY <1>10, <2>2 DEF Discos
      <3> QED
        BY <3>1 DEF LinkInv, OneDiscovery
    <2> QED
      BY <2>1, <2>2
  <1>16. RoutesAgree'
    BY <1>5, <1>9 DEF LinkInv, RoutesAgree
  <1>17. ReadyIsReachable'
    <2>1. ~con'[t]["domain"].ready
      BY <1>2, <1>5, <1>6
    <2>2. \A r \in Servers, n \in Names :
             con[r][n].ready /\ con[r][n].address = "component" => route[r]["component"] = n
      BY DEF LinkInv, ReadyIsReachable
    <2>3. ASSUME NEW r \in Servers, NEW n \in Names,
                 con'[r][n].ready, con'[r][n].address = "component"
          PROVE  route'[r]["component"] = n
      <3>1. r # t \/ n # "domain"
        BY <2>1, <2>3
      <3>2. con'[r][n] = con[r][n]
        BY <1>5, <3>1
      <3>3. route[r]["component"] = n
        BY <2>2, <2>3, <3>2
      <3> QED
        BY <1>9, <3>3
    <2> QED
      BY <2>3 DEF ReadyIsReachable
  <1> QED
    BY <1>12, <1>13, <1>14, <1>15, <1>16, <1>17 DEF LinkInv, OneDiscovery, Discos

LEMMA InfoStep ==
    ASSUME LinkInv, NEW t \in Servers, NEW a, DiscoGetsInfo(t, a)
    PROVE  LinkInv'
  <1> USE FederationAssumption DEF Names
  <1>1. /\ a \in actors /\ a.at = t /\ a.step = "info" /\ Wired(Rest(t))
        /\ a.con = Found(t, Incoming(t).from) /\ Incoming(t).from \in Names
    BY AnswersFor DEF DiscoGetsInfo
  <1>2. /\ a.con = "domain" /\ route[t]["domain"] # NoConnection
        /\ \A c \in Discos(actors) : c.at = t => c = a
    BY <1>1, DiscoveryOf DEF Discovers
  <1>3. /\ con \in [Servers -> [Names -> Connections]]
        /\ route \in [Servers -> [Names -> Names \cup {NoConnection}]]
        /\ \A c \in actors : IsActor(c)
    BY DEF LinkInv, LinkTypeOK
  <1>4. /\ con' = [con EXCEPT ![t]["domain"].ready = TRUE] /\ route' = route
        /\ actors' = actors \ {a} /\ wire' = Rest(t)
    BY <1>2 DEF DiscoGetsInfo, End
  <1>5. /\ con'[t]["domain"] = [con[t]["domain"] EXCEPT !.ready = TRUE]
        /\ \A r \in Servers, n \in Names : r # t \/ n # "domain" => con'[r][n] = con[r][n]
    BY <1>3, <1>4
  <1>6. /\ [con[t]["domain"] EXCEPT !.ready = TRUE] \in Connections
        /\ [con[t]["domain"] EXCEPT !.ready = TRUE].address = con[t]["domain"].address
    <2>1. con[t]["domain"] \in Connections
      BY <1>3
    <2>2. \A c \in Connections : /\ [c EXCEPT !.ready = TRUE] \in Connections
                                  /\ [c EXCEPT !.ready = TRUE].address = c.address
      BY DEF Connections
    <2> QED
      BY <2>1, <2>2
  <1>7. con' \in [Servers -> [Names -> Connections]]
    BY <1>3, <1>4, <1>6
  <1>8. \A r \in Servers, n \in Names : con'[r][n].address = con[r][n].address
    BY <1>5, <1>6
  <1>9. LinkTypeOK'
    BY <1>1, <1>3, <1>4, <1>7, WiredPrime DEF LinkTypeOK
  <1>10. LeadsSomewhere'
    <2>1. \A c \in actors' : con'[c.at][c.con].address # NoConnection
      BY <1>4, <1>7, <1>8, SameAddresses
    <2>2. \A r \in Servers, n \in Names :
             route'[r][n] # NoConnection => con'[r][route'[r][n]].address # NoConnection
      BY <1>4, <1>7, <1>8, SameAddresses
    <2>3. \A r \in Servers, n \in Names :
             con'[r][n].address # NoConnection => route'[r][n] # NoConnection
      BY <1>4, <1>8 DEF LinkInv, LeadsSomewhere, Address
    <2>4. \A r \in Servers :
             con'[r]["component"].address # NoConnection
                => route'[r]["component"] = "component"
      BY <1>4, <1>8 DEF LinkInv, LeadsSomewhere, Address, Names
    <2> QED
      BY <2>1, <2>2, <2>3, <2>4 DEF LeadsSomewhere, Address
  <1>11. ASSUME NEW c \in Discos(actors') PROVE Discovers(c)'
    <2>1. c \in Discos(actors) /\ c.at # t /\ c.at \in Servers
      BY <1>2, <1>3, <1>4 DEF Discos, IsActor
    <2> QED
      BY <2>1, <1>4, <1>5 DEF LinkInv, OneDiscovery, Discovers, Address
  <1>12. \A c, d \in Discos(actors') : c.at = d.at => c = d
    BY <1>4 DEF LinkInv, OneDiscovery, Discos
  <1>13. RoutesAgree'
    BY <1>4, <1>8 DEF LinkInv, RoutesAgree
  <1>14. con[t]["domain"].address = "component" => route[t]["component"] = "domain"
    <2> SUFFICES ASSUME con[t]["domain"].address = "component"
                 PROVE  route[t]["component"] = "domain"
      OBVIOUS
    <2>1. route[t]["domain"] = route[t]["component"]
      BY <1>2 DEF LinkInv, RoutesAgree
    <2>2. Lookup(t, Incoming(t).from) = route[t]["domain"]
      BY <1>1, <1>2, <2>1 DEF Lookup
    <2> QED
      BY <1>1, <1>2, <2>1, <2>2 DEF Found
  <1>15. ReadyIsReachable'
    BY <1>4, <1>5, <1>6, <1>14 DEF LinkInv, ReadyIsReachable
  <1> QED
    BY <1>9, <1>10, <1>11, <1>12, <1>13, <1>15 DEF LinkInv, OneDiscovery, Discos

LEMMA RestartStep ==
    ASSUME LinkInv, NEW s \in Servers, Restarts(s)
    PROVE  LinkInv'
  <1> USE FederationAssumption DEF Names
  <1>1. /\ con \in [Servers -> [Names -> Connections]]
        /\ route \in [Servers -> [Names -> Names \cup {NoConnection}]]
        /\ \A c \in actors : IsActor(c) /\ c.at \in Servers /\ c.con \in Names
    BY DEF LinkInv, LinkTypeOK, IsActor
  <1>2. /\ con' = [con EXCEPT ![s] = [n \in Names |-> NotThere]]
        /\ route' = [route EXCEPT ![s] = [n \in Names |-> NoConnection]]
        /\ actors' = {a \in actors : a.at # s} /\ wire' = wire
    BY DEF Restarts
  <1>3. /\ \A n \in Names : con'[s][n] = NotThere /\ route'[s][n] = NoConnection
        /\ \A r \in Servers : r # s => con'[r] = con[r] /\ route'[r] = route[r]
    BY <1>1, <1>2
  <1>4. NotThere \in Connections /\ NotThere.address = NoConnection /\ ~NotThere.ready
    BY DEF NotThere, Connections
  <1>5. /\ con' \in [Servers -> [Names -> Connections]]
        /\ route' \in [Servers -> [Names -> Names \cup {NoConnection}]]
    BY <1>1, <1>2, <1>4
  <1>6. LinkTypeOK'
    BY <1>1, <1>2, <1>5, WiredPrime DEF LinkInv, LinkTypeOK
  <1>7. LeadsSomewhere'
    BY <1>1, <1>2, <1>3, <1>4 DEF LinkInv, LeadsSomewhere, Address
  <1>8. OneDiscovery'
    <2>1. ASSUME NEW c \in Discos(actors') PROVE Discovers(c)'
      BY <1>1, <1>2, <1>3 DEF LinkInv, OneDiscovery, Discos, Discovers, Address
    <2> QED
      BY <1>2, <2>1 DEF LinkInv, OneDiscovery, Discos
  <1>9. RoutesAgree'
    BY <1>1, <1>3, <1>4, SMTT(40) DEF LinkInv, RoutesAgree
  <1>10. ReadyIsReachable'
    BY <1>1, <1>3, <1>4, SMTT(40) DEF LinkInv, ReadyIsReachable
  <1> QED
    BY <1>6, <1>7, <1>8, <1>9, <1>10 DEF LinkInv

\* Asking or answering over the wire, the connection being left as it is.
LEMMA AsksKeeps ==
    ASSUME LinkInv, con' = con, route' = route, NEW a \in actors, NEW kind \in Asked,
           Takes(a.kind, kind), a.kind = "Disco" /\ a.step = "info" => kind = "info",
           Become(a, [a EXCEPT !.step = kind]), Send(a.at, Request(kind, a))
    PROVE  LinkInv'
  <1>1. OnWire(Request(kind, a))
    BY RequestOnWire DEF LinkInv, Takes
  <1>2. Wired(wire)'
    BY <1>1, SentPrime
  <1> QED
    BY <1>2, StepKeeps

LEMMA AnswerKeeps ==
    ASSUME LinkInv, con' = con, route' = route, NEW a \in actors, NEW m, OnWire(m),
           End(a), Send(a.at, m)
    PROVE  LinkInv'
  <1>1. Wired(wire)' /\ actors' \subseteq actors
    BY SentPrime DEF End
  <1> QED
    BY <1>1, EndKeeps

LEMMA HostSends ==
    ASSUME LinkInv, NEW s \in Servers, NEW m, OnWire(m)
    PROVE  Wired(Sent(s, wire, m))
  BY SentIsWired DEF LinkInv, LinkTypeOK

LEMMA SameWire ==
    ASSUME LinkInv, wire' = wire
    PROVE  Wired(wire)'
  BY WiredPrime DEF LinkInv, LinkTypeOK

LEMMA ActorStep ==
    ASSUME LinkInv, NEW a \in actors,
           \/ Waits(a) \/ DiscoStarts(a) \/ DiscoAnswers(a)
           \/ UpdateSent(a) \/ UpdateAnswers(a) \/ HistoryAsks(a) \/ HistoryAnswers(a)
           \/ SubmitSends(a) \/ SignerAnswers(a) \/ SubmitGoesOn(a)
    PROVE  LinkInv'
  <1>1. IsActor(a) /\ a.at \in Servers /\ OnWire(Result(a)) /\ Result(a).reply = "result"
    BY ActorTyped, ResultOnWire DEF LinkInv
  <1>2. CASE Waits(a)
    <2>1. /\ con' = con /\ route' = route /\ wire' = wire /\ a.kind # "Disco"
          /\ Become(a, [a EXCEPT !.step = "wait"])
      BY <1>2 DEF Waits, linkVars
    <2> QED
      BY <2>1, SameWire, StepKeeps DEF Takes
  <1>3. CASE DiscoStarts(a)
    <2>1. con' = con /\ route' = route /\ a.kind = "Disco" /\ a.step # "info"
      BY <1>3 DEF DiscoStarts, linkVars
    <2>2. CASE Become(a, [a EXCEPT !.step = "wait"]) /\ wire' = wire
      BY <2>1, <2>2, SameWire, StepKeeps DEF Takes
    <2>3. CASE Become(a, [a EXCEPT !.step = "items"]) /\ Send(a.at, Request("items", a))
      BY <2>1, <2>3, AsksKeeps DEF Asked, Takes
    <2> QED
      BY <1>3, <2>2, <2>3 DEF DiscoStarts
  <1>4. CASE DiscoAnswers(a)
    <2> DEFINE from == IF a.request.kind = "items" THEN "domain" ELSE "component"
    <2>1. OnWire([Result(a) EXCEPT !.from = from])
      BY <1>1, VariedOnWire DEF Names
    <2>2. con' = con /\ route' = route /\ End(a) /\ Send(a.at, [Result(a) EXCEPT !.from = from])
      BY <1>4 DEF DiscoAnswers, linkVars
    <2> HIDE DEF from
    <2> QED
      BY <2>1, <2>2, AnswerKeeps
  <1>5. CASE UpdateSent(a)
    <2>1. /\ con' = con /\ route' = route /\ a.kind = "WaveletUpdate"
          /\ Become(a, [a EXCEPT !.step = "update"]) /\ Send(a.at, Request("update", a))
      BY <1>5 DEF UpdateSent, Goes, linkVars
    <2> QED
      BY <2>1, AsksKeeps DEF Asked, Takes
  <1>6. CASE UpdateAnswers(a)
    <2> DEFINE receipted == Sent("copy", wire, Result(a))
               d == a.deltas[1]
               asks == [Request("history", a) EXCEPT !.deltas = <<>>,
                            !.start = VersionRead, !.end = d.base.version]
    <2>1. con' = con /\ route' = route /\ a.kind = "UpdateResponse"
      BY <1>6 DEF UpdateAnswers, Goes, linkVars
    <2>2. Wired(receipted)
      BY <1>1, HostSends DEF Servers
    <2>3. OnWire(asks)
      <3>1. OnWire(Request("history", a))
        BY RequestOnWire DEF LinkInv, Asked
      <3>2. Request("history", a).kind = "history"
        BY DEF Request, NoStanza
      <3> QED
        BY <3>1, <3>2, VariedOnWire DEF Names
    <2>4. \/ Become(a, [a EXCEPT !.step = "history"]) /\ wire' = Sent("copy", receipted, asks)
          \/ End(a) /\ wire' = receipted
      BY <1>6 DEF UpdateAnswers
    <2> HIDE DEF receipted, asks
    <2>5. CASE Become(a, [a EXCEPT !.step = "history"]) /\ wire' = Sent("copy", receipted, asks)
      <3>1. Wired(Sent("copy", receipted, asks))
        BY <2>2, <2>3, SentIsWired DEF Servers
      <3> QED
        BY <2>1, <2>5, <3>1, WiredPrime, StepKeeps DEF Takes
    <2>6. CASE End(a) /\ wire' = receipted
      BY <2>1, <2>2, <2>6, WiredPrime, EndKeeps DEF End
    <2> QED
      BY <2>4, <2>5, <2>6
  <1>7. CASE HistoryAsks(a)
    <2>1. /\ con' = con /\ route' = route /\ wire' = wire /\ a.kind # "Disco"
          /\ Become(a, [a EXCEPT !.step = "query"])
      BY <1>7 DEF HistoryAsks, Goes, linkVars
    <2> QED
      BY <2>1, SameWire, StepKeeps DEF Takes
  <1>8. CASE HistoryAnswers(a)
    <2> DEFINE deltas == QueryRange(a.request.start, a.request.end)
    <2>1. OnWire([Result(a) EXCEPT !.deltas = deltas])
      BY <1>1, VariedOnWire DEF Names
    <2>2. Wired(Sent("host", wire, [Result(a) EXCEPT !.deltas = deltas]))
      BY <2>1, HostSends DEF Servers
    <2>3. /\ con' = con /\ route' = route /\ End(a)
          /\ wire' = Sent("host", wire, [Result(a) EXCEPT !.deltas = deltas])
      BY <1>8 DEF HistoryAnswers, Send, linkVars
    <2> HIDE DEF deltas
    <2> QED
      BY <2>2, <2>3, WiredPrime, EndKeeps DEF End
  <1>9. CASE SubmitSends(a)
    <2>1. SubmitAsks(a) \in Asked \ {"items", "info"}
      BY DEF SubmitAsks, Asked
    <2>2. /\ con' = con /\ route' = route /\ a.kind = "SubmitRequest"
          /\ Become(a, [a EXCEPT !.step = SubmitAsks(a)])
          /\ Send(a.at, Request(SubmitAsks(a), a))
      BY <1>9 DEF SubmitSends, Goes, linkVars
    <2>3. Takes(a.kind, SubmitAsks(a)) /\ a.kind # "Disco"
      BY <2>1, <2>2 DEF Takes, Asked
    <2> QED
      BY <2>1, <2>2, <2>3, AsksKeeps
  <1>10. CASE SignerAnswers(a)
    <2>1. con' = con /\ route' = route /\ End(a) /\ Send(a.at, Result(a))
      BY <1>10 DEF SignerAnswers, linkVars
    <2> QED
      BY <1>1, <2>1, AnswerKeeps
  <1>11. CASE SubmitGoesOn(a)
    <2>1. /\ con' = con /\ route' = route /\ wire' = wire /\ a.kind = "SubmitResponse"
          /\ Become(a, [a EXCEPT !.step = "commit"])
      BY <1>11 DEF SubmitGoesOn, linkVars
    <2> QED
      BY <2>1, SameWire, StepKeeps DEF Takes
  <1> QED
    BY <1>2, <1>3, <1>4, <1>5, <1>6, <1>7, <1>8, <1>9, <1>10, <1>11

\* Steps that report an error of the connection.
LEMMA ErrorStep ==
    ASSUME LinkInv, NEW a \in actors,
           \/ SubmitRefused(a) \/ TimesOut(a) \/ CommitTimesOut(a)
           \/ \E t \in Servers : ErrorArrives(t, a)
    PROVE  LinkInv'
  <1>1. route' = route /\ XmppError(a.at, a.con)
    BY DEF SubmitRefused, TimesOut, CommitTimesOut, ErrorArrives, Terminates
  <1>2. KeepsLinks
    BY <1>1, ErrorKeepsLinks DEF LinkInv
  <1>3. Wired(wire)'
    <2>1. CASE \E t \in Servers : ErrorArrives(t, a)
      BY <2>1, IncomingOnWire, WiredPrime DEF ErrorArrives, LinkInv
    <2>2. CASE SubmitRefused(a) \/ TimesOut(a) \/ CommitTimesOut(a)
      <3>1. wire' = wire
        BY <2>2 DEF SubmitRefused, TimesOut, CommitTimesOut
      <3> QED
        BY <3>1, SameWire
    <2> QED
      BY <2>1, <2>2
  <1>4. CASE CommitTimesOut(a)
    <2>1. a.step = "commit" /\ Become(a, [a EXCEPT !.step = "late"])
      BY <1>4 DEF CommitTimesOut
    <2>2. IsActor(a) /\ Takes(a.kind, "late") /\ a.step # "info"
      BY <2>1, ActorTyped DEF IsActor, Takes
    <2> QED
      BY <1>2, <1>3, <2>1, <2>2, StepTaken, ActorGoesOn
  <1>5. CASE ~CommitTimesOut(a)
    <2>1. actors' \subseteq actors
      BY <1>5 DEF SubmitRefused, TimesOut, ErrorArrives, Terminates, End
    <2> QED
      BY <1>2, <1>3, <2>1, ActorEnds
  <1> QED
    BY <1>4, <1>5

LEMMA ReceiptStep ==
    ASSUME LinkInv, NEW a \in actors, NEW t \in Servers,
           UpdateReceipted(t, a) \/ (t = "copy" /\ (HistoryArrives(a) \/ SubmitAnswered(a)))
    PROVE  LinkInv'
  <1>1. con' = con /\ route' = route /\ actors' \subseteq actors /\ wire' = Rest(t)
    BY DEF UpdateReceipted, HistoryArrives, SubmitAnswered, End, linkVars
  <1>2. CanRead(t)
    BY DEF UpdateReceipted, HistoryArrives, SubmitAnswered, Answers
  <1> QED
    BY <1>1, <1>2, IncomingOnWire, WiredPrime, EndKeeps DEF LinkInv

LEMMA SignerKeepsLinks ==
    ASSUME LinkInv, NEW a \in actors, SignerAccepted(a)
    PROVE  KeepsLinks
  <1>1. "copy" \in Servers
    BY DEF Servers
  <1>2. /\ a.at = "copy" /\ a.step = "signer" /\ Wired(Rest("copy"))
        /\ IsActor(a) /\ a.con \in Names
    BY <1>1, AnswersFor, ActorTyped DEF SignerAccepted
  <1>3. con \in [Servers -> [Names -> Connections]]
    BY DEF LinkInv, LinkTypeOK
  <1>4. /\ con' = [con EXCEPT !["copy"][a.con].postedSigner = TRUE] /\ route' = route
        /\ Become(a, [a EXCEPT !.step = "submit"])
        /\ wire' = Sent("copy", Rest("copy"), Request("submit", a))
    BY DEF SignerAccepted
  <1>5. \A c \in Connections : /\ [c EXCEPT !.postedSigner = TRUE] \in Connections
                                /\ [c EXCEPT !.postedSigner = TRUE].address = c.address
                                /\ [c EXCEPT !.postedSigner = TRUE].ready => c.ready
    BY DEF Connections
  <1>6. \A s \in Servers, n \in Names : con[s][n] \in Connections
    BY <1>3
  <1>7. \A s \in Servers, n \in Names :
           con'[s][n] = IF s = "copy" /\ n = a.con
                        THEN [con[s][n] EXCEPT !.postedSigner = TRUE] ELSE con[s][n]
    BY <1>1, <1>2, <1>3, <1>4
  <1>8. con' = [s \in Servers |-> [n \in Names |-> con'[s][n]]]
    BY <1>1, <1>2, <1>3, <1>4
  <1> QED
    <2>1. ASSUME NEW s \in Servers, NEW n \in Names PROVE con'[s][n] \in Connections
      <3>1. CASE con'[s][n] = con[s][n]
        BY <1>6, <3>1
      <3>2. CASE con'[s][n] = [con[s][n] EXCEPT !.postedSigner = TRUE]
        <4>1. con[s][n] \in Connections
          BY <1>6
        <4>2. [con[s][n] EXCEPT !.postedSigner = TRUE] \in Connections
          BY <4>1 DEF Connections
        <4> QED
          BY <3>2, <4>2
      <3> QED
        BY <1>7, <3>1, <3>2
    <2>2. con' \in [Servers -> [Names -> Connections]]
      BY <1>8, <2>1
    <2>3. ASSUME NEW s \in Servers, NEW n \in Names
          PROVE  con'[s][n].address = con[s][n].address /\ (con'[s][n].ready => con[s][n].ready)
      <3>1. CASE con'[s][n] = con[s][n]
        BY <3>1
      <3>2. CASE con'[s][n] = [con[s][n] EXCEPT !.postedSigner = TRUE]
        BY <3>2, <1>5, <1>6
      <3> QED
        BY <1>7, <3>1, <3>2
    <2> QED
      BY <1>4, <2>2, <2>3 DEF KeepsLinks

LEMMA SignerStep ==
    ASSUME LinkInv, NEW a \in actors, SignerAccepted(a)
    PROVE  LinkInv'
  <1>1. "copy" \in Servers
    BY DEF Servers
  <1>2. a.at = "copy" /\ a.step = "signer" /\ Wired(Rest("copy")) /\ IsActor(a)
    BY <1>1, AnswersFor, ActorTyped DEF SignerAccepted
  <1>3. /\ Become(a, [a EXCEPT !.step = "submit"])
        /\ wire' = Sent("copy", Rest("copy"), Request("submit", a))
    BY DEF SignerAccepted
  <1>4. KeepsLinks
    BY SignerKeepsLinks
  <1>5. Wired(wire)'
    <2>1. OnWire(Request("submit", a))
      BY <1>2, RequestOnWire DEF LinkInv, Asked, IsActor, Takes
    <2>2. Wired(Sent("copy", Rest("copy"), Request("submit", a)))
      BY <1>1, <1>2, <2>1, SentIsWired
    <2> QED
      BY <1>3, <2>2, WiredPrime
  <1>6. Takes(a.kind, "submit") /\ a.kind # "Disco"
    BY <1>2 DEF IsActor, Takes
  <1> QED
    BY <1>2, <1>3, <1>4, <1>5, <1>6, StepTaken, ActorGoesOn

\* A commit posts the update to the actor group, or leaves the connections alone.
LEMMA CommitKeeps ==
    ASSUME LinkInv, Wired(wire)', NEW d, NEW set, set \subseteq actors, Commit(d, set)
    PROVE  LinkInv'
  <1>1. CASE con' = con /\ route' = route /\ actors' = set
    BY <1>1, EndKeeps
  <1>2. CASE Posts("host", "WaveletUpdate", d, set)
    BY <1>2, PostsKeeps DEF Servers
  <1> QED
    BY <1>1, <1>2 DEF Commit

LEMMA SubmitStep ==
    ASSUME LinkInv, NEW a \in actors, SubmitCommits(a)
    PROVE  LinkInv'
  <1>1. PICK told : wire' = wire \/ Send("host", [Result(a) EXCEPT !.told = told])
    BY DEF SubmitCommits
  <1>2. Wired(wire)'
    <2>1. OnWire(Result(a))
      BY ResultOnWire DEF LinkInv
    <2>2. OnWire([Result(a) EXCEPT !.told = told])
      BY <2>1, VariedOnWire DEF Names
    <2>3. Wired(Sent("host", wire, [Result(a) EXCEPT !.told = told]))
      BY <2>2, HostSends DEF Servers
    <2> QED
      BY <1>1, <2>3, SameWire, WiredPrime DEF Send
  <1>3. CASE Commit(a.deltas[1], actors \ {a})
    BY <1>2, <1>3, CommitKeeps
  <1>4. CASE con' = con /\ route' = route /\ End(a)
    BY <1>2, <1>4, EndKeeps DEF End
  <1> QED
    BY <1>3, <1>4 DEF SubmitCommits

LEMMA ClientStep ==
    ASSUME LinkInv, HostClientNext \/ CopyClientSubmits
    PROVE  LinkInv'
  <1>1. CASE HostClientNext
    <2>1. wire' = wire /\ \E d : Commit(d, actors)
      BY <1>1 DEF HostClientNext, HostClientSubmits
    <2> QED
      BY <2>1, SameWire, CommitKeeps
  <1>2. CASE CopyClientSubmits
    <2>1. /\ wire' = wire
          /\ Posts("copy", "SubmitRequest", Delta(HashedVersion(copy), Nobody, Nobody), actors)
      BY <1>2 DEF CopyClientSubmits
    <2> QED
      BY <2>1, SameWire, PostsKeeps DEF Servers, Delta, ChangesOne
  <1> QED
    BY <1>1, <1>2

LEMMA LinkStep == LinkInv /\ [FedNext]_fedVars => LinkInv'
  <1> SUFFICES ASSUME LinkInv, [FedNext]_fedVars PROVE LinkInv'
    OBVIOUS
  <1>1. ASSUME NEW s \in Servers, ComponentNext(s) \/ ComponentBreaks(s) PROVE LinkInv'
    BY <1>1, ComponentSteps
  <1>2. ASSUME NEW t \in Servers, ReadNext(t) PROVE LinkInv'
    <2>1. CASE RequestArrives(t) \/ ReplyIgnored(t)
      BY <2>1, RequestStep, ReplyStep
    <2>2. ASSUME NEW a \in actors, \/ DiscoGetsItems(t, a) \/ DiscoGetsInfo(t, a)
                                   \/ UpdateReceipted(t, a) \/ ErrorArrives(t, a)
          PROVE  LinkInv'
      BY <2>2, ItemsStep, InfoStep, ReceiptStep, ErrorStep
    <2> QED
      BY <1>2, <2>1, <2>2 DEF ReadNext
  <1>3. ASSUME NEW s \in Servers, ServerAnswers(s) PROVE LinkInv'
    BY <1>3, ServerStep
  <1>4. CASE CopyReads
    BY <1>4, ReceiptStep, SignerStep DEF CopyReads, Servers
  <1>5. CASE ActorNext
    BY <1>5, ActorStep, ErrorStep, SubmitStep DEF ActorNext
  <1>6. CASE ActorFails
    BY <1>6, ErrorStep DEF ActorFails
  <1>7. CASE CopyLoads \/ CopyUpdates
    BY <1>7, ComponentSteps DEF Servers
  <1>8. CASE HostRestarts \/ CopyRestarts
    BY <1>8, RestartStep DEF HostRestarts, CopyRestarts, Servers
  <1>9. CASE HostClientNext \/ CopyClientSubmits
    BY <1>9, ClientStep
  <1>10. CASE UNCHANGED fedVars
    <2>1. con' = con /\ route' = route /\ wire' = wire /\ actors' \subseteq actors
      BY <1>10 DEF fedVars, linkVars
    <2> QED
      BY <2>1, SameWire, EndKeeps
  <1> QED
    BY <1>1, <1>2, <1>3, <1>4, <1>5, <1>6, <1>7, <1>8, <1>9, <1>10 DEF FedNext

-----------------------------------------------------------------------------
(* The host's count of the subscriptions of a domain.                       *)

LEMMA CommitCounts ==
    ASSUME participants \subseteq Users, SubscribersCounted, NEW d, ChangesOne(d),
           participants' = ParticipantsAfter(d), subscribers' = SubscribersAfter(d)
    PROVE  participants' \subseteq Users /\ SubscribersCounted'
  <1> USE FederationAssumption
  <1>1. IsFiniteSet(participants)
    BY FS_Subset
  <1>2. subscribers = Cardinality(participants) /\ Cardinality(participants) \in Nat
    BY <1>1, FS_CardinalityType DEF SubscribersCounted
  <1>3. CASE d.adds = Nobody /\ d.removes = Nobody
    <2>1. participants' = participants /\ subscribers' = subscribers
      BY <1>2, <1>3 DEF ParticipantsAfter, SubscribersAfter
    <2> QED
      BY <2>1 DEF SubscribersCounted
  <1>4. CASE d.adds # Nobody
    <2>1. d.adds \in Users /\ d.removes = Nobody
      BY <1>4 DEF ChangesOne
    <2>2. /\ participants' = participants \cup {d.adds}
          /\ subscribers' = IF d.adds \in participants THEN subscribers ELSE subscribers + 1
      BY <1>2, <2>1 DEF ParticipantsAfter, SubscribersAfter
    <2>3. Cardinality(participants \cup {d.adds}) =
             IF d.adds \in participants THEN Cardinality(participants)
             ELSE Cardinality(participants) + 1
      BY <1>1, FS_AddElement
    <2> QED
      BY <1>2, <2>1, <2>2, <2>3 DEF SubscribersCounted
  <1>5. CASE d.removes # Nobody
    <2>1. d.removes \in Users /\ d.adds = Nobody
      BY <1>5 DEF ChangesOne
    <2>2. /\ participants' = participants \ {d.removes}
          /\ subscribers' = IF d.removes \in participants THEN subscribers - 1 ELSE subscribers
      BY <1>2, <2>1 DEF ParticipantsAfter, SubscribersAfter
    <2>3. Cardinality(participants \ {d.removes}) =
             IF d.removes \in participants THEN Cardinality(participants) - 1
             ELSE Cardinality(participants)
      BY <1>1, FS_RemoveElement
    <2> QED
      BY <1>2, <2>2, <2>3 DEF SubscribersCounted
  <1> QED
    BY <1>3, <1>4, <1>5

CountInv == LinkInv /\ participants \subseteq Users /\ SubscribersCounted

LEMMA InitCounts == FedInit => CountInv
  BY InitLinks, FS_EmptySet DEF FedInit, CountInv, SubscribersCounted

LEMMA CountStep == CountInv /\ [FedNext]_fedVars => CountInv'
  <1> DEFINE Counts == participants' \subseteq Users /\ SubscribersCounted'
  <1> SUFFICES ASSUME CountInv, [FedNext]_fedVars PROVE Counts
    BY LinkStep DEF CountInv
  <1>1. ASSUME UNCHANGED <<participants, subscribers>> PROVE Counts
    BY <1>1 DEF CountInv, SubscribersCounted
  <1>2. ASSUME NEW d, NEW set, ChangesOne(d), Commit(d, set) PROVE Counts
    BY <1>2, CommitCounts DEF CountInv, Commit
  <1> USE DEF linkVars, hostVars, copyVars, countVars
  <1>3. ASSUME NEW s \in Servers, ComponentNext(s) \/ ComponentBreaks(s) \/ ServerAnswers(s)
        PROVE  Counts
    BY <1>1, <1>3 DEF ComponentNext, ComponentBreaks, ComponentConnects, ComponentReads,
                      ComponentFails, ComponentStops, ServerAnswers
  <1>4. ASSUME NEW t \in Servers, ReadNext(t) PROVE Counts
    BY <1>1, <1>4 DEF ReadNext, RequestArrives, ReplyIgnored, DiscoGetsItems, DiscoGetsInfo,
                      UpdateReceipted, ErrorArrives
  <1>5. CASE CopyReads \/ CopyLoads \/ CopyUpdates
    BY <1>1, <1>5 DEF CopyReads, HistoryArrives, SignerAccepted, SubmitAnswered, CopyLoads,
                      CopyUpdates
  <1>6. CASE ActorNext
    <2>1. ASSUME NEW a \in actors, SubmitCommits(a) PROVE Counts
      <3>1. CASE Commit(a.deltas[1], actors \ {a})
        <4>1. IsActor(a) /\ a.step \in {"commit", "late"}
          BY <2>1, ActorTyped DEF CountInv, SubmitCommits
        <4>2. ChangesOne(a.deltas[1])
          BY <4>1 DEF IsActor, Takes
        <4> QED
          BY <1>2, <3>1, <4>2
      <3>2. CASE UNCHANGED hostVars
        BY <1>1, <3>2
      <3> QED
        BY <2>1, <3>1, <3>2 DEF SubmitCommits
    <2>2. ASSUME NEW a \in actors,
                 \/ Waits(a) \/ DiscoStarts(a) \/ DiscoAnswers(a)
                 \/ UpdateSent(a) \/ UpdateAnswers(a) \/ HistoryAsks(a) \/ HistoryAnswers(a)
                 \/ SubmitSends(a) \/ SignerAnswers(a) \/ SubmitGoesOn(a) \/ SubmitRefused(a)
          PROVE  Counts
      BY <1>1, <2>2 DEF Waits, DiscoStarts, DiscoAnswers, UpdateSent, UpdateAnswers,
             HistoryAsks, HistoryAnswers, SubmitSends, SignerAnswers, SubmitGoesOn,
             SubmitRefused
    <2> QED
      BY <1>6, <2>1, <2>2 DEF ActorNext
  <1>7. CASE ActorFails
    BY <1>1, <1>7 DEF ActorFails, TimesOut, CommitTimesOut
  <1>8. CASE HostRestarts
    BY <1>8 DEF HostRestarts, Restarts, SubscribersReplayed, CountInv, SubscribersCounted
  <1>9. CASE CopyRestarts
    BY <1>1, <1>9 DEF CopyRestarts, Restarts
  <1>10. CASE CopyClientSubmits
    BY <1>1, <1>10 DEF CopyClientSubmits
  <1>11. CASE HostClientNext
    <2>1. PICK v \in 0..wavelet.version, adds \in Users \cup {Nobody},
               removes \in Users \cup {Nobody} :
             /\ adds = Nobody \/ removes = Nobody
             /\ HostClientSubmits(Version(v), adds, removes)
      BY <1>11 DEF HostClientNext
    <2>2. Commit(Delta(Version(v), adds, removes), actors)
      BY <2>1 DEF HostClientSubmits
    <2>3. ChangesOne(Delta(Version(v), adds, removes))
      BY <2>1 DEF ChangesOne, Delta
    <2> QED
      BY <1>2, <2>2, <2>3
  <1>12. CASE UNCHANGED fedVars
    BY <1>1, <1>12 DEF fedVars
  <1> QED
    BY <1>3, <1>4, <1>5, <1>6, <1>7, <1>8, <1>9, <1>10, <1>11, <1>12 DEF FedNext

-----------------------------------------------------------------------------
(* What holds. *)

\* Once discovery has given a connection the component's JID, a message that a
\* server sends to its peer's domain and a stanza it gets from the peer's
\* component find the same connection (XmppComponentConnection's m_virtualConnections),
\* for any number of deltas, submits, failures and restarts.
THEOREM FedRoutesAgree == FedSpec => []RoutesAgree
  <1>1. LinkInv => RoutesAgree
    BY DEF LinkInv
  <1> QED
    BY <1>1, InitLinks, LinkStep, PTL DEF FedSpec

\* A connection that is ready under the component's JID is the one that stanzas
\* from the component are handed to, so answers find the actor that asked over it.
THEOREM FedReadyIsReachable == FedSpec => []ReadyIsReachable
  <1>1. LinkInv => ReadyIsReachable
    BY DEF LinkInv
  <1> QED
    BY <1>1, InitLinks, LinkStep, PTL DEF FedSpec

\* The count of subscriptions is the number of the domain's users who take part
\* (LocalWavelet's m_remoteSubscribers against m_participants), however the deltas
\* of both servers add and remove them, and after a restart.
THEOREM FedSubscribersCounted == FedSpec => []SubscribersCounted
  <1>1. CountInv => SubscribersCounted
    BY DEF CountInv
  <1> QED
    BY <1>1, InitCounts, CountStep, PTL DEF FedSpec

-----------------------------------------------------------------------------
(* What a client of the copy is told.                                       *)

\* The deltas the host has committed, by their numbers.
CommittedIds == {stored[j].id : j \in DOMAIN stored}

\* What a stanza is about is never how an actor begins.  A request tells nothing,
\* and a submit is identified by the number of its delta; an answer only tells of
\* a delta that has been committed.
Honest(m, Ids) ==
    /\ {"kind", "reply", "from", "to", "key", "deltas", "start", "end", "told"}
            \subseteq DOMAIN m
    /\ m.kind \notin {"new", "wait"}
    /\ m.reply = "none" => ~m.told.ok
    /\ m.reply = "none" /\ m.kind = "submit" => m.deltas[1].id = m.key[3]
    /\ m.told.ok => m.key[3] \in Ids

HonestWires(w, Ids) ==
    /\ w = [s \in Servers |-> w[s]]
    /\ \A s \in Servers : \E S : w[s] \in Seq(S) /\ \A m \in S : Honest(m, Ids)

\* An actor knows the number of the delta it submits.
HonestActor(a) ==
    /\ {"kind", "at", "con", "id", "step", "deltas", "request"} \subseteq DOMAIN a
    /\ Honest(a.request, {})
    /\ a.kind = "SubmitRequest" => a.deltas[1].id = a.id
    /\ a.kind = "SubmitResponse" => a.deltas[1].id = a.request.key[3]

AnswersHonest ==
    /\ IsSequence(stored)
    /\ DOMAIN submitted = 1..MaxDeltas
    /\ submitted = [i \in DOMAIN submitted |-> submitted[i]]
    /\ \A a \in actors : HonestActor(a)
    /\ HonestWires(wire, CommittedIds)
    /\ AnsweredIsCommitted

AnswerInv == LinkInv /\ AnswersHonest

-----------------------------------------------------------------------------
LEMMA HonestMore ==
    ASSUME NEW Ids, NEW More, Ids \subseteq More
    PROVE  /\ \A m : Honest(m, Ids) => Honest(m, More)
           /\ \A w : HonestWires(w, Ids) => HonestWires(w, More)
  BY DEF Honest, HonestWires

LEMMA HonestSent ==
    ASSUME NEW Ids, NEW w, HonestWires(w, Ids), NEW s \in Servers, NEW m, Honest(m, Ids)
    PROVE  /\ HonestWires([w EXCEPT ![s] = Append(@, m)], Ids)
           /\ HonestWires(Sent(s, w, m), Ids)
  <1>1. PICK S : w[s] \in Seq(S) /\ \A x \in S : Honest(x, Ids)
    BY DEF HonestWires
  <1>2. w[s] \in Seq(S \cup {m})
    BY <1>1
  <1>3. Append(w[s], m) \in Seq(S \cup {m}) /\ \A x \in S \cup {m} : Honest(x, Ids)
    BY <1>1, <1>2
  <1>4. HonestWires([w EXCEPT ![s] = Append(@, m)], Ids)
    BY <1>3 DEF HonestWires
  <1> QED
    BY <1>4 DEF Sent

LEMMA HonestRest ==
    ASSUME NEW Ids, HonestWires(wire, Ids), NEW s \in Servers, wire[s] # <<>>
    PROVE  /\ Honest(Head(wire[s]), Ids)
           /\ HonestWires([wire EXCEPT ![s] = Tail(@)], Ids)
  <1>1. PICK S : wire[s] \in Seq(S) /\ \A x \in S : Honest(x, Ids)
    BY DEF HonestWires
  <1>2. Head(wire[s]) \in S /\ Tail(wire[s]) \in Seq(S)
    BY <1>1
  <1> QED
    BY <1>1, <1>2 DEF HonestWires

LEMMA HonestIncoming ==
    ASSUME NEW Ids, HonestWires(wire, Ids), NEW t \in Servers, CanRead(t)
    PROVE  Honest(Incoming(t), Ids) /\ HonestWires(Rest(t), Ids)
  BY HonestRest, PeerIsServer DEF CanRead, Incoming, Rest

LEMMA HonestRequest ==
    ASSUME NEW a, HonestActor(a), NEW kind, kind \notin {"new", "wait"},
           kind = "submit" => a.kind = "SubmitRequest", NEW Ids
    PROVE  /\ Honest(Request(kind, a), Ids)
           /\ kind # "submit" =>
                \A d, i, j : Honest([Request(kind, a) EXCEPT !.deltas = d, !.start = i,
                                                             !.end = j], Ids)
           /\ \A n : Honest([Request(kind, a) EXCEPT !.to = n], Ids)
  BY DEF Request, NoStanza, NotTold, Honest, HonestActor, Key

LEMMA HonestResult ==
    ASSUME NEW a, HonestActor(a), NEW Ids
    PROVE  /\ Honest(Result(a), Ids)
           /\ \A n : Honest([Result(a) EXCEPT !.from = n], Ids)
           /\ \A d : Honest([Result(a) EXCEPT !.deltas = d], Ids)
           /\ \A told : told.ok /\ a.kind = "SubmitResponse" /\ a.deltas[1].id \in Ids =>
                Honest([Result(a) EXCEPT !.told = told], Ids)
           /\ \A told : ~told.ok => Honest([Result(a) EXCEPT !.told = told], Ids)
  BY DEF Result, Honest, HonestActor

LEMMA HonestBounced ==
    ASSUME NEW m, NEW Ids, Honest(m, Ids), m.reply = "none"
    PROVE  Honest(Bounced(m), Ids)
  BY DEF Bounced, Honest

LEMMA HonestStep ==
    ASSUME NEW a, HonestActor(a), NEW step
    PROVE  HonestActor([a EXCEPT !.step = step])
  BY DEF HonestActor

LEMMA InitAnswers == FedInit => AnswersHonest
  <1> SUFFICES ASSUME FedInit PROVE AnswersHonest
    OBVIOUS
  <1> USE FederationAssumption DEF FedInit
  <1>1. IsSequence(stored)
    BY EmptySeq DEF IsSequence
  <1>2. HonestWires(wire, CommittedIds)
    <2> DEFINE S == {}
    <2>1. <<>> \in Seq(S) /\ \A m \in S : Honest(m, CommittedIds)
      BY EmptySeq
    <2> HIDE DEF S
    <2>2. \E T : <<>> \in Seq(T) /\ \A m \in T : Honest(m, CommittedIds)
      BY <2>1
    <2> QED
      BY <2>2 DEF HonestWires
  <1>3. AnsweredIsCommitted
    BY DEF AnsweredIsCommitted
  <1> QED
    BY <1>1, <1>2, <1>3 DEF AnswersHonest

\* A step that commits nothing and tells no client "ok".
LEMMA AnswersKept ==
    ASSUME AnswersHonest, stored' = stored,
           \A a \in actors' : HonestActor(a), HonestWires(wire', CommittedIds),
           submitted' = [i \in 1..MaxDeltas |-> submitted'[i]],
           \A i \in 1..MaxDeltas : submitted'[i] = "ok" =>
                submitted[i] = "ok" \/ i \in CommittedIds
    PROVE  AnswersHonest'
  <1>1. HonestWires(wire, CommittedIds)'
    BY DEF HonestWires, CommittedIds
  <1>2. AnsweredIsCommitted'
    BY DEF AnswersHonest, AnsweredIsCommitted, CommittedIds
  <1>3. IsSequence(stored) /\ IsSequence(stored)'
    BY DEF AnswersHonest, IsSequence, ToSet
  <1> QED
    BY <1>1, <1>2, <1>3 DEF AnswersHonest

\* What most steps do to the actors.
LEMMA ActorsHonest ==
    ASSUME AnswersHonest, NEW a \in actors,
           \/ actors' \subseteq actors
           \/ \E step : Become(a, [a EXCEPT !.step = step])
    PROVE  \A b \in actors' : HonestActor(b)
  BY HonestStep DEF AnswersHonest, Become

\* Messages to the peer make a discovery and an actor for the delta.
LEMMA PostsHonest ==
    ASSUME AnswersHonest, NEW s, NEW kind, kind # "SubmitResponse", NEW d,
           NEW set, set \subseteq actors, Posts(s, kind, d, set)
    PROVE  \A a \in actors' : HonestActor(a)
  <1> DEFINE new == NewActor(kind, s, Found(s, "domain"), d.id, <<d>>)
             disco == NewActor("Disco", s, Found(s, "domain"), 0, <<>>)
  <1>1. HonestActor(new) /\ HonestActor(disco)
    <2>1. Honest(NoStanza, {}) /\ <<d>>[1] = d
      BY DEF Honest, NoStanza, NotTold
    <2> QED
      BY <2>1 DEF NewActor, HonestActor
  <1>2. actors' \subseteq set \cup {new, disco}
    BY DEF Posts
  <1> HIDE DEF new, disco
  <1> QED
    BY <1>1, <1>2 DEF AnswersHonest

\* A commit adds its delta to those that clients may be told of.
LEMMA CommitHonest ==
    ASSUME AnswersHonest, NEW d, NEW set, set \subseteq actors, Commit(d, set),
           HonestWires(wire', CommittedIds \cup {d.id}), 
           submitted' = [i \in 1..MaxDeltas |-> submitted'[i]],
           \A i \in 1..MaxDeltas : submitted'[i] = "ok" => submitted[i] = "ok"
    PROVE  AnswersHonest'
  <1>1. stored' = Append(stored, d)
    BY DEF Commit
  <1>2. /\ IsSequence(stored') /\ Len(stored') = Len(stored) + 1 /\ Len(stored) \in Nat
        /\ \A i \in 1..Len(stored) : stored'[i] = stored[i]
        /\ stored'[Len(stored) + 1] = d
        /\ DOMAIN stored = 1..Len(stored) /\ DOMAIN stored' = 1..(Len(stored) + 1)
    <2>1. stored \in Seq(ToSet(stored) \cup {d})
      <3>1. stored \in Seq(ToSet(stored))
        BY DEF AnswersHonest, IsSequence
      <3> QED
        BY <3>1, SeqMonotonic
    <2>2. IsSequence(stored')
      BY <1>1, AppendToSet DEF AnswersHonest
    <2>3. /\ stored' \in Seq(ToSet(stored) \cup {d})
          /\ Len(stored') = Len(stored) + 1
          /\ \A i \in 1..Len(stored) : stored'[i] = stored[i]
          /\ stored'[Len(stored) + 1] = d
      BY <1>1, <2>1, AppendProperties
    <2>4. DOMAIN stored = 1..Len(stored) /\ DOMAIN stored' = 1..Len(stored') /\ Len(stored) \in Nat
      BY <2>1, <2>3, LenProperties
    <2> QED
      BY <2>2, <2>3, <2>4
  <1>3. CommittedIds' = CommittedIds \cup {d.id}
    <2>1. CommittedIds' = {stored'[j].id : j \in 1..(Len(stored) + 1)}
      BY <1>2 DEF CommittedIds
    <2>2. CommittedIds = {stored[j].id : j \in 1..Len(stored)}
      BY <1>2 DEF CommittedIds
    <2> QED
      BY <1>2, <2>1, <2>2
  <1>4. \A a \in actors' : HonestActor(a)
    <2>1. CASE actors' = set
      BY <2>1 DEF AnswersHonest
    <2>2. CASE Posts("host", "WaveletUpdate", d, set)
      BY <2>2, PostsHonest
    <2> QED
      BY <2>1, <2>2 DEF Commit
  <1>5. AnsweredIsCommitted'
    <2>1. \A i \in 1..MaxDeltas : submitted'[i] = "ok" => i \in CommittedIds'
      BY <1>3 DEF AnswersHonest, AnsweredIsCommitted, CommittedIds
    <2> QED
      BY <2>1 DEF AnsweredIsCommitted, CommittedIds
  <1>6. HonestWires(wire, CommittedIds)'
    BY <1>3 DEF HonestWires
  <1> QED
    BY <1>2, <1>4, <1>5, <1>6 DEF AnswersHonest

\* Steps that change neither what is committed nor what clients have been told.
LEMMA StepKeepsAnswers ==
    ASSUME AnswerInv, stored' = stored, submitted' = submitted,
           HonestWires(wire', CommittedIds),
           \/ actors' \subseteq actors
           \/ \E a \in actors : \E step : Become(a, [a EXCEPT !.step = step])
    PROVE  AnswersHonest'
  <1>1. \A a \in actors' : HonestActor(a)
    BY ActorsHonest DEF AnswerInv, AnswersHonest
  <1> QED
    BY <1>1, AnswersKept DEF AnswerInv, AnswersHonest

LEMMA ServerAnswersHonestly ==
    ASSUME AnswerInv, NEW s \in Servers, ServerAnswers(s)
    PROVE  AnswersHonest'
  <1> DEFINE m == Head(wire[s])
             rest == [wire EXCEPT ![s] = Tail(@)]
  <1>1. UNCHANGED <<actors, stored, submitted>>
    BY DEF ServerAnswers, hostVars
  <1>2. Honest(m, CommittedIds) /\ HonestWires(rest, CommittedIds)
    BY HonestRest DEF AnswerInv, AnswersHonest, ServerAnswers
  <1>3. \/ wire' = rest
        \/ m.reply = "none" /\ wire' = [rest EXCEPT ![Peer(s)] = Append(@, Bounced(m))]
    BY DEF ServerAnswers
  <1> HIDE DEF m, rest
  <1>4. HonestWires(wire', CommittedIds)
    BY <1>2, <1>3, HonestBounced, HonestSent, PeerIsServer
  <1> QED
    BY <1>1, <1>4, StepKeepsAnswers

LEMMA RequestArrivesHonestly ==
    ASSUME AnswerInv, NEW t \in Servers, RequestArrives(t)
    PROVE  AnswersHonest'
  <1> DEFINE m == Incoming(t)
             new == [NewActor(Responder[m.kind], t, Handler(t), m.key[3], m.deltas)
                        EXCEPT !.request = m]
  <1>1. UNCHANGED <<stored, submitted>> /\ m.reply = "none" /\ wire' = Rest(t)
    BY DEF RequestArrives, hostVars
  <1>2. /\ Honest(m, CommittedIds) /\ HonestWires(Rest(t), CommittedIds) /\ OnWire(m)
    BY HonestIncoming, IncomingOnWire
       DEF AnswerInv, AnswersHonest, RequestArrives, LinkInv
  <1>3. m.kind \in Asked /\ Honest(m, {})
    BY <1>1, <1>2 DEF OnWire, Honest
  <1>4. actors' \subseteq actors \cup {new}
    BY DEF RequestArrives, Create
  <1>5. HonestActor(new)
    <2>1. /\ new.kind = Responder[m.kind] /\ new.deltas = m.deltas /\ new.request = m
          /\ {"kind", "at", "con", "id", "step", "deltas", "request"} \subseteq DOMAIN new
      BY DEF NewActor
    <2>2. new.kind # "SubmitRequest" /\ (new.kind = "SubmitResponse" => m.kind = "submit")
      BY <1>3, <2>1 DEF Responder, Asked
    <2> HIDE DEF m, new
    <2> QED
      BY <1>1, <1>3, <2>1, <2>2 DEF HonestActor, Honest
  <1> HIDE DEF m, new
  <1>6. \A a \in actors' : HonestActor(a)
    BY <1>4, <1>5 DEF AnswerInv, AnswersHonest
  <1> QED
    BY <1>1, <1>2, <1>6, AnswersKept DEF AnswerInv, AnswersHonest

LEMMA ReadsHonestly ==
    ASSUME AnswerInv, NEW t \in Servers, NEW a \in actors,
           \/ DiscoGetsItems(t, a) \/ DiscoGetsInfo(t, a) \/ UpdateReceipted(t, a)
           \/ t = "copy" /\ (HistoryArrives(a) \/ SignerAccepted(a))
    PROVE  AnswersHonest'
  <1>1. /\ CanRead(t) /\ UNCHANGED <<stored, submitted>>
        /\ \/ actors' \subseteq actors
           \/ \E step : Become(a, [a EXCEPT !.step = step])
    BY DEF DiscoGetsItems, DiscoGetsInfo, UpdateReceipted, HistoryArrives, SignerAccepted,
           Answers, End, hostVars
  <1>2. HonestWires(Rest(t), CommittedIds) /\ HonestActor(a)
    BY <1>1, HonestIncoming DEF AnswerInv, AnswersHonest
  <1>3. HonestWires(wire', CommittedIds)
    <2>1. CASE wire' = Rest(t)
      BY <1>2, <2>1
    <2>2. CASE DiscoGetsItems(t, a)
      <3>1. Honest([Request("info", a) EXCEPT !.to = "component"], CommittedIds)
        BY <1>2, HonestRequest
      <3> QED
        BY <1>2, <2>2, <3>1, HonestSent DEF DiscoGetsItems
    <2>3. CASE t = "copy" /\ SignerAccepted(a)
      <3>1. a.kind = "SubmitRequest"
        BY <2>3, ActorTyped DEF SignerAccepted, Answers, IsFor, IsActor, Takes, AnswerInv
      <3>2. Honest(Request("submit", a), CommittedIds)
        BY <1>2, <3>1, HonestRequest
      <3> QED
        BY <1>2, <2>3, <3>2, HonestSent DEF SignerAccepted
    <2> QED
      BY <2>1, <2>2, <2>3 DEF DiscoGetsInfo, UpdateReceipted, HistoryArrives
  <1> QED
    BY <1>1, <1>3, StepKeepsAnswers

LEMMA ActsHonestly ==
    ASSUME AnswerInv, NEW a \in actors,
           \/ Waits(a) \/ DiscoStarts(a) \/ DiscoAnswers(a)
           \/ UpdateSent(a) \/ UpdateAnswers(a) \/ HistoryAsks(a) \/ HistoryAnswers(a)
           \/ SubmitSends(a) \/ SignerAnswers(a) \/ SubmitGoesOn(a)
    PROVE  AnswersHonest'
  <1>1. UNCHANGED <<stored, submitted>>
    BY DEF Waits, DiscoStarts, DiscoAnswers, UpdateSent, UpdateAnswers, HistoryAsks,
           HistoryAnswers, SubmitSends, SignerAnswers, SubmitGoesOn, hostVars
  <1>2. actors' \subseteq actors \/ \E step : Become(a, [a EXCEPT !.step = step])
    BY DEF Waits, DiscoStarts, DiscoAnswers, UpdateSent, UpdateAnswers, HistoryAsks,
           HistoryAnswers, SubmitSends, SignerAnswers, SubmitGoesOn, End
  <1>3. /\ HonestActor(a) /\ HonestWires(wire, CommittedIds)
        /\ a.at \in Servers /\ {"copy", "host"} \subseteq Servers
    BY ActorTyped DEF AnswerInv, AnswersHonest, Servers
  <1>4. HonestWires(wire', CommittedIds)
    <2>1. CASE wire' = wire
      BY <1>3, <2>1
    <2>2. ASSUME NEW kind, Send(a.at, Request(kind, a)), kind \notin {"new", "wait"},
                 kind = "submit" => a.kind = "SubmitRequest"
          PROVE  HonestWires(wire', CommittedIds)
      BY <1>3, <2>2, HonestRequest, HonestSent DEF Send
    <2>3. CASE DiscoAnswers(a)
      <3>1. \A n : Honest([Result(a) EXCEPT !.from = n], CommittedIds)
        BY <1>3, HonestResult
      <3> QED
        BY <1>3, <2>3, <3>1, HonestSent DEF DiscoAnswers, Send
    <2>4. CASE HistoryAnswers(a)
      <3>1. \A d : Honest([Result(a) EXCEPT !.deltas = d], CommittedIds)
        BY <1>3, HonestResult
      <3> QED
        BY <1>3, <2>4, <3>1, HonestSent DEF HistoryAnswers, Send
    <2>5. CASE SignerAnswers(a)
      BY <1>3, <2>5, HonestResult, HonestSent DEF SignerAnswers, Send
    <2>6. CASE UpdateAnswers(a)
      <3> DEFINE receipted == Sent("copy", wire, Result(a))
                 asks == [Request("history", a) EXCEPT !.deltas = <<>>,
                            !.start = VersionRead, !.end = a.deltas[1].base.version]
      <3>1. HonestWires(receipted, CommittedIds)
        BY <1>3, HonestResult, HonestSent
      <3>2. Honest(asks, CommittedIds)
        BY <1>3, HonestRequest
      <3>3. wire' = receipted \/ wire' = Sent("copy", receipted, asks)
        BY <2>6 DEF UpdateAnswers
      <3> HIDE DEF receipted, asks
      <3> QED
        BY <1>3, <3>1, <3>2, <3>3, HonestSent
    <2>7. CASE SubmitSends(a)
      BY <2>2, <2>7 DEF SubmitSends, SubmitAsks, Goes
    <2>8. CASE DiscoStarts(a)
      BY <2>1, <2>2, <2>8 DEF DiscoStarts
    <2>9. CASE UpdateSent(a)
      BY <2>2, <2>9 DEF UpdateSent
    <2> QED
      BY <2>1, <2>3, <2>4, <2>5, <2>6, <2>7, <2>8, <2>9 DEF Waits, HistoryAsks, SubmitGoesOn
  <1> QED
    BY <1>1, <1>2, <1>4, StepKeepsAnswers

\* Whoever gives up, or is told of an error, tells his client that it failed.
LEMMA FailsHonestly ==
    ASSUME AnswerInv, NEW a \in actors,
           \/ SubmitRefused(a) \/ TimesOut(a) \/ CommitTimesOut(a)
           \/ \E t \in Servers : ErrorArrives(t, a)
    PROVE  AnswersHonest'
  <1>1. stored' = stored
    BY DEF SubmitRefused, TimesOut, CommitTimesOut, ErrorArrives, hostVars
  <1>2. submitted' \in {submitted, AfterError(a)}
    BY DEF SubmitRefused, TimesOut, CommitTimesOut, ErrorArrives, Terminates
  <1>3. /\ submitted' = [i \in 1..MaxDeltas |-> submitted'[i]]
        /\ \A i \in 1..MaxDeltas : submitted'[i] = "ok" => submitted[i] = "ok"
    BY <1>2 DEF AfterError, AnswerInv, AnswersHonest
  <1>4. \A b \in actors' : HonestActor(b)
    <2>1. \/ actors' \subseteq actors
          \/ \E step : Become(a, [a EXCEPT !.step = step])
      BY DEF SubmitRefused, TimesOut, CommitTimesOut, ErrorArrives, Terminates, End
    <2> QED
      BY <2>1, ActorsHonest DEF AnswerInv
  <1>5. HonestWires(wire', CommittedIds)
    BY HonestIncoming DEF SubmitRefused, TimesOut, CommitTimesOut, ErrorArrives, AnswerInv,
          AnswersHonest
  <1> QED
    BY <1>1, <1>3, <1>4, <1>5, AnswersKept DEF AnswerInv

\* The answer to a submit: what it tells has been committed.
LEMMA SubmitAnsweredHonestly ==
    ASSUME AnswerInv, NEW a \in actors, SubmitAnswered(a)
    PROVE  AnswersHonest'
  <1> DEFINE m == Incoming("copy")
  <1>1. /\ CanRead("copy") /\ Key(a) = m.key /\ wire' = Rest("copy") /\ stored' = stored
        /\ submitted' = [submitted EXCEPT ![a.id] = IF m.told.ok THEN "ok" ELSE "failed"]
        /\ actors' \subseteq actors
    BY DEF SubmitAnswered, Answers, IsFor, Answered, End, hostVars
  <1>2. Honest(m, CommittedIds) /\ HonestWires(Rest("copy"), CommittedIds)
    BY <1>1, HonestIncoming DEF AnswerInv, AnswersHonest, Servers
  <1>3. m.told.ok => a.id \in CommittedIds
    BY <1>1, <1>2 DEF Honest, Key
  <1>4. /\ submitted' = [i \in 1..MaxDeltas |-> submitted'[i]]
        /\ \A i \in 1..MaxDeltas : submitted'[i] = "ok" =>
               submitted[i] = "ok" \/ i \in CommittedIds
    BY <1>1, <1>3 DEF AnswerInv, AnswersHonest
  <1>5. \A b \in actors' : HonestActor(b)
    BY <1>1 DEF AnswerInv, AnswersHonest
  <1> QED
    BY <1>1, <1>2, <1>4, <1>5, AnswersKept DEF AnswerInv

\* The host answers a submit in the step that commits it.
LEMMA SubmitCommitsHonestly ==
    ASSUME AnswerInv, NEW a \in actors, SubmitCommits(a)
    PROVE  AnswersHonest'
  <1> DEFINE d == a.deltas[1]
             fits == CheckHashedVersion(wavelet, d.base)
             told == IF fits THEN [ok |-> TRUE, version |-> wavelet.version + 1,
                                   hash |-> Append(wavelet.hash, d.id)]
                     ELSE NotTold
             Ids == IF fits THEN CommittedIds \cup {d.id} ELSE CommittedIds
  <1>1. /\ submitted' = submitted
        /\ IF fits THEN Commit(d, actors \ {a})
           ELSE actors' \subseteq actors /\ stored' = stored
        /\ wire' = wire \/ Send("host", [Result(a) EXCEPT !.told = told])
    BY DEF SubmitCommits, End, hostVars
  <1>2. a.kind = "SubmitResponse" /\ HonestActor(a)
    BY ActorTyped DEF SubmitCommits, IsActor, Takes, AnswerInv, AnswersHonest
  <1>3. told.ok => fits
    BY DEF NotTold
  <1>4. Honest([Result(a) EXCEPT !.told = told], Ids)
    <2> HIDE DEF told, fits
    <2> QED
      BY <1>2, <1>3, HonestResult
  <1>5. HonestWires(wire, Ids)
    BY HonestMore DEF AnswerInv, AnswersHonest
  <1> HIDE DEF told, fits
  <1>6. HonestWires(wire', Ids)
    BY <1>1, <1>4, <1>5, HonestSent DEF Send, Servers
  <1>7. submitted' = [i \in 1..MaxDeltas |-> submitted'[i]]
    BY <1>1 DEF AnswerInv, AnswersHonest
  <1>8. CASE fits
    BY <1>1, <1>6, <1>7, <1>8, CommitHonest DEF AnswerInv
  <1>9. CASE ~fits
    BY <1>1, <1>6, <1>9, StepKeepsAnswers
  <1> QED
    BY <1>8, <1>9

LEMMA ClientsHonest ==
    ASSUME AnswerInv, HostClientNext \/ CopyClientSubmits
    PROVE  AnswersHonest'
  <1>1. CASE HostClientNext
    <2>1. PICK d : Commit(d, actors) /\ UNCHANGED <<wire, submitted>>
      BY <1>1 DEF HostClientNext, HostClientSubmits
    <2>2. HonestWires(wire', CommittedIds \cup {d.id})
      BY <2>1, HonestMore DEF AnswerInv, AnswersHonest
    <2> QED
      BY <2>1, <2>2, CommitHonest DEF AnswerInv, AnswersHonest
  <1>2. CASE CopyClientSubmits
    <2>1. /\ UNCHANGED <<wire, stored>>
          /\ submitted' = [submitted EXCEPT ![made + 1] = "posted"]
          /\ Posts("copy", "SubmitRequest", Delta(HashedVersion(copy), Nobody, Nobody), actors)
      BY <1>2 DEF CopyClientSubmits, hostVars
    <2>2. \A a \in actors' : HonestActor(a)
      BY <2>1, PostsHonest DEF AnswerInv
    <2>3. /\ submitted' = [i \in 1..MaxDeltas |-> submitted'[i]]
          /\ \A i \in 1..MaxDeltas : submitted'[i] = "ok" => submitted[i] = "ok"
      BY <2>1 DEF AnswerInv, AnswersHonest
    <2> QED
      BY <2>1, <2>2, <2>3, AnswersKept DEF AnswerInv, AnswersHonest
  <1> QED
    BY <1>1, <1>2

LEMMA RestartsHonest ==
    ASSUME AnswerInv, HostRestarts \/ CopyRestarts
    PROVE  AnswersHonest'
  <1>1. UNCHANGED <<wire, stored>> /\ actors' \subseteq actors
    BY DEF HostRestarts, CopyRestarts, Restarts
  <1>2. /\ submitted' = [i \in 1..MaxDeltas |-> submitted'[i]]
        /\ \A i \in 1..MaxDeltas : submitted'[i] = "ok" => submitted[i] = "ok"
    BY DEF HostRestarts, CopyRestarts, AnswerInv, AnswersHonest
  <1> QED
    BY <1>1, <1>2, AnswersKept DEF AnswerInv, AnswersHonest

LEMMA AnswerStep == AnswerInv /\ [FedNext]_fedVars => AnswerInv'
  <1> SUFFICES ASSUME AnswerInv, [FedNext]_fedVars PROVE AnswersHonest'
    BY LinkStep DEF AnswerInv
  <1>1. ASSUME UNCHANGED <<actors, wire, stored, submitted>> PROVE AnswersHonest'
    BY <1>1, StepKeepsAnswers DEF AnswerInv, AnswersHonest
  <1>2. ASSUME NEW s \in Servers, ComponentNext(s) \/ ComponentBreaks(s) PROVE AnswersHonest'
    BY <1>1, <1>2 DEF ComponentNext, ComponentBreaks, ComponentConnects, ComponentReads,
          ComponentFails, ComponentStops, hostVars
  <1>3. ASSUME NEW t \in Servers, ReadNext(t) PROVE AnswersHonest'
    <2>1. CASE RequestArrives(t)
      BY <2>1, RequestArrivesHonestly
    <2>2. CASE ReplyIgnored(t)
      <3>1. /\ UNCHANGED <<actors, stored, submitted>> /\ CanRead(t) /\ wire' = Rest(t)
        BY <2>2 DEF ReplyIgnored, hostVars
      <3> QED
        BY <3>1, HonestIncoming, StepKeepsAnswers DEF AnswerInv, AnswersHonest
    <2>3. ASSUME NEW a \in actors, \/ DiscoGetsItems(t, a) \/ DiscoGetsInfo(t, a)
                                   \/ UpdateReceipted(t, a)
          PROVE  AnswersHonest'
      BY <2>3, ReadsHonestly
    <2>4. ASSUME NEW a \in actors, ErrorArrives(t, a) PROVE AnswersHonest'
      BY <2>4, FailsHonestly
    <2> QED
      BY <1>3, <2>1, <2>2, <2>3, <2>4 DEF ReadNext
  <1>4. ASSUME NEW s \in Servers, ServerAnswers(s) PROVE AnswersHonest'
    BY <1>4, ServerAnswersHonestly
  <1>5. CASE CopyReads
    BY <1>5, ReadsHonestly, SubmitAnsweredHonestly DEF CopyReads, Servers
  <1>6. CASE ActorNext
    BY <1>6, ActsHonestly, FailsHonestly, SubmitCommitsHonestly DEF ActorNext
  <1>7. CASE ActorFails
    BY <1>7, FailsHonestly DEF ActorFails
  <1>8. CASE CopyLoads \/ CopyUpdates
    BY <1>1, <1>8 DEF CopyLoads, CopyUpdates, hostVars
  <1>9. CASE HostRestarts \/ CopyRestarts
    BY <1>9, RestartsHonest
  <1>10. CASE HostClientNext \/ CopyClientSubmits
    BY <1>10, ClientsHonest
  <1>11. CASE UNCHANGED fedVars
    BY <1>1, <1>11 DEF fedVars, hostVars
  <1> QED
    BY <1>2, <1>3, <1>4, <1>5, <1>6, <1>7, <1>8, <1>9, <1>10, <1>11 DEF FedNext

\* A client of the copy that is told its delta has been applied finds it in the
\* host's history, whatever is lost, late, or restarted on the way.
THEOREM FedAnsweredIsCommitted == FedSpec => []AnsweredIsCommitted
  <1>1. FedInit => AnswerInv
    BY InitLinks, InitAnswers DEF AnswerInv
  <1>2. AnswerInv => AnsweredIsCommitted
    BY DEF AnswerInv, AnswersHonest
  <1> QED
    BY <1>1, <1>2, AnswerStep, PTL DEF FedSpec

-----------------------------------------------------------------------------
(* The copy.  As long as nothing has happened that may make it differ from *)
(* the wavelet, every delta is at one place: in the copy, queued for it,   *)
(* asked for, in a stanza, or with an actor that will send it; and what is *)
(* under way comes in the order of the history.                            *)

\* Nothing has happened yet that may make the copy differ from the wavelet.
Clean == causes \cap {"overlap", "unloaded", "rebased"} = {}

Down == wire["host"]
Up == wire["copy"]

IsUpdate(m) == m.kind = "update" /\ m.reply = "none"
IsQuery(m) == m.kind = "history" /\ m.reply = "none"
IsHistory(m) == m.kind = "history" /\ m.reply = "result"
Matters(m) == IsUpdate(m) \/ IsQuery(m) \/ IsHistory(m)

Updates == {i \in DOMAIN Down : IsUpdate(Down[i])}
Histories == {i \in DOMAIN Down : IsHistory(Down[i])}
Queries == {i \in DOMAIN Up : IsQuery(Up[i])}

\* The actors that bring the deltas from the wavelet to the copy.
Exchange == {"WaveletUpdate", "UpdateResponse", "HistoryResponse"}
Fresh == {"new", "wait"}
OfKind(kind) == {a \in actors : a.kind = kind}
Unsent == {a \in OfKind("WaveletUpdate") : a.step \in Fresh}
Takers == OfKind("UpdateResponse")
Repliers == OfKind("HistoryResponse")

UpdateKey(x) == <<"WaveletUpdate", "host", x>>
AskKey(x) == <<"UpdateResponse", "copy", x>>

\* A delta of the host's history, and where it is there.
InStore(d) == \E i \in 1..Len(stored) : stored[i] = d
Pos(d) == d.base.version
CarriesOne(q) == q = <<q[1]>> /\ InStore(q[1])

StepsOf ==
    [WaveletUpdate |-> Fresh \cup {"update"}, UpdateResponse |-> Fresh \cup {"history"},
     HistoryResponse |-> Fresh \cup {"query"}]

Traffic ==
    /\ \A a \in actors : a.kind \in Exchange => a.step \in StepsOf[a.kind]
    /\ \A a \in actors : a.step = "query" \/ a.request.kind = "history" => a.kind = "HistoryResponse"
    /\ \A a \in OfKind("WaveletUpdate") :
          a.at = "host" /\ CarriesOne(a.deltas) /\ a.id = a.deltas[1].id
    /\ \A a \in Takers :
          a.at = "copy" /\ CarriesOne(a.deltas) /\ a.id = a.deltas[1].id
    /\ \A a \in Repliers :
          a.at = "host" /\ a.request.key = AskKey(a.id) /\ a.request.kind = "history"
    /\ \A i \in Updates :
          CarriesOne(Down[i].deltas) /\ Down[i].key = UpdateKey(Down[i].deltas[1].id)
    /\ \A i \in Histories : Down[i].key = AskKey(Down[i].key[3])
    /\ \A i \in Queries : Up[i].key = AskKey(Up[i].key[3])
    /\ \A i \in DOMAIN Down : ~IsQuery(Down[i])
    /\ \A i \in DOMAIN Up : ~IsUpdate(Up[i])

\* No delta was transformed: the history is the deltas as they were made.
HostHistory ==
    /\ IsSequence(stored) /\ IsSequence(wavelet.hash)
    /\ wavelet.version = Len(stored) /\ Len(wavelet.hash) = Len(stored)
    /\ \A i \in 1..Len(stored) :
          /\ wavelet.hash[i] = stored[i].id
          /\ stored[i].base = [version |-> i - 1, hash |-> SubSeq(wavelet.hash, 1, i - 1)]

\* A delta is on its way once: an update is to be sent, on the wire, or received,
\* and until it has been looked at nobody has asked for the deltas before it.
UnsentIds == {a.id : a \in Unsent}
SentIds == {Down[i].deltas[1].id : i \in Updates}
TakenIds == {a.id : a \in Takers}
FreshIds == {a.id : a \in {b \in Takers : b.step \in Fresh}}
QueryIds == {Up[i].key[3] : i \in Queries}
ReplierIds == {a.id : a \in Repliers}
HistoryIds == {Down[i].key[3] : i \in Histories}

Once ==
    /\ \A a, b \in actors : a.kind \in Exchange /\ a.kind = b.kind /\ a.id = b.id => a = b
    /\ \A i, j \in Updates : Down[i].deltas[1].id = Down[j].deltas[1].id => i = j
    /\ \A i, j \in Queries : Up[i].key[3] = Up[j].key[3] => i = j
    /\ UnsentIds \cap SentIds = {}
    /\ (UnsentIds \cup SentIds) \cap TakenIds = {}
    /\ (UnsentIds \cup SentIds \cup FreshIds) \cap (QueryIds \cup ReplierIds \cup HistoryIds) = {}
    /\ QueryIds \cap ReplierIds = {}
    /\ QueryIds \cup ReplierIds \cup HistoryIds \subseteq CommittedIds

\* An actor has an event at most as long as it has not begun, and it has none
\* while it waits for a discovery.
Keys(s) == {events[s][i] : i \in DOMAIN events[s]}
DiscoAt(s, n) == \E b \in actors : b.kind = "Disco" /\ b.at = s /\ b.con = n

EventsTyped ==
    events = [s \in Servers |-> events[s]] /\ \A s \in Servers : IsSequence(events[s])

Queue ==
    /\ EventsTyped
    /\ \A s \in Servers : \A i, j \in DOMAIN events[s] :
          events[s][i] = events[s][j] /\ events[s][i][1] \in Exchange => i = j
    /\ \A s \in Servers : \A k \in Keys(s) : k[1] \in Exchange =>
          \E a \in actors : a.at = s /\ Key(a) = k /\ a.step \in Fresh
    /\ \A a \in actors : a.kind \in Exchange /\ a.step = "wait" /\ DiscoAt(a.at, a.con)
          => Key(a) \notin Keys(a.at)
    /\ \A a \in actors : a.kind = "Disco" => ~con[a.at][a.con].ready
    /\ IsFiniteSet(actors)

\* An update that will be sent to the copy: it has its event, or a discovery is
\* under way that may make its connection ready.
Going(u) ==
    /\ u \in Unsent /\ Key(u) \in Keys("host")
    /\ u.step = "wait" \/ con["host"][u.con].ready
    /\ con["host"][u.con].address = "component"

Coming(u) ==
    /\ u \in Unsent /\ DiscoAt("host", u.con)
    /\ route["host"]["component"] \in {NoConnection, u.con}

Hopeful == {u \in Unsent : Going(u) \/ Coming(u)}

After(u, d) == Pos(u.deltas[1]) > Pos(d)

Reaches == {i \in Updates : Down[i].to = "component"}

CopyFits ==
    /\ IsSequence(copy.hash) /\ copy.version = Len(copy.hash) /\ IsSequence(updates)
    /\ copy.version + Len(updates) <= Len(stored)
    /\ \A i \in 1..copy.version : copy.hash[i] = stored[i].id
    /\ \A i \in 1..Len(updates) : updates[i] = stored[copy.version + i]

\* One update at a time is looked at.
Alone ==
    /\ \A a, b \in Takers : a = b
    /\ \A a \in Takers : updates = <<>> /\ Pos(a.deltas[1]) >= copy.version

\* What is still to come the copy does not have.
Ahead ==
    /\ \A u \in Hopeful : Pos(u.deltas[1]) >= copy.version + Len(updates)
    /\ \A i \in Reaches : Pos(Down[i].deltas[1]) >= copy.version + Len(updates)

\* Only an update whose turn comes can be overtaken by a later one.
Overtakes(d) == \A u \in Hopeful : After(u, d) \/ Going(u)

SentOrder ==
    /\ \A i \in Reaches : Overtakes(Down[i].deltas[1])
    /\ \A a \in Takers : Overtakes(a.deltas[1])

\* The event of u is before that of h.
Before(u, h) ==
    \A i, j \in DOMAIN events["host"] :
        events["host"][i] = Key(u) /\ events["host"][j] = Key(h) => i < j

InTurn(u, h) == h.step = "new" /\ Going(u) /\ Before(u, h)

\* The deltas asked for, and that whatever the update has overtaken is sent
\* before them.
Asked1(a) ==
    \A i \in Queries : Up[i].key = Key(a) =>
        Up[i].start = copy.version /\ Up[i].end = Pos(a.deltas[1])

Asked2(a) ==
    \A h \in Repliers : h.request.key = Key(a) =>
        /\ h.request.start = copy.version /\ h.request.end = Pos(a.deltas[1])
        /\ \A u \in Hopeful : After(u, a.deltas[1]) \/ InTurn(u, h)

Asked3(a) ==
    \A i \in Histories : Down[i].key = Key(a) =>
        /\ Down[i].deltas = SubSeq(stored, copy.version + 1, Pos(a.deltas[1]))
        /\ \A j \in Reaches : i < j => After(Down[j], a.deltas[1])
        /\ \A u \in Hopeful : After(u, a.deltas[1])

HistoryOrder ==
    \A a \in Takers : a.step = "history" => Asked1(a) /\ Asked2(a) /\ Asked3(a)

\* Deltas have numbers.
IsSubmit(m) == m.kind = "submit" /\ m.reply = "none"

Submitted ==
    {a.deltas[1] : a \in {b \in actors : b.kind \in {"SubmitRequest", "SubmitResponse"}}}
    \cup {m.deltas[1] : m \in {x \in Stanzas("host") \cup Stanzas("copy") : IsSubmit(x)}}

Deltas == {stored[i] : i \in 1..Len(stored)} \cup Submitted

Numbered ==
    /\ made \in Nat
    /\ \A d \in Deltas : d.id \in 1..made /\ d.ops = 1
    /\ \A d, e \in Deltas : d.id = e.id => d = e

CleanInv ==
    /\ Traffic /\ HostHistory /\ Once /\ Queue
    /\ CopyFits /\ Alone /\ Ahead /\ SentOrder /\ HistoryOrder

ExchangeInv == AnswerInv /\ Numbered /\ (Clean => CleanInv)

-----------------------------------------------------------------------------
(* Parts of sequences.                                                      *)

LEMMA SequenceDomain ==
    ASSUME NEW q, IsSequence(q)
    PROVE  DOMAIN q = 1..Len(q) /\ Len(q) \in Nat
  BY LenProperties DEF IsSequence

\* The elements of q at the places T come from r, in the same order.
Thin(q, r, T) ==
    \E f \in [T -> DOMAIN r] :
        /\ \A i \in T : r[f[i]] = q[i]
        /\ \A i, j \in T : i < j => f[i] < f[j]

LEMMA ThinSame ==
    ASSUME NEW q, NEW T, T \subseteq DOMAIN q
    PROVE  Thin(q, q, T)
  <1> DEFINE f == [i \in T |-> i]
  <1>1. f \in [T -> DOMAIN q] /\ \A i \in T : f[i] = i
    OBVIOUS
  <1> HIDE DEF f
  <1> QED
    BY <1>1 DEF Thin

LEMMA ThinTail ==
    ASSUME NEW q, IsSequence(q), q # <<>>, NEW T, T \subseteq DOMAIN Tail(q)
    PROVE  Thin(Tail(q), q, T)
  <1>1. /\ Tail(q) \in Seq(ToSet(q)) /\ Len(Tail(q)) = Len(q) - 1 /\ Len(q) \in Nat
        /\ \A i \in 1..Len(Tail(q)) : Tail(q)[i] = q[i + 1]
        /\ DOMAIN q = 1..Len(q)
    BY HeadTailProperties DEF IsSequence
  <1>2. DOMAIN Tail(q) = 1..(Len(q) - 1)
    BY <1>1
  <1> DEFINE f == [i \in T |-> i + 1]
  <1>3. f \in [T -> DOMAIN q] /\ \A i \in T : f[i] = i + 1
    BY <1>1, <1>2
  <1>4. \A i \in T : q[f[i]] = Tail(q)[i]
    BY <1>1, <1>2, <1>3
  <1>5. \A i, j \in T : i < j => f[i] < f[j]
    BY <1>2, <1>3
  <1> HIDE DEF f
  <1> QED
    BY <1>3, <1>4, <1>5 DEF Thin

LEMMA ThinConcat ==
    ASSUME NEW S, NEW q \in Seq(S), NEW r \in Seq(S), NEW T, T \subseteq DOMAIN (q \o r),
           \A i \in T : i \notin (Len(q) + 1)..(Len(q) + Len(r))
    PROVE  Thin(q \o r, q, T)
  <1>1. /\ q \o r \in Seq(S) /\ Len(q \o r) = Len(q) + Len(r)
        /\ Len(q) \in Nat /\ Len(r) \in Nat
        /\ \A i \in 1..Len(q) : (q \o r)[i] = q[i]
        /\ DOMAIN q = 1..Len(q)
    BY ConcatProperties
  <1>2. T \subseteq 1..Len(q)
    BY <1>1
  <1> DEFINE f == [i \in T |-> i]
  <1>3. f \in [T -> DOMAIN q] /\ \A i \in T : f[i] = i
    BY <1>1, <1>2
  <1> HIDE DEF f
  <1> QED
    BY <1>1, <1>2, <1>3 DEF Thin

\* What is known of a longer sequence.
LEMMA Appended ==
    ASSUME NEW q, IsSequence(q), NEW m
    PROVE  /\ IsSequence(Append(q, m)) /\ Len(q) \in Nat /\ DOMAIN q = 1..Len(q)
           /\ DOMAIN Append(q, m) = 1..(Len(q) + 1) /\ Len(Append(q, m)) = Len(q) + 1
           /\ \A i \in 1..Len(q) : Append(q, m)[i] = q[i]
           /\ Append(q, m)[Len(q) + 1] = m
  <1>1. q \in Seq(ToSet(q) \cup {m})
    <2>1. q \in Seq(ToSet(q))
      BY DEF IsSequence
    <2> QED
      BY <2>1, SeqMonotonic
  <1>2. /\ Append(q, m) \in Seq(ToSet(q) \cup {m}) /\ Len(Append(q, m)) = Len(q) + 1
        /\ \A i \in 1..Len(q) : Append(q, m)[i] = q[i]
        /\ Append(q, m)[Len(q) + 1] = m /\ Len(q) \in Nat
    BY <1>1, AppendProperties, LenProperties
  <1>3. DOMAIN q = 1..Len(q) /\ DOMAIN Append(q, m) = 1..Len(Append(q, m))
    BY <1>1, <1>2, LenProperties
  <1> QED
    BY <1>2, <1>3, AppendToSet

LEMMA ThinAppend ==
    ASSUME NEW q, IsSequence(q), NEW m, NEW T, T \subseteq DOMAIN Append(q, m),
           Len(q) + 1 \notin T
    PROVE  Thin(Append(q, m), q, T)
  <1>1. /\ Len(q) \in Nat /\ DOMAIN q = 1..Len(q) /\ DOMAIN Append(q, m) = 1..(Len(q) + 1)
        /\ \A i \in 1..Len(q) : Append(q, m)[i] = q[i]
    BY Appended
  <1>2. T \subseteq 1..Len(q)
    BY <1>1
  <1> DEFINE f == [i \in T |-> i]
  <1>3. f \in [T -> DOMAIN q] /\ \A i \in T : f[i] = i
    BY <1>1, <1>2
  <1> HIDE DEF f
  <1> QED
    BY <1>1, <1>2, <1>3 DEF Thin

\* Wires, and what is under way on them.
Exchanged(q) == {i \in DOMAIN q : Matters(q[i])}

CalmWire(s) == Thin(wire'[s], wire[s], Exchanged(wire'[s]))

LEMMA WireTyped ==
    ASSUME NEW w, NEW Ids, HonestWires(w, Ids), NEW s \in Servers
    PROVE  IsSequence(w[s]) /\ Len(w[s]) \in Nat /\ DOMAIN w[s] = 1..Len(w[s])
  <1>1. PICK S : w[s] \in Seq(S)
    BY DEF HonestWires
  <1> QED
    BY <1>1, SequenceOfItsElements

LEMMA WiresTyped ==
    ASSUME AnswerInv
    PROVE  /\ wire = [s \in Servers |-> wire[s]]
           /\ \A s \in Servers : IsSequence(wire[s])
           /\ IsSequence(Down) /\ IsSequence(Up)
           /\ DOMAIN Down = 1..Len(Down) /\ DOMAIN Up = 1..Len(Up)
           /\ Len(Down) \in Nat /\ Len(Up) \in Nat
  BY WireTyped DEF AnswerInv, AnswersHonest, HonestWires, Servers, Down, Up

LEMMA NextWiresTyped ==
    ASSUME AnswerInv'
    PROVE  /\ DOMAIN Down' = 1..Len(Down)' /\ DOMAIN Up' = 1..Len(Up)'
           /\ Len(Down)' \in Nat /\ Len(Up)' \in Nat
  <1>1. HonestWires(wire', CommittedIds')
    BY DEF AnswerInv, AnswersHonest
  <1>2. \A s \in Servers : Len(wire'[s]) \in Nat /\ DOMAIN wire'[s] = 1..Len(wire'[s])
    BY <1>1, WireTyped
  <1> QED
    BY <1>2 DEF Down, Up, Servers

\* What a wire has been thinned to.
LEMMA SameWires ==
    ASSUME AnswerInv, wire' = wire
    PROVE  \A s \in Servers : CalmWire(s)
  BY ThinSame DEF CalmWire, Exchanged

LEMMA RestIsCalm ==
    ASSUME AnswerInv, NEW t \in Servers, wire[Peer(t)] # <<>>, wire' = Rest(t)
    PROVE  \A s \in Servers : CalmWire(s)
  <1>1. Peer(t) \in Servers
    BY PeerIsServer
  <1>2. /\ wire'[Peer(t)] = Tail(wire[Peer(t)])
        /\ \A s \in Servers : s # Peer(t) => wire'[s] = wire[s]
    BY <1>1, WiresTyped DEF Rest
  <1>3. \A s \in Servers : IsSequence(wire[s])
    BY WiresTyped
  <1>4. ASSUME NEW s \in Servers
        PROVE  Exchanged(wire'[s]) \subseteq DOMAIN wire'[s]
    BY DEF Exchanged
  <1>5. CalmWire(Peer(t))
    BY <1>1, <1>2, <1>3, <1>4, ThinTail DEF CalmWire
  <1>6. \A s \in Servers : s # Peer(t) => CalmWire(s)
    BY <1>2, <1>4, ThinSame DEF CalmWire
  <1> QED
    BY <1>5, <1>6

\* Another stanza on a wire that is as it was.
LEMMA CalmAppend ==
    ASSUME NEW q, IsSequence(q), NEW m, ~Matters(m)
    PROVE  Thin(Append(q, m), q, Exchanged(Append(q, m)))
  <1>1. Append(q, m)[Len(q) + 1] = m
    BY Appended
  <1>2. Len(q) + 1 \notin Exchanged(Append(q, m))
    BY <1>1 DEF Exchanged
  <1>3. Exchanged(Append(q, m)) \subseteq DOMAIN Append(q, m)
    BY DEF Exchanged
  <1> QED
    BY <1>2, <1>3, ThinAppend

\* A stanza that does not matter is sent.
LEMMA SentIsCalm ==
    ASSUME AnswerInv, NEW s \in Servers, NEW m, ~Matters(m), Send(s, m)
    PROVE  \A r \in Servers : CalmWire(r)
  <1>1. CASE wire' = wire
    BY <1>1, SameWires
  <1>2. CASE wire' = [wire EXCEPT ![s] = Append(@, m)]
    <2>1. /\ wire'[s] = Append(wire[s], m) /\ \A r \in Servers : r # s => wire'[r] = wire[r]
          /\ \A r \in Servers : IsSequence(wire[r])
      BY <1>2, WiresTyped
    <2>2. CalmWire(s)
      BY <2>1, CalmAppend DEF CalmWire
    <2>3. ASSUME NEW r \in Servers, r # s PROVE CalmWire(r)
      BY <2>1, <2>3, ThinSame DEF CalmWire, Exchanged
    <2> QED
      BY <2>2, <2>3
  <1> QED
    BY <1>1, <1>2 DEF Send, Sent

\* A stanza is read, and another that does not matter is sent the other way.
LEMMA ReadAndSentIsCalm ==
    ASSUME AnswerInv, NEW t \in Servers, wire[Peer(t)] # <<>>, NEW m, ~Matters(m),
           \/ wire' = Sent(t, Rest(t), m)
           \/ wire' = [Rest(t) EXCEPT ![t] = Append(@, m)]
    PROVE  \A s \in Servers : CalmWire(s)
  <1>1. CASE wire' = Rest(t)
    BY <1>1, RestIsCalm
  <1>2. CASE wire' = [Rest(t) EXCEPT ![t] = Append(@, m)]
    <2>1. Peer(t) \in Servers /\ Peer(t) # t /\ Servers = {t, Peer(t)}
      BY DEF Peer, Servers
    <2>2. /\ wire'[t] = Append(wire[t], m) /\ wire'[Peer(t)] = Tail(wire[Peer(t)])
          /\ \A r \in Servers : IsSequence(wire[r])
      BY <1>2, <2>1, WiresTyped DEF Rest
    <2>3. CalmWire(t)
      BY <2>2, CalmAppend DEF CalmWire
    <2>4. Exchanged(wire'[Peer(t)]) \subseteq DOMAIN wire'[Peer(t)]
      BY DEF Exchanged
    <2>5. CalmWire(Peer(t))
      BY <2>1, <2>2, <2>4, ThinTail DEF CalmWire
    <2> QED
      BY <2>1, <2>3, <2>5
  <1> QED
    BY <1>1, <1>2 DEF Sent

-----------------------------------------------------------------------------
(* Steps that take an actor on, or end some, and add nothing to what is     *)
(* under way.                                                               *)

\* The actor b as c.
Alike(b, c) ==
    /\ c.kind = b.kind /\ c.at = b.at /\ c.con = b.con /\ c.id = b.id
    /\ c.deltas = b.deltas /\ c.request = b.request
    /\ c.step \in Fresh => b.step \in Fresh
    /\ c.step = "new" => b.step = "new"
    /\ b \in actors /\ c.kind \in Exchange => c.step \in StepsOf[c.kind]
    /\ b \in actors /\ c.step = "query" => c.kind = "HistoryResponse"

\* Of the actors that matter, b goes on as c, and others may end.
Concerns(a) == a.kind \in Exchange \/ a.step = "query" \/ a.request.kind = "history"

Steps(b, c) ==
    /\ Alike(b, c)
    /\ \A a \in actors' : Concerns(a) => a \in actors \ {b} \/ (a = c /\ b \in actors)

LEMMA NobodySteps ==
    ASSUME \A a \in actors' : Concerns(a) => a \in actors, Traffic, NEW b
    PROVE  Steps(b, b)
  BY DEF Steps, Alike, Traffic

LEMMA TrafficKept ==
    ASSUME AnswerInv, Traffic, stored' = stored, NEW b, NEW c, Steps(b, c),
           \A s \in Servers : CalmWire(s)
    PROVE  Traffic'
  <1>1. \A q : CarriesOne(q) => CarriesOne(q)'
    BY DEF CarriesOne, InStore
  <1>2. ASSUME NEW a \in actors', a.kind \in Exchange
        PROVE  \E d \in actors : Alike(d, a)
    BY <1>2 DEF Steps, Alike, Concerns, Traffic
  <1>3. ASSUME NEW s \in Servers, NEW i \in DOMAIN wire'[s], Matters(wire'[s][i])
        PROVE  \E k \in DOMAIN wire[s] : wire[s][k] = wire'[s][i]
    BY <1>3 DEF CalmWire, Thin, Exchanged
  <1>4. /\ \A i \in DOMAIN Down' : Matters(Down'[i]) => \E k \in DOMAIN Down : Down[k] = Down'[i]
        /\ \A i \in DOMAIN Up' : Matters(Up'[i]) => \E k \in DOMAIN Up : Up[k] = Up'[i]
    BY <1>3 DEF Down, Up, Servers
  <1>5. /\ \A i \in Updates' : \E k \in Updates : Down[k] = Down'[i]
        /\ \A i \in Histories' : \E k \in Histories : Down[k] = Down'[i]
        /\ \A i \in Queries' : \E k \in Queries : Up[k] = Up'[i]
        /\ \A i \in DOMAIN Down' : ~IsQuery(Down'[i])
        /\ \A i \in DOMAIN Up' : ~IsUpdate(Up'[i])
    BY <1>4 DEF Updates, Histories, Queries, Matters, Traffic
  <1>6. \A a \in actors' : /\ a.kind \in Exchange => a.step \in StepsOf[a.kind]
                           /\ a.step = "query" \/ a.request.kind = "history" =>
                                a.kind = "HistoryResponse"
    BY DEF Steps, Alike, Concerns, Traffic
  <1>7. \A a \in OfKind("WaveletUpdate")' :
           a.at = "host" /\ CarriesOne(a.deltas)' /\ a.id = a.deltas[1].id
    BY <1>1, <1>2 DEF OfKind, Exchange, Alike, Traffic
  <1>8. \A a \in Takers' :
           a.at = "copy" /\ CarriesOne(a.deltas)' /\ a.id = a.deltas[1].id
    BY <1>1, <1>2 DEF OfKind, Takers, Exchange, Alike, Traffic
  <1>9. \A a \in Repliers' :
           a.at = "host" /\ a.request.key = AskKey(a.id) /\ a.request.kind = "history"
    BY <1>2 DEF OfKind, Repliers, Exchange, Alike, Traffic
  <1>10. ASSUME NEW i \in Updates'
         PROVE  (CarriesOne(Down[i].deltas) /\ Down[i].key = UpdateKey(Down[i].deltas[1].id))'
    <2>1. PICK k \in Updates : Down[k] = Down'[i]
      BY <1>5
    <2> QED
      BY <2>1 DEF Traffic, CarriesOne, InStore, UpdateKey
  <1>11. /\ \A i \in Histories' : Down'[i].key = AskKey(Down'[i].key[3])
         /\ \A i \in Queries' : Up'[i].key = AskKey(Up'[i].key[3])
    BY <1>5 DEF Traffic
  <1> QED
    BY <1>5, <1>6, <1>7, <1>8, <1>9, <1>10, <1>11 DEF Traffic

\* The numbers of deltas under way, and what is unique of them.
LEMMA IdsOfActors ==
    ASSUME Once, NEW b, NEW c, Steps(b, c)
    PROVE  /\ UnsentIds' \subseteq UnsentIds /\ TakenIds' \subseteq TakenIds
           /\ FreshIds' \subseteq FreshIds /\ ReplierIds' \subseteq ReplierIds
           /\ \A a, d \in actors' : a.kind \in Exchange /\ a.kind = d.kind /\ a.id = d.id => a = d
  <1>1. /\ UnsentIds' \subseteq UnsentIds /\ TakenIds' \subseteq TakenIds
        /\ FreshIds' \subseteq FreshIds /\ ReplierIds' \subseteq ReplierIds
    <2>1. \A a \in actors' : a.kind \in Exchange => \E d \in actors :
             d.kind = a.kind /\ d.id = a.id /\ (a.step \in Fresh => d.step \in Fresh)
      BY DEF Steps, Alike, Concerns
    <2> QED
      BY <2>1 DEF UnsentIds, Unsent, TakenIds, FreshIds, ReplierIds, Takers, Repliers, OfKind,
                  Exchange
  <1>2. \A a, d \in actors' : a.kind \in Exchange /\ a.kind = d.kind /\ a.id = d.id => a = d
    BY DEF Steps, Alike, Concerns, Once
  <1> QED
    BY <1>1, <1>2

LEMMA IdsOfDown ==
    ASSUME AnswerInv, AnswerInv', Once, CalmWire("host")
    PROVE  /\ SentIds' \subseteq SentIds /\ HistoryIds' \subseteq HistoryIds
           /\ \A i, j \in Updates' : Down'[i].deltas[1].id = Down'[j].deltas[1].id => i = j
  <1>1. PICK f \in [Exchanged(Down') -> DOMAIN Down] :
           /\ \A i \in Exchanged(Down') : Down[f[i]] = Down'[i]
           /\ \A i, j \in Exchanged(Down') : i < j => f[i] < f[j]
    BY DEF CalmWire, Thin, Down
  <1>2. Updates' \subseteq Exchanged(Down') /\ Histories' \subseteq Exchanged(Down')
    BY DEF Updates, Histories, Exchanged, Matters
  <1>3. /\ \A i \in Updates' : f[i] \in Updates /\ Down[f[i]] = Down'[i]
        /\ \A i \in Histories' : f[i] \in Histories /\ Down[f[i]] = Down'[i]
    BY <1>1, <1>2 DEF Updates, Histories
  <1>4. ASSUME NEW i \in Updates', NEW j \in Updates', f[i] = f[j] PROVE i = j
    <2>1. i \in Nat /\ j \in Nat /\ f[i] \in Nat /\ f[j] \in Nat
      BY <1>3, WiresTyped, NextWiresTyped DEF Updates
    <2>2. ~(i < j) /\ ~(j < i)
      BY <1>1, <1>2, <1>4, <2>1
    <2> QED
      BY <2>1, <2>2
  <1>5. SentIds' \subseteq SentIds /\ HistoryIds' \subseteq HistoryIds
    BY <1>3 DEF SentIds, HistoryIds
  <1>6. \A i, j \in Updates' : Down'[i].deltas[1].id = Down'[j].deltas[1].id => i = j
    BY <1>3, <1>4 DEF Once
  <1> QED
    BY <1>5, <1>6

LEMMA IdsOfUp ==
    ASSUME AnswerInv, AnswerInv', Once, CalmWire("copy")
    PROVE  /\ QueryIds' \subseteq QueryIds
           /\ \A i, j \in Queries' : Up'[i].key[3] = Up'[j].key[3] => i = j
  <1>1. PICK f \in [Exchanged(Up') -> DOMAIN Up] :
           /\ \A i \in Exchanged(Up') : Up[f[i]] = Up'[i]
           /\ \A i, j \in Exchanged(Up') : i < j => f[i] < f[j]
    BY DEF CalmWire, Thin, Up
  <1>2. Queries' \subseteq Exchanged(Up')
    BY DEF Queries, Exchanged, Matters
  <1>3. \A i \in Queries' : f[i] \in Queries /\ Up[f[i]] = Up'[i]
    BY <1>1, <1>2 DEF Queries
  <1>4. ASSUME NEW i \in Queries', NEW j \in Queries', f[i] = f[j] PROVE i = j
    <2>1. i \in Nat /\ j \in Nat /\ f[i] \in Nat /\ f[j] \in Nat
      BY <1>3, WiresTyped, NextWiresTyped DEF Queries
    <2>2. ~(i < j) /\ ~(j < i)
      BY <1>1, <1>2, <1>4, <2>1
    <2> QED
      BY <2>1, <2>2
  <1>5. QueryIds' \subseteq QueryIds
    BY <1>3 DEF QueryIds
  <1>6. \A i, j \in Queries' : Up'[i].key[3] = Up'[j].key[3] => i = j
    BY <1>3, <1>4 DEF Once
  <1> QED
    BY <1>5, <1>6

LEMMA OnceKept ==
    ASSUME AnswerInv, AnswerInv', Once, stored' = stored, NEW b, NEW c, Steps(b, c),
           \A s \in Servers : CalmWire(s)
    PROVE  Once'
  <1>1. CommittedIds' = CommittedIds
    BY DEF CommittedIds
  <1> QED
    BY <1>1, IdsOfActors, IdsOfDown, IdsOfUp DEF Once, Servers

-----------------------------------------------------------------------------
(* The events, and what may still be sent.                                  *)

LEMMA KeyOf ==
    ASSUME NEW a
    PROVE  Key(a)[1] = a.kind /\ Key(a)[2] = a.at /\ Key(a)[3] = a.id
  BY DEF Key

\* No step makes a connection ready, or gives its routes away.
LinksCalm ==
    \A s \in Servers, n \in Names : con[s][n].address # NoConnection =>
        /\ con'[s][n].ready => con[s][n].ready
        /\ con'[s][n].address = "component" => con[s][n].address = "component" \/ DiscoAt(s, n)
        /\ DiscoAt(s, n)' =>
              /\ DiscoAt(s, n)
              /\ route'[s]["component"] \in {NoConnection, n} =>
                    route[s]["component"] \in {NoConnection, n}

\* A new discovery is of a connection that is not ready.
DiscosNotReady ==
    \A a \in actors' : a.kind = "Disco" =>
        \/ \E b \in actors : b.kind = "Disco" /\ b.at = a.at /\ b.con = a.con
        \/ ~con'[a.at][a.con].ready

HopeKept ==
    \A v \in Hopeful' : \E u \in Hopeful :
        u.deltas = v.deltas /\ Key(u) = Key(v) /\ (Going(u) => Going(v)')

LEMMA Exclusive ==
    ASSUME Queue, Traffic, NEW u, Going(u)
    PROVE  ~DiscoAt("host", u.con)
  <1>1. u \in actors /\ u.kind = "WaveletUpdate" /\ u.step \in Fresh
    BY DEF Going, Unsent, OfKind
  <1>2. u.at = "host" /\ u.kind \in Exchange
    BY <1>1 DEF Traffic, OfKind, Exchange
  <1>3. ASSUME DiscoAt("host", u.con) PROVE FALSE
    <2>1. u.step # "wait"
      BY <1>1, <1>2, <1>3 DEF Queue, Going
    <2>2. con["host"][u.con].ready
      BY <2>1 DEF Going
    <2> QED
      BY <1>3, <2>2 DEF Queue, DiscoAt
  <1> QED
    BY <1>3

LEMMA ActorLinked ==
    ASSUME LinkInv, NEW a \in actors
    PROVE  a.at \in Servers /\ a.con \in Names /\ con[a.at][a.con].address # NoConnection
  BY ActorTyped DEF LinkInv, LeadsSomewhere, Address

\* Whoever may be sent after a step could be sent before it.
LEMMA HopeOf ==
    ASSUME LinkInv, Queue, Traffic, LinksCalm, NEW v \in Hopeful', NEW u \in Unsent,
           u.con = v.con, u.deltas = v.deltas, Key(u) = Key(v),
           v.step = "new" => u.step = "new",
           v.step = "wait" /\ Key(v) \in Keys("host")' => u.step = "wait",
           Key(u) \in Keys("host")' => Key(u) \in Keys("host")
    PROVE  u \in Hopeful /\ (Going(u) => Going(v)')
  <1>1. v \in Unsent' /\ (Going(v)' \/ Coming(v)')
    BY DEF Hopeful
  <1>2. /\ u.con = v.con /\ u.deltas = v.deltas /\ Key(u) = Key(v)
        /\ v.step = "new" => u.step = "new"
        /\ v.step = "wait" /\ Key(v) \in Keys("host")' => u.step = "wait"
    OBVIOUS
  <1>3. u \in actors /\ u.at = "host" /\ u.kind \in Exchange /\ u.step \in Fresh
    BY DEF Unsent, OfKind, Traffic, Exchange
  <1>4. "host" \in Servers /\ u.con \in Names /\ con["host"][u.con].address # NoConnection
    BY <1>3, ActorLinked
  <1>5. /\ con'["host"][u.con].ready => con["host"][u.con].ready
        /\ con'["host"][u.con].address = "component" =>
              con["host"][u.con].address = "component" \/ DiscoAt("host", u.con)
        /\ DiscoAt("host", u.con)' =>
              /\ DiscoAt("host", u.con)
              /\ route'["host"]["component"] \in {NoConnection, u.con} =>
                    route["host"]["component"] \in {NoConnection, u.con}
    BY <1>4 DEF LinksCalm
  <1>6. CASE Going(v)'
    <2>1. /\ Key(v) \in Keys("host")' /\ v.step \in Fresh
          /\ v.step = "wait" \/ con'["host"][v.con].ready
          /\ con'["host"][v.con].address = "component"
      BY <1>6 DEF Going, Unsent
    <2>2. Key(u) \in Keys("host") /\ (u.step = "wait" \/ con["host"][u.con].ready)
      BY <1>2, <1>5, <2>1 DEF Fresh
    <2>3. ~DiscoAt("host", u.con)
      <3>1. ASSUME DiscoAt("host", u.con) PROVE FALSE
        <4>1. u.step # "wait"
          BY <1>3, <2>2, <3>1 DEF Queue
        <4> QED
          BY <2>2, <3>1, <4>1 DEF Queue, DiscoAt
      <3> QED
        BY <3>1
    <2>4. Going(u)
      BY <1>2, <1>5, <2>1, <2>2, <2>3 DEF Going
    <2> QED
      BY <1>2, <1>6, <2>4 DEF Hopeful
  <1>7. CASE Coming(v)'
    <2>1. DiscoAt("host", v.con)' /\ route'["host"]["component"] \in {NoConnection, v.con}
      BY <1>7 DEF Coming
    <2>2. Coming(u) /\ DiscoAt("host", u.con)
      BY <1>2, <1>5, <2>1 DEF Coming
    <2> QED
      BY <1>2, <2>2, Exclusive DEF Hopeful
  <1> QED
    BY <1>1, <1>6, <1>7

LEMMA HopeIsKept ==
    ASSUME LinkInv, Queue, Traffic, LinksCalm,
           \A v \in Unsent' : \E u \in Unsent :
                /\ u.con = v.con /\ u.deltas = v.deltas /\ Key(u) = Key(v)
                /\ v.step = "new" => u.step = "new"
                /\ v.step = "wait" /\ Key(v) \in Keys("host")' => u.step = "wait",
           \A u \in Unsent : Key(u) \in Keys("host")' => Key(u) \in Keys("host")
    PROVE  HopeKept
  <1> SUFFICES ASSUME NEW v \in Hopeful'
               PROVE  \E u \in Hopeful : /\ u.deltas = v.deltas /\ Key(u) = Key(v)
                                         /\ Going(u) => Going(v)'
    BY DEF HopeKept
  <1>1. v \in Unsent'
    BY DEF Hopeful
  <1>2. PICK u \in Unsent :
           /\ u.con = v.con /\ u.deltas = v.deltas /\ Key(u) = Key(v)
           /\ v.step = "new" => u.step = "new"
           /\ v.step = "wait" /\ Key(v) \in Keys("host")' => u.step = "wait"
    BY <1>1
  <1>3. Key(u) \in Keys("host")' => Key(u) \in Keys("host")
    OBVIOUS
  <1>4. u \in Hopeful /\ (Going(u) => Going(v)')
    BY <1>2, <1>3, HopeOf
  <1> QED
    BY <1>2, <1>4

\* The events of the actors that bring deltas come from those there were.
CalmKeys(s) ==
    Thin(events'[s], events[s], {i \in DOMAIN events'[s] : events'[s][i][1] \in Exchange})

LEMMA KeysShrink ==
    ASSUME NEW s, CalmKeys(s), NEW k \in Keys(s)', k[1] \in Exchange
    PROVE  k \in Keys(s)
  BY DEF CalmKeys, Thin, Keys

\* Whoever goes on does it without an event that is still to come, and others stay
\* unless their server has no events any more.
Stays(b) ==
    /\ \A a \in actors \ {b} : a \in actors' \/ Keys(a.at)' = {}
    /\ b \in actors /\ b.kind \in Exchange /\ b.step \in Fresh => Key(b) \notin Keys(b.at)'

LEMMA HopeOfSteps ==
    ASSUME LinkInv, Queue, Traffic, LinksCalm, CalmKeys("host"),
           NEW b, NEW c, Steps(b, c), Stays(b)
    PROVE  HopeKept
  <1>1. ASSUME NEW v \in Unsent'
        PROVE  \E u \in Unsent :
                /\ u.con = v.con /\ u.deltas = v.deltas /\ Key(u) = Key(v)
                /\ v.step = "new" => u.step = "new"
                /\ v.step = "wait" /\ Key(v) \in Keys("host")' => u.step = "wait"
    <2>1. v \in actors' /\ v.kind = "WaveletUpdate" /\ v.step \in Fresh /\ v.kind \in Exchange
      BY DEF Unsent, OfKind, Exchange
    <2>2. CASE v \in actors
      BY <2>1, <2>2 DEF Unsent, OfKind
    <2>3. CASE v = c /\ b \in actors
      <3>1. /\ b.kind = "WaveletUpdate" /\ b.step \in Fresh /\ b \in Unsent
            /\ b.con = v.con /\ b.deltas = v.deltas /\ Key(b) = Key(v)
            /\ v.step = "new" => b.step = "new"
        BY <2>1, <2>3 DEF Steps, Alike, Unsent, OfKind, Key
      <3>2. b.at = "host"
        BY <3>1 DEF Traffic, Unsent
      <3>3. Key(b) \notin Keys("host")'
        BY <2>1, <2>3, <3>1, <3>2 DEF Stays
      <3> QED
        BY <3>1, <3>3
    <2> QED
      BY <2>1, <2>2, <2>3 DEF Steps, Concerns
  <1>2. ASSUME NEW u \in Unsent, Key(u) \in Keys("host")' PROVE Key(u) \in Keys("host")
    <2>1. Key(u)[1] \in Exchange
      BY KeyOf DEF Unsent, OfKind, Exchange
    <2> QED
      BY <1>2, <2>1, KeysShrink
  <1> QED
    BY <1>1, <1>2, HopeIsKept

LEMMA QueueKept ==
    ASSUME LinkInv, Queue, Traffic, LinksCalm, DiscosNotReady, EventsTyped',
           \A s \in Servers : CalmKeys(s), IsFiniteSet(actors'),
           NEW b, NEW c, Steps(b, c), Stays(b)
    PROVE  Queue'
  <1>1. ASSUME NEW s \in Servers, NEW i \in DOMAIN events'[s], NEW j \in DOMAIN events'[s],
               events'[s][i] = events'[s][j], events'[s][i][1] \in Exchange
        PROVE  i = j
    <2> DEFINE T == {n \in DOMAIN events'[s] : events'[s][n][1] \in Exchange}
    <2>1. PICK f \in [T -> DOMAIN events[s]] :
             /\ \A n \in T : events[s][f[n]] = events'[s][n]
             /\ \A m, n \in T : m < n => f[m] < f[n]
      BY DEF CalmKeys, Thin
    <2>2. i \in T /\ j \in T
      BY <1>1
    <2>3. f[i] = f[j]
      BY <1>1, <2>1, <2>2 DEF Queue
    <2>4. i \in Nat /\ j \in Nat /\ f[i] \in Nat
      <3>1. DOMAIN events[s] \subseteq Nat /\ DOMAIN events'[s] \subseteq Nat
        BY <1>1, SequenceDomain DEF Queue, EventsTyped
      <3> QED
        BY <2>1, <2>2, <3>1
    <2> HIDE DEF T
    <2> QED
      BY <2>1, <2>2, <2>3, <2>4
  <1>2. ASSUME NEW s \in Servers, NEW k \in Keys(s)', k[1] \in Exchange
        PROVE  \E a \in actors' : a.at = s /\ Key(a) = k /\ a.step \in Fresh
    <2>1. k \in Keys(s)
      BY <1>2, KeysShrink
    <2>2. PICK a \in actors : a.at = s /\ Key(a) = k /\ a.step \in Fresh
      BY <1>2, <2>1 DEF Queue
    <2>3. a.kind \in Exchange
      BY <1>2, <2>2, KeyOf
    <2>4. a # b
      BY <2>2, <2>3 DEF Stays
    <2> QED
      BY <2>2, <2>4 DEF Stays
  <1>3. ASSUME NEW a \in actors', a.kind \in Exchange, a.step = "wait", DiscoAt(a.at, a.con)'
        PROVE  Key(a) \notin Keys(a.at)'
    <2>1. CASE a \in actors \ {b}
      <3>1. DiscoAt(a.at, a.con)
        BY <1>3, <2>1, ActorLinked DEF LinksCalm
      <3>2. Key(a) \notin Keys(a.at)
        BY <1>3, <2>1, <3>1 DEF Queue
      <3>3. Key(a)[1] \in Exchange /\ a.at \in Servers
        BY <1>3, <2>1, KeyOf, ActorLinked
      <3> QED
        BY <3>2, <3>3, KeysShrink
    <2>2. CASE a = c /\ b \in actors
      <3>1. b.kind \in Exchange /\ b.step \in Fresh /\ Key(a) = Key(b) /\ a.at = b.at
        BY <1>3, <2>2 DEF Steps, Alike, Fresh, Key
      <3> QED
        BY <2>2, <3>1 DEF Stays
    <2> QED
      BY <1>3, <2>1, <2>2 DEF Steps, Concerns
  <1>4. ASSUME NEW a \in actors', a.kind = "Disco"
        PROVE  ~con'[a.at][a.con].ready
    <2>1. CASE \E d \in actors : d.kind = "Disco" /\ d.at = a.at /\ d.con = a.con
      BY <2>1, ActorLinked DEF LinksCalm, Queue
    <2> QED
      BY <1>4, <2>1 DEF DiscosNotReady
  <1> QED
    BY <1>1, <1>2, <1>3, <1>4 DEF Queue

\* Events that are run, and events that are posted.
LEMMA EventsSame ==
    ASSUME Queue, events' = events
    PROVE  EventsTyped' /\ \A s \in Servers : CalmKeys(s)
  BY ThinSame DEF Queue, EventsTyped, CalmKeys

LEMMA EventsRun ==
    ASSUME Queue, NEW a, Runs(a), a.at \in Servers
    PROVE  /\ EventsTyped' /\ \A s \in Servers : CalmKeys(s)
           /\ a.kind \in Exchange => Key(a) \notin Keys(a.at)'
           /\ Key(a) \in Keys(a.at) /\ events[a.at][1] = Key(a) /\ 1 \in DOMAIN events[a.at]
  <1> DEFINE q == events[a.at]
  <1>1. /\ q # <<>> /\ Key(a) = Head(q) /\ IsSequence(q)
        /\ events' = [events EXCEPT ![a.at] = Tail(q)] /\ events = [s \in Servers |-> events[s]]
    BY DEF Runs, Queue, EventsTyped
  <1> HIDE DEF q
  <1>2. events'[a.at] = Tail(q) /\ \A s \in Servers : s # a.at => events'[s] = events[s]
    BY <1>1
  <1>3. /\ DOMAIN q = 1..Len(q) /\ Len(q) \in Nat /\ Len(q) # 0 /\ q[1] = Head(q)
        /\ DOMAIN Tail(q) = 1..(Len(q) - 1) /\ IsSequence(Tail(q))
        /\ \A i \in 1..(Len(q) - 1) : Tail(q)[i] = q[i + 1]
    <2>1. q \in Seq(ToSet(q))
      BY <1>1 DEF IsSequence
    <2>2. /\ Tail(q) \in Seq(ToSet(q)) /\ Len(Tail(q)) = Len(q) - 1 /\ Len(q) \in Nat
          /\ \A i \in 1..Len(Tail(q)) : Tail(q)[i] = q[i + 1]
          /\ Len(q) # 0 /\ q[1] = Head(q)
      BY <1>1, <2>1, HeadTailProperties
    <2>3. DOMAIN q = 1..Len(q) /\ DOMAIN Tail(q) = 1..Len(Tail(q))
      BY <2>1, <2>2, LenProperties
    <2> QED
      BY <2>2, <2>3, SequenceOfItsElements
  <1>4. EventsTyped'
    BY <1>1, <1>2, <1>3 DEF Queue, EventsTyped
  <1>5. ASSUME NEW s \in Servers PROVE CalmKeys(s)
    <2>1. CASE s = a.at
      BY <1>1, <1>2, <2>1, ThinTail DEF CalmKeys, q
    <2>2. CASE s # a.at
      BY <1>2, <2>2, ThinSame DEF CalmKeys
    <2> QED
      BY <2>1, <2>2
  <1>6. ASSUME a.kind \in Exchange, Key(a) \in Keys(a.at)' PROVE FALSE
    <2>1. PICK i \in DOMAIN Tail(q) : Tail(q)[i] = Key(a)
      BY <1>2, <1>6 DEF Keys
    <2>2. i + 1 \in DOMAIN q /\ q[i + 1] = q[1] /\ 1 \in DOMAIN q /\ q[1][1] \in Exchange
      BY <1>1, <1>3, <1>6, <2>1, KeyOf
    <2>3. i + 1 = 1
      BY <2>2 DEF Queue, q
    <2> QED
      BY <1>3, <2>1, <2>3
  <1> QED
    BY <1>1, <1>3, <1>4, <1>5, <1>6 DEF Keys, q

LEMMA EventsMore ==
    ASSUME Queue, NEW s \in Servers, NEW q, IsSequence(q),
           \A i \in DOMAIN q : q[i][1] \notin Exchange,
           events' = [events EXCEPT ![s] = @ \o q]
    PROVE  EventsTyped' /\ \A r \in Servers : CalmKeys(r)
  <1> DEFINE p == events[s]
             T == ToSet(p) \cup ToSet(q)
  <1>1. IsSequence(p) /\ events = [r \in Servers |-> events[r]]
    BY DEF Queue, EventsTyped
  <1>2. p \in Seq(T) /\ q \in Seq(T)
    BY <1>1, SeqMonotonic DEF IsSequence
  <1>3. /\ p \o q \in Seq(T) /\ Len(p \o q) = Len(p) + Len(q) /\ Len(p) \in Nat /\ Len(q) \in Nat
        /\ \A i \in 1..Len(q) : (p \o q)[Len(p) + i] = q[i]
        /\ DOMAIN q = 1..Len(q)
    BY <1>2, ConcatProperties, LenProperties
  <1>4. events'[s] = p \o q /\ \A r \in Servers : r # s => events'[r] = events[r]
    BY <1>1
  <1> HIDE DEF p, T
  <1>5. EventsTyped'
    BY <1>1, <1>3, <1>4, SequenceOfItsElements DEF Queue, EventsTyped
  <1>6. ASSUME NEW i \in DOMAIN (p \o q), (p \o q)[i][1] \in Exchange
        PROVE  i \notin (Len(p) + 1)..(Len(p) + Len(q))
    <2>1. ASSUME i \in (Len(p) + 1)..(Len(p) + Len(q)) PROVE FALSE
      <3>1. i - Len(p) \in 1..Len(q) /\ i = Len(p) + (i - Len(p))
        BY <1>3, <2>1
      <3>2. (p \o q)[i] = q[i - Len(p)]
        BY <1>3, <3>1
      <3> QED
        BY <1>3, <1>6, <3>1, <3>2
    <2> QED
      BY <2>1
  <1>7. CalmKeys(s)
    <2> DEFINE R == {i \in DOMAIN (p \o q) : (p \o q)[i][1] \in Exchange}
    <2>1. R \subseteq DOMAIN (p \o q) /\ \A i \in R : i \notin (Len(p) + 1)..(Len(p) + Len(q))
      BY <1>6
    <2>2. Thin(p \o q, p, R)
      BY <1>2, <2>1, ThinConcat
    <2> QED
      BY <1>4, <2>2 DEF CalmKeys, p
  <1>8. \A r \in Servers : r # s => CalmKeys(r)
    BY <1>4, ThinSame DEF CalmKeys
  <1> QED
    BY <1>5, <1>7, <1>8

-----------------------------------------------------------------------------
(* The links.                                                               *)

\* No new discovery.
SameDiscos ==
    \A a \in actors' : a.kind = "Disco" =>
        \E b \in actors : b.kind = "Disco" /\ b.at = a.at /\ b.con = a.con

LEMMA KeptLinksAreCalm ==
    ASSUME KeepsLinks, SameDiscos
    PROVE  LinksCalm /\ DiscosNotReady
  BY DEF KeepsLinks, SameDiscos, LinksCalm, DiscosNotReady, DiscoAt

LEMMA GotLinksAreCalm ==
    ASSUME LinkInv, NEW s \in Servers, NEW name \in Names, NEW resolve \in BOOLEAN,
           Gets(s, name, resolve), SameDiscos
    PROVE  LinksCalm /\ DiscosNotReady
  <1>1. /\ \A r \in Servers, n \in Names : con[r][n].address # NoConnection =>
                                             con'[r][n] = con[r][n]
        /\ \A r \in Servers, n \in Names : route[r][n] # NoConnection =>
                                             route'[r][n] = route[r][n]
    BY GetsConnection
  <1> QED
    BY <1>1 DEF SameDiscos, LinksCalm, DiscosNotReady, DiscoAt, Names

LEMMA DroppedLinksAreCalm ==
    ASSUME LinkInv, NEW s \in Servers, Restarts(s)
    PROVE  LinksCalm /\ DiscosNotReady
  <1>1. /\ con' = [con EXCEPT ![s] = [n \in Names |-> NotThere]]
        /\ route' = [route EXCEPT ![s] = [n \in Names |-> NoConnection]]
        /\ actors' = {a \in actors : a.at # s}
        /\ con \in [Servers -> [Names -> Connections]]
        /\ route \in [Servers -> [Names -> Names \cup {NoConnection}]]
    BY DEF Restarts, LinkInv, LinkTypeOK
  <1>2. /\ \A r \in Servers : r # s => con'[r] = con[r] /\ route'[r] = route[r]
        /\ \A n \in Names : ~con'[s][n].ready /\ con'[s][n].address = NoConnection
    BY <1>1 DEF NotThere
  <1>3. ~\E n : DiscoAt(s, n)'
    BY <1>1 DEF DiscoAt
  <1>4. \A r, n : DiscoAt(r, n)' => DiscoAt(r, n)
    BY <1>1 DEF DiscoAt
  <1>5. LinksCalm
    <2> SUFFICES ASSUME NEW r \in Servers, NEW n \in Names
                 PROVE  /\ con'[r][n].ready => con[r][n].ready
                        /\ con'[r][n].address = "component" => con[r][n].address = "component"
                        /\ DiscoAt(r, n)' =>
                              /\ DiscoAt(r, n)
                              /\ route'[r]["component"] \in {NoConnection, n} =>
                                    route[r]["component"] \in {NoConnection, n}
      BY DEF LinksCalm
    <2> QED
      BY <1>2, <1>3, <1>4, FederationAssumption
  <1> QED
    BY <1>1, <1>5 DEF DiscosNotReady

LEMMA ItemsLinksAreCalm ==
    ASSUME LinkInv, NEW t \in Servers, NEW a, DiscoGetsItems(t, a)
    PROVE  LinksCalm /\ DiscosNotReady
  <1> USE FederationAssumption DEF Names
  <1>1. a \in actors /\ a.at = t /\ a.step = "items" /\ IsActor(a)
    BY AnswersFor, ActorTyped DEF DiscoGetsItems
  <1>2. /\ a.kind = "Disco" /\ a.con = "domain" /\ con[t]["domain"].address = "domain"
    BY <1>1, DiscoveryOf DEF Discovers, Address
  <1>3. /\ con \in [Servers -> [Names -> Connections]]
        /\ route \in [Servers -> [Names -> Names \cup {NoConnection}]]
    BY DEF LinkInv, LinkTypeOK
  <1>4. con' = [con EXCEPT ![t]["domain"].address = "component"] /\ route' = Renamed(t, "domain")
    BY <1>2 DEF DiscoGetsItems
  <1>5. /\ \A r \in Servers, n \in Names : r # t \/ n # "domain" => con'[r][n] = con[r][n]
        /\ con'[t]["domain"].ready = con[t]["domain"].ready
    <2>1. con'[t]["domain"] = [con[t]["domain"] EXCEPT !.address = "component"]
      BY <1>3, <1>4
    <2>2. \A x \in Connections : [x EXCEPT !.address = "component"].ready = x.ready
      BY DEF Connections
    <2> QED
      BY <1>3, <1>4, <2>1, <2>2
  <1>6. \A r \in Servers : route[r]["component"] # NoConnection =>
            route'[r]["component"] = route[r]["component"]
    BY <1>2, <1>3, <1>4 DEF Renamed
  <1>7. DiscoAt(t, "domain")
    BY <1>1, <1>2 DEF DiscoAt
  <1>8. SameDiscos
    <2>1. actors' = (actors \ {a}) \cup {[a EXCEPT !.step = "info"]}
      BY DEF DiscoGetsItems, Become
    <2>2. [a EXCEPT !.step = "info"].at = a.at /\ [a EXCEPT !.step = "info"].con = a.con
      BY <1>1 DEF IsActor
    <2> QED
      BY <1>1, <1>2, <2>1, <2>2 DEF SameDiscos
  <1> QED
    BY <1>5, <1>6, <1>7, <1>8 DEF SameDiscos, LinksCalm, DiscosNotReady, DiscoAt

-----------------------------------------------------------------------------
(* The places of the deltas in the history.                                 *)

LEMMA Placed ==
    ASSUME HostHistory, NEW d, InStore(d)
    PROVE  /\ Pos(d) \in Nat /\ Pos(d) < Len(stored) /\ Len(stored) \in Nat
           /\ Pos(d) + 1 \in 1..Len(stored) /\ stored[Pos(d) + 1] = d
  <1>1. PICK i \in 1..Len(stored) : stored[i] = d
    BY DEF InStore
  <1>2. stored[i].base = [version |-> i - 1, hash |-> SubSeq(wavelet.hash, 1, i - 1)]
    BY DEF HostHistory
  <1>3. Pos(d) = i - 1
    BY <1>1, <1>2 DEF Pos
  <1>4. Len(stored) \in Nat
    BY SequenceDomain DEF HostHistory
  <1> QED
    BY <1>1, <1>3, <1>4

LEMMA HopefulIsPlaced ==
    ASSUME Traffic, HostHistory, NEW u \in Hopeful
    PROVE  /\ u \in Unsent /\ u \in actors /\ u.at = "host" /\ u.kind = "WaveletUpdate"
           /\ InStore(u.deltas[1]) /\ Pos(u.deltas[1]) \in Nat /\ u.id = u.deltas[1].id
           /\ u.deltas = <<u.deltas[1]>>
  <1>1. u \in OfKind("WaveletUpdate") /\ u \in Unsent
    BY DEF Hopeful, Unsent
  <1>2. CarriesOne(u.deltas) /\ u.at = "host" /\ u.id = u.deltas[1].id
    BY <1>1 DEF Traffic
  <1> QED
    BY <1>1, <1>2, Placed DEF CarriesOne, OfKind

LEMMA SentIsPlaced ==
    ASSUME Traffic, HostHistory, NEW i \in Updates
    PROVE  InStore(Down[i].deltas[1]) /\ Pos(Down[i].deltas[1]) \in Nat
           /\ Down[i].deltas = <<Down[i].deltas[1]>>
  BY Placed DEF Traffic, CarriesOne

LEMMA TakenIsPlaced ==
    ASSUME Traffic, HostHistory, NEW a \in Takers
    PROVE  /\ InStore(a.deltas[1]) /\ Pos(a.deltas[1]) \in Nat /\ a.id = a.deltas[1].id
           /\ a.at = "copy" /\ Key(a) = AskKey(a.id) /\ a.deltas = <<a.deltas[1]>>
  BY Placed DEF Traffic, CarriesOne, Takers, OfKind, Key, AskKey

-----------------------------------------------------------------------------
(* What is under way stays in order when nothing is added to it.            *)

TurnsKept ==
    \A h \in Repliers, k \in Repliers', u \in Hopeful, v \in Hopeful' :
        Key(h) = Key(k) /\ Key(u) = Key(v) /\ InTurn(u, h) => k.step = "new" /\ Before(v, k)'

\* The copy is as it was, but what is on its way to it may be lost.
CopySame ==
    /\ copy' = copy
    /\ updates' = updates \/ (updates' = <<>> /\ Takers' = {})

LEMMA KeyAlike ==
    ASSUME NEW a, NEW b, a.kind = b.kind, a.at = b.at, a.id = b.id
    PROVE  Key(a) = Key(b)
  BY DEF Key

LEMMA SomebodyAlike ==
    ASSUME NEW b, NEW c, Steps(b, c), NEW a \in actors', Concerns(a)
    PROVE  \E d \in actors : Alike(d, a) \/ d = a
  BY DEF Steps, Concerns

LEMMA TakersKept ==
    ASSUME NEW b, NEW c, Steps(b, c), NEW a \in Takers'
    PROVE  \E d \in Takers : /\ d.deltas = a.deltas /\ Key(d) = Key(a)
                             /\ a.step \in Fresh => d.step \in Fresh
  <1>1. PICK d \in actors : Alike(d, a) \/ d = a
    BY SomebodyAlike DEF Takers, OfKind, Concerns, Exchange
  <1> QED
    BY <1>1, KeyAlike DEF Alike, Takers, OfKind

LEMMA RepliersKept ==
    ASSUME NEW b, NEW c, Steps(b, c), NEW a \in Repliers'
    PROVE  \E d \in Repliers : d.request = a.request /\ Key(d) = Key(a)
  <1>1. PICK d \in actors : Alike(d, a) \/ d = a
    BY SomebodyAlike DEF Repliers, OfKind, Concerns, Exchange
  <1> QED
    BY <1>1, KeyAlike DEF Alike, Repliers, OfKind

\* The updates that still reach the copy were on the wire.
LEMMA ReachesKept ==
    ASSUME CalmWire("host"), NEW j \in Reaches'
    PROVE  \E k \in Reaches : Down[k] = Down'[j]
  <1>1. j \in DOMAIN wire'["host"] /\ IsUpdate(wire'["host"][j]) /\ wire'["host"][j].to = "component"
    BY DEF Reaches, Updates, Down
  <1>2. PICK k \in DOMAIN wire["host"] : wire["host"][k] = wire'["host"][j]
    BY <1>1 DEF CalmWire, Thin, Exchanged, Matters
  <1> QED
    BY <1>1, <1>2 DEF Reaches, Updates, Down

LEMMA PositionsKept ==
    ASSUME HopeKept, NEW v \in Hopeful'
    PROVE  \E u \in Hopeful : /\ u.deltas = v.deltas /\ Key(u) = Key(v)
                              /\ \A d : After(u, d) => After(v, d)
                              /\ Going(u) => Going(v)'
  BY DEF HopeKept, After

LEMMA OrderKept ==
    ASSUME AnswerInv, AnswerInv', CleanInv, stored' = stored, CopySame,
           NEW b, NEW c, Steps(b, c), c.step = "history" => b.step = "history",
           \A s \in Servers : CalmWire(s), HopeKept, TurnsKept
    PROVE  (CopyFits /\ Alone /\ Ahead /\ SentOrder /\ HistoryOrder)'
  <1> USE DEF CleanInv
  <1>1. CopyFits'
    <2>2. Len(<<>>) = 0 /\ IsSequence(<<>>)
      BY EmptySeq DEF IsSequence
    <2>1. IsSequence(copy.hash)' /\ IsSequence(updates')
      BY <2>2 DEF CopySame, CopyFits
    <2>3. copy.version \in Nat /\ Len(updates) \in Nat /\ Len(updates') \in Nat
      BY <2>2, SequenceDomain DEF CopyFits, CopySame
    <2>4. Len(stored) \in Nat
      BY SequenceDomain DEF HostHistory
    <2>5. CASE updates' = updates
      BY <2>1, <2>5 DEF CopySame, CopyFits
    <2>6. CASE updates' = <<>>
      BY <2>1, <2>2, <2>3, <2>4, <2>6 DEF CopySame, CopyFits
    <2> QED
      BY <2>5, <2>6 DEF CopySame
  <1>2. copy.version \in Nat /\ Len(updates) \in Nat /\ Len(updates') \in Nat
        /\ Len(updates') <= Len(updates)
    <2>1. Len(<<>>) = 0
      OBVIOUS
    <2> QED
      BY <1>1, <2>1, SequenceDomain DEF CopyFits, CopySame
  <1>3. Alone'
    <2>1. \A x, y \in Takers' : x = y
      BY DEF Takers, OfKind, Steps, Concerns, Exchange, Alike, Alone
    <2>2. ASSUME NEW x \in Takers'
          PROVE  updates' = <<>> /\ Pos(x.deltas[1]) >= copy'.version
      <3>1. PICK d \in Takers : d.deltas = x.deltas
        BY TakersKept
      <3> QED
        BY <3>1 DEF Alone, CopySame, Pos
    <2> QED
      BY <2>1, <2>2 DEF Alone, Pos
  <1>4. Ahead'
    <2>1. ASSUME NEW v \in Hopeful'
          PROVE  Pos(v.deltas[1]) >= copy'.version + Len(updates')
      <3>1. PICK u \in Hopeful : u.deltas = v.deltas
        BY PositionsKept
      <3>2. Pos(u.deltas[1]) >= copy.version + Len(updates)
        BY DEF Ahead
      <3>3. Pos(u.deltas[1]) \in Nat
        BY HopefulIsPlaced
      <3> QED
        BY <1>2, <3>1, <3>2, <3>3 DEF CopySame
    <2>2. ASSUME NEW j \in Reaches'
          PROVE  Pos(Down'[j].deltas[1]) >= copy'.version + Len(updates')
      <3>1. PICK k \in Reaches : Down[k] = Down'[j]
        BY ReachesKept DEF Servers
      <3>2. Pos(Down[k].deltas[1]) >= copy.version + Len(updates)
        BY DEF Ahead
      <3>3. Pos(Down[k].deltas[1]) \in Nat
        BY SentIsPlaced DEF Reaches
      <3> QED
        BY <1>2, <3>1, <3>2, <3>3 DEF CopySame
    <2> QED
      BY <2>1, <2>2 DEF Ahead, Pos
  <1>5. \A d : Overtakes(d) => Overtakes(d)'
    BY PositionsKept DEF Overtakes
  <1>6. SentOrder'
    <2>1. ASSUME NEW j \in Reaches' PROVE Overtakes(Down[j].deltas[1])'
      <3>1. PICK k \in Reaches : Down[k] = Down'[j]
        BY ReachesKept DEF Servers
      <3> QED
        BY <1>5, <3>1 DEF SentOrder, Overtakes
    <2>2. ASSUME NEW a \in Takers' PROVE Overtakes(a.deltas[1])'
      BY <1>5, TakersKept DEF SentOrder
    <2> QED
      BY <2>1, <2>2 DEF SentOrder
  <1>7. ASSUME NEW a \in Takers', a.step = "history"
        PROVE  (Asked1(a) /\ Asked2(a) /\ Asked3(a))'
    <2>1. PICK d \in Takers : d.deltas = a.deltas /\ Key(d) = Key(a) /\ d.step = "history"
      <3>1. PICK d \in actors : d = a \/ (Alike(d, a) /\ d.step = "history")
        BY <1>7 DEF Steps, Concerns, Takers, OfKind, Exchange
      <3>2. d \in Takers /\ d.deltas = a.deltas /\ Key(d) = Key(a)
        BY <3>1, KeyAlike DEF Alike, Takers, OfKind
      <3> QED
        BY <1>7, <3>1, <3>2
    <2>2. Asked1(d) /\ Asked2(d) /\ Asked3(d)
      BY <2>1 DEF HistoryOrder
    <2>3. Asked1(a)'
      <3>1. ASSUME NEW i \in Queries' PROVE \E k \in Queries : Up[k] = Up'[i]
        <4>1. i \in DOMAIN wire'["copy"] /\ IsQuery(wire'["copy"][i])
          BY DEF Queries, Up
        <4>2. \E k \in DOMAIN wire["copy"] : wire["copy"][k] = wire'["copy"][i]
          BY <4>1 DEF CalmWire, Thin, Exchanged, Matters, Servers
        <4> QED
          BY <4>1, <4>2 DEF Queries, Up
      <3> QED
        BY <2>1, <2>2, <3>1 DEF Asked1, CopySame
    <2>4. Asked2(a)'
      <3> SUFFICES ASSUME NEW k \in Repliers', k.request.key = Key(a)
                   PROVE  /\ k.request.start = copy'.version /\ k.request.end = Pos(a.deltas[1])
                          /\ \A v \in Hopeful' : After(v, a.deltas[1]) \/ InTurn(v, k)'
        BY DEF Asked2, After, Pos
      <3>1. PICK h \in Repliers : h.request = k.request /\ Key(h) = Key(k)
        BY RepliersKept
      <3>2. /\ h.request.start = copy.version /\ h.request.end = Pos(d.deltas[1])
            /\ \A u \in Hopeful : After(u, d.deltas[1]) \/ InTurn(u, h)
        BY <2>1, <2>2, <3>1 DEF Asked2
      <3>3. ASSUME NEW v \in Hopeful' PROVE After(v, a.deltas[1]) \/ InTurn(v, k)'
        <4>1. PICK u \in Hopeful : /\ u.deltas = v.deltas /\ Key(u) = Key(v)
                                   /\ After(u, a.deltas[1]) => After(v, a.deltas[1])
                                   /\ Going(u) => Going(v)'
          BY PositionsKept
        <4>2. CASE InTurn(u, h)
          BY <3>1, <4>1, <4>2 DEF InTurn, TurnsKept
        <4> QED
          BY <2>1, <3>2, <4>1, <4>2
      <3> QED
        BY <2>1, <3>1, <3>2, <3>3 DEF CopySame
    <2>5. Asked3(a)'
      <3> SUFFICES ASSUME NEW i \in Histories', Down'[i].key = Key(a)
                   PROVE  /\ Down'[i].deltas = SubSeq(stored, copy.version + 1, Pos(a.deltas[1]))
                          /\ \A j \in Reaches' : i < j => After(Down'[j], a.deltas[1])
                          /\ \A v \in Hopeful' : After(v, a.deltas[1])
        BY DEF Asked3, After, Pos, CopySame
      <3>1. PICK f \in [Exchanged(Down') -> DOMAIN Down] :
               /\ \A x \in Exchanged(Down') : Down[f[x]] = Down'[x]
               /\ \A x, y \in Exchanged(Down') : x < y => f[x] < f[y]
        BY DEF CalmWire, Thin, Down, Servers
      <3>2. i \in Exchanged(Down') /\ f[i] \in Histories /\ Down[f[i]].key = Key(d)
        BY <2>1, <3>1 DEF Histories, Exchanged, Matters
      <3>3. /\ Down[f[i]].deltas = SubSeq(stored, copy.version + 1, Pos(d.deltas[1]))
            /\ \A j \in Reaches : f[i] < j => After(Down[j], d.deltas[1])
            /\ \A u \in Hopeful : After(u, d.deltas[1])
        BY <2>2, <3>2 DEF Asked3
      <3>4. ASSUME NEW j \in Reaches', i < j PROVE After(Down'[j], a.deltas[1])
        <4>1. j \in Exchanged(Down') /\ f[j] \in Reaches /\ f[i] < f[j]
          BY <3>1, <3>2, <3>4 DEF Reaches, Updates, Exchanged, Matters
        <4> QED
          BY <2>1, <3>1, <3>3, <4>1 DEF After
      <3> QED
        BY <2>1, <3>1, <3>2, <3>3, <3>4, PositionsKept
    <2> QED
      BY <2>3, <2>4, <2>5
  <1>8. HistoryOrder'
    BY <1>7 DEF HistoryOrder
  <1> QED
    BY <1>1, <1>3, <1>4, <1>6, <1>8

-----------------------------------------------------------------------------
(* The steps that add nothing to what is under way.                         *)

\* The event of the first of them is the one that is run.
Unturned(b, c) ==
    b \in Repliers /\ b.step = "new" /\ c \in actors' /\ c.step # "new" =>
        \A u \in Hopeful : ~InTurn(u, b)

LEMMA TurnsAreKept ==
    ASSUME CleanInv, CalmKeys("host"), EventsTyped', NEW b, NEW c, Steps(b, c), Unturned(b, c)
    PROVE  TurnsKept
  <1> SUFFICES ASSUME NEW h \in Repliers, NEW k \in Repliers', NEW u \in Hopeful, NEW v \in Hopeful',
                      Key(h) = Key(k), Key(u) = Key(v), InTurn(u, h)
               PROVE  k.step = "new" /\ Before(v, k)'
    BY DEF TurnsKept
  <1>1. k.step = "new"
    <2>1. k \in actors' /\ k.kind = "HistoryResponse" /\ h \in actors /\ h.kind = "HistoryResponse"
      BY DEF Repliers, OfKind
    <2>2. h.id = k.id
      BY KeyOf
    <2>3. CASE k \in actors
      <3>1. h = k
        BY <2>1, <2>2, <2>3 DEF CleanInv, Once, Exchange
      <3> QED
        BY <3>1 DEF InTurn
    <2>4. CASE k = c /\ b \in actors
      <3>1. h = b
        BY <2>1, <2>2, <2>4 DEF Steps, Alike, CleanInv, Once, Exchange
      <3> QED
        BY <2>1, <2>4, <3>1 DEF Unturned, InTurn
    <2> QED
      BY <2>1, <2>3, <2>4 DEF Steps, Concerns, Exchange
  <1>2. ASSUME NEW i \in DOMAIN events'["host"], NEW j \in DOMAIN events'["host"],
               events'["host"][i] = Key(v), events'["host"][j] = Key(k)
        PROVE  i < j
    <2> DEFINE T == {n \in DOMAIN events'["host"] : events'["host"][n][1] \in Exchange}
    <2>1. PICK f \in [T -> DOMAIN events["host"]] :
             /\ \A n \in T : events["host"][f[n]] = events'["host"][n]
             /\ \A m, n \in T : m < n => f[m] < f[n]
      BY DEF CalmKeys, Thin
    <2>2. i \in T /\ j \in T
      <3>1. Key(v)[1] \in Exchange /\ Key(k)[1] \in Exchange
        BY KeyOf DEF Hopeful, Unsent, Repliers, OfKind, Exchange
      <3> QED
        BY <1>2, <3>1
    <2>3. f[i] < f[j]
      BY <1>2, <2>1, <2>2 DEF InTurn, Before
    <2>4. i \in Nat /\ j \in Nat /\ f[i] \in Nat /\ f[j] \in Nat
      <3>1. DOMAIN events["host"] \subseteq Nat /\ DOMAIN events'["host"] \subseteq Nat
        BY SequenceDomain DEF CleanInv, Queue, EventsTyped, Servers
      <3> QED
        BY <2>1, <2>2, <3>1
    <2> HIDE DEF T
    <2> QED
      BY <2>1, <2>2, <2>3, <2>4
  <1> QED
    BY <1>1, <1>2 DEF Before

\* Nothing is committed, or applied to the copy.
HistoriesSame == stored' = stored /\ wavelet' = wavelet /\ CopySame

LinksAndEventsCalm ==
    /\ LinksCalm /\ DiscosNotReady
    /\ EventsTyped' /\ \A s \in Servers : CalmKeys(s)

LEMMA CalmStep ==
    ASSUME AnswerInv, AnswerInv', CleanInv, HistoriesSame,
           NEW b, NEW c, Steps(b, c), c.step = "history" => b.step = "history",
           Stays(b), Unturned(b, c), IsFiniteSet(actors'),
           \A s \in Servers : CalmWire(s), LinksAndEventsCalm
    PROVE  CleanInv'
  <1> USE DEF HistoriesSame, LinksAndEventsCalm
  <1>1. LinkInv /\ Traffic /\ Queue /\ Once /\ "host" \in Servers
    BY DEF AnswerInv, CleanInv, Servers
  <1>2. HopeKept /\ TurnsKept
    BY <1>1, HopeOfSteps, TurnsAreKept
  <1>3. Traffic' /\ Once'
    BY <1>1, TrafficKept, OnceKept
  <1>4. HostHistory'
    BY DEF CleanInv, HostHistory
  <1>5. Queue'
    BY <1>1, QueueKept
  <1>6. (CopyFits /\ Alone /\ Ahead /\ SentOrder /\ HistoryOrder)'
    BY <1>2, OrderKept
  <1> QED
    BY <1>3, <1>4, <1>5, <1>6 DEF CleanInv

\* No actor goes on.
LEMMA CalmIfNobody ==
    ASSUME AnswerInv, AnswerInv', CleanInv, HistoriesSame,
           \A a \in actors' : Concerns(a) => a \in actors,
           \A a \in actors : a \in actors' \/ Keys(a.at)' = {}, IsFiniteSet(actors'),
           \A s \in Servers : CalmWire(s), LinksAndEventsCalm
    PROVE  CleanInv'
  <1> DEFINE b == {x \in actors : x \notin x}
  <1>1. b \notin actors
    OBVIOUS
  <1> HIDE DEF b
  <1>2. Steps(b, b)
    BY NobodySteps DEF CleanInv
  <1>3. Stays(b) /\ Unturned(b, b)
    BY <1>1 DEF Stays, Unturned, Repliers, OfKind
  <1> QED
    BY <1>2, <1>3, CalmStep

\* One actor goes on, or ends.
LEMMA CalmIfOne ==
    ASSUME AnswerInv, AnswerInv', CleanInv, HistoriesSame, NEW a \in actors, NEW step,
           End(a) \/ Become(a, [a EXCEPT !.step = step]),
           step = "history" => a.step = "history", step = "new" => a.step = "new",
           step = "wait" => a.step \in Fresh,
           a.kind \in Exchange => step \in StepsOf[a.kind],
           step = "query" => a.kind = "HistoryResponse",
           Runs(a) \/ (events' = events /\ ~(a.kind \in Exchange /\ a.step \in Fresh)),
           KeepsLinks \/ (LinksCalm /\ DiscosNotReady), \A s \in Servers : CalmWire(s)
    PROVE  CleanInv'
  <1> DEFINE c == [a EXCEPT !.step = step]
  <1>1. IsActor(a) /\ HonestActor(a) /\ a.at \in Servers
    BY ActorTyped DEF AnswerInv, AnswersHonest
  <1>2. /\ c.kind = a.kind /\ c.at = a.at /\ c.con = a.con /\ c.id = a.id
        /\ c.deltas = a.deltas /\ c.request = a.request /\ c.step = step
    BY <1>1 DEF HonestActor
  <1>3. actors' = actors \ {a} \/ actors' = (actors \ {a}) \cup {c}
    BY DEF End, Become
  <1> HIDE DEF c
  <1>4. Steps(a, c)
    BY <1>2, <1>3 DEF Steps, Alike, Fresh
  <1>5. EventsTyped' /\ \A s \in Servers : CalmKeys(s)
    BY <1>1, EventsSame, EventsRun DEF CleanInv
  <1>6. Stays(a)
    BY <1>1, <1>3, EventsRun DEF Stays, CleanInv
  <1>7. Unturned(a, c)
    <2> SUFFICES ASSUME a \in Repliers, a.step = "new", NEW u \in Hopeful, InTurn(u, a)
                 PROVE  FALSE
      BY DEF Unturned
    <2>1. a.kind = "HistoryResponse" /\ a.at = "host"
      BY DEF Repliers, OfKind, CleanInv, Traffic
    <2>2. Runs(a)
      BY <2>1 DEF Exchange, Fresh
    <2>3. events["host"][1] = Key(a) /\ 1 \in DOMAIN events["host"]
      BY <1>1, <2>1, <2>2, EventsRun DEF CleanInv
    <2>4. PICK i \in DOMAIN events["host"] : events["host"][i] = Key(u)
      BY DEF InTurn, Going, Keys
    <2>5. i < 1
      BY <2>3, <2>4 DEF InTurn, Before
    <2>6. i \in 1..Len(events["host"])
      BY SequenceDomain DEF CleanInv, Queue, EventsTyped, Servers
    <2> QED
      BY <2>5, <2>6, SequenceDomain DEF CleanInv, Queue, EventsTyped, Servers
  <1>8. IsFiniteSet(actors')
    <2>1. IsFiniteSet(actors)
      BY DEF CleanInv, Queue
    <2>2. IsFiniteSet(actors \ {a})
      BY <2>1, FS_Subset
    <2>3. IsFiniteSet((actors \ {a}) \cup {c})
      BY <2>2, FS_AddElement
    <2> QED
      BY <1>3, <2>2, <2>3
  <1>9. SameDiscos
    BY <1>2, <1>3 DEF SameDiscos
  <1> QED
    BY <1>2, <1>4, <1>5, <1>6, <1>7, <1>8, <1>9, KeptLinksAreCalm, CalmStep DEF LinksAndEventsCalm

LEMMA CalmIfEnds ==
    ASSUME AnswerInv, AnswerInv', CleanInv, HistoriesSame, NEW a \in actors, End(a),
           Runs(a) \/ (events' = events /\ ~(a.kind \in Exchange /\ a.step \in Fresh)),
           KeepsLinks \/ (LinksCalm /\ DiscosNotReady), \A s \in Servers : CalmWire(s)
    PROVE  CleanInv'
  <1>1. /\ a.kind \in Exchange => a.step \in StepsOf[a.kind]
        /\ a.step = "query" => a.kind = "HistoryResponse"
    BY DEF CleanInv, Traffic
  <1>2. a.step = "wait" => a.step \in Fresh
    BY DEF Fresh
  <1> QED
    BY <1>1, <1>2, CalmIfOne

LEMMA SignalsAre ==
    ASSUME NEW W, IsFiniteSet(W), NEW order \in SetToSeqs(W)
    PROVE  /\ IsSequence(order) /\ DOMAIN order = 1..Cardinality(W) /\ Cardinality(W) \in Nat
           /\ \A i \in DOMAIN order : order[i] \in W
           /\ \A i, j \in DOMAIN order : order[i] = order[j] => i = j
           /\ IsSequence([i \in DOMAIN order |-> Key(order[i])])
           /\ DOMAIN [i \in DOMAIN order |-> Key(order[i])] = DOMAIN order
  <1>1. Cardinality(W) \in Nat
    BY FS_CardinalityType
  <1>2. order \in [1..Cardinality(W) -> W] /\ \A i, j \in 1..Cardinality(W) : i # j => order[i] # order[j]
    BY DEF SetToSeqs
  <1>3. order \in Seq(W)
    BY <1>1, <1>2
  <1> DEFINE q == [i \in DOMAIN order |-> Key(order[i])]
             K == {Key(x) : x \in W}
  <1>4. q \in [1..Cardinality(W) -> K]
    BY <1>2
  <1>5. q \in Seq(K)
    BY <1>1, <1>4
  <1> QED
    BY <1>1, <1>2, <1>3, <1>5, SequenceOfItsElements

LEMMA BouncedIsCalm ==
    ASSUME NEW m, NEW Ids, Honest(m, Ids)
    PROVE  ~Matters(Bounced(m))
  <1>1. /\ Bounced(m).kind = m.kind /\ Bounced(m).reply \in {"result", "error"}
        /\ Bounced(m).reply = "result" => m.kind = "items"
    BY DEF Honest, Bounced
  <1> QED
    BY <1>1 DEF Matters, IsUpdate, IsQuery, IsHistory

LEMMA QuietSteps ==
    ASSUME AnswerInv, AnswerInv', CleanInv, NEW s \in Servers,
           \/ ComponentNext(s) \/ ComponentBreaks(s) \/ ServerAnswers(s) \/ ReplyIgnored(s)
           \/ CopyLoads \/ UNCHANGED fedVars
    PROVE  CleanInv'
  <1> USE DEF ComponentNext, ComponentBreaks, ComponentConnects, ComponentReads, ComponentFails,
              ComponentStops, ServerAnswers, ReplyIgnored, CopyLoads, fedVars, linkVars, hostVars,
              copyVars
  <1>1. HistoriesSame /\ actors' = actors
    BY DEF HistoriesSame, CopySame
  <1>2. LinkInv /\ Queue /\ SameDiscos
    BY <1>1 DEF AnswerInv, CleanInv, SameDiscos
  <1>3. LinksCalm /\ DiscosNotReady
    <2>1. CASE con' = con /\ route' = route
      BY <1>2, <2>1, SameLinks, KeptLinksAreCalm DEF LinkInv
    <2>2. CASE ReplyIgnored(s)
      <3>1. Incoming(s).from \in Names
        BY <1>2, <2>2, IncomingOnWire DEF LinkInv, OnWire, IsStanza
      <3>2. Gets(s, Incoming(s).from, FALSE)
        BY <2>2 DEF Gets
      <3> QED
        BY <1>2, <3>1, <3>2, GotLinksAreCalm
    <2> QED
      BY <2>1, <2>2
  <1>4. EventsTyped' /\ \A r \in Servers : CalmKeys(r)
    <2>1. CASE events' = events
      BY <1>2, <2>1, EventsSame
    <2>2. CASE Signals(s, {a \in Discovering(s) : a.step = "wait"})
      <3> DEFINE W == {a \in Discovering(s) : a.step = "wait"}
      <3>1. PICK order \in SetToSeqs(W) :
               events' = [events EXCEPT ![s] = @ \o [i \in DOMAIN order |-> Key(order[i])]]
        BY <2>2 DEF Signals
      <3>2. IsFiniteSet(W)
        <4>1. IsFiniteSet(actors) /\ W \subseteq actors
          BY <1>2 DEF Queue, Discovering
        <4> QED
          BY <4>1, FS_Subset
      <3> DEFINE q == [i \in DOMAIN order |-> Key(order[i])]
      <3>3. \A a \in W : a.kind = "Disco"
        BY DEF Discovering
      <3> HIDE DEF W
      <3>4. IsSequence(q) /\ DOMAIN q = DOMAIN order /\ \A i \in DOMAIN order : order[i] \in W
        BY <3>2, SignalsAre
      <3>5. \A i \in DOMAIN q : q[i][1] \notin Exchange
        BY <3>3, <3>4, KeyOf DEF Exchange
      <3>6. events' = [events EXCEPT ![s] = @ \o q]
        BY <3>1
      <3> HIDE DEF q
      <3> QED
        BY <1>2, <3>4, <3>5, <3>6, EventsMore
    <2> QED
      BY <2>1, <2>2
  <1>5. \A r \in Servers : CalmWire(r)
    <2>1. CASE wire' = wire
      BY <2>1, SameWires
    <2>2. CASE ReplyIgnored(s)
      BY <2>2, RestIsCalm DEF CanRead
    <2>3. CASE ServerAnswers(s)
      <3>1. Peer(s) \in Servers /\ Peer(Peer(s)) = s /\ wire[s] # <<>>
        BY <2>3 DEF Peer, Servers
      <3>2. \/ wire' = Rest(Peer(s))
            \/ wire' = [Rest(Peer(s)) EXCEPT ![Peer(s)] = Append(@, Bounced(Head(wire[s])))]
        BY <2>3, <3>1 DEF Rest
      <3>3. ~Matters(Bounced(Head(wire[s])))
        BY <3>1, HonestRest, BouncedIsCalm DEF AnswerInv, AnswersHonest
      <3> QED
        BY <3>1, <3>2, <3>3, RestIsCalm, ReadAndSentIsCalm
    <2> QED
      BY <2>1, <2>2, <2>3
  <1>6. IsFiniteSet(actors')
    BY <1>1, <1>2 DEF Queue
  <1> QED
    BY <1>1, <1>3, <1>4, <1>5, <1>6, CalmIfNobody DEF LinksAndEventsCalm

\* Requests and results that are not about updates and the history.
LEMMA CalmStanzas ==
    ASSUME NEW a, HonestActor(a)
    PROVE  /\ \A kind : kind \notin {"update", "history"} =>
                ~Matters(Request(kind, a)) /\ ~Matters([Request(kind, a) EXCEPT !.to = "component"])
           /\ a.request.kind # "history" =>
                /\ a.request.reply = "none" => ~Matters(Result(a))
                /\ \A n : ~Matters([Result(a) EXCEPT !.from = n])
                /\ \A told : ~Matters([Result(a) EXCEPT !.told = told])
                /\ ~Matters(Result(a))
  <1>1. \A kind : /\ Request(kind, a).kind = kind /\ Request(kind, a).reply = "none"
                  /\ [Request(kind, a) EXCEPT !.to = "component"].kind = kind
                  /\ [Request(kind, a) EXCEPT !.to = "component"].reply = "none"
    BY DEF Request, NoStanza
  <1>2. /\ Result(a).kind = a.request.kind /\ Result(a).reply = "result"
        /\ {"kind", "reply", "from", "told"} \subseteq DOMAIN Result(a)
    BY DEF Result, HonestActor, Honest
  <1> QED
    BY <1>1, <1>2 DEF Matters, IsUpdate, IsQuery, IsHistory

\* An event runs an actor.
LEMMA CalmRuns ==
    ASSUME AnswerInv, AnswerInv', CleanInv, NEW a \in actors,
           \/ Waits(a) \/ DiscoStarts(a) \/ DiscoAnswers(a) \/ HistoryAsks(a)
           \/ SubmitSends(a) \/ SignerAnswers(a) \/ SubmitGoesOn(a) \/ SubmitRefused(a)
    PROVE  CleanInv'
  <1> USE DEF Waits, DiscoStarts, DiscoAnswers, HistoryAsks, SubmitSends, SignerAnswers,
              SubmitGoesOn, SubmitRefused, Goes, linkVars, hostVars, copyVars
  <1>1. HistoriesSame /\ Runs(a)
    BY DEF HistoriesSame, CopySame
  <1>2. HonestActor(a) /\ IsActor(a) /\ a.at \in Servers /\ LinkTypeOK
    BY ActorTyped DEF AnswerInv, AnswersHonest, LinkInv
  <1>3. KeepsLinks
    <2>1. CASE con' = con /\ route' = route
      BY <1>2, <2>1, SameLinks
    <2>2. CASE SubmitRefused(a)
      BY <1>2, <2>2, ErrorKeepsLinks
    <2> QED
      BY <2>1, <2>2
  <1>4. a.kind # "HistoryResponse" => a.request.kind # "history"
    BY DEF CleanInv, Traffic
  <1>5. \A s \in Servers : CalmWire(s)
    <2>1. CASE wire' = wire
      BY <2>1, SameWires
    <2>2. ASSUME NEW m, Send(a.at, m), ~Matters(m)
          PROVE  \A s \in Servers : CalmWire(s)
      BY <1>2, <2>2, SentIsCalm
    <2>3. CASE DiscoStarts(a)
      BY <1>2, <2>1, <2>2, <2>3, CalmStanzas
    <2>4. CASE SubmitSends(a)
      BY <1>2, <2>2, <2>4, CalmStanzas DEF SubmitAsks
    <2>5. CASE DiscoAnswers(a)
      BY <1>2, <1>4, <2>2, <2>5, CalmStanzas
    <2>6. CASE SignerAnswers(a)
      BY <1>2, <1>4, <2>2, <2>6, CalmStanzas
    <2> QED
      BY <2>1, <2>3, <2>4, <2>5, <2>6
  <1>6. ASSUME NEW step, Become(a, [a EXCEPT !.step = step]),
               step \notin {"history", "new"}, step = "wait" => a.step = "new",
               a.kind \in Exchange => step \in StepsOf[a.kind],
               step = "query" => a.kind = "HistoryResponse"
        PROVE  CleanInv'
    BY <1>1, <1>3, <1>5, <1>6, CalmIfOne DEF Fresh
  <1>7. CASE Waits(a)
    BY <1>6, <1>7 DEF Exchange, StepsOf, Fresh
  <1>8. CASE HistoryAsks(a)
    BY <1>6, <1>8 DEF StepsOf
  <1>9. CASE DiscoStarts(a)
    <2>1. CASE Become(a, [a EXCEPT !.step = "wait"]) /\ a.step = "new"
      BY <1>6, <1>9, <2>1 DEF Exchange
    <2>2. CASE Become(a, [a EXCEPT !.step = "items"])
      BY <1>6, <1>9, <2>2 DEF Exchange
    <2> QED
      BY <1>9, <2>1, <2>2
  <1>10. CASE DiscoAnswers(a) \/ SignerAnswers(a) \/ SubmitRefused(a)
    <2>1. End(a)
      BY <1>10
    <2> QED
      BY <1>1, <1>3, <1>5, <2>1, CalmIfEnds
  <1>11. CASE SubmitSends(a)
    BY <1>6, <1>11 DEF Exchange, SubmitAsks
  <1>12. CASE SubmitGoesOn(a)
    BY <1>6, <1>12 DEF Exchange
  <1> QED
    BY <1>7, <1>8, <1>9, <1>10, <1>11, <1>12

\* An actor gets an answer, or gives up.
LEMMA CalmAnswers ==
    ASSUME AnswerInv, AnswerInv', CleanInv, NEW t \in Servers, NEW a \in actors,
           \/ DiscoGetsItems(t, a) \/ UpdateReceipted(t, a) \/ ErrorArrives(t, a)
           \/ SignerAccepted(a) \/ SubmitAnswered(a) \/ TimesOut(a) \/ CommitTimesOut(a)
    PROVE  CleanInv'
  <1> USE DEF DiscoGetsItems, UpdateReceipted, ErrorArrives, SignerAccepted, SubmitAnswered,
              TimesOut, CommitTimesOut, Terminates, Answers, linkVars, hostVars, copyVars
  <1>1. HistoriesSame /\ events' = events
    BY DEF HistoriesSame, CopySame
  <1>2. HonestActor(a) /\ IsActor(a) /\ a.at \in Servers /\ LinkTypeOK /\ LinkInv
    BY ActorTyped DEF AnswerInv, AnswersHonest, LinkInv
  <1>3. KeepsLinks \/ (LinksCalm /\ DiscosNotReady)
    <2>1. CASE con' = con /\ route' = route
      BY <1>2, <2>1, SameLinks
    <2>2. CASE XmppError(a.at, a.con) /\ route' = route
      BY <1>2, <2>2, ErrorKeepsLinks
    <2>3. CASE DiscoGetsItems(t, a)
      BY <1>2, <2>3, ItemsLinksAreCalm
    <2>4. CASE SignerAccepted(a)
      BY <1>2, <2>4, SignerKeepsLinks
    <2> QED
      BY <2>1, <2>2, <2>3, <2>4
  <1>4. \A s \in Servers : CalmWire(s)
    <2>1. CASE wire' = wire
      BY <2>1, SameWires
    <2>2. CASE CanRead(t) /\ wire' = Rest(t)
      BY <2>2, RestIsCalm DEF CanRead
    <2>3. CASE CanRead("copy") /\ wire' = Rest("copy")
      BY <2>3, RestIsCalm DEF CanRead, Servers
    <2>4. CASE DiscoGetsItems(t, a)
      <3>1. ~Matters([Request("info", a) EXCEPT !.to = "component"])
        BY <1>2, CalmStanzas
      <3> QED
        BY <2>4, <3>1, ReadAndSentIsCalm DEF CanRead
    <2>5. CASE SignerAccepted(a)
      <3>1. ~Matters(Request("submit", a))
        BY <1>2, CalmStanzas
      <3> QED
        BY <2>5, <3>1, ReadAndSentIsCalm DEF CanRead, Servers
    <2> QED
      BY <2>1, <2>2, <2>3, <2>4, <2>5
  <1>5. a.step \notin Fresh
    <2>1. CASE ErrorArrives(t, a)
      <3>1. Honest(Incoming(t), CommittedIds)
        BY <2>1, HonestIncoming DEF AnswerInv, AnswersHonest
      <3> QED
        BY <2>1, <3>1 DEF IsFor, Honest, Fresh
    <2> QED
      BY <2>1 DEF IsFor, Fresh, Asked
  <1>6. ASSUME NEW step, Become(a, [a EXCEPT !.step = step]),
               step \notin {"history", "new", "wait", "query"},
               a.kind \in Exchange => step \in StepsOf[a.kind]
        PROVE  CleanInv'
    BY <1>1, <1>3, <1>4, <1>5, <1>6, CalmIfOne
  <1>7. CASE End(a)
    BY <1>1, <1>3, <1>4, <1>5, <1>7, CalmIfEnds
  <1>8. CASE DiscoGetsItems(t, a)
    <2>1. a.kind = "Disco"
      BY <1>2, <1>8 DEF IsActor, Takes, IsFor
    <2> QED
      BY <1>6, <1>8, <2>1 DEF Exchange
  <1>9. CASE SignerAccepted(a)
    <2>1. a.kind = "SubmitRequest" /\ Become(a, [a EXCEPT !.step = "submit"])
      BY <1>2, <1>9 DEF IsActor, Takes, IsFor
    <2>2. a.kind \notin Exchange
      BY <2>1 DEF Exchange
    <2> QED
      BY <1>6, <2>1, <2>2
  <1>10. CASE CommitTimesOut(a)
    <2>1. a.kind = "SubmitResponse"
      BY <1>2, <1>10 DEF IsActor, Takes
    <2> QED
      BY <1>6, <1>10, <2>1 DEF Exchange
  <1> QED
    BY <1>7, <1>8, <1>9, <1>10

LEMMA EventsOne ==
    ASSUME Queue, NEW s \in Servers, NEW k, k[1] \notin Exchange,
           events' = [events EXCEPT ![s] = Append(@, k)]
    PROVE  EventsTyped' /\ \A r \in Servers : CalmKeys(r)
  <1>1. IsSequence(events[s]) /\ events = [r \in Servers |-> events[r]]
    BY DEF Queue, EventsTyped
  <1>2. events[s] \o <<k>> = Append(events[s], k)
    BY <1>1 DEF IsSequence
  <1>3. IsSequence(<<k>>) /\ \A i \in DOMAIN <<k>> : <<k>>[i] = k
    <2>1. <<k>> \in Seq({k})
      OBVIOUS
    <2>2. IsSequence(<<k>>)
      BY <2>1, SequenceOfItsElements
    <2>3. \A i \in DOMAIN <<k>> : <<k>>[i] = k
      OBVIOUS
    <2> QED
      BY <2>2, <2>3
  <1>4. events' = [events EXCEPT ![s] = @ \o <<k>>]
    BY <1>2
  <1> QED
    BY <1>3, <1>4, EventsMore

\* A stanza about something else makes an actor, or is lost.
LEMMA QuietRequest ==
    ASSUME AnswerInv, AnswerInv', CleanInv, NEW t \in Servers, RequestArrives(t),
           Incoming(t).kind \notin {"update", "history"} \/ UNCHANGED <<actors, events>>
    PROVE  CleanInv'
  <1> DEFINE m == Incoming(t)
             new == [NewActor(Responder[m.kind], t, Handler(t), m.key[3], m.deltas)
                        EXCEPT !.request = m]
  <1>1. LinkInv /\ Queue /\ HistoriesSame
    BY DEF AnswerInv, CleanInv, HistoriesSame, CopySame, RequestArrives, hostVars, copyVars
  <1>2. OnWire(m) /\ m.reply = "none" /\ m.from \in Names /\ m.kind \in Asked
    BY <1>1, IncomingOnWire DEF LinkInv, RequestArrives, OnWire, IsStanza
  <1>3. Gets(t, m.from, FALSE)
    BY DEF RequestArrives, Gets
  <1>4. \A r \in Servers : CalmWire(r)
    BY RestIsCalm DEF RequestArrives, CanRead
  <1>5. /\ new.kind = Responder[m.kind] /\ new.at = t /\ new.step = "new" /\ new.request = m
    BY DEF NewActor
  <1> HIDE DEF m, new
  <1>6. CASE UNCHANGED <<actors, events>>
    <2>1. SameDiscos /\ IsFiniteSet(actors')
      BY <1>1, <1>6 DEF SameDiscos, Queue
    <2>2. LinksCalm /\ DiscosNotReady
      BY <1>1, <1>2, <1>3, <2>1, GotLinksAreCalm
    <2> QED
      BY <1>1, <1>4, <1>6, <2>1, <2>2, EventsSame, CalmIfNobody DEF LinksAndEventsCalm
  <1>7. CASE ~UNCHANGED <<actors, events>>
    <2>1. Create(new) /\ m.kind \notin {"update", "history"}
      BY <1>7 DEF RequestArrives, m, new
    <2>2. new.kind \in {"DiscoResponse", "PostSignerResponse", "SubmitResponse"}
      BY <1>2, <1>5, <2>1 DEF Responder, Asked
    <2>3. ~Concerns(new) /\ new.kind # "Disco" /\ Key(new)[1] \notin Exchange
      BY <1>5, <2>1, <2>2, KeyOf DEF Concerns, Exchange
    <2>4. actors' = actors \cup {new} /\ events' = [events EXCEPT ![t] = Append(@, Key(new))]
      BY <1>5, <2>1 DEF Create
    <2>5. SameDiscos /\ IsFiniteSet(actors')
      BY <1>1, <2>3, <2>4, FS_AddElement DEF SameDiscos, Queue
    <2>6. LinksCalm /\ DiscosNotReady
      BY <1>1, <1>2, <1>3, <2>5, GotLinksAreCalm
    <2>7. EventsTyped' /\ \A r \in Servers : CalmKeys(r)
      BY <1>1, <2>3, <2>4, EventsOne
    <2> QED
      BY <1>1, <1>4, <2>3, <2>4, <2>5, <2>6, <2>7, CalmIfNobody DEF LinksAndEventsCalm
  <1> QED
    BY <1>6, <1>7

\* A server restarts.
LEMMA QuietRestart ==
    ASSUME AnswerInv, AnswerInv', CleanInv, HostRestarts \/ CopyRestarts
    PROVE  CleanInv'
  <1>1. PICK s \in Servers : Restarts(s) /\ (updates' = updates \/ (updates' = <<>> /\ s = "copy"))
    BY DEF HostRestarts, CopyRestarts, Servers
  <1> USE DEF Restarts
  <1>2. LinkInv /\ Queue /\ wire' = wire /\ actors' \subseteq actors
    BY <1>1 DEF AnswerInv, CleanInv
  <1>3. HistoriesSame
    <2>1. s = "copy" => Takers' = {}
      BY <1>1 DEF CleanInv, Traffic, Takers, OfKind
    <2> QED
      BY <1>1, <2>1 DEF HistoriesSame, CopySame
  <1>4. /\ events'[s] = <<>> /\ \A r \in Servers : r # s => events'[r] = events[r]
        /\ events' = [r \in Servers |-> events'[r]]
    BY <1>1, <1>2 DEF Queue, EventsTyped
  <1>5. EventsTyped' /\ \A r \in Servers : CalmKeys(r)
    <2>1. IsSequence(<<>>) /\ DOMAIN <<>> = {}
      BY DEF IsSequence
    <2>2. EventsTyped'
      BY <1>2, <1>4, <2>1 DEF Queue, EventsTyped
    <2>3. CalmKeys(s)
      <3> DEFINE f == [i \in {} |-> i]
                 T == {i \in DOMAIN <<>> : <<>>[i][1] \in Exchange}
      <3>1. T = {}
        BY <2>1
      <3>2. Thin(<<>>, events[s], T)
        <4>1. f \in [T -> DOMAIN events[s]] /\ \A i \in T : events[s][f[i]] = <<>>[i]
          BY <3>1
        <4>2. \A i, j \in T : i < j => f[i] < f[j]
          BY <3>1
        <4> HIDE DEF f, T
        <4> QED
          BY <4>1, <4>2 DEF Thin
      <3> QED
        BY <1>4, <3>2 DEF CalmKeys
    <2>4. \A r \in Servers : r # s => CalmKeys(r)
      BY <1>4, ThinSame DEF CalmKeys
    <2> QED
      BY <2>2, <2>3, <2>4
  <1>6. \A a \in actors : a \in actors' \/ Keys(a.at)' = {}
    BY <1>1, <1>4 DEF Keys
  <1>7. IsFiniteSet(actors')
    BY <1>2, FS_Subset DEF Queue
  <1>8. LinksCalm /\ DiscosNotReady
    BY <1>1, <1>2, DroppedLinksAreCalm
  <1> QED
    BY <1>2, <1>3, <1>5, <1>6, <1>7, <1>8, SameWires, CalmIfNobody DEF LinksAndEventsCalm

\* The actor of a message to the peer.
Poster(s, kind, d) == NewActor(kind, s, Found(s, "domain"), d.id, <<d>>)

\* What posting a message does to the actors and the events.
PostsMore(s, kind, d, set) ==
    LET a == Poster(s, kind, d) IN
    /\ a.kind = kind /\ a.at = s /\ a.con = Found(s, "domain") /\ a.id = d.id
    /\ a.step = "new" /\ a.deltas = <<d>> /\ a.request = NoStanza
    /\ set \cup {a} \subseteq actors'
    /\ \A b \in actors' : \/ b \in set \cup {a}
                          \/ b.kind = "Disco" /\ b.step = "new" /\ b.request = NoStanza
    /\ IsFiniteSet(set) => IsFiniteSet(actors')
    /\ \E q : /\ IsSequence(q) /\ events' = [events EXCEPT ![s] = @ \o q]
              /\ \A i \in DOMAIN q : q[i] = Key(a) \/ q[i][1] = "Disco"
              /\ \A i, j \in DOMAIN q : q[i] = q[j] => i = j

LEMMA Posted ==
    ASSUME LinkInv, NEW s \in Servers, NEW kind, kind # "Disco", NEW d,
           NEW set, set \subseteq actors, Posts(s, kind, d, set)
    PROVE  PostsMore(s, kind, d, set)
  <1> DEFINE a == Poster(s, kind, d)
             disco == NewActor("Disco", s, Found(s, "domain"), 0, <<>>)
             created == IF Lookup(s, "domain") # NoConnection THEN <<a>> ELSE <<disco, a>>
             q == [i \in DOMAIN created |-> Key(created[i])]
  <1>1. /\ a.kind = kind /\ a.at = s /\ a.con = Found(s, "domain") /\ a.id = d.id
        /\ a.step = "new" /\ a.deltas = <<d>> /\ a.request = NoStanza
        /\ disco.kind = "Disco" /\ disco.step = "new" /\ disco.request = NoStanza
    BY DEF Poster, NewActor
  <1>2. /\ actors' = set \cup {created[i] : i \in DOMAIN created}
        /\ events' = [events EXCEPT ![s] = @ \o q]
    BY DEF Posts, Poster
  <1> HIDE DEF a, disco
  <1>3. {created[i] : i \in DOMAIN created} \in {{a}, {disco, a}}
    <2>1. CASE Lookup(s, "domain") # NoConnection
      BY <2>1
    <2>2. CASE Lookup(s, "domain") = NoConnection
      <3>1. created = <<disco, a>> /\ DOMAIN created = {1, 2}
        BY <2>2
      <3> QED
        BY <3>1
    <2> QED
      BY <2>1, <2>2
  <1>4. q \in {<<Key(a)>>, <<Key(disco), Key(a)>>}
    <2>1. CASE Lookup(s, "domain") # NoConnection
      BY <2>1
    <2>2. CASE Lookup(s, "domain") = NoConnection
      BY <2>2
    <2> QED
      BY <2>1, <2>2
  <1>5. /\ IsSequence(q) /\ \A i \in DOMAIN q : q[i] = Key(a) \/ q[i][1] = "Disco"
        /\ \A i, j \in DOMAIN q : q[i] = q[j] => i = j
    <2> HIDE DEF q
    <2>1. Key(disco)[1] = "Disco" /\ Key(a)[1] # "Disco"
      BY <1>1, KeyOf
    <2>2. CASE q = <<Key(a)>>
      <3>1. q \in Seq({Key(a)})
        BY <2>2
      <3>2. DOMAIN q = {1} /\ q[1] = Key(a)
        BY <2>2
      <3>3. IsSequence(q)
        BY <3>1, SequenceOfItsElements
      <3>4. \A i \in DOMAIN q : i = 1
        BY <3>2
      <3> QED
        BY <3>2, <3>3, <3>4
    <2>3. CASE q = <<Key(disco), Key(a)>>
      <3>1. q \in Seq({Key(disco), Key(a)})
        BY <2>3
      <3>2. DOMAIN q = {1, 2} /\ q[1] = Key(disco) /\ q[2] = Key(a)
        BY <2>3
      <3> QED
        BY <2>1, <3>1, <3>2, SequenceOfItsElements
    <2> QED
      BY <1>4, <2>2, <2>3
  <1>6. IsFiniteSet(set) => IsFiniteSet(actors')
    <2>1. IsFiniteSet(set) => IsFiniteSet(set \cup {a}) /\ IsFiniteSet((set \cup {a}) \cup {disco})
      BY FS_AddElement
    <2>2. actors' = set \cup {a} \/ actors' = (set \cup {a}) \cup {disco}
      BY <1>2, <1>3
    <2> QED
      BY <2>1, <2>2
  <1> HIDE DEF q, created
  <1>7. /\ set \cup {a} \subseteq actors'
        /\ \A b \in actors' : \/ b \in set \cup {a}
                              \/ b.kind = "Disco" /\ b.step = "new" /\ b.request = NoStanza
    BY <1>1, <1>2, <1>3
  <1> QED
    BY <1>1, <1>2, <1>5, <1>6, <1>7 DEF a, PostsMore

LEMMA PostedLinksAreCalm ==
    ASSUME LinkInv, NEW s \in Servers, NEW kind, kind # "Disco", NEW d,
           NEW set, set \subseteq actors, Posts(s, kind, d, set)
    PROVE  LinksCalm /\ DiscosNotReady
  <1> DEFINE a == Poster(s, kind, d)
             disco == NewActor("Disco", s, Found(s, "domain"), 0, <<>>)
             created == IF Lookup(s, "domain") # NoConnection THEN <<a>> ELSE <<disco, a>>
  <1> USE FederationAssumption DEF Names
  <1>1. Gets(s, "domain", TRUE) /\ actors' = set \cup {created[i] : i \in DOMAIN created}
    BY DEF Posts, Gets, Poster
  <1>2. /\ \A r \in Servers, n \in Names : con[r][n].address # NoConnection =>
                                             con'[r][n] = con[r][n]
        /\ \A r \in Servers, n \in Names : route[r][n] # NoConnection =>
                                             route'[r][n] = route[r][n]
    BY <1>1, GetsConnection
  <1>3. a.kind # "Disco" /\ disco.kind = "Disco" /\ disco.at = s /\ disco.con = Found(s, "domain")
    BY DEF NewActor, Poster
  <1> HIDE DEF a, disco
  <1>4. ASSUME NEW b \in actors', b.kind = "Disco", b \notin set
        PROVE  b = disco /\ Lookup(s, "domain") = NoConnection
    <2>1. CASE Lookup(s, "domain") # NoConnection
      BY <1>1, <1>3, <1>4, <2>1
    <2>2. CASE Lookup(s, "domain") = NoConnection
      <3>1. created = <<disco, a>> /\ DOMAIN created = {1, 2}
        BY <2>2
      <3> QED
        BY <1>1, <1>3, <1>4, <2>2, <3>1
    <2> QED
      BY <2>1, <2>2
  <1> HIDE DEF created
  <1>5. ASSUME Lookup(s, "domain") = NoConnection
        PROVE  /\ Found(s, "domain") = "domain" /\ con[s]["domain"].address = NoConnection
               /\ ~con'[s]["domain"].ready
    <2>1. route[s]["domain"] = NoConnection /\ Found(s, "domain") = "domain"
      BY <1>5 DEF Lookup, Found
    <2>2. con[s]["domain"].address = NoConnection
      BY <2>1 DEF LinkInv, LeadsSomewhere, Address
    <2>3. con' = [con EXCEPT ![s]["domain"] = NewConnection("domain", TRUE)]
      BY <1>1, <1>5 DEF Gets, ConsWith
    <2>4. con'[s]["domain"] = NewConnection("domain", TRUE)
      BY <2>3 DEF LinkInv, LinkTypeOK
    <2>5. ~NewConnection("domain", TRUE).ready
      BY DEF NewConnection
    <2> QED
      BY <2>1, <2>2, <2>4, <2>5
  <1>6. ASSUME NEW r \in Servers, NEW n \in Names, con[r][n].address # NoConnection, DiscoAt(r, n)'
        PROVE  DiscoAt(r, n)
    <2>1. PICK b \in actors' : b.kind = "Disco" /\ b.at = r /\ b.con = n
      BY <1>6 DEF DiscoAt
    <2>2. b \in set
      BY <1>3, <1>4, <1>5, <1>6, <2>1
    <2> QED
      BY <2>1, <2>2 DEF DiscoAt
  <1>7. LinksCalm
    BY <1>2, <1>6 DEF LinksCalm
  <1>8. DiscosNotReady
    <2> SUFFICES ASSUME NEW b \in actors', b.kind = "Disco", b \notin actors
                 PROVE  ~con'[b.at][b.con].ready
      BY DEF DiscosNotReady
    <2> QED
      BY <1>3, <1>4, <1>5
  <1> QED
    BY <1>7, <1>8

\* A client of the copy submits.
LEMMA QuietSubmit ==
    ASSUME AnswerInv, AnswerInv', CleanInv, CopyClientSubmits
    PROVE  CleanInv'
  <1> DEFINE d == Delta(HashedVersion(copy), Nobody, Nobody)
             a == Poster("copy", "SubmitRequest", d)
  <1>1. /\ LinkInv /\ Queue /\ "copy" \in Servers /\ wire' = wire /\ HistoriesSame
        /\ Posts("copy", "SubmitRequest", d, actors)
    BY DEF AnswerInv, CleanInv, Servers, CopyClientSubmits, HistoriesSame, CopySame, hostVars, copyVars
  <1> HIDE DEF d
  <1>2. LinksCalm /\ DiscosNotReady
    BY <1>1, PostedLinksAreCalm
  <1>6. /\ a.kind = "SubmitRequest" /\ a.step = "new" /\ a.request = NoStanza
        /\ actors \cup {a} \subseteq actors'
        /\ \A b \in actors' : \/ b \in actors \cup {a}
                              \/ b.kind = "Disco" /\ b.step = "new" /\ b.request = NoStanza
        /\ IsFiniteSet(actors) => IsFiniteSet(actors')
        /\ \E q : /\ IsSequence(q) /\ events' = [events EXCEPT !["copy"] = @ \o q]
                  /\ \A i \in DOMAIN q : q[i] = Key(a) \/ q[i][1] = "Disco"
    <2>1. PostsMore("copy", "SubmitRequest", d, actors)
      <3>1. "SubmitRequest" # "Disco" /\ actors \subseteq actors
        OBVIOUS
      <3> QED
        BY <1>1, <3>1, Posted
    <2> QED
      BY <2>1 DEF PostsMore
  <1> HIDE DEF a
  <1>3. /\ \A b \in actors' : \/ b \in actors
                              \/ b.kind \in {"SubmitRequest", "Disco"} /\ b.step = "new"
                                 /\ b.request = NoStanza
        /\ actors \subseteq actors' /\ IsFiniteSet(actors')
    BY <1>1, <1>6 DEF Queue
  <1>4. \A b \in actors' : Concerns(b) => b \in actors
    BY <1>3 DEF Concerns, Exchange, NoStanza
  <1>5. EventsTyped' /\ \A r \in Servers : CalmKeys(r)
    <2>1. PICK q : /\ IsSequence(q) /\ events' = [events EXCEPT !["copy"] = @ \o q]
                   /\ \A i \in DOMAIN q : q[i] = Key(a) \/ q[i][1] = "Disco"
      BY <1>6
    <2>2. Key(a)[1] = "SubmitRequest"
      BY <1>6, KeyOf
    <2>3. \A i \in DOMAIN q : q[i][1] \notin Exchange
      BY <2>1, <2>2 DEF Exchange
    <2> QED
      BY <1>1, <2>1, <2>3, EventsMore
  <1> QED
    BY <1>1, <1>2, <1>3, <1>4, <1>5, SameWires, CalmIfNobody DEF LinksAndEventsCalm

\* The wavelet refuses a delta.
LEMMA QuietRefusal ==
    ASSUME AnswerInv, AnswerInv', CleanInv, NEW a \in actors, SubmitCommits(a),
           ~CheckHashedVersion(wavelet, a.deltas[1].base)
    PROVE  CleanInv'
  <1>1. /\ End(a) /\ UNCHANGED <<con, route, events, wavelet, stored, copy, updates>>
        /\ wire' = wire \/ Send("host", [Result(a) EXCEPT !.told = NotTold])
    BY DEF SubmitCommits, hostVars, copyVars
  <1>2. /\ a.kind = "SubmitResponse" /\ HonestActor(a) /\ LinkTypeOK /\ "host" \in Servers
        /\ a.kind \notin Exchange
    BY ActorTyped DEF SubmitCommits, IsActor, Takes, AnswerInv, AnswersHonest, LinkInv, Servers,
                      Exchange
  <1>3. HistoriesSame /\ KeepsLinks
    BY <1>1, <1>2, SameLinks DEF HistoriesSame, CopySame
  <1>4. ~Matters([Result(a) EXCEPT !.told = NotTold])
    BY <1>2, CalmStanzas DEF CleanInv, Traffic
  <1>5. \A s \in Servers : CalmWire(s)
    BY <1>1, <1>2, <1>4, SameWires, SentIsCalm
  <1> QED
    BY <1>1, <1>2, <1>3, <1>5, CalmIfEnds

-----------------------------------------------------------------------------
(* The discovery ends, and the connection is ready.                         *)

\* A sequence and what is put at its end.
LEMMA Joined ==
    ASSUME NEW p, IsSequence(p), NEW q, IsSequence(q)
    PROVE  /\ IsSequence(p \o q) /\ DOMAIN p \subseteq DOMAIN (p \o q)
           /\ DOMAIN (p \o q) \subseteq Nat /\ Len(p) \in Nat
           /\ \A i \in DOMAIN p : (p \o q)[i] = p[i]
           /\ \A i \in DOMAIN (p \o q) \ DOMAIN p :
                 i - Len(p) \in DOMAIN q /\ (p \o q)[i] = q[i - Len(p)]
           /\ \A i \in DOMAIN p, j \in DOMAIN (p \o q) \ DOMAIN p : i < j
  <1> DEFINE T == ToSet(p) \cup ToSet(q)
             n == Len(p)
  <1>1. p \in Seq(T) /\ q \in Seq(T)
    BY SeqMonotonic DEF IsSequence
  <1>2. /\ p \o q \in Seq(T) /\ Len(p \o q) = n + Len(q) /\ n \in Nat /\ Len(q) \in Nat
        /\ \A i \in 1..n : (p \o q)[i] = p[i]
        /\ \A i \in 1..Len(q) : (p \o q)[n + i] = q[i]
        /\ DOMAIN q = 1..Len(q) /\ DOMAIN p = 1..n
    BY <1>1, ConcatProperties, LenProperties
  <1>3. DOMAIN (p \o q) = 1..(n + Len(q))
    BY <1>2
  <1>4. IsSequence(p \o q)
    BY <1>2, SequenceOfItsElements
  <1> HIDE DEF T, n
  <1>5. ASSUME NEW i \in DOMAIN (p \o q) \ DOMAIN p
        PROVE  i - n \in DOMAIN q /\ (p \o q)[i] = q[i - n]
    <2>1. i - n \in 1..Len(q) /\ i = n + (i - n)
      BY <1>2, <1>3
    <2> QED
      BY <1>2, <2>1
  <1>6. \A i \in DOMAIN p, j \in DOMAIN (p \o q) \ DOMAIN p : i < j
    BY <1>2, <1>3
  <1>7. DOMAIN p \subseteq DOMAIN (p \o q) /\ DOMAIN (p \o q) \subseteq Nat
    BY <1>2, <1>3
  <1> QED
    BY <1>2, <1>4, <1>5, <1>6, <1>7 DEF n

\* What begins to be run at a server: the actors that waited for a connection.
Woken(t, n) == {b \in actors : b.at = t /\ b.con = n /\ b.step = "wait"}

\* The events of actors that are woken.
Wakes(t, W) ==
    /\ \A i \in DOMAIN events[t] :
          i \in DOMAIN events'[t] /\ events'[t][i] = events[t][i]
    /\ \A i \in DOMAIN events'[t] \ DOMAIN events[t] : \E b \in W : events'[t][i] = Key(b)
    /\ \A i, j \in DOMAIN events'[t] \ DOMAIN events[t] :
          events'[t][i] = events'[t][j] /\ events'[t][i][1] \in Exchange => i = j
    /\ \A s \in Servers \ {t} : events'[s] = events[s]

LEMMA SameActor ==
    ASSUME Once, NEW a \in actors, NEW b \in actors, Key(a) = Key(b), a.kind \in Exchange
    PROVE  a = b
  BY KeyOf DEF Once

LEMMA SignalsWake ==
    ASSUME Queue, Once, NEW t \in Servers, NEW W, W \subseteq actors, Signals(t, W)
    PROVE  EventsTyped' /\ Wakes(t, W)
  <1>1. IsFiniteSet(W)
    BY FS_Subset DEF Queue
  <1>2. PICK order \in SetToSeqs(W) :
           events' = [events EXCEPT ![t] = @ \o [i \in DOMAIN order |-> Key(order[i])]]
    BY DEF Signals
  <1> DEFINE q == [i \in DOMAIN order |-> Key(order[i])]
             p == events[t]
  <1>3. /\ IsSequence(q) /\ DOMAIN q = DOMAIN order
        /\ \A i \in DOMAIN order : order[i] \in W
        /\ \A i, j \in DOMAIN order : order[i] = order[j] => i = j
        /\ DOMAIN order \subseteq Nat
    BY <1>1, SignalsAre
  <1>4. \A i \in DOMAIN q : q[i] = Key(order[i])
    OBVIOUS
  <1>5. events = [s \in Servers |-> events[s]] /\ IsSequence(p)
    BY DEF Queue, EventsTyped
  <1>6. events'[t] = p \o q /\ \A s \in Servers \ {t} : events'[s] = events[s]
    BY <1>2, <1>5
  <1> HIDE DEF p, q
  <1>7. /\ IsSequence(p \o q) /\ DOMAIN p \subseteq DOMAIN (p \o q) /\ DOMAIN (p \o q) \subseteq Nat
        /\ Len(p) \in Nat
        /\ \A i \in DOMAIN p : (p \o q)[i] = p[i]
        /\ \A i \in DOMAIN (p \o q) \ DOMAIN p :
              i - Len(p) \in DOMAIN q /\ (p \o q)[i] = q[i - Len(p)]
    BY <1>3, <1>5, Joined
  <1>8. EventsTyped'
    <2>1. events' = [s \in Servers |-> events'[s]]
      BY <1>2, <1>5
    <2> QED
      BY <1>6, <1>7, <2>1 DEF EventsTyped, Queue
  <1>9. ASSUME NEW i \in DOMAIN (p \o q) \ DOMAIN p, NEW j \in DOMAIN (p \o q) \ DOMAIN p,
               (p \o q)[i] = (p \o q)[j], (p \o q)[i][1] \in Exchange
        PROVE  i = j
    <2> DEFINE x == i - Len(p)
               y == j - Len(p)
    <2>1. x \in DOMAIN order /\ y \in DOMAIN order /\ q[x] = q[y] /\ q[x][1] \in Exchange
      BY <1>3, <1>7, <1>9
    <2>2. order[x] \in actors /\ order[y] \in actors /\ Key(order[x]) = Key(order[y])
      BY <1>3, <1>4, <2>1
    <2>3. order[x].kind \in Exchange
      BY <1>3, <1>4, <2>1, KeyOf
    <2>4. order[x] = order[y]
      BY <2>2, <2>3, SameActor
    <2>5. x = y
      BY <1>3, <2>1, <2>4
    <2>6. i \in Nat /\ j \in Nat
      BY <1>7
    <2> QED
      BY <1>7, <2>5, <2>6
  <1>10. \A i \in DOMAIN (p \o q) \ DOMAIN p : \E b \in W : (p \o q)[i] = Key(b)
    BY <1>3, <1>4, <1>7
  <1> QED
    BY <1>6, <1>7, <1>8, <1>9, <1>10 DEF Wakes, p

LEMMA InfoKeepsOrder ==
    ASSUME AnswerInv, AnswerInv', CleanInv, NEW t \in Servers, NEW a, DiscoGetsInfo(t, a)
    PROVE  CleanInv'
  <1> DEFINE W == Woken(t, "domain")
  <1>1. LinkInv /\ Queue /\ Once /\ Traffic /\ "host" \in Servers
    BY DEF AnswerInv, CleanInv, Servers
  <1>2. a \in actors /\ a.at = t /\ a.step = "info"
    BY <1>1, AnswersFor DEF DiscoGetsInfo
  <1>3. /\ a.kind = "Disco" /\ a.con = "domain"
        /\ \A b \in actors : b.kind = "Disco" /\ b.at = t => b = a
    BY <1>1, <1>2, DiscoveryOf DEF Discos
  <1>4. /\ actors' = actors \ {a} /\ wire' = Rest(t) /\ route' = route /\ CanRead(t)
        /\ con' = [con EXCEPT ![t]["domain"].ready = TRUE] /\ Signals(t, W)
    BY <1>2, <1>3 DEF DiscoGetsInfo, End, Answers, Woken
  <1>5. HistoriesSame
    BY DEF DiscoGetsInfo, HistoriesSame, CopySame, hostVars, copyVars
  <1>6. /\ con'[t]["domain"].ready
        /\ con'[t]["domain"].address = con[t]["domain"].address
        /\ \A r \in Servers, n \in Names : r # t \/ n # "domain" => con'[r][n] = con[r][n]
    <2>1. con \in [Servers -> [Names -> Connections]] /\ "domain" \in Names
      BY <1>1 DEF LinkInv, LinkTypeOK, Names
    <2>2. /\ con'[t]["domain"] = [con[t]["domain"] EXCEPT !.ready = TRUE]
          /\ \A r \in Servers, n \in Names : r # t \/ n # "domain" => con'[r][n] = con[r][n]
      BY <1>4, <2>1
    <2>3. \A c \in Connections : /\ [c EXCEPT !.ready = TRUE].ready
                                 /\ [c EXCEPT !.ready = TRUE].address = c.address
      BY DEF Connections
    <2>4. con[t]["domain"] \in Connections
      BY <2>1
    <2> QED
      BY <2>2, <2>3, <2>4
  <1>7. EventsTyped' /\ Wakes(t, W)
    BY <1>1, <1>4, SignalsWake DEF Woken
  <1>8. DiscoAt(t, "domain")
    BY <1>2, <1>3 DEF DiscoAt
  <1>9. \A n : ~DiscoAt(t, n)'
    BY <1>3, <1>4 DEF DiscoAt
  <1>10. ASSUME NEW s, s # t, NEW n PROVE DiscoAt(s, n)' <=> DiscoAt(s, n)
    BY <1>2, <1>4, <1>10 DEF DiscoAt
  <1>11. \A b \in W : /\ b \in actors' /\ b.at = t /\ b.con = "domain" /\ b.step = "wait"
                      /\ b.kind \in Exchange => Key(b) \notin Keys(t)
    BY <1>1, <1>2, <1>4, <1>8 DEF Woken, Queue
  <1>12. \A b \in actors : b.kind \in Exchange => b \in actors'
    BY <1>3, <1>4 DEF Exchange
  <1> HIDE DEF W
  <1>13. Queue'
    <2>1. ASSUME NEW i \in DOMAIN events'[t], NEW j \in DOMAIN events'[t],
                 events'[t][i] = events'[t][j], events'[t][i][1] \in Exchange
          PROVE  i = j
      <3>1. CASE i \in DOMAIN events[t] /\ j \in DOMAIN events[t]
        BY <1>1, <1>7, <2>1, <3>1 DEF Queue, Wakes
      <3>2. CASE i \notin DOMAIN events[t] /\ j \notin DOMAIN events[t]
        BY <1>7, <2>1, <3>2 DEF Wakes
      <3>3. \A x \in DOMAIN events[t] : events[t][x] \in Keys(t)
        BY DEF Keys
      <3>4. \A x \in DOMAIN events'[t] \ DOMAIN events[t] :
               events'[t][x][1] \in Exchange => events'[t][x] \notin Keys(t)
        BY <1>7, <1>11, KeyOf DEF Wakes
      <3>5. CASE i \in DOMAIN events[t] /\ j \notin DOMAIN events[t]
        BY <1>7, <2>1, <3>3, <3>4, <3>5 DEF Wakes
      <3>6. CASE i \notin DOMAIN events[t] /\ j \in DOMAIN events[t]
        BY <1>7, <2>1, <3>3, <3>4, <3>6 DEF Wakes
      <3> QED
        BY <3>1, <3>2, <3>5, <3>6
    <2>2. ASSUME NEW s \in Servers, NEW i \in DOMAIN events'[s], NEW j \in DOMAIN events'[s],
                 events'[s][i] = events'[s][j], events'[s][i][1] \in Exchange
          PROVE  i = j
      <3>1. CASE s # t
        BY <1>1, <1>7, <2>2, <3>1 DEF Queue, Wakes
      <3> QED
        BY <2>1, <2>2, <3>1
    <2>3. ASSUME NEW s \in Servers, NEW k \in Keys(s)', k[1] \in Exchange
          PROVE  \E b \in actors' : b.at = s /\ Key(b) = k /\ b.step \in Fresh
      <3>1. PICK i \in DOMAIN events'[s] : events'[s][i] = k
        BY DEF Keys
      <3>2. CASE i \in DOMAIN events[s]
        <4>1. k \in Keys(s)
          BY <1>7, <3>1, <3>2 DEF Wakes, Keys
        <4>2. PICK b \in actors : b.at = s /\ Key(b) = k /\ b.step \in Fresh
          BY <1>1, <2>3, <4>1 DEF Queue
        <4> QED
          BY <1>12, <2>3, <4>2, KeyOf
      <3>3. CASE i \notin DOMAIN events[s]
        <4>1. s = t
          BY <1>7, <3>1, <3>3 DEF Wakes
        <4> QED
          BY <1>7, <1>11, <3>1, <3>3, <4>1 DEF Wakes, Fresh
      <3> QED
        BY <3>2, <3>3
    <2>4. ASSUME NEW b \in actors', b.kind \in Exchange, b.step = "wait", DiscoAt(b.at, b.con)'
          PROVE  Key(b) \notin Keys(b.at)'
      <3>1. b.at # t
        BY <1>9, <2>4
      <3>2. DiscoAt(b.at, b.con) /\ b \in actors /\ b.at \in Servers
        BY <1>1, <1>4, <1>10, <2>4, <3>1, ActorTyped
      <3> QED
        BY <1>1, <1>7, <2>4, <3>1, <3>2 DEF Queue, Wakes, Keys
    <2>5. ASSUME NEW b \in actors', b.kind = "Disco" PROVE ~con'[b.at][b.con].ready
      <3>1. b \in actors /\ b.at # t /\ b.at \in Servers /\ b.con \in Names
        BY <1>1, <1>3, <1>4, <2>5, ActorTyped
      <3> QED
        BY <1>1, <1>6, <2>5, <3>1 DEF Queue
    <2>6. IsFiniteSet(actors')
      BY <1>1, <1>4, FS_Subset DEF Queue
    <2> QED
      BY <1>7, <2>2, <2>3, <2>4, <2>5, <2>6 DEF Queue
  <1>14. ASSUME NEW v \in Unsent' PROVE v \in Unsent /\ v.at = "host" /\ v.kind \in Exchange
    BY <1>1, <1>4 DEF Unsent, OfKind, Traffic, Exchange
  <1>15. ASSUME NEW i \in DOMAIN events'[t] \ DOMAIN events[t], NEW b \in actors,
                b.kind \in Exchange, Key(b) = events'[t][i]
         PROVE  b \in W /\ b.con = "domain" /\ b.step = "wait"
    <2>1. PICK d \in W : events'[t][i] = Key(d)
      BY <1>7 DEF Wakes
    <2>2. d \in actors
      BY <1>4, <1>11
    <2> QED
      BY <1>1, <1>11, <1>15, <2>1, <2>2, SameActor
  <1>16. HopeKept
    <2> SUFFICES ASSUME NEW v \in Hopeful'
                 PROVE  v \in Hopeful /\ (Going(v) => Going(v)')
      BY DEF HopeKept
    <2>1. v \in Unsent' /\ v \in Unsent /\ v.at = "host" /\ v.kind \in Exchange /\ v \in actors
      BY <1>14 DEF Hopeful, Unsent, OfKind
    <2>2. v.con \in Names
      BY <1>1, <2>1, ActorTyped
    <2>3. CASE t # "host"
      <3>1. /\ events'["host"] = events["host"] /\ con'["host"][v.con] = con["host"][v.con]
            /\ DiscoAt("host", v.con)' <=> DiscoAt("host", v.con)
        BY <1>1, <1>6, <1>7, <1>10, <2>2, <2>3 DEF Wakes
      <3> QED
        <4>1. /\ Keys("host")' = Keys("host")
              /\ con'["host"][v.con].ready <=> con["host"][v.con].ready
              /\ con'["host"][v.con].address = con["host"][v.con].address
              /\ route'["host"]["component"] = route["host"]["component"]
          BY <1>4, <3>1 DEF Keys
        <4>2. Going(v)' <=> Going(v)
          BY <2>1, <4>1 DEF Going
        <4>3. Coming(v)' <=> Coming(v)
          BY <2>1, <3>1, <4>1 DEF Coming
        <4> QED
          BY <2>1, <4>2, <4>3 DEF Hopeful
    <2>4. CASE t = "host" /\ v.con = "domain"
      <3>1. Going(v)'
        BY <1>9, <2>4 DEF Hopeful, Coming
      <3>2. route["host"]["component"] = "domain"
        BY <1>4, <1>6, <2>4, <3>1 DEF Going, AnswerInv, LinkInv, ReadyIsReachable, Servers, Names
      <3>3. Coming(v)
        BY <1>8, <2>1, <2>4, <3>2 DEF Coming
      <3>4. ~Going(v)
        BY <1>1, <1>8, <2>4, Exclusive
      <3> QED
        BY <3>3, <3>4, <2>1 DEF Hopeful
    <2>5. CASE t = "host" /\ v.con # "domain"
      <3>1. Going(v)'
        BY <1>9, <2>5 DEF Hopeful, Coming
      <3>2. Key(v) \in Keys("host")
        <4>1. PICK i \in DOMAIN events'["host"] : events'["host"][i] = Key(v)
          BY <3>1 DEF Going, Keys
        <4>2. i \in DOMAIN events["host"]
          BY <1>15, <2>1, <2>5, <4>1
        <4> QED
          BY <1>7, <2>5, <4>1, <4>2 DEF Wakes, Keys
      <3>3. con'["host"][v.con] = con["host"][v.con]
        BY <1>1, <1>6, <2>2, <2>5
      <3>4. Going(v)
        BY <2>1, <3>1, <3>2, <3>3 DEF Going
      <3> QED
        BY <2>1, <3>1, <3>4 DEF Hopeful
    <2> QED
      BY <2>3, <2>4, <2>5
  <1>17. TurnsKept
    <2> SUFFICES ASSUME NEW h \in Repliers, NEW k \in Repliers', NEW u \in Hopeful,
                        NEW v \in Hopeful', Key(h) = Key(k), Key(u) = Key(v), InTurn(u, h)
                 PROVE  k.step = "new" /\ Before(v, k)'
      BY DEF TurnsKept
    <2>1. /\ h \in actors /\ k \in actors /\ h.kind \in Exchange
          /\ u \in actors /\ u.kind \in Exchange
      BY <1>4 DEF Repliers, OfKind, Hopeful, Unsent, Exchange
    <2>2. h = k /\ h.step = "new" /\ Going(u) /\ Before(u, h)
      BY <1>1, <2>1, SameActor DEF InTurn
    <2>3. ASSUME NEW i \in DOMAIN events'["host"], NEW j \in DOMAIN events'["host"],
                 events'["host"][i] = Key(u), events'["host"][j] = Key(h)
          PROVE  i < j
      <3>1. i \in DOMAIN events["host"]
        <4>1. ASSUME i \notin DOMAIN events["host"] PROVE FALSE
          <5>1. t = "host"
            BY <1>1, <1>7, <4>1 DEF Wakes
          <5>2. u.con = "domain"
            BY <1>15, <2>1, <2>3, <4>1, <5>1
          <5> QED
            BY <1>1, <1>8, <2>2, <5>1, <5>2, Exclusive
        <4> QED
          BY <4>1
      <3>2. j \in DOMAIN events["host"]
        <4>1. ASSUME j \notin DOMAIN events["host"] PROVE FALSE
          <5>1. t = "host"
            BY <1>1, <1>7, <4>1 DEF Wakes
          <5> QED
            BY <1>15, <2>1, <2>2, <2>3, <4>1, <5>1
        <4> QED
          BY <4>1
      <3>3. events["host"][i] = Key(u) /\ events["host"][j] = Key(h)
        BY <1>1, <1>7, <2>3, <3>1, <3>2 DEF Wakes
      <3> QED
        BY <2>2, <3>1, <3>2, <3>3 DEF Before
    <2> QED
      BY <2>2, <2>3 DEF Before
  <1>18. \A s \in Servers : CalmWire(s)
    BY <1>4, RestIsCalm DEF CanRead
  <1>19. Steps(a, a)
    BY <1>1, <1>4, NobodySteps
  <1>20. Traffic' /\ Once'
    BY <1>1, <1>5, <1>18, <1>19, TrafficKept, OnceKept DEF HistoriesSame
  <1>21. (CopyFits /\ Alone /\ Ahead /\ SentOrder /\ HistoryOrder)'
    BY <1>5, <1>16, <1>17, <1>18, <1>19, OrderKept DEF HistoriesSame
  <1>22. HostHistory'
    BY <1>5 DEF HistoriesSame, CleanInv, HostHistory
  <1> QED
    BY <1>13, <1>20, <1>21, <1>22 DEF CleanInv

-----------------------------------------------------------------------------
(* The copy applies deltas, and gets those it has asked for.                *)

\* What holds after a step that adds no actor, whatever it sends.
LEMMA SteadyStep ==
    ASSUME AnswerInv, CleanInv, stored' = stored, wavelet' = wavelet,
           NEW b, NEW c, Steps(b, c), Stays(b), Unturned(b, c), IsFiniteSet(actors'),
           LinksAndEventsCalm
    PROVE  HostHistory' /\ Queue' /\ HopeKept /\ TurnsKept
  <1>1. LinkInv /\ Traffic /\ Queue /\ "host" \in Servers
    BY DEF AnswerInv, CleanInv, Servers
  <1>2. HopeKept /\ TurnsKept
    BY <1>1, HopeOfSteps, TurnsAreKept DEF LinksAndEventsCalm
  <1>3. HostHistory'
    BY DEF CleanInv, HostHistory
  <1>4. Queue'
    BY <1>1, QueueKept DEF LinksAndEventsCalm
  <1> QED
    BY <1>2, <1>3, <1>4

LEMMA OvertakesKept ==
    ASSUME HopeKept
    PROVE  \A d : Overtakes(d) => Overtakes(d)'
  BY PositionsKept DEF Overtakes

\* What an actor that takes a step, or ends, has to do with the rest.
LEMMA OneSteps ==
    ASSUME AnswerInv, CleanInv, NEW a \in actors, NEW step,
           End(a) \/ Become(a, [a EXCEPT !.step = step]),
           step \notin {"new", "wait"}, a.kind \in Exchange => step \in StepsOf[a.kind],
           step = "query" => a.kind = "HistoryResponse",
           Runs(a) \/ (events' = events /\ ~(a.kind \in Exchange /\ a.step \in Fresh)),
           con' = con, route' = route
    PROVE  /\ Steps(a, [a EXCEPT !.step = step]) /\ Stays(a)
           /\ Unturned(a, [a EXCEPT !.step = step])
           /\ IsFiniteSet(actors') /\ LinksAndEventsCalm
  <1> DEFINE c == [a EXCEPT !.step = step]
  <1>1. IsActor(a) /\ HonestActor(a) /\ a.at \in Servers /\ LinkTypeOK
    BY ActorTyped DEF AnswerInv, AnswersHonest, LinkInv
  <1>2. /\ c.kind = a.kind /\ c.at = a.at /\ c.con = a.con /\ c.id = a.id
        /\ c.deltas = a.deltas /\ c.request = a.request /\ c.step = step
    BY <1>1 DEF HonestActor
  <1>3. actors' = actors \ {a} \/ actors' = (actors \ {a}) \cup {c}
    BY DEF End, Become
  <1> HIDE DEF c
  <1>4. Steps(a, c)
    BY <1>2, <1>3 DEF Steps, Alike, Fresh
  <1>5. EventsTyped' /\ \A s \in Servers : CalmKeys(s)
    BY <1>1, EventsSame, EventsRun DEF CleanInv
  <1>6. Stays(a)
    BY <1>1, <1>3, EventsRun DEF Stays, CleanInv
  <1>7. Unturned(a, c)
    <2> SUFFICES ASSUME a \in Repliers, a.step = "new", NEW u \in Hopeful, InTurn(u, a)
                 PROVE  FALSE
      BY DEF Unturned
    <2>1. a.kind = "HistoryResponse" /\ a.at = "host"
      BY DEF Repliers, OfKind, CleanInv, Traffic
    <2>2. Runs(a)
      BY <2>1 DEF Exchange, Fresh
    <2>3. events["host"][1] = Key(a) /\ 1 \in DOMAIN events["host"]
      BY <1>1, <2>1, <2>2, EventsRun DEF CleanInv
    <2>4. PICK i \in DOMAIN events["host"] : events["host"][i] = Key(u)
      BY DEF InTurn, Going, Keys
    <2>5. i < 1
      BY <2>3, <2>4 DEF InTurn, Before
    <2>6. i \in 1..Len(events["host"])
      BY SequenceDomain DEF CleanInv, Queue, EventsTyped, Servers
    <2> QED
      BY <2>5, <2>6, SequenceDomain DEF CleanInv, Queue, EventsTyped, Servers
  <1>8. IsFiniteSet(actors')
    <2>1. IsFiniteSet(actors)
      BY DEF CleanInv, Queue
    <2>2. IsFiniteSet(actors \ {a})
      BY <2>1, FS_Subset
    <2>3. IsFiniteSet((actors \ {a}) \cup {c})
      BY <2>2, FS_AddElement
    <2> QED
      BY <1>3, <2>2, <2>3
  <1>9. SameDiscos /\ KeepsLinks
    BY <1>1, <1>2, <1>3, SameLinks DEF SameDiscos
  <1> QED
    BY <1>4, <1>5, <1>6, <1>7, <1>8, <1>9, KeptLinksAreCalm DEF LinksAndEventsCalm, c

\* Nobody takes a step.
LEMMA NoneSteps ==
    ASSUME AnswerInv, CleanInv, actors' = actors, events' = events, con' = con, route' = route
    PROVE  \E b : b \notin actors /\ Steps(b, b) /\ Stays(b) /\ Unturned(b, b)
                  /\ IsFiniteSet(actors') /\ LinksAndEventsCalm
  <1> DEFINE b == {x \in actors : x \notin x}
  <1>1. b \notin actors
    OBVIOUS
  <1> HIDE DEF b
  <1>2. Steps(b, b)
    BY NobodySteps DEF CleanInv
  <1>3. Stays(b) /\ Unturned(b, b)
    BY <1>1 DEF Stays, Unturned, Repliers, OfKind
  <1>4. LinkTypeOK /\ SameDiscos
    BY DEF AnswerInv, LinkInv, SameDiscos
  <1>5. KeepsLinks
    BY <1>4, SameLinks
  <1>6. EventsTyped' /\ \A s \in Servers : CalmKeys(s)
    BY EventsSame DEF CleanInv
  <1>7. IsFiniteSet(actors')
    BY DEF CleanInv, Queue
  <1> QED
    BY <1>1, <1>2, <1>3, <1>4, <1>5, <1>6, <1>7, KeptLinksAreCalm DEF LinksAndEventsCalm

\* A history that begins as the host's history and is as long as its version is
\* has the hash that the next delta is based on.
LEMMA CopyIsBase ==
    ASSUME HostHistory, CopyFits, NEW d, NEW i \in 1..Len(stored), d = stored[i],
           i = copy.version + 1
    PROVE  d.base = HashedVersion(copy) /\ CheckHashedVersion(copy, d.base)
  <1> DEFINE v == copy.version
  <1>1. v \in Nat /\ v = Len(copy.hash) /\ DOMAIN copy.hash = 1..v /\ IsSequence(copy.hash)
    BY SequenceDomain DEF CopyFits
  <1>2. d.base = [version |-> v, hash |-> SubSeq(wavelet.hash, 1, v)]
    BY <1>1 DEF HostHistory
  <1>3. /\ IsSequence(wavelet.hash) /\ Len(stored) \in Nat
        /\ v < Len(stored) /\ Len(wavelet.hash) = Len(stored)
        /\ \A j \in 1..v : wavelet.hash[j] = copy.hash[j]
    <2>1. IsSequence(wavelet.hash) /\ Len(stored) \in Nat /\ Len(wavelet.hash) = Len(stored)
      BY SequenceDomain DEF HostHistory
    <2>2. v < Len(stored)
      BY <1>1, <2>1
    <2>3. ASSUME NEW j \in 1..v PROVE wavelet.hash[j] = copy.hash[j]
      <3>1. j \in 1..Len(stored)
        BY <1>1, <2>1, <2>2
      <3> QED
        BY <3>1 DEF HostHistory, CopyFits
    <2> QED
      BY <2>1, <2>2, <2>3
  <1>4. SubSeq(wavelet.hash, 1, v) = copy.hash
    <2> DEFINE p == SubSeq(wavelet.hash, 1, v)
               T == ToSet(wavelet.hash)
               S == ToSet(copy.hash)
    <2>1. wavelet.hash \in Seq(T) /\ copy.hash \in Seq(S)
      BY <1>1, <1>3 DEF IsSequence
    <2>2. v \in 0..Len(wavelet.hash)
      BY <1>1, <1>3
    <2>3. p \in Seq(T) /\ Len(p) = v /\ \A j \in 1..v : p[j] = wavelet.hash[j]
      <3>1. 1 \in 1..(Len(wavelet.hash) + 1)
        BY <1>1, <1>3
      <3>2. p \in Seq(T) /\ Len(p) = (IF 1 <= v THEN v - 1 + 1 ELSE 0)
            /\ \A j \in 1..(v - 1 + 1) : p[j] = wavelet.hash[1 + j - 1]
        BY <1>1, <2>1, <2>2, <3>1, SubSeqProperties
      <3> QED
        BY <1>1, <3>2
    <2> HIDE DEF p, T, S
    <2>4. \A j \in 1..Len(p) : p[j] = copy.hash[j]
      BY <1>1, <1>3, <2>3
    <2> QED
      BY <1>1, <2>1, <2>3, <2>4, SeqEqual DEF p
  <1>5. d.base = HashedVersion(copy)
    BY <1>2, <1>4 DEF HashedVersion
  <1>6. CheckHashedVersion(copy, d.base)
    <2>1. CASE v > 0
      <3>1. d.base.version > 0
        BY <1>2, <2>1
      <3> QED
        BY <1>5, <3>1 DEF CheckHashedVersion
    <2>2. CASE v = 0
      <3>1. copy.hash = <<>>
        BY <1>1, <2>2, EmptySeq DEF IsSequence
      <3>2. d.base = Version0
        BY <1>2, <1>4, <2>2, <3>1 DEF Version0, UrlHash
      <3> QED
        BY <3>2 DEF CheckHashedVersion
    <2> QED
      BY <1>1, <2>1, <2>2
  <1> QED
    BY <1>5, <1>6

\* The copy applies the next delta.
LEMMA CopyGrows ==
    ASSUME AnswerInv, AnswerInv', Numbered, CleanInv, CopyUpdates
    PROVE  CleanInv'
  <1> DEFINE v == copy.version
             n == Len(updates)
             d == Head(updates)
  <1>1. /\ updates # <<>> /\ updates' = Tail(updates)
        /\ copy' = IF CheckHashedVersion(copy, d.base) THEN Applied(copy, d) ELSE copy
        /\ UNCHANGED <<actors, events, con, route, wire, stored, wavelet>>
    BY DEF CopyUpdates, linkVars, hostVars
  <1>2. PICK b : b \notin actors /\ Steps(b, b) /\ Stays(b) /\ Unturned(b, b)
                 /\ IsFiniteSet(actors') /\ LinksAndEventsCalm
    BY <1>1, NoneSteps
  <1>3. HostHistory' /\ Queue' /\ HopeKept /\ TurnsKept
    BY <1>1, <1>2, SteadyStep
  <1>4. \A s \in Servers : CalmWire(s)
    BY <1>1, SameWires
  <1>5. Traffic' /\ Once'
    BY <1>1, <1>2, <1>4, TrafficKept, OnceKept DEF CleanInv
  <1>6. /\ v \in Nat /\ v = Len(copy.hash) /\ DOMAIN copy.hash = 1..v /\ IsSequence(copy.hash)
        /\ n \in Nat /\ IsSequence(updates) /\ DOMAIN updates = 1..n
        /\ v + n <= Len(stored) /\ Len(stored) \in Nat
    BY SequenceDomain DEF CleanInv, CopyFits, HostHistory
  <1>7. /\ n >= 1 /\ d = updates[1] /\ Len(updates') = n - 1 /\ IsSequence(updates')
        /\ \A i \in 1..(n - 1) : updates'[i] = updates[i + 1]
    <2>1. updates \in Seq(ToSet(updates))
      BY <1>6 DEF IsSequence
    <2>2. /\ Tail(updates) \in Seq(ToSet(updates)) /\ Len(Tail(updates)) = n - 1
          /\ \A i \in 1..Len(Tail(updates)) : Tail(updates)[i] = updates[i + 1]
          /\ n # 0 /\ updates[1] = Head(updates)
      BY <1>1, <2>1, HeadTailProperties
    <2>3. IsSequence(Tail(updates))
      BY <2>2, SequenceOfItsElements
    <2>4. n >= 1
      BY <1>6, <2>2
    <2> QED
      BY <1>1, <2>2, <2>3, <2>4
  <1>8. /\ v + 1 \in 1..Len(stored) /\ d = stored[v + 1]
        /\ CheckHashedVersion(copy, d.base) /\ d.ops = 1
    <2>1. v + 1 \in 1..Len(stored) /\ 1 \in 1..n
      BY <1>6, <1>7
    <2>2. d = stored[v + 1]
      BY <1>7, <2>1 DEF CleanInv, CopyFits
    <2>3. d \in Deltas
      BY <2>1, <2>2 DEF Deltas
    <2> QED
      BY <2>1, <2>2, <2>3, CopyIsBase DEF CleanInv, Numbered
  <1> HIDE DEF d
  <1>9. copy'.version = v + 1 /\ copy'.hash = Append(copy.hash, d.id)
    BY <1>1, <1>8 DEF Applied
  <1>10. /\ IsSequence(copy'.hash) /\ Len(copy'.hash) = v + 1
         /\ \A i \in 1..v : copy'.hash[i] = copy.hash[i]
         /\ copy'.hash[v + 1] = d.id
    BY <1>6, <1>9, Appended
  <1>11. CopyFits'
    <2>1. ASSUME NEW i \in 1..(v + 1) PROVE copy'.hash[i] = stored[i].id
      <3>1. CASE i = v + 1
        BY <1>8, <1>10, <3>1
      <3>2. CASE i # v + 1
        <4>1. i \in 1..v
          BY <1>6, <3>2
        <4> QED
          BY <1>10, <4>1 DEF CleanInv, CopyFits
      <3> QED
        BY <3>1, <3>2
    <2>2. ASSUME NEW i \in 1..(n - 1) PROVE updates'[i] = stored[(v + 1) + i]
      <3>1. i + 1 \in 1..n /\ v + (i + 1) = (v + 1) + i
        <4>1. v \in Nat /\ n \in Nat
          BY <1>6
        <4> QED
          BY <4>1
      <3>2. updates[i + 1] = stored[v + (i + 1)]
        BY <3>1 DEF CleanInv, CopyFits
      <3> QED
        BY <1>7, <3>1, <3>2
    <2>3. copy'.version = Len(copy'.hash) /\ copy'.version + Len(updates') <= Len(stored)
      <3> HIDE DEF v, n
      <3> QED
        BY <1>6, <1>7, <1>9, <1>10
    <2> HIDE DEF v, n
    <2> QED
      BY <1>1, <1>7, <1>9, <1>10, <2>1, <2>2, <2>3 DEF CopyFits
  <1>12. Takers' = {}
    <2>1. Takers = {}
      BY <1>1 DEF CleanInv, Alone
    <2> QED
      BY <1>1, <2>1 DEF Takers, OfKind
  <1>13. copy'.version + Len(updates') = v + n
    BY <1>6, <1>7, <1>9
  <1>14. Ahead'
    <2>1. ASSUME NEW u \in Hopeful' PROVE Pos(u.deltas[1]) >= v + n
      <3>1. PICK x \in Hopeful : x.deltas = u.deltas
        BY <1>3, PositionsKept
      <3> QED
        BY <3>1 DEF CleanInv, Ahead
    <2>2. ASSUME NEW j \in Reaches' PROVE Pos(Down'[j].deltas[1]) >= v + n
      <3>1. PICK k \in Reaches : Down[k] = Down'[j]
        BY <1>4, ReachesKept DEF Servers
      <3> QED
        BY <3>1 DEF CleanInv, Ahead
    <2> QED
      BY <1>13, <2>1, <2>2 DEF Ahead, Pos
  <1>15. SentOrder'
    <2>1. ASSUME NEW j \in Reaches' PROVE Overtakes(Down[j].deltas[1])'
      <3>1. PICK k \in Reaches : Down[k] = Down'[j]
        BY <1>4, ReachesKept DEF Servers
      <3> QED
        BY <1>3, <3>1, OvertakesKept DEF CleanInv, SentOrder, Overtakes
    <2> QED
      BY <1>12, <2>1 DEF SentOrder
  <1>16. Alone' /\ HistoryOrder'
    BY <1>12 DEF Alone, HistoryOrder
  <1> QED
    BY <1>3, <1>5, <1>11, <1>14, <1>15, <1>16 DEF CleanInv

\* The deltas arrive that come before one that has been received.
LEMMA HistoryFills ==
    ASSUME AnswerInv, AnswerInv', CleanInv, NEW a \in actors, HistoryArrives(a)
    PROVE  CleanInv'
  <1> DEFINE m == Incoming("copy")
             d == a.deltas[1]
             v == copy.version
  <1>1. /\ wire["host"] # <<>> /\ m = Head(wire["host"]) /\ IsHistory(m) /\ Key(a) = m.key
        /\ a.step = "history" /\ a.at = "copy" /\ m.to = "component"
        /\ updates' = updates \o m.deltas \o a.deltas /\ End(a) /\ wire' = Rest("copy")
        /\ UNCHANGED <<con, route, events, stored, wavelet, copy>>
    BY DEF HistoryArrives, Answers, CanRead, IsFor, Incoming, Peer, IsHistory, linkVars, hostVars
  <1>2. /\ 1 \in Histories /\ Down[1] = m /\ Down' = Tail(Down) /\ IsSequence(Down)
        /\ DOMAIN Down = 1..Len(Down) /\ Len(Down) \in Nat
    <2>1. /\ IsSequence(Down) /\ DOMAIN Down = 1..Len(Down) /\ Len(Down) \in Nat
          /\ wire = [s \in Servers |-> wire[s]]
      BY WiresTyped
    <2>2. Down \in Seq(ToSet(Down)) /\ Down # <<>> /\ m = Head(Down)
      BY <1>1, <2>1 DEF Down, IsSequence
    <2>3. Len(Down) # 0 /\ Down[1] = Head(Down)
      BY <2>2, HeadTailProperties
    <2>4. Down' = Tail(Down)
      BY <1>1, <2>1 DEF Rest, Peer, Down, Servers
    <2> QED
      BY <1>1, <2>1, <2>2, <2>3, <2>4 DEF Histories
  <1> HIDE DEF m
  <1>3. a \in Takers
    <2>1. Key(a) = AskKey(m.key[3])
      BY <1>1, <1>2 DEF CleanInv, Traffic
    <2>2. Key(a)[1] = "UpdateResponse"
      BY <2>1 DEF AskKey
    <2> QED
      BY <2>2, KeyOf DEF Takers, OfKind
  <1>4. /\ InStore(d) /\ Pos(d) \in Nat /\ a.deltas = <<d>>
    BY <1>3, TakenIsPlaced DEF CleanInv
  <1>5. /\ m.deltas = SubSeq(stored, v + 1, Pos(d))
        /\ \A j \in Reaches : 1 < j => After(Down[j], d)
        /\ \A u \in Hopeful : After(u, d)
        /\ updates = <<>> /\ Pos(d) >= v
    BY <1>1, <1>2, <1>3 DEF CleanInv, HistoryOrder, Asked3, Alone
  <1>6. /\ Pos(d) < Len(stored) /\ Len(stored) \in Nat /\ stored[Pos(d) + 1] = d /\ v \in Nat
        /\ IsSequence(stored) /\ DOMAIN stored = 1..Len(stored)
    <2>1. IsSequence(stored) /\ DOMAIN stored = 1..Len(stored)
      BY SequenceDomain DEF CleanInv, HostHistory
    <2>2. Pos(d) < Len(stored) /\ Len(stored) \in Nat /\ stored[Pos(d) + 1] = d
      BY <1>4, Placed DEF CleanInv
    <2>3. v \in Nat
      BY SequenceDomain DEF CleanInv, CopyFits
    <2> QED
      BY <2>1, <2>2, <2>3
  <1>7. /\ Steps(a, [a EXCEPT !.step = "history"]) /\ Stays(a)
        /\ Unturned(a, [a EXCEPT !.step = "history"])
        /\ IsFiniteSet(actors') /\ LinksAndEventsCalm
    <2>1. a.kind \in Exchange => "history" \in StepsOf[a.kind]
      BY <1>3 DEF Takers, OfKind, StepsOf
    <2>2. "history" \notin {"new", "wait"} /\ ("history" = "query" => a.kind = "HistoryResponse")
      OBVIOUS
    <2>3. ~(a.kind \in Exchange /\ a.step \in Fresh)
      BY <1>1 DEF Fresh
    <2> QED
      BY <1>1, <2>1, <2>2, <2>3, OneSteps
  <1>8. HostHistory' /\ Queue' /\ HopeKept /\ TurnsKept
    BY <1>1, <1>7, SteadyStep
  <1>9. \A s \in Servers : CalmWire(s)
    BY <1>1, RestIsCalm DEF Peer, Servers
  <1>10. Traffic' /\ Once'
    BY <1>1, <1>7, <1>9, TrafficKept, OnceKept DEF CleanInv
  <1>11. Takers' = {}
    <2>1. \A b \in actors : b.kind = "UpdateResponse" => b = a
      BY <1>3 DEF CleanInv, Alone, Takers, OfKind
    <2> QED
      BY <1>1, <2>1 DEF End, Takers, OfKind
  <1> DEFINE n == Pos(d) - v
  <1>12. /\ IsSequence(updates') /\ Len(updates') = n + 1 /\ n \in Nat
         /\ \A i \in 1..(n + 1) : updates'[i] = stored[v + i]
    <2> DEFINE p == SubSeq(stored, v + 1, Pos(d))
               T == ToSet(stored)
    <2> HIDE DEF d
    <2>1. /\ p \in Seq(T) /\ Len(p) = n /\ n \in Nat
          /\ \A i \in 1..n : p[i] = stored[v + i]
      <3>1. \A i \in (v + 1)..Pos(d) : stored[i] \in T
        <4>1. stored \in Seq(T)
          BY <1>6 DEF IsSequence
        <4> QED
          BY <1>4, <1>6, <4>1
      <3>3. v + 1 \in Int /\ Pos(d) \in Int
        BY <1>4, <1>6
      <3>2. /\ p \in Seq(T) /\ Len(p) = (IF v + 1 <= Pos(d) THEN Pos(d) - (v + 1) + 1 ELSE 0)
            /\ \A i \in 1..(Pos(d) - (v + 1) + 1) : p[i] = stored[(v + 1) + i - 1]
        BY <3>1, <3>3, SubSeqProperties
      <3> HIDE DEF p, T, v
      <3>4. n \in Nat /\ Pos(d) - (v + 1) + 1 = n /\ (v + 1 <= Pos(d) \/ n = 0)
        BY <1>4, <1>5, <1>6
      <3>5. Len(p) = n
        BY <3>2, <3>4
      <3>6. ASSUME NEW i \in 1..n PROVE p[i] = stored[v + i]
        <4>1. (v + 1) + i - 1 = v + i
          BY <1>6, <3>4
        <4> QED
          BY <3>2, <3>4, <4>1
      <3> QED
        BY <3>2, <3>4, <3>5, <3>6
    <2> HIDE DEF p, T
    <2>2. d \in T /\ <<d>> \in Seq(T)
      <3>1. d \in T
        <4>1. stored \in Seq(T)
          BY <1>6 DEF IsSequence, T
        <4> QED
          BY <1>4, <1>6, <4>1
      <3> QED
        BY <3>1
    <2>3. updates' = p \o <<d>>
      <3>1. updates' = (<<>> \o p) \o <<d>>
        BY <1>1, <1>4, <1>5 DEF p
      <3>2. <<>> \o p = p
        BY <2>1, ConcatEmptySeq
      <3> QED
        BY <3>1, <3>2
    <2>4. updates' = Append(p, d)
      BY <2>1, <2>2, <2>3, AppendIsConcat
    <2>5. IsSequence(p)
      BY <2>1, SequenceOfItsElements
    <2>6. /\ IsSequence(updates') /\ Len(updates') = n + 1
          /\ \A i \in 1..n : updates'[i] = p[i]
          /\ updates'[n + 1] = d
      BY <2>1, <2>4, <2>5, Appended
    <2>7. stored[v + (n + 1)] = d
      BY <1>4, <1>6
    <2>8. ASSUME NEW i \in 1..(n + 1) PROVE updates'[i] = stored[v + i]
      <3>1. CASE i = n + 1
        BY <2>6, <2>7, <3>1
      <3>2. CASE i # n + 1
        <4>1. i \in 1..n
          BY <2>1, <3>2
        <4> QED
          BY <2>1, <2>6, <4>1
      <3> QED
        BY <3>1, <3>2
    <2> QED
      BY <2>1, <2>6, <2>8
  <1> HIDE DEF d
  <1>13. v + Len(updates') = Pos(d) + 1
    BY <1>4, <1>6, <1>12
  <1>14. CopyFits'
    <2>1. v + Len(updates') <= Len(stored)
      BY <1>4, <1>6, <1>13
    <2>2. \A i \in 1..Len(updates') : updates'[i] = stored[v + i]
      BY <1>12
    <2> QED
      BY <1>1, <1>12, <2>1, <2>2 DEF CleanInv, CopyFits
  <1>15. Ahead'
    <2>1. ASSUME NEW u \in Hopeful' PROVE Pos(u.deltas[1]) >= Pos(d) + 1
      <3>1. PICK x \in Hopeful : x.deltas = u.deltas
        BY <1>8, PositionsKept
      <3>2. Pos(x.deltas[1]) > Pos(d) /\ Pos(x.deltas[1]) \in Nat
        BY <1>5, HopefulIsPlaced DEF After, CleanInv
      <3> QED
        BY <1>4, <3>1, <3>2
    <2>2. ASSUME NEW j \in Reaches' PROVE Pos(Down'[j].deltas[1]) >= Pos(d) + 1
      <3>1. PICK k \in Reaches : Down[k] = Down'[j]
        BY <1>9, ReachesKept DEF Servers
      <3>2. 1 < k
        <4>1. ~IsUpdate(m)
          BY <1>1 DEF IsUpdate, IsHistory
        <4>2. k # 1 /\ k \in DOMAIN Down
          BY <1>2, <4>1 DEF Reaches, Updates
        <4> QED
          BY <1>2, <4>2
      <3>3. Pos(Down[k].deltas[1]) > Pos(d) /\ Pos(Down[k].deltas[1]) \in Nat
        BY <1>5, <3>2, SentIsPlaced DEF After, CleanInv, Reaches
      <3> QED
        BY <1>4, <3>1, <3>3
    <2> QED
      BY <1>1, <1>13, <2>1, <2>2 DEF Ahead, Pos
  <1>16. SentOrder'
    <2>1. ASSUME NEW j \in Reaches' PROVE Overtakes(Down[j].deltas[1])'
      <3>1. PICK k \in Reaches : Down[k] = Down'[j]
        BY <1>9, ReachesKept DEF Servers
      <3> QED
        BY <1>8, <3>1, OvertakesKept DEF CleanInv, SentOrder, Overtakes
    <2> QED
      BY <1>11, <2>1 DEF SentOrder
  <1>17. Alone' /\ HistoryOrder'
    BY <1>11 DEF Alone, HistoryOrder
  <1> QED
    BY <1>8, <1>10, <1>14, <1>15, <1>16, <1>17 DEF CleanInv

-----------------------------------------------------------------------------
(* Updates, and the deltas asked for, are sent.                             *)

\* Traffic, actor by actor and stanza by stanza.
ActorFits(a) ==
    /\ a.kind \in Exchange => a.step \in StepsOf[a.kind]
    /\ a.step = "query" \/ a.request.kind = "history" => a.kind = "HistoryResponse"
    /\ a.kind = "WaveletUpdate" =>
          a.at = "host" /\ CarriesOne(a.deltas) /\ a.id = a.deltas[1].id
    /\ a.kind = "UpdateResponse" =>
          a.at = "copy" /\ CarriesOne(a.deltas) /\ a.id = a.deltas[1].id
    /\ a.kind = "HistoryResponse" =>
          a.at = "host" /\ a.request.key = AskKey(a.id) /\ a.request.kind = "history"

DownFits(m) ==
    /\ IsUpdate(m) => CarriesOne(m.deltas) /\ m.key = UpdateKey(m.deltas[1].id)
    /\ IsHistory(m) => m.key = AskKey(m.key[3])
    /\ ~IsQuery(m)

UpFits(m) ==
    /\ IsQuery(m) => m.key = AskKey(m.key[3])
    /\ ~IsUpdate(m)

LEMMA TrafficNext ==
    ASSUME Traffic, \A d : InStore(d) => InStore(d)',
           \A a \in actors' : Concerns(a) =>
                (\E b \in actors : Alike(b, a) \/ b = a) \/ ActorFits(a)',
           \A i \in DOMAIN Down' : Matters(Down'[i]) =>
                (\E k \in DOMAIN Down : Down[k] = Down'[i]) \/ (DownFits(Down[i]))',
           \A i \in DOMAIN Up' : Matters(Up'[i]) =>
                (\E k \in DOMAIN Up : Up[k] = Up'[i]) \/ (UpFits(Up[i]))'
    PROVE  Traffic'
  <1>1. \A q : CarriesOne(q) => CarriesOne(q)'
    BY DEF CarriesOne
  <1>2. ASSUME NEW a \in actors PROVE ActorFits(a)'
    <2>1. /\ a.kind \in Exchange => a.step \in StepsOf[a.kind]
          /\ a.step = "query" \/ a.request.kind = "history" => a.kind = "HistoryResponse"
      BY DEF Traffic
    <2>2. a.kind = "WaveletUpdate" =>
             a.at = "host" /\ CarriesOne(a.deltas) /\ a.id = a.deltas[1].id
      BY DEF Traffic, OfKind
    <2>3. a.kind = "UpdateResponse" =>
             a.at = "copy" /\ CarriesOne(a.deltas) /\ a.id = a.deltas[1].id
      BY DEF Traffic, OfKind, Takers
    <2>4. a.kind = "HistoryResponse" =>
             a.at = "host" /\ a.request.key = AskKey(a.id) /\ a.request.kind = "history"
      BY DEF Traffic, OfKind, Repliers
    <2> QED
      BY <1>1, <2>1, <2>2, <2>3, <2>4 DEF ActorFits
  <1>3. ASSUME NEW a \in actors' PROVE ActorFits(a)'
    <2>1. CASE \E b \in actors : Alike(b, a) \/ b = a
      <3>1. PICK b \in actors : Alike(b, a) \/ b = a
        BY <2>1
      <3>2. CASE Alike(b, a)
        <4>1. ActorFits(b)'
          BY <1>2
        <4> QED
          BY <3>2, <4>1 DEF Alike, ActorFits
      <3> QED
        BY <1>2, <3>1, <3>2
    <2>2. CASE ~Concerns(a)
      BY <2>2 DEF Concerns, ActorFits, Exchange
    <2> QED
      BY <2>1, <2>2
  <1>4. ASSUME NEW m, NEW k \in DOMAIN Down, Down[k] = m
        PROVE  /\ IsUpdate(m) => CarriesOne(m.deltas)' /\ m.key = UpdateKey(m.deltas[1].id)
               /\ IsHistory(m) => m.key = AskKey(m.key[3])
               /\ ~IsQuery(m)
    <2>1. IsUpdate(m) => CarriesOne(m.deltas) /\ m.key = UpdateKey(m.deltas[1].id)
      BY <1>4 DEF Traffic, Updates
    <2> QED
      BY <1>1, <1>4, <2>1 DEF Traffic, Histories
  <1>5. ASSUME NEW i \in DOMAIN Down', Matters(Down'[i]) PROVE DownFits(Down[i])'
    <2>1. CASE \E k \in DOMAIN Down : Down[k] = Down'[i]
      BY <1>4, <2>1 DEF DownFits, CarriesOne, InStore
    <2> QED
      BY <1>5, <2>1
  <1>6. ASSUME NEW i \in DOMAIN Up', Matters(Up'[i]) PROVE UpFits(Up[i])'
    <2>1. CASE \E k \in DOMAIN Up : Up[k] = Up'[i]
      BY <2>1 DEF Traffic, Queries, UpFits
    <2> QED
      BY <1>6, <2>1
  <1>7. \A a \in actors' : /\ a.kind \in Exchange => a.step \in StepsOf[a.kind]
                           /\ a.step = "query" \/ a.request.kind = "history" =>
                                a.kind = "HistoryResponse"
    BY <1>3 DEF ActorFits
  <1>8. \A a \in OfKind("WaveletUpdate")' :
           a.at = "host" /\ CarriesOne(a.deltas)' /\ a.id = a.deltas[1].id
    BY <1>3 DEF ActorFits, OfKind
  <1>9. \A a \in Takers' :
           a.at = "copy" /\ CarriesOne(a.deltas)' /\ a.id = a.deltas[1].id
    BY <1>3 DEF ActorFits, OfKind, Takers
  <1>10. \A a \in Repliers' :
           a.at = "host" /\ a.request.key = AskKey(a.id) /\ a.request.kind = "history"
    BY <1>3 DEF ActorFits, OfKind, Repliers
  <1>11. /\ \A i \in Updates' :
               (CarriesOne(Down[i].deltas) /\ Down[i].key = UpdateKey(Down[i].deltas[1].id))'
         /\ \A i \in Histories' : Down'[i].key = AskKey(Down'[i].key[3])
         /\ \A i \in DOMAIN Down' : ~IsQuery(Down'[i])
    BY <1>5 DEF DownFits, Updates, Histories, Matters
  <1>12. /\ \A i \in Queries' : Up'[i].key = AskKey(Up'[i].key[3])
         /\ \A i \in DOMAIN Up' : ~IsUpdate(Up'[i])
    BY <1>6 DEF UpFits, Queries, Matters
  <1> QED
    BY <1>7, <1>8, <1>9, <1>10, <1>11, <1>12 DEF Traffic

\* A stanza of the host.
LEMMA HostPuts ==
    ASSUME AnswerInv, NEW m, Send("host", m)
    PROVE  /\ Up' = Up /\ CalmWire("copy")
           /\ Down' = Down \/ Down' = Append(Down, m)
  <1>1. wire = [s \in Servers |-> wire[s]]
    BY WiresTyped
  <1>2. Up' = Up /\ (Down' = Down \/ Down' = Append(Down, m))
    BY <1>1 DEF Send, Sent, Down, Up, Servers
  <1>3. CalmWire("copy")
    BY <1>2, ThinSame DEF CalmWire, Exchanged, Up
  <1> QED
    BY <1>2, <1>3

LEMMA LongerWire ==
    ASSUME NEW q, IsSequence(q), NEW m, NEW r, r = Append(q, m)
    PROVE  /\ Len(q) \in Nat /\ DOMAIN r = DOMAIN q \cup {Len(q) + 1} /\ r[Len(q) + 1] = m
           /\ \A i \in DOMAIN q : r[i] = q[i] /\ i \in Nat /\ i < Len(q) + 1
  <1>1. /\ Len(q) \in Nat /\ DOMAIN q = 1..Len(q) /\ DOMAIN r = 1..(Len(q) + 1)
        /\ \A i \in 1..Len(q) : r[i] = q[i]
        /\ r[Len(q) + 1] = m
    BY Appended
  <1> QED
    BY <1>1

\* The event that runs an actor is its first.
LEMMA RunsFresh ==
    ASSUME AnswerInv, CleanInv, NEW a \in actors, a.kind \in Exchange, Runs(a)
    PROVE  a.step \in Fresh /\ Key(a) \in Keys(a.at)
  <1>1. a.at \in Servers /\ Queue /\ Once
    BY ActorTyped DEF AnswerInv, CleanInv
  <1>2. Key(a) \in Keys(a.at)
    BY <1>1, EventsRun
  <1>3. PICK x \in actors : Key(x) = Key(a) /\ x.step \in Fresh
    BY <1>1, <1>2, KeyOf DEF Queue
  <1>4. x = a
    BY <1>1, <1>3, SameActor
  <1> QED
    BY <1>2, <1>3, <1>4

\* While an update goes to the component, no discovery may make another go.
LEMMA GoingAlone ==
    ASSUME AnswerInv, CleanInv, NEW a, Going(a), NEW v \in Hopeful
    PROVE  Going(v)
  <1>1. LinkInv /\ Queue /\ Traffic /\ "host" \in Servers
    BY DEF AnswerInv, CleanInv, Servers
  <1>2. a \in actors /\ a.at = "host" /\ con["host"][a.con].address = "component"
    BY <1>1 DEF Going, Unsent, Traffic, OfKind
  <1>3. a.con \in Names /\ ~DiscoAt("host", a.con)
    BY <1>1, <1>2, ActorTyped, Exclusive
  <1>4. ASSUME Coming(v) PROVE FALSE
    <2>1. DiscoAt("host", v.con) /\ route["host"]["component"] \in {NoConnection, v.con}
      BY <1>4 DEF Coming
    <2>2. v.con = "domain"
      BY <1>1, <2>1 DEF DiscoAt, LinkInv, OneDiscovery, Discos, Discovers
    <2>3. a.con = "component"
      BY <1>3, <2>1, <2>2 DEF Names
    <2>4. route["host"]["component"] = "component"
      BY <1>1, <1>2, <2>3, FederationAssumption DEF LinkInv, LeadsSomewhere, Address
    <2> QED
      BY <2>1, <2>2, <2>4, FederationAssumption
  <1> QED
    BY <1>4 DEF Hopeful

\* What has been asked for is still answered after what is to come before it.
LEMMA AskedStays ==
    ASSUME NEW b, NEW c, Steps(b, c), HopeKept, TurnsKept, copy' = copy, NEW a, Asked2(a)
    PROVE  Asked2(a)'
  <1> SUFFICES ASSUME NEW k \in Repliers', k.request.key = Key(a)
               PROVE  /\ k.request.start = copy.version /\ k.request.end = Pos(a.deltas[1])
                      /\ \A v \in Hopeful' : After(v, a.deltas[1]) \/ InTurn(v, k)'
    BY DEF Asked2, After, Pos
  <1>1. PICK h \in Repliers : h.request = k.request /\ Key(h) = Key(k)
    BY RepliersKept
  <1>2. /\ h.request.start = copy.version /\ h.request.end = Pos(a.deltas[1])
        /\ \A u \in Hopeful : After(u, a.deltas[1]) \/ InTurn(u, h)
    BY <1>1 DEF Asked2
  <1>3. ASSUME NEW v \in Hopeful' PROVE After(v, a.deltas[1]) \/ InTurn(v, k)'
    <2>1. PICK u \in Hopeful : /\ u.deltas = v.deltas /\ Key(u) = Key(v)
                               /\ After(u, a.deltas[1]) => After(v, a.deltas[1])
                               /\ Going(u) => Going(v)'
      BY PositionsKept
    <2>2. CASE InTurn(u, h)
      BY <1>1, <2>1, <2>2 DEF InTurn, TurnsKept
    <2> QED
      BY <1>2, <2>1, <2>2
  <1> QED
    BY <1>1, <1>2, <1>3

\* The update is sent.
LEMMA UpdateIsSent ==
    ASSUME AnswerInv, AnswerInv', CleanInv, NEW a \in actors, UpdateSent(a)
    PROVE  CleanInv'
  <1> DEFINE m == Request("update", a)
             c == [a EXCEPT !.step = "update"]
             d == a.deltas[1]
             n == Len(Down) + 1
  <1>1. /\ a.kind = "WaveletUpdate"
        /\ a.step = "new" => Ready(a)
        /\ Runs(a) /\ Become(a, c) /\ Send(a.at, m)
        /\ UNCHANGED <<con, route, stored, wavelet, copy, updates>>
    BY DEF UpdateSent, Goes, linkVars, hostVars, copyVars
  <1>2. /\ a \in OfKind("WaveletUpdate") /\ a.kind = "WaveletUpdate" /\ a.kind \in Exchange
        /\ LinkInv /\ Traffic /\ Queue /\ Once /\ HonestActor(a) /\ "host" \in Servers
    BY DEF UpdateSent, Goes, OfKind, Exchange, AnswerInv, AnswersHonest, CleanInv, Servers
  <1>3. a.at = "host" /\ CarriesOne(a.deltas) /\ a.id = d.id
    BY <1>2 DEF Traffic
  <1>4. InStore(d) /\ Pos(d) \in Nat
    BY <1>3, Placed DEF CarriesOne, CleanInv
  <1>5. a.step \in Fresh /\ Key(a) \in Keys("host") /\ a \in Unsent
    BY <1>1, <1>2, <1>3, RunsFresh DEF Unsent
  <1>6. /\ m.kind = "update" /\ m.reply = "none" /\ m.key = UpdateKey(a.id) /\ m.deltas = a.deltas
        /\ m.to = con["host"][a.con].address
    BY <1>2, <1>3 DEF Request, NoStanza, Key, UpdateKey
  <1>7. IsUpdate(m) /\ ~IsQuery(m) /\ ~IsHistory(m)
    BY <1>6 DEF IsUpdate, IsQuery, IsHistory
  <1>8. Steps(a, c) /\ Stays(a) /\ Unturned(a, c) /\ IsFiniteSet(actors') /\ LinksAndEventsCalm
    <2>1. "update" \in StepsOf[a.kind]
      BY <1>2 DEF StepsOf
    <2>2. "update" \notin {"new", "wait"} /\ ("update" = "query" => a.kind = "HistoryResponse")
      OBVIOUS
    <2> QED
      BY <1>1, <2>1, <2>2, OneSteps
  <1>9. HostHistory' /\ Queue' /\ HopeKept /\ TurnsKept
    BY <1>1, <1>8, SteadyStep
  <1>10. c.step = "update" /\ actors' = (actors \ {a}) \cup {c} /\ c.kind = a.kind
    BY <1>1, <1>2 DEF HonestActor, Become
  <1> HIDE DEF m, c
  <1>11. Up' = Up /\ CalmWire("copy") /\ (Down' = Down \/ Down' = Append(Down, m))
    BY <1>1, <1>3, HostPuts
  <1>12. /\ Len(Down) \in Nat /\ IsSequence(Down)
         /\ \A i \in DOMAIN Down : i \in DOMAIN Down' /\ Down'[i] = Down[i] /\ i \in Nat /\ i < n
         /\ \A i \in DOMAIN Down' : i \in DOMAIN Down \/ (i = n /\ Down'[i] = m)
    <2>1. IsSequence(Down) /\ DOMAIN Down = 1..Len(Down) /\ Len(Down) \in Nat
      BY WiresTyped
    <2>2. CASE Down' = Down
      BY <2>1, <2>2
    <2>3. CASE Down' = Append(Down, m)
      <3>1. /\ DOMAIN Down' = DOMAIN Down \cup {n} /\ Down'[n] = m
            /\ \A i \in DOMAIN Down : Down'[i] = Down[i] /\ i \in Nat /\ i < n
        BY <2>1, <2>3, LongerWire
      <3> QED
        BY <2>1, <3>1
    <2> QED
      BY <1>11, <2>2, <2>3
  <1> HIDE DEF n
  <1>13. Traffic'
    <2>1. \A x : InStore(x) => InStore(x)'
      BY <1>1 DEF InStore
    <2>2. \A b \in actors' : Concerns(b) => \E x \in actors : Alike(x, b) \/ x = b
      BY <1>8, SomebodyAlike
    <2>3. ASSUME NEW i \in DOMAIN Down', ~\E k \in DOMAIN Down : Down[k] = Down'[i]
          PROVE  DownFits(Down[i])'
      <3>1. Down'[i] = m
        BY <1>12, <2>3
      <3> QED
        BY <1>3, <1>6, <1>7, <2>1, <3>1 DEF DownFits, CarriesOne
    <2> QED
      BY <1>2, <1>11, <2>1, <2>2, <2>3, TrafficNext
  <1>14. /\ \A i \in Updates' : i \in Updates \/ i = n
         /\ \A i \in Updates : Down'[i] = Down[i] /\ i \in Nat /\ i < n
         /\ n \in Updates' => Down'[n] = m
         /\ Histories' = Histories
         /\ \A i \in Histories : Down'[i] = Down[i] /\ i \in Nat /\ i < n
    <2>1. n \notin DOMAIN Down
      BY <1>12
    <2> QED
      BY <1>7, <1>12, <2>1 DEF Updates, Histories
  <1>15. a.id \in UnsentIds /\ a.id \notin UnsentIds'
    <2>1. \A v \in Unsent' : v \in Unsent /\ v # a
      BY <1>10 DEF Unsent, OfKind, Fresh
    <2>2. \A v \in Unsent : v.id = a.id => v = a
      BY <1>2 DEF Once, Unsent, OfKind
    <2> QED
      BY <1>5, <2>1, <2>2 DEF UnsentIds
  <1>16. Once'
    <2>1. /\ UnsentIds' \subseteq UnsentIds \ {a.id} /\ TakenIds' \subseteq TakenIds
          /\ FreshIds' \subseteq FreshIds /\ ReplierIds' \subseteq ReplierIds
          /\ \A b, e \in actors' : b.kind \in Exchange /\ b.kind = e.kind /\ b.id = e.id => b = e
      BY <1>2, <1>8, <1>15, IdsOfActors
    <2>2. SentIds' \subseteq SentIds \cup {a.id} /\ HistoryIds' = HistoryIds /\ QueryIds' = QueryIds
      BY <1>3, <1>6, <1>11, <1>14 DEF SentIds, HistoryIds, QueryIds, Queries
    <2>3. ASSUME NEW i \in Updates', NEW j \in Updates',
                 Down'[i].deltas[1].id = Down'[j].deltas[1].id
          PROVE  i = j
      <3>1. a.id \notin SentIds
        BY <1>2, <1>15 DEF Once
      <3>2. \A k \in Updates : Down'[k].deltas[1].id # a.id
        BY <1>14, <3>1 DEF SentIds
      <3>3. n \in Updates' => Down'[n].deltas[1].id = a.id
        BY <1>3, <1>6, <1>14
      <3> QED
        BY <1>2, <1>14, <2>3, <3>2, <3>3 DEF Once
    <2>4. Queries' = Queries /\ CommittedIds' = CommittedIds
      BY <1>1, <1>11 DEF Queries, CommittedIds
    <2> QED
      BY <1>2, <1>11, <1>15, <2>1, <2>2, <2>3, <2>4 DEF Once
  <1>17. \A i \in Reaches' : i \in Reaches \/ (i = n /\ Down'[n] = m /\ Going(a))
    <2>1. ASSUME n \in Reaches' PROVE Going(a)
      <3>1. m.to = "component"
        BY <1>14, <2>1 DEF Reaches
      <3>2. a.step = "wait" \/ con["host"][a.con].ready
        BY <1>1, <1>3, <1>5 DEF Fresh, Ready
      <3> QED
        BY <1>5, <1>6, <3>1, <3>2 DEF Going
    <2> QED
      BY <1>14, <2>1 DEF Reaches
  <1>18. Takers' = Takers
    <2>1. ~(a.kind = "UpdateResponse") /\ ~(c.kind = "UpdateResponse")
      BY <1>2, <1>10
    <2> QED
      BY <1>10, <2>1 DEF Takers, OfKind
  <1>19. (CopyFits /\ Alone)'
    BY <1>1, <1>18 DEF CleanInv, CopyFits, Alone, Pos
  <1>20. Ahead'
    <2>1. ASSUME NEW v \in Hopeful' PROVE Pos(v.deltas[1]) >= copy.version + Len(updates)
      <3>1. PICK x \in Hopeful : x.deltas = v.deltas
        BY <1>9, PositionsKept
      <3> QED
        BY <3>1 DEF CleanInv, Ahead
    <2>2. ASSUME NEW i \in Reaches' PROVE Pos(Down'[i].deltas[1]) >= copy.version + Len(updates)
      <3>1. CASE i \in Reaches
        BY <1>14, <3>1 DEF CleanInv, Ahead, Reaches
      <3>2. CASE Down'[i] = m /\ Going(a)
        BY <1>5, <1>6, <3>2 DEF CleanInv, Ahead, Hopeful
      <3> QED
        BY <1>17, <3>1, <3>2
    <2> QED
      BY <1>1, <2>1, <2>2 DEF Ahead, Pos
  <1>21. SentOrder'
    <2>1. ASSUME NEW i \in Reaches' PROVE Overtakes(Down[i].deltas[1])'
      <3>1. CASE i \in Reaches
        <4>1. Overtakes(Down[i].deltas[1]) /\ Down'[i] = Down[i]
          BY <1>14, <3>1 DEF CleanInv, SentOrder, Reaches
        <4> QED
          BY <1>9, <4>1, OvertakesKept DEF Overtakes
      <3>2. CASE Going(a)
        <4>1. \A v \in Hopeful' : Going(v)'
          BY <1>9, <3>2, GoingAlone, PositionsKept
        <4> QED
          BY <4>1 DEF Overtakes
      <3> QED
        BY <1>17, <3>1, <3>2
    <2>2. ASSUME NEW b \in Takers' PROVE Overtakes(b.deltas[1])'
      BY <1>9, <1>18, OvertakesKept DEF CleanInv, SentOrder
    <2> QED
      BY <2>1, <2>2 DEF SentOrder
  <1>22. ASSUME NEW b \in Takers', b.step = "history" PROVE (Asked1(b) /\ Asked2(b) /\ Asked3(b))'
    <2>1. Asked1(b) /\ Asked2(b) /\ Asked3(b)
      BY <1>18, <1>22 DEF CleanInv, HistoryOrder
    <2>2. Asked1(b)'
      BY <1>1, <1>11, <2>1 DEF Asked1, Queries, Pos
    <2>3. Asked2(b)'
      BY <1>1, <1>8, <1>9, <2>1, AskedStays
    <2>4. Asked3(b)'
      <3> SUFFICES ASSUME NEW i \in Histories', Down'[i].key = Key(b)
                   PROVE  /\ Down'[i].deltas = SubSeq(stored, copy.version + 1, Pos(b.deltas[1]))
                          /\ \A j \in Reaches' : i < j => After(Down'[j], b.deltas[1])
                          /\ \A v \in Hopeful' : After(v, b.deltas[1])
        BY <1>1 DEF Asked3, After, Pos
      <3>1. /\ i \in Histories /\ Down'[i] = Down[i]
            /\ Down[i].deltas = SubSeq(stored, copy.version + 1, Pos(b.deltas[1]))
            /\ \A j \in Reaches : i < j => After(Down[j], b.deltas[1])
            /\ \A v \in Hopeful : After(v, b.deltas[1])
        BY <1>14, <2>1 DEF Asked3
      <3>2. \A v \in Hopeful' : After(v, b.deltas[1])
        BY <1>9, <3>1, PositionsKept
      <3>3. ASSUME NEW j \in Reaches', i < j PROVE After(Down'[j], b.deltas[1])
        <4>1. CASE j \in Reaches
          BY <1>14, <3>1, <3>3, <4>1 DEF Reaches
        <4>2. CASE Down'[j] = m /\ Going(a)
          BY <1>5, <1>6, <3>1, <4>2 DEF Hopeful, After
        <4> QED
          BY <1>17, <4>1, <4>2
      <3> QED
        BY <3>1, <3>2, <3>3
    <2> QED
      BY <2>2, <2>3, <2>4
  <1> QED
    BY <1>9, <1>13, <1>16, <1>19, <1>20, <1>21, <1>22 DEF CleanInv, HistoryOrder

\* The deltas that were asked for are sent.
LEMMA HistoryIsSent ==
    ASSUME AnswerInv, AnswerInv', CleanInv, NEW a \in actors, HistoryAnswers(a)
    PROVE  CleanInv'
  <1> DEFINE m == [Result(a) EXCEPT !.deltas = QueryRange(a.request.start, a.request.end)]
             c == [a EXCEPT !.step = "query"]
             n == Len(Down) + 1
  <1>1. /\ a.step = "query" /\ End(a) /\ Send("host", m) /\ events' = events
        /\ UNCHANGED <<con, route, stored, wavelet, copy, updates>>
    BY DEF HistoryAnswers, linkVars, hostVars, copyVars
  <1>2. /\ a.kind = "HistoryResponse" /\ a.kind \in Exchange /\ a \in Repliers
        /\ LinkInv /\ Traffic /\ Queue /\ Once /\ HonestActor(a) /\ "host" \in Servers
    BY <1>1 DEF OfKind, Repliers, Exchange, AnswerInv, AnswersHonest, CleanInv, Traffic, Servers
  <1>3. a.at = "host" /\ a.request.key = AskKey(a.id) /\ a.request.kind = "history"
    BY <1>2 DEF Traffic
  <1>4. /\ m.kind = "history" /\ m.reply = "result" /\ m.key = AskKey(a.id)
        /\ m.deltas = SubSeq(stored, a.request.start + 1, a.request.end)
    BY <1>2, <1>3 DEF Result, HonestActor, Honest, QueryRange
  <1>5. IsHistory(m) /\ ~IsQuery(m) /\ ~IsUpdate(m)
    BY <1>4 DEF IsUpdate, IsQuery, IsHistory
  <1>6. Steps(a, c) /\ Stays(a) /\ Unturned(a, c) /\ IsFiniteSet(actors') /\ LinksAndEventsCalm
    <2>1. "query" \in StepsOf[a.kind]
      BY <1>2 DEF StepsOf
    <2>2. "query" \notin {"new", "wait"} /\ ~(a.kind \in Exchange /\ a.step \in Fresh)
      BY <1>1 DEF Fresh
    <2> QED
      BY <1>1, <1>2, <2>1, <2>2, OneSteps
  <1>7. HostHistory' /\ Queue' /\ HopeKept /\ TurnsKept
    BY <1>1, <1>6, SteadyStep
  <1> HIDE DEF m, c
  <1>8. Up' = Up /\ CalmWire("copy") /\ (Down' = Down \/ Down' = Append(Down, m))
    BY <1>1, HostPuts
  <1>9. /\ Len(Down) \in Nat /\ IsSequence(Down)
        /\ \A i \in DOMAIN Down : i \in DOMAIN Down' /\ Down'[i] = Down[i] /\ i \in Nat /\ i < n
        /\ \A i \in DOMAIN Down' : i \in DOMAIN Down \/ (i = n /\ Down'[i] = m)
    <2>1. IsSequence(Down) /\ DOMAIN Down = 1..Len(Down) /\ Len(Down) \in Nat
      BY WiresTyped
    <2>2. CASE Down' = Down
      BY <2>1, <2>2
    <2>3. CASE Down' = Append(Down, m)
      <3>1. /\ DOMAIN Down' = DOMAIN Down \cup {n} /\ Down'[n] = m
            /\ \A i \in DOMAIN Down : Down'[i] = Down[i] /\ i \in Nat /\ i < n
        BY <2>1, <2>3, LongerWire
      <3> QED
        BY <2>1, <3>1
    <2> QED
      BY <1>8, <2>2, <2>3
  <1> HIDE DEF n
  <1>10. Traffic'
    <2>1. \A x : InStore(x) => InStore(x)'
      BY <1>1 DEF InStore
    <2>2. \A b \in actors' : Concerns(b) => \E x \in actors : Alike(x, b) \/ x = b
      BY <1>6, SomebodyAlike
    <2>3. ASSUME NEW i \in DOMAIN Down', ~\E k \in DOMAIN Down : Down[k] = Down'[i]
          PROVE  DownFits(Down[i])'
      <3>1. Down'[i] = m
        BY <1>9, <2>3
      <3>2. m.key = AskKey(m.key[3])
        BY <1>4 DEF AskKey
      <3> QED
        BY <1>5, <3>1, <3>2 DEF DownFits
    <2> QED
      BY <1>2, <1>8, <2>1, <2>2, <2>3, TrafficNext
  <1>11. /\ Updates' = Updates
         /\ \A i \in Updates : Down'[i] = Down[i] /\ i \in Nat /\ i < n
         /\ \A i \in Histories' : (i \in Histories /\ Down'[i] = Down[i]) \/ (i = n /\ Down'[i] = m)
    <2>1. n \notin DOMAIN Down
      BY <1>9
    <2> QED
      BY <1>5, <1>9, <2>1 DEF Updates, Histories
  <1>12. Reaches' = Reaches
    BY <1>11 DEF Reaches
  <1>13. a.id \in ReplierIds /\ a.id \notin ReplierIds'
    <2>1. \A v \in Repliers' : v \in Repliers /\ v # a
      BY <1>1 DEF Repliers, OfKind, End
    <2>2. \A v \in Repliers : v.id = a.id => v = a
      BY <1>2 DEF Once, Repliers, OfKind
    <2> QED
      BY <1>2, <2>1, <2>2 DEF ReplierIds
  <1>14. Once'
    <2>1. /\ UnsentIds' \subseteq UnsentIds /\ TakenIds' \subseteq TakenIds
          /\ FreshIds' \subseteq FreshIds /\ ReplierIds' \subseteq ReplierIds
          /\ \A b, e \in actors' : b.kind \in Exchange /\ b.kind = e.kind /\ b.id = e.id => b = e
      BY <1>2, <1>6, IdsOfActors
    <2>2. SentIds' = SentIds /\ QueryIds' = QueryIds /\ Queries' = Queries
      BY <1>8, <1>11 DEF SentIds, QueryIds, Queries
    <2>3. HistoryIds' \subseteq HistoryIds \cup {a.id}
      <3>1. m.key[3] = a.id
        BY <1>4 DEF AskKey
      <3> QED
        BY <1>11, <3>1 DEF HistoryIds
    <2>4. CommittedIds' = CommittedIds
      BY <1>1 DEF CommittedIds
    <2>5. /\ \A i, j \in Updates' : Down'[i].deltas[1].id = Down'[j].deltas[1].id => i = j
          /\ \A i, j \in Queries' : Up'[i].key[3] = Up'[j].key[3] => i = j
      BY <1>2, <1>8, <1>11, <2>2 DEF Once
    <2> QED
      BY <1>2, <1>13, <2>1, <2>2, <2>3, <2>4, <2>5 DEF Once
  <1>15. Takers' = Takers
    BY <1>1, <1>2 DEF Takers, OfKind, End
  <1>16. (CopyFits /\ Alone)'
    BY <1>1, <1>15 DEF CleanInv, CopyFits, Alone, Pos
  <1>17. Ahead'
    <2>1. ASSUME NEW v \in Hopeful' PROVE Pos(v.deltas[1]) >= copy.version + Len(updates)
      <3>1. PICK x \in Hopeful : x.deltas = v.deltas
        BY <1>7, PositionsKept
      <3> QED
        BY <3>1 DEF CleanInv, Ahead
    <2>2. ASSUME NEW i \in Reaches' PROVE Pos(Down'[i].deltas[1]) >= copy.version + Len(updates)
      BY <1>11, <1>12 DEF CleanInv, Ahead, Reaches
    <2> QED
      BY <1>1, <2>1, <2>2 DEF Ahead, Pos
  <1>18. SentOrder'
    <2>1. ASSUME NEW i \in Reaches' PROVE Overtakes(Down[i].deltas[1])'
      <3>1. Overtakes(Down[i].deltas[1]) /\ Down'[i] = Down[i]
        BY <1>11, <1>12 DEF CleanInv, SentOrder, Reaches
      <3> QED
        BY <1>7, <3>1, OvertakesKept DEF Overtakes
    <2>2. ASSUME NEW b \in Takers' PROVE Overtakes(b.deltas[1])'
      BY <1>7, <1>15, OvertakesKept DEF CleanInv, SentOrder
    <2> QED
      BY <2>1, <2>2 DEF SentOrder
  <1>19. ASSUME NEW b \in Takers', b.step = "history" PROVE (Asked1(b) /\ Asked2(b) /\ Asked3(b))'
    <2>1. Asked1(b) /\ Asked2(b) /\ Asked3(b)
      BY <1>15, <1>19 DEF CleanInv, HistoryOrder
    <2>2. Asked1(b)'
      BY <1>1, <1>8, <2>1 DEF Asked1, Queries, Pos
    <2>3. Asked2(b)'
      BY <1>1, <1>6, <1>7, <2>1, AskedStays
    <2>4. Asked3(b)'
      <3> SUFFICES ASSUME NEW i \in Histories', Down'[i].key = Key(b)
                   PROVE  /\ Down'[i].deltas = SubSeq(stored, copy.version + 1, Pos(b.deltas[1]))
                          /\ \A j \in Reaches' : i < j => After(Down'[j], b.deltas[1])
                          /\ \A v \in Hopeful' : After(v, b.deltas[1])
        BY <1>1 DEF Asked3, After, Pos
      <3>1. \A j \in Reaches : j \in Nat /\ j < n /\ Down'[j] = Down[j] /\ j \in Reaches'
        BY <1>11, <1>12 DEF Reaches
      <3>2. CASE i \in Histories /\ Down'[i] = Down[i]
        <4>1. /\ Down[i].deltas = SubSeq(stored, copy.version + 1, Pos(b.deltas[1]))
              /\ \A j \in Reaches : i < j => After(Down[j], b.deltas[1])
              /\ \A v \in Hopeful : After(v, b.deltas[1])
          BY <2>1, <3>2 DEF Asked3
        <4>2. \A v \in Hopeful' : After(v, b.deltas[1])
          BY <1>7, <4>1, PositionsKept
        <4> QED
          BY <1>12, <3>1, <3>2, <4>1, <4>2
      <3>3. CASE i = n /\ Down'[i] = m
        <4>1. a.request.key = Key(b)
          BY <1>3, <1>4, <3>3
        <4>2. /\ a.request.start = copy.version /\ a.request.end = Pos(b.deltas[1])
              /\ \A u \in Hopeful : After(u, b.deltas[1]) \/ InTurn(u, a)
          BY <1>2, <2>1, <4>1 DEF Asked2
        <4>3. \A u \in Hopeful : After(u, b.deltas[1])
          BY <1>1, <4>2 DEF InTurn
        <4>4. \A v \in Hopeful' : After(v, b.deltas[1])
          BY <1>7, <4>3, PositionsKept
        <4>5. ~\E j \in Reaches' : i < j
          BY <1>9, <1>12, <3>1, <3>3 DEF n
        <4> QED
          BY <1>4, <3>3, <4>2, <4>4, <4>5
      <3> QED
        BY <1>11, <3>2, <3>3
    <2> QED
      BY <2>2, <2>3, <2>4
  <1> QED
    BY <1>7, <1>10, <1>14, <1>16, <1>17, <1>18, <1>19 DEF CleanInv, HistoryOrder

-----------------------------------------------------------------------------
(* An update is looked at.                                                  *)

\* Which version the copy has is known unless it has not been replayed.
LEMMA VersionIsRead ==
    ASSUME Clean', NEW a, UpdateAnswers(a)
    PROVE  VersionRead = copy.version
  <1>1. "unloaded" \notin causes'
    BY DEF Clean
  <1>2. loaded \/ copy.version = 0
    BY <1>1 DEF UpdateAnswers
  <1> QED
    BY <1>2 DEF VersionRead

\* A receipt and a request of the copy.
LEMMA CopyPuts ==
    ASSUME AnswerInv, NEW r, NEW q, ~Matters(r), Matters(q),
           wire' = Sent("copy", Sent("copy", wire, r), q)
    PROVE  /\ Down' = Down /\ CalmWire("host")
           /\ \A i \in DOMAIN Up : i \in DOMAIN Up' /\ Up'[i] = Up[i]
           /\ \A i \in DOMAIN Up' : Matters(Up'[i]) =>
                 i \in DOMAIN Up \/ (i = Len(Up) + 2 /\ Up'[i] = q)
           /\ Len(Up) + 2 \notin DOMAIN Up
  <1> DEFINE p == Append(Up, r)
  <1>1. /\ wire = [s \in Servers |-> wire[s]] /\ IsSequence(Up) /\ Len(Up) \in Nat
        /\ DOMAIN Up = 1..Len(Up)
    BY WiresTyped
  <1>2. Down' = Down /\ (Up' = Up \/ Up' = Append(p, q))
    <2>1. CASE component["copy"] = Established
      <3>1. wire' = [[wire EXCEPT !["copy"] = Append(@, r)] EXCEPT !["copy"] = Append(@, q)]
        BY <2>1 DEF Sent
      <3> QED
        BY <1>1, <3>1 DEF Down, Up, Servers
    <2>2. CASE component["copy"] # Established
      BY <2>2 DEF Sent, Down, Up
    <2> QED
      BY <2>1, <2>2
  <1>3. CalmWire("host")
    BY <1>2, ThinSame DEF CalmWire, Exchanged, Down
  <1>4. CASE Up' = Up
    BY <1>1, <1>2, <1>3, <1>4
  <1>5. CASE Up' = Append(p, q)
    <2>1. /\ DOMAIN p = 1..(Len(Up) + 1) /\ Len(p) = Len(Up) + 1 /\ IsSequence(p)
          /\ \A i \in 1..Len(Up) : p[i] = Up[i]
          /\ p[Len(Up) + 1] = r
      BY <1>1, Appended
    <2> HIDE DEF p
    <2>2. /\ DOMAIN Up' = 1..(Len(p) + 1)
          /\ \A i \in 1..Len(p) : Up'[i] = p[i]
          /\ Up'[Len(p) + 1] = q
      BY <1>5, <2>1, Appended
    <2>3. ASSUME NEW i \in DOMAIN Up PROVE i \in DOMAIN Up' /\ Up'[i] = Up[i]
      BY <1>1, <2>1, <2>2
    <2>4. ASSUME NEW i \in DOMAIN Up', Matters(Up'[i]), i \notin DOMAIN Up
          PROVE  i = Len(Up) + 2 /\ Up'[i] = q
      <3>1. i = Len(Up) + 1 \/ i = Len(Up) + 2
        BY <1>1, <2>1, <2>2, <2>4
      <3>2. i # Len(Up) + 1
        <4>1. ASSUME i = Len(Up) + 1 PROVE Up'[i] = r
          BY <1>1, <2>1, <2>2, <4>1
        <4> QED
          BY <2>4, <4>1
      <3>3. Len(p) + 1 = Len(Up) + 2
        BY <1>1, <2>1
      <3> QED
        BY <2>2, <3>1, <3>2, <3>3
    <2>5. Len(Up) + 2 \notin DOMAIN Up
      BY <1>1
    <2> QED
      BY <1>2, <1>3, <2>3, <2>4, <2>5
  <1> QED
    BY <1>2, <1>4, <1>5

\* The deltas before it are missing, and are asked for.
LEMMA UpdateAsks ==
    ASSUME AnswerInv, AnswerInv', CleanInv, Clean', NEW a \in actors, UpdateAnswers(a),
           Misses(a.deltas[1])
    PROVE  CleanInv'
  <1> DEFINE d == a.deltas[1]
             r == Result(a)
             q == [Request("history", a) EXCEPT !.deltas = <<>>, !.start = VersionRead,
                                                !.end = d.base.version]
             c == [a EXCEPT !.step = "history"]
             n == Len(Up) + 2
  <1>1. /\ a.kind = "UpdateResponse" /\ Runs(a) /\ Become(a, c)
        /\ wire' = Sent("copy", Sent("copy", wire, r), q)
        /\ UNCHANGED <<con, route, stored, wavelet, copy, updates>>
    BY DEF UpdateAnswers, Goes, linkVars, hostVars
  <1>2. /\ a \in Takers /\ a.kind \in Exchange /\ HonestActor(a)
        /\ LinkInv /\ Traffic /\ Queue /\ Once /\ Alone
    BY <1>1 DEF OfKind, Takers, Exchange, AnswerInv, AnswersHonest, CleanInv
  <1>3. /\ InStore(d) /\ Pos(d) \in Nat /\ a.id = d.id /\ a.at = "copy" /\ Key(a) = AskKey(a.id)
    BY <1>2, TakenIsPlaced DEF CleanInv
  <1>4. a.step \in Fresh
    BY <1>1, <1>2, RunsFresh
  <1>5. /\ q.kind = "history" /\ q.reply = "none" /\ q.key = AskKey(a.id)
        /\ q.start = copy.version /\ q.end = Pos(d)
    BY <1>3, VersionIsRead DEF Request, NoStanza, Pos
  <1>6. IsQuery(q) /\ ~IsUpdate(q) /\ ~IsHistory(q) /\ Matters(q)
    BY <1>5 DEF IsUpdate, IsQuery, IsHistory, Matters
  <1>7. ~Matters(r)
    <2>1. a.request.kind # "history"
      BY <1>1, <1>2 DEF Traffic
    <2> QED
      BY <1>2, <2>1, CalmStanzas
  <1>8. Steps(a, c) /\ Stays(a) /\ Unturned(a, c) /\ IsFiniteSet(actors') /\ LinksAndEventsCalm
    <2>1. "history" \in StepsOf[a.kind]
      BY <1>1 DEF StepsOf
    <2>2. "history" \notin {"new", "wait"} /\ ("history" = "query" => a.kind = "HistoryResponse")
      OBVIOUS
    <2> QED
      BY <1>1, <2>1, <2>2, OneSteps
  <1>9. HostHistory' /\ Queue' /\ HopeKept /\ TurnsKept
    BY <1>1, <1>8, SteadyStep
  <1>10. /\ c.step = "history" /\ actors' = (actors \ {a}) \cup {c} /\ c.kind = a.kind
         /\ c.id = a.id /\ c.deltas = a.deltas /\ Key(c) = Key(a)
    BY <1>1, <1>2 DEF HonestActor, Become, Key
  <1> HIDE DEF q, c, r
  <1>11. /\ Down' = Down /\ CalmWire("host")
         /\ \A i \in DOMAIN Up : i \in DOMAIN Up' /\ Up'[i] = Up[i]
         /\ \A i \in DOMAIN Up' : Matters(Up'[i]) => i \in DOMAIN Up \/ (i = n /\ Up'[i] = q)
         /\ n \notin DOMAIN Up
    BY <1>1, <1>6, <1>7, CopyPuts
  <1> HIDE DEF n, d
  <1>12. Traffic'
    <2>1. \A x : InStore(x) => InStore(x)'
      BY <1>1 DEF InStore
    <2>2. \A b \in actors' : Concerns(b) => \E x \in actors : Alike(x, b) \/ x = b
      BY <1>8, SomebodyAlike
    <2>3. ASSUME NEW i \in DOMAIN Up', Matters(Up'[i]), ~\E k \in DOMAIN Up : Up[k] = Up'[i]
          PROVE  UpFits(Up[i])'
      <3>1. Up'[i] = q
        BY <1>11, <2>3
      <3>2. q.key = AskKey(q.key[3])
        BY <1>5 DEF AskKey
      <3> QED
        BY <1>6, <3>1, <3>2 DEF UpFits
    <2> QED
      BY <1>2, <1>11, <2>1, <2>2, <2>3, TrafficNext
  <1>13. \A i \in Queries' : (i \in Queries /\ Up'[i] = Up[i]) \/ (i = n /\ Up'[i] = q)
    BY <1>11 DEF Queries, Matters
  <1>14. Takers = {a} /\ Takers' = {c}
    <2>1. Takers = {a}
      BY <1>2 DEF Alone
    <2>2. Takers' = {c}
      BY <1>1, <1>10, <2>1 DEF Takers, OfKind
    <2> QED
      BY <2>1, <2>2
  <1>15. a.id \in FreshIds /\ a.id \notin FreshIds' /\ a.id \in TakenIds
    BY <1>2, <1>4, <1>10, <1>14 DEF FreshIds, TakenIds, Fresh
  <1>16. a.id \notin UnsentIds \cup SentIds /\ a.id \notin QueryIds \cup ReplierIds \cup HistoryIds
    BY <1>2, <1>15 DEF Once
  <1>17. a.id \in CommittedIds
    <2>1. DOMAIN stored = 1..Len(stored)
      BY SequenceDomain DEF CleanInv, HostHistory
    <2> QED
      BY <1>3, <2>1 DEF InStore, CommittedIds
  <1>18. /\ UnsentIds' \subseteq UnsentIds /\ TakenIds' \subseteq TakenIds
         /\ FreshIds' \subseteq FreshIds /\ ReplierIds' \subseteq ReplierIds
         /\ \A b, e \in actors' : b.kind \in Exchange /\ b.kind = e.kind /\ b.id = e.id => b = e
    BY <1>2, <1>8, IdsOfActors
  <1>19. Once'
    <2>1. SentIds' = SentIds /\ HistoryIds' = HistoryIds /\ Updates' = Updates
      BY <1>11 DEF SentIds, HistoryIds, Updates, Histories
    <2>2. q.key[3] = a.id
      BY <1>5 DEF AskKey
    <2>3. QueryIds' \subseteq QueryIds \cup {a.id}
      BY <1>13, <2>2 DEF QueryIds
    <2>4. ASSUME NEW i \in Queries', NEW j \in Queries', Up'[i].key[3] = Up'[j].key[3]
          PROVE  i = j
      <3>1. \A k \in Queries : Up[k].key[3] # a.id
        BY <1>16 DEF QueryIds
      <3> QED
        BY <1>2, <1>13, <2>2, <2>4, <3>1 DEF Once
    <2>5. \A i, j \in Updates' : Down'[i].deltas[1].id = Down'[j].deltas[1].id => i = j
      BY <1>2, <1>11, <2>1 DEF Once
    <2>6. CommittedIds' = CommittedIds
      BY <1>1 DEF CommittedIds
    <2> QED
      BY <1>2, <1>15, <1>16, <1>17, <1>18, <2>1, <2>3, <2>4, <2>5, <2>6 DEF Once
  <1>20. Reaches' = Reaches /\ \A i \in Reaches : Down'[i] = Down[i]
    BY <1>11 DEF Reaches, Updates
  <1>21. (CopyFits /\ Alone)'
    <2>1. CopyFits'
      BY <1>1 DEF CleanInv, CopyFits
    <2>2. updates = <<>> /\ Pos(a.deltas[1]) >= copy.version
      BY <1>2 DEF Alone
    <2> QED
      BY <1>1, <1>10, <1>14, <2>1, <2>2 DEF Alone, Pos
  <1>22. Ahead'
    <2>1. ASSUME NEW v \in Hopeful' PROVE Pos(v.deltas[1]) >= copy.version + Len(updates)
      <3>1. PICK x \in Hopeful : x.deltas = v.deltas
        BY <1>9, PositionsKept
      <3> QED
        BY <3>1 DEF CleanInv, Ahead
    <2>2. ASSUME NEW i \in Reaches' PROVE Pos(Down'[i].deltas[1]) >= copy.version + Len(updates)
      BY <1>20 DEF CleanInv, Ahead
    <2> QED
      BY <1>1, <2>1, <2>2 DEF Ahead, Pos
  <1>23. SentOrder'
    <2>1. ASSUME NEW i \in Reaches' PROVE Overtakes(Down[i].deltas[1])'
      <3>1. Overtakes(Down[i].deltas[1]) /\ Down'[i] = Down[i]
        BY <1>20 DEF CleanInv, SentOrder
      <3> QED
        BY <1>9, <3>1, OvertakesKept DEF Overtakes
    <2>2. ASSUME NEW b \in Takers' PROVE Overtakes(b.deltas[1])'
      <3>1. Overtakes(a.deltas[1]) /\ b.deltas = a.deltas
        BY <1>2, <1>10, <1>14 DEF CleanInv, SentOrder
      <3>2. Overtakes(a.deltas[1])'
        BY <1>9, <3>1, OvertakesKept
      <3> QED
        BY <3>1, <3>2 DEF Overtakes
    <2> QED
      BY <2>1, <2>2 DEF SentOrder
  <1>24. (Asked1(c) /\ Asked2(c) /\ Asked3(c))'
    <2>1. (Asked1(c))'
      <3>1. ASSUME NEW i \in Queries', Up'[i].key = Key(c)
            PROVE  Up'[i].start = copy.version /\ Up'[i].end = Pos(c.deltas[1])
        <4>1. CASE i \in Queries /\ Up'[i] = Up[i]
          <5>1. Up[i].key[3] = a.id
            BY <1>3, <1>10, <3>1, <4>1 DEF AskKey
          <5> QED
            BY <1>16, <4>1, <5>1 DEF QueryIds
        <4>2. CASE Up'[i] = q
          BY <1>5, <1>10, <4>2 DEF d
        <4> QED
          BY <1>13, <4>1, <4>2
      <3> QED
        BY <1>1, <3>1 DEF Asked1, Pos
    <2>2. (Asked2(c))'
      <3>1. ASSUME NEW h \in Repliers', h.request.key = Key(c) PROVE FALSE
        <4>1. h.request.key = AskKey(h.id)
          BY <1>12 DEF Traffic
        <4>2. h.id = a.id
          BY <1>3, <1>10, <3>1, <4>1 DEF AskKey
        <4> QED
          BY <1>16, <1>18, <4>2 DEF ReplierIds
      <3> QED
        BY <3>1 DEF Asked2
    <2>3. (Asked3(c))'
      <3>1. ASSUME NEW i \in Histories', Down'[i].key = Key(c) PROVE FALSE
        <4>1. i \in Histories /\ Down[i].key = AskKey(a.id)
          BY <1>3, <1>10, <1>11, <3>1 DEF Histories
        <4>2. Down[i].key[3] = a.id
          BY <4>1 DEF AskKey
        <4> QED
          BY <1>16, <4>1, <4>2 DEF HistoryIds
      <3> QED
        BY <3>1 DEF Asked3
    <2> QED
      BY <2>1, <2>2, <2>3
  <1>25. HistoryOrder'
    BY <1>14, <1>24 DEF HistoryOrder
  <1> QED
    BY <1>9, <1>12, <1>19, <1>21, <1>22, <1>23, <1>25 DEF CleanInv

\* Two deltas of the history at one place are the same.
LEMMA PlacedOnce ==
    ASSUME HostHistory, NEW d, InStore(d), NEW e, InStore(e), Pos(d) = Pos(e)
    PROVE  d = e
  <1>1. stored[Pos(d) + 1] = d /\ stored[Pos(e) + 1] = e
    BY Placed
  <1> QED
    BY <1>1

\* Nothing is missing: the update is the next for the copy.
LEMMA UpdateIsTaken ==
    ASSUME AnswerInv, AnswerInv', CleanInv, Clean', NEW a \in actors, UpdateAnswers(a),
           ~Misses(a.deltas[1])
    PROVE  CleanInv'
  <1> DEFINE d == a.deltas[1]
             r == Result(a)
             c == [a EXCEPT !.step = "history"]
             v == copy.version
  <1>1. /\ a.kind = "UpdateResponse" /\ Runs(a) /\ End(a) /\ Send("copy", r)
        /\ updates' = Append(updates, d)
        /\ UNCHANGED <<con, route, stored, wavelet, copy>>
    BY DEF UpdateAnswers, Goes, linkVars, hostVars, Send
  <1>2. /\ a \in Takers /\ a.kind \in Exchange /\ HonestActor(a)
        /\ LinkInv /\ Traffic /\ Queue /\ Once /\ Alone /\ HostHistory
    BY <1>1 DEF OfKind, Takers, Exchange, AnswerInv, AnswersHonest, CleanInv
  <1>3. /\ InStore(d) /\ Pos(d) \in Nat /\ a.id = d.id
        /\ Pos(d) < Len(stored) /\ Len(stored) \in Nat /\ stored[Pos(d) + 1] = d
    BY <1>2, TakenIsPlaced, Placed
  <1>4. v \in Nat /\ updates = <<>> /\ Pos(d) = v
    <2>1. v \in Nat
      BY SequenceDomain DEF CleanInv, CopyFits
    <2>2. updates = <<>> /\ Pos(d) >= v
      BY <1>2 DEF Alone
    <2>3. ~(Pos(d) > v)
      BY VersionIsRead DEF Misses, Pos
    <2> QED
      BY <1>3, <2>1, <2>2, <2>3
  <1>5. ~Matters(r)
    <2>1. a.request.kind # "history"
      BY <1>1, <1>2 DEF Traffic
    <2> QED
      BY <1>2, <2>1, CalmStanzas
  <1>6. Steps(a, c) /\ Stays(a) /\ Unturned(a, c) /\ IsFiniteSet(actors') /\ LinksAndEventsCalm
    <2>1. "history" \in StepsOf[a.kind]
      BY <1>1 DEF StepsOf
    <2>2. "history" \notin {"new", "wait"} /\ ("history" = "query" => a.kind = "HistoryResponse")
      OBVIOUS
    <2> QED
      BY <1>1, <2>1, <2>2, OneSteps
  <1>7. HostHistory' /\ Queue' /\ HopeKept /\ TurnsKept
    BY <1>1, <1>6, SteadyStep
  <1> HIDE DEF c, r
  <1>8. \A s \in Servers : CalmWire(s)
    BY <1>1, <1>5, SentIsCalm DEF Servers
  <1>9. Traffic' /\ Once'
    BY <1>1, <1>2, <1>6, <1>8, TrafficKept, OnceKept
  <1>10. Takers' = {}
    <2>1. Takers = {a}
      BY <1>2 DEF Alone
    <2> QED
      BY <1>1, <2>1 DEF Takers, OfKind, End
  <1> HIDE DEF d
  <1>11. updates' = <<d>> /\ Len(updates') = 1 /\ updates'[1] = d /\ IsSequence(updates')
    <2>1. updates' = <<d>> /\ <<d>> \in Seq({d})
      BY <1>1, <1>4
    <2> QED
      BY <2>1, SequenceOfItsElements
  <1>12. CopyFits'
    <2>1. v + 1 <= Len(stored) /\ stored[v + 1] = d
      BY <1>3, <1>4
    <2>2. \A i \in 1..Len(updates') : updates'[i] = stored[v + i]
      BY <1>11, <2>1
    <2> QED
      BY <1>1, <1>11, <2>1, <2>2 DEF CleanInv, CopyFits
  <1>13. d.id \in TakenIds /\ d.id \notin UnsentIds \cup SentIds
    BY <1>2, <1>3 DEF TakenIds, Once
  <1>14. Ahead'
    <2>1. ASSUME NEW u \in Hopeful' PROVE Pos(u.deltas[1]) >= v + 1
      <3>1. PICK x \in Hopeful : x.deltas = u.deltas
        BY <1>7, PositionsKept
      <3>2. /\ Pos(x.deltas[1]) >= v + Len(updates) /\ Pos(x.deltas[1]) \in Nat
            /\ InStore(x.deltas[1]) /\ x \in Unsent /\ x.id = x.deltas[1].id
        BY <1>2, HopefulIsPlaced DEF CleanInv, Ahead
      <3>3. Pos(x.deltas[1]) # v
        <4>1. x.deltas[1].id # d.id
          BY <1>13, <3>2 DEF UnsentIds
        <4> QED
          BY <1>2, <1>3, <1>4, <3>2, <4>1, PlacedOnce
      <3>4. Len(updates) = 0
        BY <1>4
      <3> QED
        BY <1>4, <3>1, <3>2, <3>3, <3>4
    <2>2. ASSUME NEW j \in Reaches' PROVE Pos(Down'[j].deltas[1]) >= v + 1
      <3>1. PICK k \in Reaches : Down[k] = Down'[j]
        BY <1>8, ReachesKept DEF Servers
      <3>2. /\ Pos(Down[k].deltas[1]) >= v + Len(updates) /\ Pos(Down[k].deltas[1]) \in Nat
            /\ InStore(Down[k].deltas[1]) /\ k \in Updates
        BY <1>2, SentIsPlaced DEF CleanInv, Ahead, Reaches
      <3>3. Pos(Down[k].deltas[1]) # v
        <4>1. Down[k].deltas[1].id # d.id
          BY <1>13, <3>2 DEF SentIds
        <4> QED
          BY <1>2, <1>3, <1>4, <3>2, <4>1, PlacedOnce
      <3>4. Len(updates) = 0
        BY <1>4
      <3> QED
        BY <1>4, <3>1, <3>2, <3>3, <3>4
    <2> QED
      BY <1>1, <1>11, <2>1, <2>2 DEF Ahead, Pos
  <1>15. SentOrder'
    <2>1. ASSUME NEW j \in Reaches' PROVE Overtakes(Down[j].deltas[1])'
      <3>1. PICK k \in Reaches : Down[k] = Down'[j]
        BY <1>8, ReachesKept DEF Servers
      <3> QED
        BY <1>7, <3>1, OvertakesKept DEF CleanInv, SentOrder, Overtakes
    <2> QED
      BY <1>10, <2>1 DEF SentOrder
  <1>16. Alone' /\ HistoryOrder'
    BY <1>10 DEF Alone, HistoryOrder
  <1> QED
    BY <1>7, <1>9, <1>12, <1>14, <1>15, <1>16 DEF CleanInv

-----------------------------------------------------------------------------
(* An actor is created that brings deltas from the wavelet to the copy.     *)

\* The events posted at s, among which that of a.
Posting(s, a, q) ==
    /\ IsSequence(q) /\ events' = [events EXCEPT ![s] = @ \o q]
    /\ \A i \in DOMAIN q : q[i] = Key(a) \/ q[i][1] \notin Exchange
    /\ \A i, j \in DOMAIN q : q[i] = q[j] => i = j

\* The actors there are then.
Joins(a) ==
    /\ a.kind \in Exchange /\ a.at \in Servers /\ a.step = "new" /\ a \in actors'
    /\ \A b \in actors : Key(b) # Key(a)
    /\ \A b \in actors' : b \in actors \cup {a} \/ ~Concerns(b)
    /\ \A b \in actors : Concerns(b) => b \in actors'
    /\ IsFiniteSet(actors')

\* The other events that matter are as they were, and before it.
GrownBy(k) ==
    /\ EventsTyped'
    /\ \A s \in Servers : \A i \in DOMAIN events'[s] :
          events'[s][i][1] \in Exchange /\ events'[s][i] # k =>
              /\ i \in DOMAIN events[s] /\ events[s][i] = events'[s][i]
              /\ \A j \in DOMAIN events'[s] : events'[s][j] = k => i < j
    /\ \A s \in Servers : \A i, j \in DOMAIN events'[s] :
          events'[s][i] = k /\ events'[s][j] = k => i = j
    /\ \A s \in Servers : Keys(s) \subseteq Keys(s)'

LEMMA PostingGrows ==
    ASSUME AnswerInv, CleanInv, NEW a, NEW q, Posting(a.at, a, q), Joins(a)
    PROVE  GrownBy(Key(a)) /\ \A s \in Servers : Key(a) \in Keys(s)' => s = a.at
  <1> DEFINE k == Key(a)
             p == events[a.at]
  <1>1. Queue /\ a.at \in Servers /\ k[1] \in Exchange
    BY KeyOf DEF CleanInv, Joins
  <1>2. events = [s \in Servers |-> events[s]] /\ IsSequence(p)
    BY <1>1 DEF Queue, EventsTyped
  <1>3. events'[a.at] = p \o q /\ \A s \in Servers \ {a.at} : events'[s] = events[s]
    BY <1>1, <1>2 DEF Posting
  <1>4. \A s \in Servers : k \notin Keys(s)
    BY <1>1 DEF Queue, Joins
  <1> HIDE DEF p, k
  <1>5. /\ IsSequence(p \o q) /\ DOMAIN p \subseteq DOMAIN (p \o q)
        /\ DOMAIN (p \o q) \subseteq Nat /\ Len(p) \in Nat
        /\ \A i \in DOMAIN p : (p \o q)[i] = p[i]
        /\ \A i \in DOMAIN (p \o q) \ DOMAIN p :
              i - Len(p) \in DOMAIN q /\ (p \o q)[i] = q[i - Len(p)]
        /\ \A i \in DOMAIN p, j \in DOMAIN (p \o q) \ DOMAIN p : i < j
    BY <1>2, Joined DEF Posting
  <1>6. EventsTyped'
    <2>1. events' = [s \in Servers |-> events'[s]]
      BY <1>2 DEF Posting
    <2> QED
      BY <1>1, <1>3, <1>5, <2>1 DEF EventsTyped, Queue
  <1>7. \A i \in DOMAIN p : p[i] # k
    BY <1>1, <1>4 DEF Keys, p
  <1>8. \A i \in DOMAIN (p \o q) \ DOMAIN p : (p \o q)[i] = k \/ (p \o q)[i][1] \notin Exchange
    BY <1>5 DEF Posting, k
  <1>9. ASSUME NEW i \in DOMAIN (p \o q), NEW j \in DOMAIN (p \o q),
               (p \o q)[i] = k, (p \o q)[j] = k
        PROVE  i = j
    <2>1. i \notin DOMAIN p /\ j \notin DOMAIN p
      BY <1>5, <1>7, <1>9
    <2>2. i - Len(p) = j - Len(p)
      BY <1>5, <1>9, <2>1 DEF Posting
    <2>3. i \in Nat /\ j \in Nat
      BY <1>5
    <2> QED
      BY <1>5, <2>2, <2>3
  <1>10. ASSUME NEW s \in Servers, NEW i \in DOMAIN events'[s], events'[s][i][1] \in Exchange,
                events'[s][i] # k
         PROVE  /\ i \in DOMAIN events[s] /\ events[s][i] = events'[s][i]
                /\ \A j \in DOMAIN events'[s] : events'[s][j] = k => i < j
    <2>1. CASE s = a.at
      BY <1>3, <1>5, <1>7, <1>8, <1>10, <2>1 DEF p
    <2>2. CASE s # a.at
      BY <1>3, <1>4, <1>10, <2>2 DEF Keys
    <2> QED
      BY <2>1, <2>2
  <1>11. ASSUME NEW s \in Servers, NEW i \in DOMAIN events'[s], NEW j \in DOMAIN events'[s],
                events'[s][i] = k, events'[s][j] = k
         PROVE  i = j
    <2>1. s = a.at
      BY <1>3, <1>4, <1>11 DEF Keys
    <2> QED
      BY <1>3, <1>9, <1>11, <2>1
  <1>12. ASSUME NEW s \in Servers, NEW x \in Keys(s) PROVE x \in Keys(s)'
    <2>1. PICK i \in DOMAIN events[s] : x = events[s][i]
      BY DEF Keys
    <2>2. i \in DOMAIN events'[s] /\ events'[s][i] = x
      <3>1. CASE s = a.at
        BY <1>3, <1>5, <2>1, <3>1 DEF p
      <3>2. CASE s # a.at
        BY <1>3, <2>1, <3>2
      <3> QED
        BY <3>1, <3>2
    <2> QED
      BY <2>2 DEF Keys
  <1>13. \A s \in Servers : k \in Keys(s)' => s = a.at
    BY <1>3, <1>4 DEF Keys
  <1> QED
    BY <1>6, <1>10, <1>11, <1>12, <1>13 DEF GrownBy, k

LEMMA QueueGrown ==
    ASSUME AnswerInv, CleanInv, NEW a, NEW q, Posting(a.at, a, q), Joins(a),
           LinksCalm, DiscosNotReady
    PROVE  Queue'
  <1> DEFINE k == Key(a)
  <1>1. Queue /\ LinkInv /\ Traffic
    BY DEF CleanInv, AnswerInv
  <1>2. GrownBy(k) /\ \A s \in Servers : k \in Keys(s)' => s = a.at
    BY PostingGrows
  <1> HIDE DEF k
  <1>3. ASSUME NEW s \in Servers, NEW i \in DOMAIN events'[s], NEW j \in DOMAIN events'[s],
               events'[s][i] = events'[s][j], events'[s][i][1] \in Exchange
        PROVE  i = j
    BY <1>1, <1>2, <1>3 DEF GrownBy, Queue
  <1>4. ASSUME NEW s \in Servers, NEW x \in Keys(s)', x[1] \in Exchange
        PROVE  \E b \in actors' : b.at = s /\ Key(b) = x /\ b.step \in Fresh
    <2>1. CASE x = k
      BY <1>2, <1>4, <2>1 DEF Joins, Fresh, k
    <2>2. CASE x # k
      <3>1. x \in Keys(s)
        BY <1>2, <1>4, <2>2 DEF GrownBy, Keys
      <3>2. PICK b \in actors : b.at = s /\ Key(b) = x /\ b.step \in Fresh
        BY <1>1, <1>4, <3>1 DEF Queue
      <3>3. Concerns(b)
        BY <1>4, <3>2, KeyOf DEF Concerns
      <3> QED
        BY <3>2, <3>3 DEF Joins
    <2> QED
      BY <2>1, <2>2
  <1>5. ASSUME NEW b \in actors', b.kind \in Exchange, b.step = "wait", DiscoAt(b.at, b.con)'
        PROVE  Key(b) \notin Keys(b.at)'
    <2>1. b \in actors
      BY <1>5 DEF Joins, Concerns
    <2>2. /\ DiscoAt(b.at, b.con) /\ b.at \in Servers
      BY <1>1, <1>5, <2>1, ActorLinked DEF LinksCalm
    <2>3. Key(b) \notin Keys(b.at) /\ Key(b) # k /\ Key(b)[1] \in Exchange
      BY <1>1, <1>5, <2>1, <2>2, KeyOf DEF Queue, Joins, k
    <2> QED
      BY <1>2, <2>2, <2>3 DEF GrownBy, Keys
  <1>6. ASSUME NEW b \in actors', b.kind = "Disco"
        PROVE  ~con'[b.at][b.con].ready
    <2>1. CASE \E d \in actors : d.kind = "Disco" /\ d.at = b.at /\ d.con = b.con
      BY <1>1, <2>1, ActorLinked DEF LinksCalm, Queue
    <2> QED
      BY <1>6, <2>1 DEF DiscosNotReady
  <1> QED
    BY <1>2, <1>3, <1>4, <1>5, <1>6 DEF Queue, GrownBy, Joins

\* The others that may be sent could be sent before.
LEMMA HopeGrown ==
    ASSUME AnswerInv, CleanInv, NEW a, NEW q, Posting(a.at, a, q), Joins(a), LinksCalm,
           NEW v \in Hopeful', v # a
    PROVE  v \in Hopeful /\ (Going(v) => Going(v)')
  <1>1. Queue /\ LinkInv /\ Traffic /\ Once /\ "host" \in Servers
    BY DEF CleanInv, AnswerInv, Servers
  <1>2. GrownBy(Key(a))
    BY PostingGrows
  <1>3. v \in Unsent
    BY DEF Hopeful, Unsent, OfKind, Joins, Concerns, Exchange
  <1>4. v \in actors /\ v.kind \in Exchange
    BY <1>3 DEF Unsent, OfKind, Exchange
  <1>5. Key(v) # Key(a) /\ Key(v)[1] \in Exchange
    BY <1>4, KeyOf DEF Joins
  <1>6. Key(v) \in Keys("host")' => Key(v) \in Keys("host")
    BY <1>1, <1>2, <1>5 DEF GrownBy, Keys
  <1>7. (v.step = "new" => v.step = "new")
        /\ (v.step = "wait" /\ Key(v) \in Keys("host")' => v.step = "wait")
    OBVIOUS
  <1> QED
    BY <1>1, <1>3, <1>6, <1>7, HopeOf

\* Nobody's turn comes earlier.
LEMMA TurnsGrown ==
    ASSUME AnswerInv, CleanInv, NEW a, NEW q, Posting(a.at, a, q), Joins(a)
    PROVE  TurnsKept
  <1>1. Queue /\ Once /\ "host" \in Servers
    BY DEF CleanInv, Servers
  <1>2. GrownBy(Key(a))
    BY PostingGrows
  <1> SUFFICES ASSUME NEW h \in Repliers, NEW k \in Repliers', NEW u \in Hopeful,
                      NEW v \in Hopeful', Key(h) = Key(k), Key(u) = Key(v), InTurn(u, h)
               PROVE  k.step = "new" /\ Before(v, k)'
    BY DEF TurnsKept
  <1>3. h \in actors /\ h.kind \in Exchange /\ k \in actors' /\ k.kind \in Exchange
        /\ u \in actors /\ u.kind \in Exchange
    BY DEF Repliers, OfKind, Hopeful, Unsent, Exchange
  <1>4. Key(h) # Key(a) /\ Key(u) # Key(a)
    BY <1>3 DEF Joins
  <1>5. k \in actors
    BY <1>3, <1>4 DEF Joins, Concerns
  <1>6. h = k
    BY <1>1, <1>3, <1>5, SameActor
  <1>7. ASSUME NEW i \in DOMAIN events'["host"], NEW j \in DOMAIN events'["host"],
               events'["host"][i] = Key(v), events'["host"][j] = Key(k)
        PROVE  i < j
    <2>1. Key(u)[1] \in Exchange /\ Key(h)[1] \in Exchange
      BY <1>3, KeyOf
    <2>2. /\ i \in DOMAIN events["host"] /\ events["host"][i] = Key(u)
          /\ j \in DOMAIN events["host"] /\ events["host"][j] = Key(h)
      BY <1>1, <1>2, <1>4, <1>6, <1>7, <2>1 DEF GrownBy
    <2> QED
      BY <2>2 DEF InTurn, Before
  <1> QED
    BY <1>6, <1>7 DEF InTurn, Before

-----------------------------------------------------------------------------
(* An update, or the request for the deltas before one, arrives.            *)

LEMMA HeadGone ==
    ASSUME NEW q, IsSequence(q), q # <<>>, NEW r, r = Tail(q)
    PROVE  /\ 1 \in DOMAIN q /\ q[1] = Head(q)
           /\ \A i \in DOMAIN r : i + 1 \in DOMAIN q /\ r[i] = q[i + 1] /\ i + 1 # 1
  <1>1. q \in Seq(ToSet(q))
    BY DEF IsSequence
  <1>2. /\ Tail(q) \in Seq(ToSet(q)) /\ Len(Tail(q)) = Len(q) - 1 /\ Len(q) \in Nat
        /\ \A i \in 1..Len(Tail(q)) : Tail(q)[i] = q[i + 1]
        /\ Len(q) # 0 /\ q[1] = Head(q)
    BY <1>1, HeadTailProperties
  <1>3. DOMAIN q = 1..Len(q) /\ DOMAIN Tail(q) = 1..Len(Tail(q))
    BY <1>1, <1>2, LenProperties
  <1> QED
    BY <1>2, <1>3

LEMMA ArrivalJoins ==
    ASSUME AnswerInv, CleanInv, NEW t \in Servers, RequestArrives(t), NEW a, Create(a),
           a.at = t, a.kind \in Exchange, a.step = "new", \A b \in actors : Key(b) # Key(a)
    PROVE  /\ Joins(a) /\ \E q : Posting(a.at, a, q)
           /\ LinksCalm /\ DiscosNotReady
           /\ \A s \in Servers : CalmWire(s)
  <1>1. LinkInv /\ Queue
    BY DEF AnswerInv, CleanInv
  <1>2. actors' = actors \cup {a} /\ events' = [events EXCEPT ![t] = Append(@, Key(a))]
    BY DEF Create
  <1>3. Joins(a)
    <2>1. IsFiniteSet(actors')
      BY <1>1, <1>2, FS_AddElement DEF Queue
    <2> QED
      BY <1>2, <2>1 DEF Joins
  <1>4. Posting(t, a, <<Key(a)>>)
    <2>1. IsSequence(events[t]) /\ events = [s \in Servers |-> events[s]]
      BY <1>1 DEF Queue, EventsTyped
    <2>2. events[t] \o <<Key(a)>> = Append(events[t], Key(a))
      BY <2>1 DEF IsSequence
    <2>3. IsSequence(<<Key(a)>>)
      <3>1. <<Key(a)>> \in Seq({Key(a)})
        OBVIOUS
      <3> QED
        BY <3>1, SequenceOfItsElements
    <2>4. DOMAIN <<Key(a)>> = {1} /\ <<Key(a)>>[1] = Key(a)
      OBVIOUS
    <2> QED
      BY <1>2, <2>2, <2>3, <2>4 DEF Posting
  <1>5. SameDiscos
    BY <1>2 DEF SameDiscos, Exchange
  <1>6. Incoming(t).from \in Names /\ Gets(t, Incoming(t).from, FALSE)
    BY <1>1, IncomingOnWire DEF LinkInv, OnWire, IsStanza, RequestArrives, Gets
  <1>7. LinksCalm /\ DiscosNotReady
    BY <1>1, <1>5, <1>6, GotLinksAreCalm
  <1>8. \A s \in Servers : CalmWire(s)
    BY RestIsCalm DEF RequestArrives, CanRead
  <1> QED
    BY <1>3, <1>4, <1>7, <1>8

\* The numbers of what is under way, with an actor that joins.
LEMMA JoinedIds ==
    ASSUME Once, NEW a, Joins(a)
    PROVE  /\ a.kind # "WaveletUpdate" => UnsentIds' = UnsentIds
           /\ a.kind = "WaveletUpdate" => UnsentIds' = UnsentIds \cup {a.id}
           /\ a.kind # "UpdateResponse" => TakenIds' = TakenIds /\ FreshIds' = FreshIds
           /\ a.kind = "UpdateResponse" => /\ TakenIds' = TakenIds \cup {a.id}
                                           /\ FreshIds' = FreshIds \cup {a.id}
           /\ a.kind # "HistoryResponse" => ReplierIds' = ReplierIds
           /\ a.kind = "HistoryResponse" => ReplierIds' = ReplierIds \cup {a.id}
  <1>1. \A kind \in Exchange : OfKind(kind)' = OfKind(kind) \cup (IF a.kind = kind THEN {a} ELSE {})
    BY DEF Joins, OfKind, Concerns
  <1>2. a.step \in Fresh
    BY DEF Joins, Fresh
  <1>3. OfKind("WaveletUpdate")' = OfKind("WaveletUpdate") \cup (IF a.kind = "WaveletUpdate" THEN {a} ELSE {})
    BY <1>1 DEF Exchange
  <1>4. OfKind("UpdateResponse")' = OfKind("UpdateResponse") \cup (IF a.kind = "UpdateResponse" THEN {a} ELSE {})
    BY <1>1 DEF Exchange
  <1>5. OfKind("HistoryResponse")' = OfKind("HistoryResponse") \cup (IF a.kind = "HistoryResponse" THEN {a} ELSE {})
    BY <1>1 DEF Exchange
  <1>6. /\ a.kind # "WaveletUpdate" => UnsentIds' = UnsentIds
        /\ a.kind = "WaveletUpdate" => UnsentIds' = UnsentIds \cup {a.id}
    BY <1>2, <1>3 DEF UnsentIds, Unsent
  <1>7. /\ a.kind # "UpdateResponse" => TakenIds' = TakenIds /\ FreshIds' = FreshIds
        /\ a.kind = "UpdateResponse" => /\ TakenIds' = TakenIds \cup {a.id}
                                        /\ FreshIds' = FreshIds \cup {a.id}
    BY <1>2, <1>4 DEF TakenIds, FreshIds, Takers
  <1>8. /\ a.kind # "HistoryResponse" => ReplierIds' = ReplierIds
        /\ a.kind = "HistoryResponse" => ReplierIds' = ReplierIds \cup {a.id}
    BY <1>5 DEF ReplierIds, Repliers
  <1> QED
    BY <1>6, <1>7, <1>8

LEMMA JoinedOnce ==
    ASSUME Once, NEW a, Joins(a)
    PROVE  \A b, d \in actors' : b.kind \in Exchange /\ b.kind = d.kind /\ b.id = d.id /\ b.at = d.at
              => b = d
  <1> SUFFICES ASSUME NEW b \in actors', NEW d \in actors', b.kind \in Exchange, b.kind = d.kind,
                      b.id = d.id, b.at = d.at
               PROVE  b = d
    OBVIOUS
  <1>1. Key(b) = Key(d)
    BY KeyAlike
  <1>2. b \in actors \cup {a} /\ d \in actors \cup {a}
    BY DEF Joins, Concerns
  <1> QED
    BY <1>1, <1>2 DEF Joins, Once

\* The update arrives.
LEMMA UpdateComes ==
    ASSUME AnswerInv, AnswerInv', CleanInv, Clean', NEW t \in Servers, RequestArrives(t),
           Incoming(t).kind = "update", ~UNCHANGED <<actors, events>>
    PROVE  CleanInv'
  <1>0. PICK m, d, a :
           /\ m = Incoming(t) /\ d = m.deltas[1]
           /\ a = [NewActor(Responder[m.kind], t, Handler(t), m.key[3], m.deltas)
                        EXCEPT !.request = m]
    OBVIOUS
  <1>1. /\ Create(a) /\ wire' = Rest(t) /\ wire[Peer(t)] # <<>> /\ m = Head(wire[Peer(t)])
        /\ IsUpdate(m) /\ m.to = "component" /\ ~Applying
        /\ UNCHANGED <<stored, wavelet, copy, updates>>
    BY <1>0 DEF RequestArrives, CanRead, Incoming, IsUpdate, Clean, hostVars, copyVars
  <1>2. Queue /\ Once /\ Traffic /\ LinkInv /\ HostHistory
    BY DEF AnswerInv, CleanInv
  <1>3. updates = <<>> /\ Takers = {}
    BY <1>1 DEF Applying, Takers, OfKind
  <1>4. IsSequence(Down) /\ IsSequence(Up) /\ wire = [s \in Servers |-> wire[s]]
    BY WiresTyped
  <1>5. t = "copy"
    <2>1. ASSUME t = "host" PROVE FALSE
      <3>1. Up # <<>> /\ m = Head(Up)
        BY <1>1, <2>1 DEF Peer, Up
      <3>2. 1 \in DOMAIN Up /\ Up[1] = m
        BY <1>4, <3>1, HeadGone
      <3> QED
        BY <1>1, <1>2, <3>2 DEF Traffic
    <2> QED
      BY <2>1 DEF Servers
  <1>6. Down # <<>> /\ m = Head(Down) /\ Down' = Tail(Down) /\ Up' = Up
    BY <1>1, <1>4, <1>5 DEF Peer, Down, Up, Rest, Servers
  <1>7. /\ 1 \in DOMAIN Down /\ Down[1] = m
        /\ \A i \in DOMAIN Down' : i + 1 \in DOMAIN Down /\ Down'[i] = Down[i + 1] /\ i + 1 # 1
    BY <1>4, <1>6, HeadGone
  <1>8. 1 \in Updates /\ 1 \in Reaches
    BY <1>1, <1>7 DEF Updates, Reaches
  <1>9. /\ CarriesOne(m.deltas) /\ m.key = UpdateKey(d.id) /\ InStore(d) /\ Pos(d) \in Nat
    BY <1>0, <1>2, <1>7, <1>8, SentIsPlaced DEF Traffic
  <1>10. /\ a.kind = "UpdateResponse" /\ a.at = "copy" /\ a.id = d.id /\ a.step = "new"
         /\ a.deltas = m.deltas /\ a.request = m /\ m.kind = "update"
    BY <1>0, <1>1, <1>5, <1>9 DEF NewActor, Responder, UpdateKey, IsUpdate
  <1>11. \A b \in actors : Key(b) # Key(a)
    BY <1>3, <1>10, KeyOf DEF Takers, OfKind
  <1>12. a.kind \in Exchange
    BY <1>10 DEF Exchange
  <1>13. /\ Joins(a) /\ LinksCalm /\ DiscosNotReady /\ \A s \in Servers : CalmWire(s)
    BY <1>1, <1>5, <1>10, <1>11, <1>12, ArrivalJoins
  <1>14. PICK q : Posting(a.at, a, q)
    BY <1>1, <1>5, <1>10, <1>11, <1>12, ArrivalJoins
  <1>15. Queue' /\ TurnsKept
    BY <1>13, <1>14, QueueGrown, TurnsGrown
  <1>16. HopeKept
    <2>1. ASSUME NEW v \in Hopeful' PROVE v \in Hopeful /\ (Going(v) => Going(v)')
      <3>1. v # a
        BY <1>10 DEF Hopeful, Unsent, OfKind
      <3> QED
        BY <1>13, <1>14, <3>1, HopeGrown
    <2> QED
      BY <2>1 DEF HopeKept
  <1>17. HostHistory'
    BY <1>1 DEF CleanInv, HostHistory
  <1>18. Traffic'
    <2>1. \A x : InStore(x) => InStore(x)'
      BY <1>1 DEF InStore
    <2>2. ActorFits(a)'
      <3>1. CarriesOne(a.deltas)'
        BY <1>9, <1>10, <2>1 DEF CarriesOne
      <3> QED
        BY <1>0, <1>10, <3>1 DEF ActorFits, StepsOf, Fresh
    <2>3. \A b \in actors' : Concerns(b) => (\E x \in actors : Alike(x, b) \/ x = b) \/ ActorFits(b)'
      BY <1>13, <2>2 DEF Joins
    <2> QED
      BY <1>2, <1>6, <1>7, <2>1, <2>3, TrafficNext
  <1>19. Once'
    <2>1. /\ UnsentIds' = UnsentIds /\ ReplierIds' = ReplierIds
          /\ TakenIds' = TakenIds \cup {d.id} /\ FreshIds' = FreshIds \cup {d.id}
      BY <1>2, <1>10, <1>13, JoinedIds
    <2>2. QueryIds' = QueryIds /\ Queries' = Queries /\ CommittedIds' = CommittedIds
      BY <1>1, <1>6 DEF QueryIds, Queries, CommittedIds
    <2>3. /\ SentIds' \subseteq SentIds /\ HistoryIds' \subseteq HistoryIds
          /\ \A i, j \in Updates' : Down'[i].deltas[1].id = Down'[j].deltas[1].id => i = j
      BY <1>2, <1>13, IdsOfDown DEF Servers
    <2>4. d.id \in SentIds /\ TakenIds = {} /\ FreshIds = {}
      BY <1>0, <1>3, <1>7, <1>8 DEF SentIds, TakenIds, FreshIds
    <2>5. d.id \notin SentIds'
      <3>1. ASSUME NEW i \in Updates', Down'[i].deltas[1].id = d.id PROVE FALSE
        <4>1. i + 1 \in Updates /\ Down[i + 1].deltas[1].id = Down[1].deltas[1].id /\ i + 1 # 1
          BY <1>0, <1>7, <3>1 DEF Updates
        <4> QED
          BY <1>2, <1>8, <4>1 DEF Once
      <3> QED
        BY <3>1 DEF SentIds
    <2>6. d.id \notin UnsentIds /\ d.id \notin QueryIds \cup ReplierIds \cup HistoryIds
      BY <1>2, <2>4 DEF Once
    <2>7. ASSUME NEW b \in actors', NEW e \in actors', b.kind \in Exchange, b.kind = e.kind, b.id = e.id
          PROVE  b = e
      <3>1. b.at = e.at
        BY <1>18, <2>7 DEF Traffic, OfKind, Takers, Repliers, Exchange
      <3> QED
        BY <1>2, <1>13, <2>7, <3>1, JoinedOnce
    <2>8. \A i, j \in Queries' : Up'[i].key[3] = Up'[j].key[3] => i = j
      BY <1>2, <1>6, <2>2 DEF Once
    <2> QED
      BY <1>2, <2>1, <2>2, <2>3, <2>4, <2>5, <2>6, <2>7, <2>8 DEF Once
  <1>20. Takers' = {a}
    <2>1. a \in actors' /\ \A b \in actors' : b.kind = "UpdateResponse" => b \in actors \cup {a}
      BY <1>13 DEF Joins, Concerns, Exchange
    <2> QED
      BY <1>3, <1>10, <2>1 DEF Takers, OfKind
  <1>21. (CopyFits /\ Alone)'
    <2>1. CopyFits'
      BY <1>1 DEF CleanInv, CopyFits
    <2>2. Pos(d) >= copy.version
      <3>1. Pos(d) >= copy.version + Len(updates)
        BY <1>0, <1>7, <1>8 DEF CleanInv, Ahead
      <3>2. copy.version \in Nat /\ Len(updates) = 0
        BY <1>3, SequenceDomain DEF CleanInv, CopyFits
      <3> QED
        BY <1>9, <3>1, <3>2
    <2>3. a.deltas[1] = d
      BY <1>0, <1>10
    <2> QED
      BY <1>1, <1>3, <1>20, <2>1, <2>2, <2>3 DEF Alone, Pos
  <1>22. Ahead'
    <2>1. ASSUME NEW v \in Hopeful' PROVE Pos(v.deltas[1]) >= copy.version + Len(updates)
      <3>1. PICK x \in Hopeful : x.deltas = v.deltas
        BY <1>16, PositionsKept
      <3> QED
        BY <3>1 DEF CleanInv, Ahead
    <2>2. ASSUME NEW i \in Reaches' PROVE Pos(Down'[i].deltas[1]) >= copy.version + Len(updates)
      <3>1. PICK k \in Reaches : Down[k] = Down'[i]
        BY <1>13, ReachesKept DEF Servers
      <3> QED
        BY <3>1 DEF CleanInv, Ahead
    <2> QED
      BY <1>1, <2>1, <2>2 DEF Ahead, Pos
  <1>23. SentOrder'
    <2>1. ASSUME NEW i \in Reaches' PROVE Overtakes(Down[i].deltas[1])'
      <3>1. PICK k \in Reaches : Down[k] = Down'[i]
        BY <1>13, ReachesKept DEF Servers
      <3>2. Overtakes(Down[k].deltas[1])
        BY <3>1 DEF CleanInv, SentOrder
      <3> QED
        BY <1>16, <3>1, <3>2, OvertakesKept DEF Overtakes
    <2>2. Overtakes(a.deltas[1])'
      <3>1. Overtakes(d) /\ a.deltas[1] = d
        BY <1>0, <1>7, <1>8, <1>10 DEF CleanInv, SentOrder
      <3> QED
        BY <1>16, <3>1, OvertakesKept DEF Overtakes
    <2> QED
      BY <1>20, <2>1, <2>2 DEF SentOrder
  <1>24. HistoryOrder'
    BY <1>10, <1>20 DEF HistoryOrder
  <1> QED
    BY <1>15, <1>17, <1>18, <1>19, <1>21, <1>22, <1>23, <1>24 DEF CleanInv

\* The request for the deltas before an update arrives.
LEMMA HistoryComes ==
    ASSUME AnswerInv, AnswerInv', CleanInv, NEW t \in Servers, RequestArrives(t),
           Incoming(t).kind = "history", ~UNCHANGED <<actors, events>>
    PROVE  CleanInv'
  <1>0. PICK m, a :
           /\ m = Incoming(t)
           /\ a = [NewActor(Responder[m.kind], t, Handler(t), m.key[3], m.deltas)
                        EXCEPT !.request = m]
    OBVIOUS
  <1>1. /\ Create(a) /\ wire' = Rest(t) /\ wire[Peer(t)] # <<>> /\ m = Head(wire[Peer(t)])
        /\ IsQuery(m)
        /\ UNCHANGED <<stored, wavelet, copy, updates>>
    BY <1>0 DEF RequestArrives, CanRead, Incoming, IsQuery, hostVars, copyVars
  <1>2. Queue /\ Once /\ Traffic /\ LinkInv /\ HostHistory
    BY DEF AnswerInv, CleanInv
  <1>3. IsSequence(Down) /\ IsSequence(Up) /\ wire = [s \in Servers |-> wire[s]]
    BY WiresTyped
  <1>4. t = "host"
    <2>1. ASSUME t = "copy" PROVE FALSE
      <3>1. Down # <<>> /\ m = Head(Down)
        BY <1>1, <2>1 DEF Peer, Down
      <3>2. 1 \in DOMAIN Down /\ Down[1] = m
        BY <1>3, <3>1, HeadGone
      <3> QED
        BY <1>1, <1>2, <3>2 DEF Traffic
    <2> QED
      BY <2>1 DEF Servers
  <1>5. Up # <<>> /\ m = Head(Up) /\ Up' = Tail(Up) /\ Down' = Down
    BY <1>1, <1>3, <1>4 DEF Peer, Down, Up, Rest, Servers
  <1>6. /\ 1 \in DOMAIN Up /\ Up[1] = m
        /\ \A i \in DOMAIN Up' : i + 1 \in DOMAIN Up /\ Up'[i] = Up[i + 1] /\ i + 1 # 1
    BY <1>3, <1>5, HeadGone
  <1>7. 1 \in Queries
    BY <1>1, <1>6 DEF Queries
  <1>8. PICK x : x = m.key[3] /\ m.key = AskKey(x) /\ x \in QueryIds
    BY <1>2, <1>6, <1>7 DEF Traffic, QueryIds
  <1>9. /\ a.kind = "HistoryResponse" /\ a.at = "host" /\ a.id = x /\ a.step = "new"
        /\ a.deltas = m.deltas /\ a.request = m /\ m.kind = "history"
    BY <1>0, <1>1, <1>4, <1>8 DEF NewActor, Responder, IsQuery
  <1>10. \A b \in actors : Key(b) # Key(a)
    <2>1. x \notin ReplierIds
      BY <1>2, <1>8 DEF Once
    <2> QED
      BY <1>9, <2>1, KeyOf DEF ReplierIds, Repliers, OfKind
  <1>11. a.kind \in Exchange
    BY <1>9 DEF Exchange
  <1>12. /\ Joins(a) /\ LinksCalm /\ DiscosNotReady /\ \A s \in Servers : CalmWire(s)
    BY <1>1, <1>4, <1>9, <1>10, <1>11, ArrivalJoins
  <1>13. PICK q : Posting(a.at, a, q)
    BY <1>1, <1>4, <1>9, <1>10, <1>11, ArrivalJoins
  <1>14. Queue' /\ TurnsKept /\ GrownBy(Key(a))
    BY <1>12, <1>13, QueueGrown, TurnsGrown, PostingGrows
  <1>15. HopeKept
    <2>1. ASSUME NEW v \in Hopeful' PROVE v \in Hopeful /\ (Going(v) => Going(v)')
      <3>1. v # a
        BY <1>9 DEF Hopeful, Unsent, OfKind
      <3> QED
        BY <1>12, <1>13, <3>1, HopeGrown
    <2> QED
      BY <2>1 DEF HopeKept
  <1>16. HostHistory'
    BY <1>1 DEF CleanInv, HostHistory
  <1>17. Traffic'
    <2>1. \A y : InStore(y) => InStore(y)'
      BY <1>1 DEF InStore
    <2>2. ActorFits(a)'
      <3>1. "new" \in StepsOf["HistoryResponse"]
        BY DEF StepsOf, Fresh
      <3>2. a.request.key = AskKey(a.id) /\ a.request.kind = "history"
        BY <1>8, <1>9
      <3> QED
        BY <1>9, <3>1, <3>2 DEF ActorFits
    <2>3. \A b \in actors' : Concerns(b) => (\E y \in actors : Alike(y, b) \/ y = b) \/ ActorFits(b)'
      BY <1>12, <2>2 DEF Joins
    <2> QED
      BY <1>2, <1>5, <1>6, <2>1, <2>3, TrafficNext
  <1>18. Once'
    <2>1. /\ UnsentIds' = UnsentIds /\ ReplierIds' = ReplierIds \cup {x}
          /\ TakenIds' = TakenIds /\ FreshIds' = FreshIds
      BY <1>2, <1>9, <1>12, JoinedIds
    <2>2. SentIds' = SentIds /\ HistoryIds' = HistoryIds /\ Updates' = Updates
      BY <1>5 DEF SentIds, HistoryIds, Updates, Histories
    <2>3. /\ QueryIds' \subseteq QueryIds
          /\ \A i, j \in Queries' : Up'[i].key[3] = Up'[j].key[3] => i = j
      BY <1>2, <1>12, IdsOfUp DEF Servers
    <2>4. x \notin QueryIds'
      <3>1. ASSUME NEW i \in Queries', Up'[i].key[3] = x PROVE FALSE
        <4>1. i + 1 \in Queries /\ Up[i + 1].key[3] = Up[1].key[3] /\ i + 1 # 1
          BY <1>6, <1>8, <3>1 DEF Queries
        <4> QED
          BY <1>2, <1>7, <4>1 DEF Once
      <3> QED
        BY <3>1 DEF QueryIds
    <2>5. ASSUME NEW b \in actors', NEW e \in actors', b.kind \in Exchange, b.kind = e.kind, b.id = e.id
          PROVE  b = e
      <3>1. b.at = e.at
        BY <1>17, <2>5 DEF Traffic, OfKind, Takers, Repliers, Exchange
      <3> QED
        BY <1>2, <1>12, <2>5, <3>1, JoinedOnce
    <2>6. CommittedIds' = CommittedIds
      BY <1>1 DEF CommittedIds
    <2>7. \A i, j \in Updates' : Down'[i].deltas[1].id = Down'[j].deltas[1].id => i = j
      BY <1>2, <1>5, <2>2 DEF Once
    <2>8. QueryIds' \cup ReplierIds' \cup HistoryIds' \subseteq QueryIds \cup ReplierIds \cup HistoryIds
      BY <1>8, <2>1, <2>2, <2>3
    <2>9. QueryIds' \cap ReplierIds' = {}
      BY <1>2, <2>1, <2>3, <2>4 DEF Once
    <2> QED
      BY <1>2, <2>1, <2>2, <2>3, <2>5, <2>6, <2>7, <2>8, <2>9 DEF Once
  <1>19. Takers' = Takers
    BY <1>9, <1>12 DEF Joins, Concerns, Exchange, Takers, OfKind
  <1>20. Reaches' = Reaches
    BY <1>5 DEF Reaches, Updates
  <1>21. (CopyFits /\ Alone)'
    BY <1>1, <1>19 DEF CleanInv, CopyFits, Alone, Pos
  <1>22. Ahead'
    <2>1. ASSUME NEW v \in Hopeful' PROVE Pos(v.deltas[1]) >= copy.version + Len(updates)
      <3>1. PICK y \in Hopeful : y.deltas = v.deltas
        BY <1>15, PositionsKept
      <3> QED
        BY <3>1 DEF CleanInv, Ahead
    <2> QED
      BY <1>1, <1>5, <1>20, <2>1 DEF Ahead, Pos, CleanInv
  <1>23. SentOrder'
    <2>1. ASSUME NEW i \in Reaches' PROVE Overtakes(Down[i].deltas[1])'
      <3>1. Overtakes(Down[i].deltas[1])
        BY <1>20 DEF CleanInv, SentOrder
      <3> QED
        BY <1>5, <1>15, <3>1, OvertakesKept DEF Overtakes
    <2>2. ASSUME NEW b \in Takers' PROVE Overtakes(b.deltas[1])'
      BY <1>15, <1>19, OvertakesKept DEF CleanInv, SentOrder
    <2> QED
      BY <2>1, <2>2 DEF SentOrder
  <1>24. ASSUME NEW b \in Takers', b.step = "history" PROVE (Asked1(b) /\ Asked2(b) /\ Asked3(b))'
    <2>1. b \in Takers /\ Asked1(b) /\ Asked2(b) /\ Asked3(b) /\ Overtakes(b.deltas[1])
      BY <1>19, <1>24 DEF CleanInv, HistoryOrder, SentOrder
    <2>2. Asked1(b)'
      <3>1. \A i \in Queries' : i + 1 \in Queries /\ Up'[i] = Up[i + 1]
        BY <1>6 DEF Queries
      <3> QED
        BY <1>1, <2>1, <3>1 DEF Asked1, Pos
    <2>3. Asked2(b)'
      <3> SUFFICES ASSUME NEW k \in Repliers', k.request.key = Key(b)
                   PROVE  /\ k.request.start = copy.version /\ k.request.end = Pos(b.deltas[1])
                          /\ \A v \in Hopeful' : After(v, b.deltas[1]) \/ InTurn(v, k)'
        BY <1>1 DEF Asked2, After, Pos
      <3>1. CASE k = a
        <4>1. k.request.start = copy.version /\ k.request.end = Pos(b.deltas[1])
          BY <1>6, <1>7, <1>9, <2>1, <3>1 DEF Asked1
        <4>2. ASSUME NEW v \in Hopeful', ~After(v, b.deltas[1]) PROVE InTurn(v, k)'
          <5>1. v # a
            BY <1>9 DEF Hopeful, Unsent, OfKind
          <5>2. v \in Hopeful /\ (Going(v) => Going(v)')
            BY <1>12, <1>13, <5>1, HopeGrown
          <5>3. Going(v)'
            BY <2>1, <4>2, <5>2 DEF Overtakes
          <5>4. Before(v, k)'
            <6>1. v \in actors /\ v.kind \in Exchange
              BY <5>2 DEF Hopeful, Unsent, OfKind, Exchange
            <6>2. Key(v) # Key(k) /\ Key(v)[1] \in Exchange /\ "host" \in Servers
              BY <1>10, <3>1, <6>1, KeyOf DEF Servers
            <6> QED
              BY <1>14, <3>1, <6>2 DEF GrownBy, Before
          <5> QED
            BY <1>9, <3>1, <5>3, <5>4 DEF InTurn
        <4> QED
          BY <4>1, <4>2
      <3>2. CASE k # a
        <4>1. k \in Repliers
          BY <1>12, <3>2 DEF Joins, Concerns, Exchange, Repliers, OfKind
        <4>2. /\ k.request.start = copy.version /\ k.request.end = Pos(b.deltas[1])
              /\ \A u \in Hopeful : After(u, b.deltas[1]) \/ InTurn(u, k)
          BY <2>1, <4>1 DEF Asked2
        <4>3. ASSUME NEW v \in Hopeful' PROVE After(v, b.deltas[1]) \/ InTurn(v, k)'
          <5>1. PICK u \in Hopeful : /\ u.deltas = v.deltas /\ Key(u) = Key(v)
                                     /\ After(u, b.deltas[1]) => After(v, b.deltas[1])
                                     /\ Going(u) => Going(v)'
            BY <1>15, PositionsKept
          <5>2. CASE InTurn(u, k)
            BY <1>14, <4>1, <5>1, <5>2 DEF InTurn, TurnsKept
          <5> QED
            BY <4>2, <5>1, <5>2
        <4> QED
          BY <4>2, <4>3
      <3> QED
        BY <3>1, <3>2
    <2>4. Asked3(b)'
      <3>1. \A v \in Hopeful' : (\A u \in Hopeful : After(u, b.deltas[1])) => After(v, b.deltas[1])
        BY <1>15, PositionsKept
      <3> QED
        BY <1>1, <1>5, <1>20, <2>1, <3>1 DEF Asked3, Histories, After, Pos
    <2> QED
      BY <2>2, <2>3, <2>4
  <1> QED
    BY <1>14, <1>16, <1>17, <1>18, <1>21, <1>22, <1>23, <1>24 DEF CleanInv, HistoryOrder

-----------------------------------------------------------------------------
(* The host commits a delta.                                                *)

IsUpdateOf(b, d) ==
    /\ b.kind = "WaveletUpdate" /\ b.at = "host" /\ b.id = d.id /\ b.step = "new"
    /\ b.deltas = <<d>> /\ b.request = NoStanza

\* What becomes of those who bring updates.
CommitFacts(d) ==
    /\ Queue' /\ TurnsKept
    /\ \A v \in Hopeful' :
          v.deltas = <<d>> \/ \E u \in Hopeful : u.deltas = v.deltas /\ (Going(u) => Going(v)')
                                                 /\ Key(u) = Key(v)
    /\ \A b \in actors' : Concerns(b) => b \in actors \/ IsUpdateOf(b, d)
    /\ Takers' = Takers /\ Repliers' = Repliers /\ FreshIds' = FreshIds
    /\ UnsentIds' \subseteq UnsentIds \cup {d.id}
    /\ \A b, e \in actors' : b.kind \in Exchange /\ b.kind = e.kind /\ b.id = e.id /\ b.at = e.at
          => b = e

\* Nobody of the copy's domain is subscribed.
LEMMA CommitAlone ==
    ASSUME AnswerInv, CleanInv, NEW d, NEW b, b \notin actors \/ ~Concerns(b),
           actors' = actors \ {b}, UNCHANGED <<con, route, events>>
    PROVE  CommitFacts(d)
  <1>1. LinkInv /\ Queue /\ Traffic /\ Once /\ LinkTypeOK /\ "host" \in Servers
    BY DEF AnswerInv, CleanInv, LinkInv, Servers
  <1>2. Steps(b, b) /\ Stays(b) /\ Unturned(b, b)
    <2>1. Steps(b, b)
      BY <1>1, NobodySteps
    <2> QED
      BY <2>1 DEF Stays, Unturned, Concerns
  <1>3. SameDiscos /\ KeepsLinks
    BY <1>1, SameLinks DEF SameDiscos
  <1>4. LinksCalm /\ DiscosNotReady
    BY <1>3, KeptLinksAreCalm
  <1>5. EventsTyped' /\ \A s \in Servers : CalmKeys(s)
    BY <1>1, EventsSame
  <1>6. IsFiniteSet(actors')
    BY <1>1, FS_Subset DEF Queue
  <1>7. HopeKept /\ Queue' /\ TurnsKept
    BY <1>1, <1>2, <1>4, <1>5, <1>6, HopeOfSteps, QueueKept, TurnsAreKept
  <1>8. \A kind \in Exchange : OfKind(kind)' = OfKind(kind)
    BY DEF OfKind, Concerns
  <1>9. Takers' = Takers /\ Repliers' = Repliers /\ Unsent' = Unsent
    BY <1>8 DEF Takers, Repliers, Unsent, Exchange
  <1>10. FreshIds' = FreshIds /\ UnsentIds' = UnsentIds
    BY <1>9 DEF FreshIds, UnsentIds
  <1>11. \A x, e \in actors' : x.kind \in Exchange /\ x.kind = e.kind /\ x.id = e.id => x = e
    BY <1>1 DEF Once
  <1>12. \A v \in Hopeful' :
            \E u \in Hopeful : u.deltas = v.deltas /\ (Going(u) => Going(v)') /\ Key(u) = Key(v)
    BY <1>7 DEF HopeKept
  <1> QED
    BY <1>7, <1>9, <1>10, <1>11, <1>12 DEF CommitFacts

\* An update is posted.
LEMMA CommitPosts ==
    ASSUME AnswerInv, CleanInv, NEW d, NEW b, b \notin actors \/ ~Concerns(b),
           Posts("host", "WaveletUpdate", d, actors \ {b}), d.id \notin CommittedIds
    PROVE  CommitFacts(d)
  <1>0. PICK a, set : a = Poster("host", "WaveletUpdate", d) /\ set = actors \ {b}
    OBVIOUS
  <1>1. LinkInv /\ Queue /\ Traffic /\ Once /\ "host" \in Servers
    BY DEF AnswerInv, CleanInv, Servers
  <1>2. set \subseteq actors /\ Posts("host", "WaveletUpdate", d, set)
    BY <1>0
  <1>3. PostsMore("host", "WaveletUpdate", d, set) /\ LinksCalm /\ DiscosNotReady
    <2>1. "WaveletUpdate" # "Disco"
      OBVIOUS
    <2> QED
      BY <1>1, <1>2, <2>1, Posted, PostedLinksAreCalm
  <1>4. /\ IsUpdateOf(a, d) /\ set \cup {a} \subseteq actors'
        /\ \A x \in actors' : \/ x \in set \cup {a}
                              \/ x.kind = "Disco" /\ x.step = "new" /\ x.request = NoStanza
        /\ IsFiniteSet(set) => IsFiniteSet(actors')
    BY <1>0, <1>3 DEF PostsMore, IsUpdateOf
  <1>5. PICK q : /\ IsSequence(q) /\ events' = [events EXCEPT !["host"] = @ \o q]
                 /\ \A i \in DOMAIN q : q[i] = Key(a) \/ q[i][1] = "Disco"
                 /\ \A i, j \in DOMAIN q : q[i] = q[j] => i = j
    BY <1>0, <1>3 DEF PostsMore
  <1>6. Posting(a.at, a, q)
    <2>1. a.at = "host" /\ "Disco" \notin Exchange
      BY <1>4 DEF IsUpdateOf, Exchange
    <2> QED
      BY <1>5, <2>1 DEF Posting
  <1>7. \A x \in actors : Key(x) # Key(a)
    <2> SUFFICES ASSUME NEW x \in actors, Key(x) = Key(a) PROVE FALSE
      OBVIOUS
    <2>1. x.kind = "WaveletUpdate" /\ x.id = d.id
      BY <1>4, KeyOf DEF IsUpdateOf
    <2>2. CarriesOne(x.deltas) /\ x.deltas[1].id = d.id
      BY <1>1, <2>1 DEF Traffic, OfKind
    <2>3. PICK i \in 1..Len(stored) : stored[i].id = d.id
      BY <2>2 DEF CarriesOne, InStore
    <2>4. DOMAIN stored = 1..Len(stored)
      BY SequenceDomain DEF CleanInv, HostHistory
    <2> QED
      BY <2>3, <2>4 DEF CommittedIds
  <1>8. Joins(a)
    <2>1. a.kind \in Exchange /\ a.at \in Servers /\ a.step = "new" /\ a \in actors'
      BY <1>4 DEF IsUpdateOf, Exchange, Servers
    <2>2. \A x \in actors' : x \in actors \cup {a} \/ ~Concerns(x)
      BY <1>2, <1>4 DEF Concerns, Exchange, NoStanza
    <2>3. \A x \in actors : Concerns(x) => x \in actors'
      BY <1>0, <1>4
    <2>4. IsFiniteSet(actors')
      BY <1>1, <1>2, <1>4, FS_Subset DEF Queue
    <2> QED
      BY <1>7, <2>1, <2>2, <2>3, <2>4 DEF Joins
  <1>9. Queue' /\ TurnsKept
    BY <1>3, <1>6, <1>8, QueueGrown, TurnsGrown
  <1>10. ASSUME NEW v \in Hopeful'
         PROVE  v.deltas = <<d>> \/ \E u \in Hopeful : u.deltas = v.deltas /\ (Going(u) => Going(v)')
                                                       /\ Key(u) = Key(v)
    <2>1. CASE v = a
      BY <1>4, <2>1 DEF IsUpdateOf
    <2>2. CASE v # a
      <3>1. v \in Hopeful /\ (Going(v) => Going(v)')
        BY <1>3, <1>6, <1>8, <2>2, HopeGrown
      <3> QED
        BY <3>1
    <2> QED
      BY <2>1, <2>2
  <1>11. \A x \in actors' : Concerns(x) => x \in actors \/ IsUpdateOf(x, d)
    BY <1>4, <1>8 DEF Joins
  <1>12. a.kind = "WaveletUpdate" /\ a.id = d.id
    BY <1>4 DEF IsUpdateOf
  <1>13. Takers' = Takers /\ Repliers' = Repliers
    <2>1. \A kind \in Exchange : kind # "WaveletUpdate" => OfKind(kind)' = OfKind(kind)
      BY <1>8, <1>12 DEF OfKind, Joins, Concerns
    <2> QED
      BY <2>1 DEF Takers, Repliers, Exchange
  <1>14. FreshIds' = FreshIds /\ UnsentIds' \subseteq UnsentIds \cup {d.id}
    BY <1>1, <1>8, <1>12, JoinedIds
  <1>15. \A x, e \in actors' : x.kind \in Exchange /\ x.kind = e.kind /\ x.id = e.id /\ x.at = e.at
            => x = e
    BY <1>1, <1>8, JoinedOnce
  <1> QED
    BY <1>9, <1>10, <1>11, <1>13, <1>14, <1>15 DEF CommitFacts

LEMMA PartOfAppend ==
    ASSUME NEW q, IsSequence(q), NEW m, NEW k \in Nat, k > 0, NEW e \in Nat, e <= Len(q)
    PROVE  SubSeq(Append(q, m), k, e) = SubSeq(q, k, e)
  <1> DEFINE r == Append(q, m)
             T == ToSet(r)
  <1>1. /\ IsSequence(r) /\ Len(q) \in Nat /\ DOMAIN r = 1..(Len(q) + 1) /\ Len(r) = Len(q) + 1
        /\ \A i \in 1..Len(q) : r[i] = q[i]
    BY Appended
  <1>2. \A i \in 1..Len(r) : r[i] \in T
    BY <1>1 DEF IsSequence
  <1> HIDE DEF r, T
  <1>3. \A i \in k..e : r[i] = q[i] /\ r[i] \in T /\ q[i] \in T
    BY <1>1, <1>2
  <1>4. k \in Int /\ e \in Int
    OBVIOUS
  <1>5. /\ SubSeq(r, k, e) \in Seq(T) /\ Len(SubSeq(r, k, e)) = IF k <= e THEN e - k + 1 ELSE 0
        /\ \A i \in 1..(e - k + 1) : SubSeq(r, k, e)[i] = r[k + i - 1]
    BY <1>3, <1>4, SubSeqProperties
  <1>6. /\ SubSeq(q, k, e) \in Seq(T) /\ Len(SubSeq(q, k, e)) = IF k <= e THEN e - k + 1 ELSE 0
        /\ \A i \in 1..(e - k + 1) : SubSeq(q, k, e)[i] = q[k + i - 1]
    BY <1>3, <1>4, SubSeqProperties
  <1>7. \A i \in 1..(e - k + 1) : k + i - 1 \in k..e
    OBVIOUS
  <1>8. ASSUME NEW i \in 1..Len(SubSeq(r, k, e)) PROVE SubSeq(r, k, e)[i] = SubSeq(q, k, e)[i]
    <2>1. i \in 1..(e - k + 1)
      BY <1>5
    <2> QED
      BY <1>3, <1>5, <1>6, <1>7, <2>1
  <1>9. Len(SubSeq(r, k, e)) = Len(SubSeq(q, k, e))
    BY <1>5, <1>6
  <1>10. SubSeq(r, k, e) = SubSeq(q, k, e)
    BY <1>5, <1>6, <1>8, <1>9, SeqEqual
  <1> QED
    BY <1>10 DEF r

\* What is known of the history with one more delta.
Commits(d) ==
    /\ stored' = Append(stored, d) /\ wavelet' = Applied(wavelet, d)
    /\ d.base = HashedVersion(wavelet) /\ d.ops = 1

LEMMA StoreGrows ==
    ASSUME HostHistory, NEW d, Commits(d)
    PROVE  /\ HostHistory' /\ (\A e : InStore(e) => InStore(e)') /\ InStore(d)'
           /\ Pos(d) = Len(stored) /\ Len(stored) \in Nat /\ Len(stored') = Len(stored) + 1
           /\ \A i \in 1..Len(stored) : stored'[i] = stored[i]
           /\ CommittedIds' = CommittedIds \cup {d.id}
  <1> DEFINE n == Len(stored)
  <1>1. /\ IsSequence(stored) /\ IsSequence(wavelet.hash) /\ wavelet.version = n
        /\ Len(wavelet.hash) = n
    BY DEF HostHistory
  <1>2. /\ IsSequence(stored') /\ n \in Nat /\ DOMAIN stored = 1..n /\ DOMAIN stored' = 1..(n + 1)
        /\ Len(stored') = n + 1 /\ \A i \in 1..n : stored'[i] = stored[i]
        /\ stored'[n + 1] = d
    BY <1>1, Appended DEF Commits
  <1>3. wavelet'.hash = Append(wavelet.hash, d.id) /\ wavelet'.version = n + 1
    BY <1>1 DEF Commits, Applied
  <1>4. /\ IsSequence(wavelet'.hash) /\ Len(wavelet'.hash) = n + 1
        /\ \A i \in 1..n : wavelet'.hash[i] = wavelet.hash[i]
        /\ wavelet'.hash[n + 1] = d.id
    BY <1>1, <1>3, Appended
  <1>5. d.base.version = n /\ d.base.hash = wavelet.hash
    BY <1>1 DEF Commits, HashedVersion
  <1> HIDE DEF n
  <1>6. ASSUME NEW i \in 0..n PROVE SubSeq(wavelet'.hash, 1, i) = SubSeq(wavelet.hash, 1, i)
    <2>1. i \in Nat /\ i <= Len(wavelet.hash)
      BY <1>1, <1>2 DEF n
    <2> QED
      BY <1>1, <1>3, <2>1, PartOfAppend
  <1>7. SubSeq(wavelet.hash, 1, n) = wavelet.hash
    <2>1. wavelet.hash \in Seq(ToSet(wavelet.hash)) /\ n = Len(wavelet.hash)
      BY <1>1 DEF n, IsSequence
    <2> QED
      BY <2>1, SubSeqFull
  <1>8. ASSUME NEW i \in 1..(n + 1)
        PROVE  /\ wavelet'.hash[i] = stored'[i].id
               /\ stored'[i].base = [version |-> i - 1, hash |-> SubSeq(wavelet'.hash, 1, i - 1)]
    <2>1. CASE i \in 1..n
      <3>1. i - 1 \in 0..n
        BY <1>2, <2>1
      <3>2. /\ wavelet.hash[i] = stored[i].id
            /\ stored[i].base = [version |-> i - 1, hash |-> SubSeq(wavelet.hash, 1, i - 1)]
        BY <2>1 DEF HostHistory, n
      <3> QED
        BY <1>2, <1>4, <1>6, <2>1, <3>1, <3>2
    <2>2. CASE i = n + 1
      <3>1. i - 1 = n /\ n \in 0..n
        BY <1>2, <2>2
      <3>2. d.base = [version |-> n, hash |-> wavelet.hash]
        BY <1>1 DEF Commits, HashedVersion, n
      <3> QED
        BY <1>2, <1>4, <1>6, <1>7, <2>2, <3>1, <3>2
    <2> QED
      BY <1>2, <2>1, <2>2
  <1>9. HostHistory'
    BY <1>2, <1>3, <1>4, <1>8 DEF HostHistory
  <1>10. \A e : InStore(e) => InStore(e)'
    <2>1. \A i \in 1..n : i \in 1..(n + 1)
      BY <1>2
    <2> QED
      BY <1>2, <2>1 DEF InStore, n
  <1>11. InStore(d)'
    BY <1>2 DEF InStore
  <1>12. CommittedIds' = CommittedIds \cup {d.id}
    <2>1. 1..(n + 1) = (1..n) \cup {n + 1}
      BY <1>2
    <2> QED
      BY <1>2, <2>1 DEF CommittedIds
  <1> QED
    BY <1>2, <1>5, <1>9, <1>10, <1>11, <1>12 DEF Pos, n

\* What is committed comes after everything that is on its way.
LEMMA CommitKeepsOrder ==
    ASSUME AnswerInv, AnswerInv', CleanInv, NEW d, CommitFacts(d), Commits(d),
           d.id \notin CommittedIds, UNCHANGED <<copy, updates>>,
           \A s \in Servers : CalmWire(s)
    PROVE  CleanInv'
  <1>1. Traffic /\ HostHistory /\ Once /\ Queue /\ CopyFits /\ CalmWire("host") /\ CalmWire("copy")
    BY DEF CleanInv, Servers
  <1>2. /\ HostHistory' /\ (\A e : InStore(e) => InStore(e)') /\ InStore(d)'
        /\ Pos(d) = Len(stored) /\ Len(stored) \in Nat /\ Len(stored') = Len(stored) + 1
        /\ \A i \in 1..Len(stored) : stored'[i] = stored[i]
        /\ CommittedIds' = CommittedIds \cup {d.id}
    BY <1>1, StoreGrows
  <1>3. Takers' = Takers /\ Repliers' = Repliers
    BY DEF CommitFacts
  <1>4. Traffic'
    <2>1. \A b \in actors' : Concerns(b) => (\E x \in actors : Alike(x, b) \/ x = b) \/ ActorFits(b)'
      <3> SUFFICES ASSUME NEW b \in actors', IsUpdateOf(b, d) PROVE ActorFits(b)'
        BY DEF CommitFacts
      <3>1. CarriesOne(b.deltas)' /\ b.deltas[1] = d
        BY <1>2 DEF IsUpdateOf, CarriesOne
      <3> QED
        BY <3>1 DEF IsUpdateOf, ActorFits, NoStanza, StepsOf, Fresh
    <2>2. \A i \in DOMAIN Down' : Matters(Down'[i]) => \E k \in DOMAIN Down : Down[k] = Down'[i]
      BY <1>1 DEF CalmWire, Thin, Exchanged, Down
    <2>3. \A i \in DOMAIN Up' : Matters(Up'[i]) => \E k \in DOMAIN Up : Up[k] = Up'[i]
      BY <1>1 DEF CalmWire, Thin, Exchanged, Up
    <2> QED
      BY <1>1, <1>2, <2>1, <2>2, <2>3, TrafficNext
  <1>5. \A e : InStore(e) => e.id \in CommittedIds
    <2>1. DOMAIN stored = 1..Len(stored)
      BY <1>1, SequenceDomain DEF HostHistory
    <2> QED
      BY <2>1 DEF InStore, CommittedIds
  <1>6. Once'
    <2>1. UnsentIds \subseteq CommittedIds /\ SentIds \subseteq CommittedIds /\ TakenIds \subseteq CommittedIds
      <3>1. \A u \in Unsent : u.id \in CommittedIds
        BY <1>1, <1>5 DEF Unsent, Traffic, CarriesOne
      <3>2. \A i \in Updates : Down[i].deltas[1].id \in CommittedIds
        BY <1>1, <1>5 DEF Traffic, CarriesOne
      <3>3. \A a \in Takers : a.id \in CommittedIds
        BY <1>1, <1>5 DEF Traffic, CarriesOne
      <3> QED
        BY <3>1, <3>2, <3>3 DEF UnsentIds, SentIds, TakenIds
    <2>2. /\ UnsentIds' \subseteq UnsentIds \cup {d.id} /\ FreshIds' = FreshIds
          /\ TakenIds' = TakenIds /\ ReplierIds' = ReplierIds
      BY <1>3 DEF CommitFacts, TakenIds, ReplierIds
    <2>3. /\ SentIds' \subseteq SentIds /\ HistoryIds' \subseteq HistoryIds
          /\ \A i, j \in Updates' : Down'[i].deltas[1].id = Down'[j].deltas[1].id => i = j
      BY <1>1, IdsOfDown
    <2>4. /\ QueryIds' \subseteq QueryIds
          /\ \A i, j \in Queries' : Up'[i].key[3] = Up'[j].key[3] => i = j
      BY <1>1, IdsOfUp
    <2>5. ASSUME NEW b \in actors', NEW e \in actors', b.kind \in Exchange, b.kind = e.kind, b.id = e.id
          PROVE  b = e
      <3>1. b.at = e.at
        BY <1>4, <2>5 DEF Traffic, OfKind, Takers, Repliers, Exchange
      <3> QED
        BY <2>5, <3>1 DEF CommitFacts
    <2>6. /\ UnsentIds \cap SentIds = {}
          /\ (UnsentIds \cup SentIds) \cap TakenIds = {}
          /\ (UnsentIds \cup SentIds \cup FreshIds) \cap (QueryIds \cup ReplierIds \cup HistoryIds) = {}
          /\ QueryIds \cap ReplierIds = {}
          /\ QueryIds \cup ReplierIds \cup HistoryIds \subseteq CommittedIds
      BY <1>1 DEF Once
    <2>7. d.id \notin SentIds \cup TakenIds \cup QueryIds \cup ReplierIds \cup HistoryIds
      BY <2>1, <2>6
    <2>8. UnsentIds' \cap SentIds' = {} /\ (UnsentIds' \cup SentIds') \cap TakenIds' = {}
      BY <2>2, <2>3, <2>6, <2>7
    <2>9. (UnsentIds' \cup SentIds' \cup FreshIds') \cap (QueryIds' \cup ReplierIds' \cup HistoryIds') = {}
      BY <2>2, <2>3, <2>4, <2>6, <2>7
    <2>10. /\ QueryIds' \cap ReplierIds' = {}
           /\ QueryIds' \cup ReplierIds' \cup HistoryIds' \subseteq CommittedIds'
      BY <1>2, <2>2, <2>3, <2>4, <2>6
    <2> QED
      BY <2>3, <2>4, <2>5, <2>8, <2>9, <2>10 DEF Once
  <1>7. /\ copy.version \in Nat /\ Len(updates) \in Nat
        /\ copy.version + Len(updates) <= Len(stored)
    BY <1>1, SequenceDomain DEF CopyFits
  <1>8. (CopyFits /\ Alone)'
    <2>1. \A i \in 1..copy.version : i \in 1..Len(stored)
      BY <1>2, <1>7
    <2>2. ASSUME NEW i \in 1..Len(updates) PROVE copy.version + i \in 1..Len(stored)
      <3>1. Len(stored) \in Nat
        BY <1>2
      <3> QED
        BY <1>7, <3>1
    <2>3. copy.version + Len(updates) <= Len(stored')
      BY <1>2, <1>7
    <2>4. CopyFits'
      BY <1>1, <1>2, <2>1, <2>2, <2>3 DEF CopyFits
    <2>5. Alone'
      BY <1>3 DEF CleanInv, Alone, Pos
    <2> QED
      BY <2>4, <2>5
  <1>9. ASSUME NEW v \in Hopeful', NEW e, InStore(e)
        PROVE  \/ After(v, e)
               \/ \E u \in Hopeful : /\ u.deltas = v.deltas /\ Key(u) = Key(v)
                                     /\ Going(u) => Going(v)'
                                     /\ After(u, e) => After(v, e)
    <2>1. CASE v.deltas = <<d>>
      <3>1. v.deltas[1] = d /\ Pos(e) \in Nat /\ Pos(e) < Len(stored)
        BY <1>1, <1>9, <2>1, Placed
      <3> QED
        BY <1>2, <3>1 DEF After
    <2>2. CASE \E u \in Hopeful : u.deltas = v.deltas /\ (Going(u) => Going(v)') /\ Key(u) = Key(v)
      BY <2>2 DEF After
    <2> QED
      BY <2>1, <2>2 DEF CommitFacts
  <1>10. \A e : InStore(e) /\ Overtakes(e) => Overtakes(e)'
    BY <1>9 DEF Overtakes, After, Pos
  <1>11. Ahead'
    <2>1. ASSUME NEW v \in Hopeful' PROVE Pos(v.deltas[1]) >= copy.version + Len(updates)
      <3>1. CASE v.deltas = <<d>>
        BY <1>2, <1>7, <3>1
      <3>2. CASE \E u \in Hopeful : u.deltas = v.deltas
        BY <3>2 DEF CleanInv, Ahead
      <3> QED
        BY <3>1, <3>2 DEF CommitFacts
    <2>2. ASSUME NEW i \in Reaches' PROVE Pos(Down'[i].deltas[1]) >= copy.version + Len(updates)
      <3>1. PICK k \in Reaches : Down[k] = Down'[i]
        BY <1>1, ReachesKept
      <3> QED
        BY <3>1 DEF CleanInv, Ahead
    <2> QED
      BY <2>1, <2>2 DEF Ahead, Pos
  <1>12. SentOrder'
    <2>1. ASSUME NEW i \in Reaches' PROVE Overtakes(Down[i].deltas[1])'
      <3>1. PICK k \in Reaches : Down[k] = Down'[i]
        BY <1>1, ReachesKept
      <3>2. Overtakes(Down[k].deltas[1]) /\ InStore(Down[k].deltas[1])
        BY <1>1, <3>1, SentIsPlaced DEF CleanInv, SentOrder, Reaches
      <3> QED
        BY <1>10, <3>1, <3>2 DEF Overtakes
    <2>2. ASSUME NEW b \in Takers' PROVE Overtakes(b.deltas[1])'
      <3>1. b \in Takers /\ Overtakes(b.deltas[1]) /\ InStore(b.deltas[1])
        BY <1>1, <1>3, TakenIsPlaced DEF CleanInv, SentOrder
      <3> QED
        BY <1>10, <3>1
    <2> QED
      BY <2>1, <2>2 DEF SentOrder
  <1>13. ASSUME NEW b \in Takers', b.step = "history" PROVE (Asked1(b) /\ Asked2(b) /\ Asked3(b))'
    <2>1. b \in Takers /\ Asked1(b) /\ Asked2(b) /\ Asked3(b)
      BY <1>3, <1>13 DEF CleanInv, HistoryOrder
    <2> DEFINE e == b.deltas[1]
    <2>2. InStore(e) /\ Pos(e) \in Nat /\ Pos(e) < Len(stored)
      BY <1>1, <2>1, TakenIsPlaced, Placed
    <2>3. Asked1(b)'
      <3>1. \A i \in Queries' : \E k \in Queries : Up[k] = Up'[i]
        BY <1>1 DEF CalmWire, Thin, Exchanged, Queries, Matters, Up
      <3> QED
        BY <2>1, <3>1 DEF Asked1, Pos
    <2>4. Asked2(b)'
      <3> SUFFICES ASSUME NEW k \in Repliers', k.request.key = Key(b)
                   PROVE  /\ k.request.start = copy.version /\ k.request.end = Pos(e)
                          /\ \A v \in Hopeful' : After(v, e) \/ InTurn(v, k)'
        BY DEF Asked2, After, Pos
      <3>1. /\ k \in Repliers /\ k.request.start = copy.version /\ k.request.end = Pos(e)
            /\ \A u \in Hopeful : After(u, e) \/ InTurn(u, k)
        BY <1>3, <2>1 DEF Asked2
      <3>2. ASSUME NEW v \in Hopeful', ~After(v, e) PROVE InTurn(v, k)'
        <4>1. PICK u \in Hopeful : /\ u.deltas = v.deltas /\ Key(u) = Key(v)
                                   /\ Going(u) => Going(v)'
                                   /\ After(u, e) => After(v, e)
          BY <1>9, <2>2, <3>2
        <4>2. InTurn(u, k)
          BY <3>1, <3>2, <4>1
        <4> QED
          BY <1>3, <3>1, <4>1, <4>2 DEF InTurn, CommitFacts, TurnsKept
      <3> QED
        BY <3>1, <3>2
    <2>5. Asked3(b)'
      <3> SUFFICES ASSUME NEW i \in Histories', (Down[i].key = Key(b))'
                   PROVE  /\ Down'[i].deltas = SubSeq(stored', copy.version + 1, Pos(e))
                          /\ \A j \in Reaches' : i < j => After(Down'[j], e)
                          /\ \A v \in Hopeful' : After(v, e)
        BY DEF Asked3, After, Pos, Key
      <3>1. PICK f \in [Exchanged(Down') -> DOMAIN Down] :
               /\ \A j \in Exchanged(Down') : Down[f[j]] = Down'[j]
               /\ \A j, l \in Exchanged(Down') : j < l => f[j] < f[l]
        BY <1>1 DEF CalmWire, Thin, Down
      <3>2. i \in Exchanged(Down') /\ f[i] \in Histories /\ Down[f[i]].key = Key(b)
        BY <3>1 DEF Histories, Exchanged, Matters
      <3>3. /\ Down[f[i]].deltas = SubSeq(stored, copy.version + 1, Pos(e))
            /\ \A j \in Reaches : f[i] < j => After(Down[j], e)
            /\ \A u \in Hopeful : After(u, e)
        BY <2>1, <3>2 DEF Asked3
      <3>4. SubSeq(stored', copy.version + 1, Pos(e)) = SubSeq(stored, copy.version + 1, Pos(e))
        <4>1. copy.version + 1 \in Nat /\ copy.version + 1 > 0 /\ Pos(e) <= Len(stored)
          BY <1>2, <1>7, <2>2
        <4> QED
          BY <1>1, <2>2, <4>1, PartOfAppend DEF HostHistory, Commits
      <3>5. ASSUME NEW j \in Reaches', i < j PROVE After(Down'[j], e)
        <4>1. j \in Exchanged(Down') /\ f[j] \in Reaches /\ f[i] < f[j]
          BY <3>1, <3>2, <3>5 DEF Reaches, Updates, Exchanged, Matters
        <4> QED
          BY <3>1, <3>3, <4>1 DEF After
      <3>6. \A v \in Hopeful' : After(v, e)
        BY <1>9, <2>2, <3>3
      <3> QED
        BY <3>1, <3>2, <3>3, <3>4, <3>5, <3>6
    <2> QED
      BY <2>3, <2>4, <2>5
  <1>14. HistoryOrder'
    BY <1>13 DEF HistoryOrder
  <1> QED
    BY <1>2, <1>4, <1>6, <1>8, <1>11, <1>12, <1>14 DEF CleanInv, CommitFacts

LEMMA CommitCalm ==
    ASSUME AnswerInv, AnswerInv', CleanInv, Clean', NEW d, NEW b, b \notin actors \/ ~Concerns(b),
           Commit(d, actors \ {b}), d.ops = 1, d.id \notin CommittedIds,
           UNCHANGED <<copy, updates>>, \A s \in Servers : CalmWire(s)
    PROVE  CleanInv'
  <1>1. d.base = HashedVersion(wavelet)
    BY DEF Commit, Clean
  <1>2. Commits(d)
    BY <1>1 DEF Commit, Commits
  <1>3. CommitFacts(d)
    <2>1. CASE SubscribersAfter(d) = 0
      BY <2>1, CommitAlone DEF Commit
    <2>2. CASE SubscribersAfter(d) # 0
      BY <2>2, CommitPosts DEF Commit
    <2> QED
      BY <2>1, <2>2
  <1> QED
    BY <1>2, <1>3, CommitKeepsOrder

\* The numbers of the deltas there are.
LEMMA CommittedNumbers ==
    ASSUME AnswerInv, NEW i, i \in CommittedIds
    PROVE  \E j \in 1..Len(stored) : stored[j].id = i /\ stored[j] \in Deltas
  <1>1. DOMAIN stored = 1..Len(stored)
    BY SequenceDomain DEF AnswerInv, AnswersHonest
  <1> QED
    BY <1>1 DEF CommittedIds, Deltas

\* A client of the host submits.
LEMMA HostCommits ==
    ASSUME AnswerInv, AnswerInv', CleanInv, Clean', Numbered, HostClientNext
    PROVE  CleanInv'
  <1>1. PICK base, adds, removes : HostClientSubmits(base, adds, removes)
    BY DEF HostClientNext
  <1> DEFINE d == Delta(base, adds, removes)
  <1>2. /\ Commit(d, actors) /\ wire' = wire /\ UNCHANGED <<copy, updates>>
        /\ d.id = made + 1 /\ d.ops = 1
    BY <1>1 DEF HostClientSubmits, copyVars, Delta
  <1> HIDE DEF d
  <1>3. d.id \notin CommittedIds
    BY <1>2, CommittedNumbers DEF Numbered
  <1>4. PICK b : b \notin actors /\ actors \ {b} = actors
    <2>1. {x \in actors : x \notin x} \notin actors
      OBVIOUS
    <2> QED
      BY <2>1
  <1>5. Commit(d, actors \ {b})
    BY <1>2, <1>4
  <1> QED
    BY <1>2, <1>3, <1>4, <1>5, SameWires, CommitCalm

\* A delta submitted at the copy is committed.
LEMMA SubmitIsCommitted ==
    ASSUME AnswerInv, AnswerInv', CleanInv, Clean', Numbered, NEW a \in actors, SubmitCommits(a),
           CheckHashedVersion(wavelet, a.deltas[1].base)
    PROVE  CleanInv'
  <1>0. PICK d, told : d = a.deltas[1] /\ told = [ok |-> TRUE, version |-> wavelet.version + 1,
                                                  hash |-> Append(wavelet.hash, d.id)]
    OBVIOUS
  <1>1. /\ Commit(d, actors \ {a}) /\ UNCHANGED <<copy, updates>> /\ a.step \in {"commit", "late"}
        /\ wire' = wire \/ Send("host", [Result(a) EXCEPT !.told = told])
    BY <1>0 DEF SubmitCommits, copyVars
  <1>2. /\ a.kind = "SubmitResponse" /\ HonestActor(a) /\ "host" \in Servers
        /\ a.kind \notin Exchange
    BY <1>1, ActorTyped DEF IsActor, Takes, AnswerInv, AnswersHonest, LinkInv, Servers, Exchange
  <1>3. a.request.kind # "history" /\ ~Concerns(a)
    BY <1>1, <1>2 DEF CleanInv, Traffic, Concerns
  <1>4. d \in Deltas
    BY <1>0, <1>2 DEF Deltas, Submitted
  <1>5. d.base = HashedVersion(wavelet)
    BY <1>1 DEF Commit, Clean
  <1>6. d.id \notin CommittedIds
    <2>1. ASSUME d.id \in CommittedIds PROVE FALSE
      <3>1. PICK j \in 1..Len(stored) : stored[j].id = d.id /\ stored[j] \in Deltas
        BY <2>1, CommittedNumbers
      <3>2. stored[j] = d
        BY <1>4, <3>1 DEF Numbered
      <3>3. d.base.version = j - 1 /\ wavelet.version = Len(stored)
        <4>1. stored[j].base = [version |-> j - 1, hash |-> SubSeq(wavelet.hash, 1, j - 1)]
          BY <3>1 DEF CleanInv, HostHistory
        <4>2. d.base.version = j - 1
          BY <3>2, <4>1
        <4> QED
          BY <4>2 DEF CleanInv, HostHistory
      <3>4. d.base.version = wavelet.version
        BY <1>5 DEF HashedVersion
      <3>5. Len(stored) \in Nat
        BY SequenceDomain DEF CleanInv, HostHistory
      <3> QED
        BY <3>1, <3>3, <3>4, <3>5
    <2> QED
      BY <2>1
  <1>7. ~Matters([Result(a) EXCEPT !.told = told])
    BY <1>2, <1>3, CalmStanzas
  <1>8. \A s \in Servers : CalmWire(s)
    BY <1>1, <1>2, <1>7, SameWires, SentIsCalm
  <1>9. d.ops = 1
    BY <1>4 DEF Numbered
  <1> QED
    BY <1>1, <1>3, <1>6, <1>8, <1>9, CommitCalm

-----------------------------------------------------------------------------
(* The numbers of the deltas that are made.                                 *)

ActorsIn(S, D) ==
    \A a \in S : a.kind \in {"SubmitRequest", "SubmitResponse"} => a.deltas[1] \in D

StanzaIn(m, D) == IsSubmit(m) => m.deltas[1] \in D

WiresIn(w, D) ==
    /\ w = [s \in Servers |-> w[s]]
    /\ \A s \in Servers : \E S : w[s] \in Seq(S) /\ \A m \in S : StanzaIn(m, D)

LEMMA DeltasNow ==
    ASSUME AnswerInv
    PROVE  /\ ActorsIn(actors, Deltas) /\ WiresIn(wire, Deltas)
           /\ \A i \in 1..Len(stored) : stored[i] \in Deltas
  <1>1. ASSUME NEW s \in Servers PROVE \E S : wire[s] \in Seq(S) /\ \A m \in S : StanzaIn(m, Deltas)
    <2>1. wire[s] \in Seq(ToSet(wire[s]))
      BY WiresTyped DEF IsSequence
    <2>2. \A m \in ToSet(wire[s]) : m \in Stanzas("host") \cup Stanzas("copy")
      BY DEF ToSet, Stanzas, Servers
    <2>3. \A m \in ToSet(wire[s]) : StanzaIn(m, Deltas)
      BY <2>2 DEF StanzaIn, Deltas, Submitted
    <2> QED
      BY <2>1, <2>3
  <1>2. wire = [s \in Servers |-> wire[s]]
    BY WiresTyped
  <1> QED
    BY <1>1, <1>2 DEF ActorsIn, WiresIn, Deltas, Submitted

LEMMA DeltasNext ==
    ASSUME NEW D, ActorsIn(actors', D), WiresIn(wire', D),
           \A i \in 1..Len(stored') : stored'[i] \in D
    PROVE  Deltas' \subseteq D
  <1>1. ASSUME NEW s \in Servers, NEW m \in Stanzas(s)', IsSubmit(m) PROVE m.deltas[1] \in D
    <2>1. PICK S : wire'[s] \in Seq(S) /\ \A x \in S : StanzaIn(x, D)
      BY DEF WiresIn
    <2>2. m \in S
      BY <2>1 DEF Stanzas
    <2> QED
      BY <1>1, <2>1, <2>2 DEF StanzaIn
  <1>2. Submitted' \subseteq D
    BY <1>1 DEF Submitted, ActorsIn, Servers
  <1> QED
    BY <1>2 DEF Deltas

LEMMA NumbersKept ==
    ASSUME Numbered, made' = made, Deltas' \subseteq Deltas
    PROVE  Numbered'
  BY DEF Numbered

LEMMA NumbersMore ==
    ASSUME Numbered, NEW d, made' = made + 1, d.id = made + 1, d.ops = 1,
           Deltas' \subseteq Deltas \cup {d}
    PROVE  Numbered'
  <1>1. made' \in Nat
    BY DEF Numbered
  <1>2. \A e \in Deltas' : e.id \in 1..made' /\ e.ops = 1
    BY DEF Numbered
  <1>3. \A e \in Deltas : e.id # d.id
    BY DEF Numbered
  <1>4. \A e, f \in Deltas' : e.id = f.id => e = f
    BY <1>3 DEF Numbered
  <1> QED
    BY <1>1, <1>2, <1>4 DEF Numbered

LEMMA WiresPut ==
    ASSUME NEW w, NEW D, WiresIn(w, D), NEW s \in Servers, NEW m, StanzaIn(m, D)
    PROVE  WiresIn([w EXCEPT ![s] = Append(@, m)], D) /\ WiresIn(Sent(s, w, m), D)
  <1>1. PICK S : w[s] \in Seq(S) /\ \A x \in S : StanzaIn(x, D)
    BY DEF WiresIn
  <1>2. Append(w[s], m) \in Seq(S \cup {m})
    <2>1. w[s] \in Seq(S \cup {m})
      BY <1>1
    <2> QED
      BY <2>1
  <1>3. \E T : Append(w[s], m) \in Seq(T) /\ \A x \in T : StanzaIn(x, D)
    BY <1>1, <1>2
  <1>4. WiresIn([w EXCEPT ![s] = Append(@, m)], D)
    BY <1>3 DEF WiresIn
  <1> QED
    BY <1>4 DEF Sent

LEMMA WiresTail ==
    ASSUME NEW D, WiresIn(wire, D), NEW s \in Servers, wire[s] # <<>>
    PROVE  WiresIn([wire EXCEPT ![s] = Tail(@)], D) /\ StanzaIn(Head(wire[s]), D)
  <1>1. PICK S : wire[s] \in Seq(S) /\ \A x \in S : StanzaIn(x, D)
    BY DEF WiresIn
  <1>2. Tail(wire[s]) \in Seq(S) /\ Head(wire[s]) \in S
    BY <1>1
  <1>3. \E T : Tail(wire[s]) \in Seq(T) /\ \A x \in T : StanzaIn(x, D)
    BY <1>1, <1>2
  <1> QED
    BY <1>1, <1>2, <1>3 DEF WiresIn

LEMMA WiresRest ==
    ASSUME NEW D, WiresIn(wire, D), NEW t \in Servers, CanRead(t)
    PROVE  WiresIn(Rest(t), D) /\ StanzaIn(Incoming(t), D)
  BY PeerIsServer, WiresTail DEF CanRead, Rest, Incoming

\* Whatever else an actor sends is no submit.
LEMMA NoSubmits ==
    ASSUME NEW a, HonestActor(a)
    PROVE  /\ Result(a).reply = "result"
           /\ \A n : [Result(a) EXCEPT !.from = n].reply = "result"
           /\ \A q : [Result(a) EXCEPT !.deltas = q].reply = "result"
           /\ \A told : [Result(a) EXCEPT !.told = told].reply = "result"
  BY DEF Result, HonestActor, Honest

LEMMA Requests ==
    ASSUME NEW a, NEW kind
    PROVE  /\ Request(kind, a).kind = kind /\ Request(kind, a).deltas = a.deltas
           /\ [Request(kind, a) EXCEPT !.to = "component"].kind = kind
           /\ \A i, j : [Request(kind, a) EXCEPT !.deltas = <<>>, !.start = i, !.end = j].kind = kind
  BY DEF Request, NoStanza

LEMMA NumbersStay ==
    ASSUME AnswerInv, Numbered, made' = made, stored' = stored, WiresIn(wire', Deltas),
           \/ actors' \subseteq actors
           \/ \E a \in actors : \E step : Become(a, [a EXCEPT !.step = step])
    PROVE  Numbered'
  <1>1. ActorsIn(actors', Deltas)
    <2>1. CASE actors' \subseteq actors
      BY <2>1, DeltasNow DEF ActorsIn
    <2>2. ASSUME NEW a \in actors, NEW step, Become(a, [a EXCEPT !.step = step])
          PROVE  ActorsIn(actors', Deltas)
      <3>1. [a EXCEPT !.step = step].kind = a.kind /\ [a EXCEPT !.step = step].deltas = a.deltas
        BY DEF AnswerInv, AnswersHonest, HonestActor
      <3> HIDE DEF ActorsIn
      <3> QED
        BY <2>2, <3>1, DeltasNow DEF ActorsIn, Become
    <2> QED
      BY <2>1, <2>2
  <1> QED
    BY <1>1, DeltasNow, DeltasNext, NumbersKept

LEMMA ActsNumbered ==
    ASSUME AnswerInv, Numbered, NEW a \in actors,
           \/ Waits(a) \/ DiscoStarts(a) \/ DiscoAnswers(a)
           \/ UpdateSent(a) \/ UpdateAnswers(a) \/ HistoryAsks(a) \/ HistoryAnswers(a)
           \/ SubmitSends(a) \/ SignerAnswers(a) \/ SubmitGoesOn(a)
           \/ SubmitRefused(a) \/ TimesOut(a) \/ CommitTimesOut(a)
    PROVE  Numbered'
  <1>1. made' = made /\ stored' = stored
    BY DEF Waits, DiscoStarts, DiscoAnswers, UpdateSent, UpdateAnswers, HistoryAsks,
           HistoryAnswers, SubmitSends, SignerAnswers, SubmitGoesOn, SubmitRefused, TimesOut,
           CommitTimesOut, hostVars, countVars
  <1>2. actors' \subseteq actors \/ \E step : Become(a, [a EXCEPT !.step = step])
    BY DEF Waits, DiscoStarts, DiscoAnswers, UpdateSent, UpdateAnswers, HistoryAsks,
           HistoryAnswers, SubmitSends, SignerAnswers, SubmitGoesOn, SubmitRefused, TimesOut,
           CommitTimesOut, Terminates, End
  <1>3. /\ HonestActor(a) /\ a.at \in Servers /\ {"copy", "host"} \subseteq Servers
        /\ WiresIn(wire, Deltas)
        /\ a.kind = "SubmitRequest" => a.deltas[1] \in Deltas
    BY ActorTyped, DeltasNow DEF AnswerInv, AnswersHonest, Servers, ActorsIn
  <1>4. WiresIn(wire', Deltas)
    <2>1. CASE wire' = wire
      BY <1>3, <2>1
    <2>2. ASSUME NEW m, NEW s \in Servers, Send(s, m),
                 m.reply = "result" \/ m.kind # "submit" \/ m.deltas[1] \in Deltas
          PROVE  WiresIn(wire', Deltas)
      <3>1. StanzaIn(m, Deltas)
        BY <2>2 DEF StanzaIn, IsSubmit
      <3> QED
        BY <1>3, <2>2, <3>1, WiresPut DEF Send
    <2>3. ASSUME NEW kind, Send(a.at, Request(kind, a)), kind = "submit" => a.kind = "SubmitRequest"
          PROVE  WiresIn(wire', Deltas)
      <3>1. PICK m : m = Request(kind, a)
        OBVIOUS
      <3>2. m.kind # "submit" \/ m.deltas[1] \in Deltas
        BY <1>3, <2>3, <3>1, Requests
      <3> QED
        BY <1>3, <2>2, <2>3, <3>1, <3>2
    <2>4. CASE DiscoAnswers(a)
      <3>1. PICK n : Send(a.at, [Result(a) EXCEPT !.from = n])
        BY <2>4 DEF DiscoAnswers
      <3>2. PICK m : m = [Result(a) EXCEPT !.from = n]
        OBVIOUS
      <3>3. m.reply = "result" /\ Send(a.at, m)
        BY <1>3, <3>1, <3>2, NoSubmits
      <3> QED
        BY <1>3, <2>2, <3>3
    <2>5. CASE HistoryAnswers(a)
      <3>1. PICK q : Send("host", [Result(a) EXCEPT !.deltas = q])
        BY <2>5 DEF HistoryAnswers
      <3>2. PICK m : m = [Result(a) EXCEPT !.deltas = q]
        OBVIOUS
      <3>3. m.reply = "result" /\ Send("host", m)
        BY <1>3, <3>1, <3>2, NoSubmits
      <3> QED
        BY <1>3, <2>2, <3>3
    <2>6. CASE SignerAnswers(a)
      <3>1. PICK m : m = Result(a)
        OBVIOUS
      <3>2. m.reply = "result" /\ Send(a.at, m)
        BY <1>3, <2>6, <3>1, NoSubmits DEF SignerAnswers
      <3> QED
        BY <1>3, <2>2, <3>2
    <2>7. CASE UpdateAnswers(a)
      <3> DEFINE m == Result(a)
                 n == [Request("history", a) EXCEPT !.deltas = <<>>,
                            !.start = VersionRead, !.end = a.deltas[1].base.version]
      <3>1. m.reply = "result" /\ n.kind = "history"
        BY <1>3, NoSubmits, Requests
      <3>2. wire' = Sent("copy", wire, m) \/ wire' = Sent("copy", Sent("copy", wire, m), n)
        BY <2>7 DEF UpdateAnswers
      <3> HIDE DEF m, n
      <3>3. StanzaIn(m, Deltas) /\ StanzaIn(n, Deltas)
        BY <3>1 DEF StanzaIn, IsSubmit
      <3>4. WiresIn(Sent("copy", wire, m), Deltas)
        BY <1>3, <3>3, WiresPut
      <3> QED
        BY <1>3, <3>2, <3>3, <3>4, WiresPut
    <2>8. CASE SubmitSends(a)
      BY <2>3, <2>8 DEF SubmitSends, Goes
    <2>9. CASE DiscoStarts(a)
      BY <2>1, <2>3, <2>9 DEF DiscoStarts
    <2>10. CASE UpdateSent(a)
      BY <2>3, <2>10 DEF UpdateSent
    <2> QED
      BY <2>1, <2>4, <2>5, <2>6, <2>7, <2>8, <2>9, <2>10
         DEF Waits, HistoryAsks, SubmitGoesOn, SubmitRefused, TimesOut, CommitTimesOut
  <1> QED
    BY <1>1, <1>2, <1>4, NumbersStay

LEMMA ReadsNumbered ==
    ASSUME AnswerInv, Numbered, NEW t \in Servers, NEW a \in actors,
           \/ DiscoGetsItems(t, a) \/ DiscoGetsInfo(t, a) \/ UpdateReceipted(t, a)
           \/ ErrorArrives(t, a)
           \/ t = "copy" /\ (HistoryArrives(a) \/ SignerAccepted(a) \/ SubmitAnswered(a))
    PROVE  Numbered'
  <1>1. /\ CanRead(t) /\ made' = made /\ stored' = stored
        /\ \/ actors' \subseteq actors
           \/ \E step : Become(a, [a EXCEPT !.step = step])
    BY DEF DiscoGetsItems, DiscoGetsInfo, UpdateReceipted, ErrorArrives, HistoryArrives,
           SignerAccepted, SubmitAnswered, Terminates, Answers, End, hostVars, countVars
  <1>2. /\ WiresIn(Rest(t), Deltas) /\ HonestActor(a)
        /\ a.kind = "SubmitRequest" => a.deltas[1] \in Deltas
    BY <1>1, DeltasNow, WiresRest DEF AnswerInv, AnswersHonest, ActorsIn
  <1>3. WiresIn(wire', Deltas)
    <2>1. CASE wire' = Rest(t)
      BY <1>2, <2>1
    <2>2. CASE DiscoGetsItems(t, a)
      <3>1. PICK m : m = [Request("info", a) EXCEPT !.to = "component"]
        OBVIOUS
      <3>2. m.kind = "info" /\ wire' = Sent(t, Rest(t), m)
        BY <2>2, <3>1, Requests DEF DiscoGetsItems
      <3>3. StanzaIn(m, Deltas)
        BY <3>2 DEF StanzaIn, IsSubmit
      <3> QED
        BY <1>2, <3>2, <3>3, WiresPut
    <2>3. CASE t = "copy" /\ SignerAccepted(a)
      <3>1. a.kind = "SubmitRequest"
        BY <2>3, ActorTyped DEF SignerAccepted, Answers, IsFor, IsActor, Takes, AnswerInv
      <3>2. StanzaIn(Request("submit", a), Deltas)
        BY <1>2, <3>1, Requests DEF StanzaIn
      <3> QED
        BY <1>2, <2>3, <3>2, WiresPut DEF SignerAccepted
    <2> QED
      BY <2>1, <2>2, <2>3 DEF DiscoGetsInfo, UpdateReceipted, ErrorArrives, HistoryArrives,
                              SubmitAnswered
  <1> QED
    BY <1>1, <1>3, NumbersStay

LEMMA RequestNumbered ==
    ASSUME AnswerInv, Numbered, NEW t \in Servers, RequestArrives(t) \/ ReplyIgnored(t)
    PROVE  Numbered'
  <1>1. /\ CanRead(t) /\ wire' = Rest(t) /\ made' = made /\ stored' = stored
    BY DEF RequestArrives, ReplyIgnored, hostVars, countVars
  <1>2. WiresIn(wire', Deltas) /\ StanzaIn(Incoming(t), Deltas)
    BY <1>1, DeltasNow, WiresRest
  <1>3. ActorsIn(actors', Deltas)
    <2>1. CASE actors' = actors
      BY <2>1, DeltasNow
    <2>2. CASE RequestArrives(t) /\ actors' # actors
      <3>1. PICK m, a : /\ m = Incoming(t)
                        /\ a = [NewActor(Responder[m.kind], t, Handler(t), m.key[3], m.deltas)
                                   EXCEPT !.request = m]
        OBVIOUS
      <3>2. /\ actors' = actors \cup {a} /\ m.reply = "none"
            /\ a.kind = Responder[m.kind] /\ a.deltas = m.deltas
        BY <2>2, <3>1 DEF RequestArrives, Create, NewActor
      <3>3. m.kind \in Asked
        BY <1>1, <3>1, <3>2, IncomingOnWire DEF AnswerInv, LinkInv, OnWire
      <3>4. a.kind # "SubmitRequest" /\ (a.kind = "SubmitResponse" => IsSubmit(m))
        BY <3>2, <3>3 DEF Responder, Asked, IsSubmit
      <3>5. IsSubmit(m) => m.deltas[1] \in Deltas
        BY <1>2, <3>1 DEF StanzaIn
      <3> QED
        BY <3>2, <3>4, <3>5, DeltasNow DEF ActorsIn
    <2> QED
      BY <2>1, <2>2 DEF ReplyIgnored
  <1> QED
    BY <1>1, <1>2, <1>3, DeltasNow, DeltasNext, NumbersKept

LEMMA ServerNumbered ==
    ASSUME AnswerInv, Numbered, NEW s \in Servers, ServerAnswers(s)
    PROVE  Numbered'
  <1> DEFINE m == Head(wire[s])
             rest == [wire EXCEPT ![s] = Tail(@)]
  <1>1. /\ wire[s] # <<>> /\ UNCHANGED <<actors, stored, made>>
        /\ wire' = rest \/ wire' = [rest EXCEPT ![Peer(s)] = Append(@, Bounced(m))]
    BY DEF ServerAnswers, hostVars, countVars
  <1>2. WiresIn(rest, Deltas)
    BY <1>1, DeltasNow, WiresTail
  <1>3. StanzaIn(Bounced(m), Deltas)
    <2>1. Honest(m, CommittedIds)
      BY <1>1, HonestRest DEF AnswerInv, AnswersHonest
    <2> HIDE DEF m
    <2>2. Bounced(m).reply # "none"
      BY <2>1 DEF Bounced, Honest
    <2> QED
      BY <2>2 DEF StanzaIn, IsSubmit
  <1> HIDE DEF m, rest
  <1>4. WiresIn(wire', Deltas)
    BY <1>1, <1>2, <1>3, WiresPut, PeerIsServer
  <1> QED
    BY <1>1, <1>4, NumbersStay

\* A delta of a number that no other has is made, or one there is is committed.
LEMMA CommitNumbers ==
    ASSUME AnswerInv, NEW d, NEW set, set \subseteq actors, Commit(d, set)
    PROVE  /\ ActorsIn(actors', Deltas)
           /\ \A i \in 1..Len(stored') : stored'[i] \in Deltas \cup {d}
  <1>1. ActorsIn(actors', Deltas)
    <2>1. CASE actors' = set
      BY <2>1, DeltasNow DEF ActorsIn
    <2>2. CASE Posts("host", "WaveletUpdate", d, set)
      <3>1. PostsMore("host", "WaveletUpdate", d, set)
        <4>1. LinkInv /\ "host" \in Servers /\ "WaveletUpdate" # "Disco"
          BY DEF AnswerInv, Servers
        <4> QED
          BY <2>2, <4>1, Posted
      <3>2. \A a \in actors' : a \in set \/ a.kind \in {"Disco", "WaveletUpdate"}
        BY <3>1 DEF PostsMore
      <3> QED
        BY <3>2, DeltasNow DEF ActorsIn
    <2> QED
      BY <2>1, <2>2 DEF Commit
  <1>2. IsSequence(stored) /\ stored' = Append(stored, d)
    BY DEF AnswerInv, AnswersHonest, Commit
  <1>3. /\ Len(stored') = Len(stored) + 1 /\ Len(stored) \in Nat
        /\ \A i \in 1..Len(stored) : stored'[i] = stored[i]
        /\ stored'[Len(stored) + 1] = d
    BY <1>2, Appended
  <1>4. ASSUME NEW i \in 1..Len(stored') PROVE stored'[i] \in Deltas \cup {d}
    <2>1. i \in 1..Len(stored) \/ i = Len(stored) + 1
      BY <1>3
    <2> QED
      BY <1>3, <2>1, DeltasNow
  <1> QED
    BY <1>1, <1>4

LEMMA InMore ==
    ASSUME NEW D, NEW E, D \subseteq E
    PROVE  /\ \A S : ActorsIn(S, D) => ActorsIn(S, E)
           /\ \A w : WiresIn(w, D) => WiresIn(w, E)
  BY DEF ActorsIn, WiresIn, StanzaIn

LEMMA ClientsNumbered ==
    ASSUME AnswerInv, Numbered, HostClientNext \/ CopyClientSubmits
    PROVE  Numbered'
  <1>1. CASE HostClientNext
    <2>1. PICK base, adds, removes : HostClientSubmits(base, adds, removes)
      BY <1>1 DEF HostClientNext
    <2>2. PICK d : d = Delta(base, adds, removes)
      OBVIOUS
    <2>3. /\ Commit(d, actors) /\ wire' = wire /\ made' = made + 1 /\ d.id = made + 1 /\ d.ops = 1
      BY <2>1, <2>2 DEF HostClientSubmits, Delta
    <2>4. /\ ActorsIn(actors', Deltas \cup {d}) /\ WiresIn(wire', Deltas \cup {d})
          /\ \A i \in 1..Len(stored') : stored'[i] \in Deltas \cup {d}
      <3>1. Deltas \subseteq Deltas \cup {d} /\ actors \subseteq actors
        OBVIOUS
      <3> QED
        BY <2>3, <3>1, CommitNumbers, DeltasNow, InMore
    <2> QED
      BY <2>3, <2>4, DeltasNext, NumbersMore
  <1>2. CASE CopyClientSubmits
    <2>1. PICK d : d = Delta(HashedVersion(copy), Nobody, Nobody)
      OBVIOUS
    <2>2. /\ Posts("copy", "SubmitRequest", d, actors) /\ UNCHANGED <<wire, stored>>
          /\ made' = made + 1 /\ d.id = made + 1 /\ d.ops = 1
      BY <1>2, <2>1 DEF CopyClientSubmits, hostVars, Delta
    <2>3. PostsMore("copy", "SubmitRequest", d, actors)
      <3>1. LinkInv /\ "copy" \in Servers /\ "SubmitRequest" # "Disco" /\ actors \subseteq actors
        BY DEF AnswerInv, Servers
      <3> QED
        BY <2>2, <3>1, Posted
    <2>4. \A a \in actors' : a \in actors \/ a.kind = "Disco" \/ a.deltas = <<d>>
      BY <2>3 DEF PostsMore
    <2>5. ActorsIn(actors', Deltas \cup {d})
      BY <2>4, DeltasNow DEF ActorsIn
    <2>6. /\ WiresIn(wire', Deltas \cup {d})
          /\ \A i \in 1..Len(stored') : stored'[i] \in Deltas \cup {d}
      <3>1. Deltas \subseteq Deltas \cup {d}
        OBVIOUS
      <3> QED
        BY <2>2, <3>1, DeltasNow, InMore
    <2> QED
      BY <2>2, <2>5, <2>6, DeltasNext, NumbersMore
  <1> QED
    BY <1>1, <1>2

LEMMA SubmitNumbered ==
    ASSUME AnswerInv, Numbered, NEW a \in actors, SubmitCommits(a)
    PROVE  Numbered'
  <1>1. PICK d, told :
           /\ d = a.deltas[1] /\ made' = made
           /\ Commit(d, actors \ {a}) \/ (End(a) /\ stored' = stored)
           /\ wire' = wire \/ Send("host", [Result(a) EXCEPT !.told = told])
    BY DEF SubmitCommits, hostVars, countVars
  <1>2. a.kind = "SubmitResponse" /\ HonestActor(a) /\ "host" \in Servers
    BY ActorTyped DEF SubmitCommits, IsActor, Takes, AnswerInv, AnswersHonest, Servers
  <1>3. d \in Deltas
    BY <1>1, <1>2, DeltasNow DEF ActorsIn
  <1>4. WiresIn(wire', Deltas)
    <2>1. PICK m : m = [Result(a) EXCEPT !.told = told]
      OBVIOUS
    <2>2. m.reply = "result" /\ (wire' = wire \/ Send("host", m))
      BY <1>1, <1>2, <2>1, NoSubmits
    <2>3. StanzaIn(m, Deltas)
      BY <2>2 DEF StanzaIn, IsSubmit
    <2>4. WiresIn(wire, Deltas)
      BY DeltasNow
    <2>5. WiresIn(Sent("host", wire, m), Deltas)
      BY <1>2, <2>3, <2>4, WiresPut
    <2> QED
      BY <2>2, <2>4, <2>5 DEF Send
  <1>5. CASE Commit(d, actors \ {a})
    <2>1. /\ ActorsIn(actors', Deltas)
          /\ \A i \in 1..Len(stored') : stored'[i] \in Deltas \cup {d}
      BY <1>5, CommitNumbers
    <2> QED
      BY <1>1, <1>3, <1>4, <2>1, DeltasNext, NumbersKept
  <1>6. CASE End(a) /\ stored' = stored
    BY <1>1, <1>4, <1>6, NumbersStay DEF End
  <1> QED
    BY <1>1, <1>5, <1>6

LEMMA NumberedStep == AnswerInv /\ Numbered /\ [FedNext]_fedVars => Numbered'
  <1> SUFFICES ASSUME AnswerInv, Numbered, [FedNext]_fedVars PROVE Numbered'
    OBVIOUS
  <1>1. ASSUME UNCHANGED <<wire, stored, made>>, actors' \subseteq actors PROVE Numbered'
    BY <1>1, DeltasNow, NumbersStay
  <1>2. ASSUME NEW s \in Servers, ComponentNext(s) \/ ComponentBreaks(s) PROVE Numbered'
    BY <1>1, <1>2 DEF ComponentNext, ComponentBreaks, ComponentConnects, ComponentReads,
          ComponentFails, ComponentStops, hostVars, countVars
  <1>3. ASSUME NEW t \in Servers, ReadNext(t) PROVE Numbered'
    BY <1>3, RequestNumbered, ReadsNumbered DEF ReadNext
  <1>4. ASSUME NEW s \in Servers, ServerAnswers(s) PROVE Numbered'
    BY <1>4, ServerNumbered
  <1>5. CASE CopyReads
    BY <1>5, ReadsNumbered DEF CopyReads, Servers
  <1>6. CASE ActorNext
    BY <1>6, ActsNumbered, SubmitNumbered DEF ActorNext
  <1>7. CASE ActorFails
    BY <1>7, ActsNumbered DEF ActorFails
  <1>8. CASE CopyLoads \/ CopyUpdates
    BY <1>1, <1>8 DEF CopyLoads, CopyUpdates, hostVars, countVars
  <1>9. CASE HostRestarts \/ CopyRestarts
    BY <1>1, <1>9 DEF HostRestarts, CopyRestarts, Restarts
  <1>10. CASE HostClientNext \/ CopyClientSubmits
    BY <1>10, ClientsNumbered
  <1>11. CASE UNCHANGED fedVars
    BY <1>1, <1>11 DEF fedVars, hostVars, countVars
  <1> QED
    BY <1>2, <1>3, <1>4, <1>5, <1>6, <1>7, <1>8, <1>9, <1>10, <1>11 DEF FedNext

-----------------------------------------------------------------------------
LEMMA InitExchange == FedInit => ExchangeInv
  <1> SUFFICES ASSUME FedInit PROVE ExchangeInv
    OBVIOUS
  <1> USE DEF FedInit
  <1>1. AnswerInv
    BY InitLinks, InitAnswers DEF AnswerInv
  <1>2. /\ actors = {} /\ DOMAIN Down = {} /\ DOMAIN Up = {} /\ stored = <<>> /\ updates = <<>>
        /\ wavelet = NewWavelet /\ copy = NewWavelet /\ made = 0 /\ Len(stored) = 0
        /\ events = [s \in Servers |-> <<>>]
    BY DEF Down, Up, Servers
  <1>3. \A e : e = <<>> => IsSequence(e) /\ DOMAIN e = {} /\ Len(e) = 0
    BY EmptySeq DEF IsSequence
  <1>4. /\ IsSequence(NewWavelet.hash) /\ Len(NewWavelet.hash) = 0
        /\ NewWavelet.version = 0
    BY <1>3 DEF NewWavelet, UrlHash
  <1>5. Numbered
    <2>1. Submitted = {}
      BY <1>2 DEF Submitted, Stanzas, Down, Up
    <2>2. Deltas = {}
      BY <1>2, <2>1 DEF Deltas
    <2> QED
      BY <1>2, <2>2 DEF Numbered
  <1>6. Updates = {} /\ Histories = {} /\ Queries = {} /\ Reaches = {}
    BY <1>2 DEF Updates, Histories, Queries, Reaches
  <1>7. /\ \A k : OfKind(k) = {}
        /\ Unsent = {} /\ Takers = {} /\ Repliers = {} /\ Hopeful = {}
    BY <1>2 DEF OfKind, Unsent, Takers, Repliers, Hopeful
  <1>8. Traffic
    BY <1>2, <1>6, <1>7 DEF Traffic
  <1>9. HostHistory
    BY <1>2, <1>3, <1>4 DEF HostHistory
  <1>10. Once
    BY <1>2, <1>6, <1>7 DEF Once, UnsentIds, SentIds, TakenIds, FreshIds, QueryIds, ReplierIds,
                            HistoryIds
  <1>11. Queue
    <2>1. EventsTyped /\ \A s \in Servers : DOMAIN events[s] = {} /\ Keys(s) = {}
      BY <1>2, <1>3 DEF EventsTyped, Keys
    <2> QED
      BY <1>2, <2>1, FS_EmptySet DEF Queue
  <1>12. CopyFits
    BY <1>2, <1>3, <1>4 DEF CopyFits
  <1>13. Alone /\ Ahead /\ SentOrder /\ HistoryOrder
    BY <1>6, <1>7 DEF Alone, Ahead, SentOrder, HistoryOrder
  <1>14. CleanInv
    BY <1>8, <1>9, <1>10, <1>11, <1>12, <1>13 DEF CleanInv
  <1> QED
    BY <1>1, <1>5, <1>14 DEF ExchangeInv

\* What has happened is not forgotten.
LEMMA CleanBefore == [FedNext]_fedVars /\ Clean' => Clean
  <1> SUFFICES ASSUME [FedNext]_fedVars PROVE causes \subseteq causes'
    BY DEF Clean
  <1>1. ASSUME NEW d, NEW set, Commit(d, set) PROVE causes \subseteq causes'
    BY <1>1 DEF Commit
  <1>2. ASSUME NEW s \in Servers,
               ComponentNext(s) \/ ComponentBreaks(s) \/ ReadNext(s) \/ ServerAnswers(s)
        PROVE  causes \subseteq causes'
    BY <1>2 DEF ComponentNext, ComponentBreaks, ComponentConnects, ComponentReads,
          ComponentFails, ComponentStops, ReadNext, RequestArrives, ReplyIgnored, DiscoGetsItems,
          DiscoGetsInfo, UpdateReceipted, ErrorArrives, ServerAnswers, Terminates
  <1>3. CASE CopyReads
    BY <1>3 DEF CopyReads, HistoryArrives, SignerAccepted, SubmitAnswered
  <1>4. ASSUME NEW a \in actors, SubmitCommits(a) PROVE causes \subseteq causes'
    BY <1>1, <1>4 DEF SubmitCommits
  <1>5. CASE ActorNext
    BY <1>4, <1>5 DEF ActorNext, Waits, DiscoStarts, DiscoAnswers, UpdateSent, UpdateAnswers,
          HistoryAsks, HistoryAnswers, SubmitSends, SignerAnswers, SubmitGoesOn, SubmitRefused
  <1>6. CASE ActorFails
    BY <1>6 DEF ActorFails, TimesOut, CommitTimesOut, Terminates
  <1>7. CASE CopyLoads \/ CopyUpdates \/ HostRestarts \/ CopyRestarts \/ CopyClientSubmits
    BY <1>7 DEF CopyLoads, CopyUpdates, HostRestarts, CopyRestarts, CopyClientSubmits
  <1>8. CASE HostClientNext
    BY <1>1, <1>8 DEF HostClientNext, HostClientSubmits
  <1>9. CASE UNCHANGED fedVars
    BY <1>9 DEF fedVars
  <1> QED
    BY <1>2, <1>3, <1>5, <1>6, <1>7, <1>8, <1>9 DEF FedNext

LEMMA CleanStep ==
    AnswerInv /\ AnswerInv' /\ Numbered /\ CleanInv /\ Clean' /\ [FedNext]_fedVars => CleanInv'
  <1> SUFFICES ASSUME AnswerInv, AnswerInv', Numbered, CleanInv, Clean', [FedNext]_fedVars
               PROVE  CleanInv'
    OBVIOUS
  <1>1. ASSUME NEW s \in Servers, ComponentNext(s) \/ ComponentBreaks(s) \/ ServerAnswers(s)
        PROVE  CleanInv'
    BY <1>1, QuietSteps
  <1>2. ASSUME NEW t \in Servers, ReadNext(t) PROVE CleanInv'
    <2>1. CASE RequestArrives(t)
      <3>1. CASE Incoming(t).kind \notin {"update", "history"} \/ UNCHANGED <<actors, events>>
        BY <2>1, <3>1, QuietRequest
      <3>2. CASE Incoming(t).kind = "update" /\ ~UNCHANGED <<actors, events>>
        BY <2>1, <3>2, UpdateComes
      <3>3. CASE Incoming(t).kind = "history" /\ ~UNCHANGED <<actors, events>>
        BY <2>1, <3>3, HistoryComes
      <3> QED
        BY <3>1, <3>2, <3>3
    <2>2. CASE ReplyIgnored(t)
      BY <2>2, QuietSteps
    <2>3. ASSUME NEW a \in actors,
                 DiscoGetsItems(t, a) \/ UpdateReceipted(t, a) \/ ErrorArrives(t, a)
          PROVE  CleanInv'
      BY <2>3, CalmAnswers
    <2>4. ASSUME NEW a \in actors, DiscoGetsInfo(t, a) PROVE CleanInv'
      BY <2>4, InfoKeepsOrder
    <2> QED
      BY <1>2, <2>1, <2>2, <2>3, <2>4 DEF ReadNext
  <1>3. CASE CopyReads
    BY <1>3, HistoryFills, CalmAnswers DEF CopyReads, Servers
  <1>4. ASSUME NEW a \in actors, UpdateAnswers(a) PROVE CleanInv'
    BY <1>4, UpdateAsks, UpdateIsTaken
  <1>5. ASSUME NEW a \in actors, SubmitCommits(a) PROVE CleanInv'
    BY <1>5, SubmitIsCommitted, QuietRefusal
  <1>6. CASE ActorNext
    BY <1>4, <1>5, <1>6, CalmRuns, UpdateIsSent, HistoryIsSent DEF ActorNext
  <1>7. CASE ActorFails
    BY <1>7, CalmAnswers DEF ActorFails, Servers
  <1>8. CASE CopyUpdates
    BY <1>8, CopyGrows
  <1>9. CASE HostRestarts \/ CopyRestarts
    BY <1>9, QuietRestart
  <1>10. CASE HostClientNext
    BY <1>10, HostCommits
  <1>11. CASE CopyClientSubmits
    BY <1>11, QuietSubmit
  <1>12. CASE CopyLoads \/ UNCHANGED fedVars
    BY <1>12, QuietSteps DEF Servers
  <1> QED
    BY <1>1, <1>2, <1>3, <1>6, <1>7, <1>8, <1>9, <1>10, <1>11, <1>12 DEF FedNext

LEMMA ExchangeStep == ExchangeInv /\ [FedNext]_fedVars => ExchangeInv'
  BY AnswerStep, NumberedStep, CleanBefore, CleanStep DEF ExchangeInv

LEMMA CopyIsPrefixHolds == ExchangeInv => CopyIsPrefixUnless
  <1> SUFFICES ASSUME ExchangeInv, Clean PROVE IsPrefix(copy.hash, wavelet.hash)
    BY DEF CopyIsPrefixUnless, Clean
  <1> DEFINE S == ToSet(copy.hash) \cup ToSet(wavelet.hash)
  <1>1. HostHistory /\ CopyFits
    BY DEF ExchangeInv, CleanInv
  <1>2. copy.hash \in Seq(S) /\ wavelet.hash \in Seq(S)
    BY <1>1, SeqMonotonic DEF HostHistory, CopyFits, IsSequence
  <1>3. Len(copy.hash) \in Nat /\ Len(updates) \in Nat /\ Len(stored) \in Nat
    BY <1>1, SequenceDomain DEF HostHistory, CopyFits
  <1>4. copy.version = Len(copy.hash) /\ Len(wavelet.hash) = Len(stored)
    BY <1>1 DEF HostHistory, CopyFits
  <1>5. Len(copy.hash) <= Len(stored)
    BY <1>1, <1>3, <1>4 DEF CopyFits
  <1>6. ASSUME NEW i \in 1..Len(copy.hash) PROVE copy.hash[i] = wavelet.hash[i]
    <2>1. i \in 1..copy.version /\ i \in 1..Len(stored)
      BY <1>3, <1>4, <1>5
    <2>2. copy.hash[i] = stored[i].id
      BY <1>1, <2>1 DEF CopyFits
    <2>3. wavelet.hash[i] = stored[i].id
      BY <1>1, <2>1 DEF HostHistory
    <2> QED
      BY <2>2, <2>3
  <1> HIDE DEF S
  <1> QED
    BY <1>2, <1>4, <1>5, <1>6, PrefixByIndex

\* The copy's history is the beginning of the host's (RemoteWavelet against
\* LocalWavelet), for any number of deltas, submissions, failures, restarts and
\* users, as long as no gap is being asked for when the next update comes, no
\* update comes before the copy has been replayed, and no delta was transformed.
THEOREM FedCopyIsPrefix == FedSpec => []CopyIsPrefixUnless
  BY InitExchange, ExchangeStep, CopyIsPrefixHolds, PTL DEF FedSpec
===============================================================================
