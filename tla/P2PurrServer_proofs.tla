------------------------- MODULE P2PurrServer_proofs -------------------------
(***************************************************************************)
(* Proofs about a running server, for every pair of limits and any number  *)
(* of connections: however poll thread, user thread and remote peers       *)
(* interleave, the map, the poll list and the descriptor table agree.      *)
(***************************************************************************)
EXTENDS P2PurrServer, FiniteSetTheorems, FunctionTheorems, SequenceTheorems, TLAPS

(***************************************************************************)
(* The inductive invariant                                                 *)
(***************************************************************************)

\* The bound on sockets: there is a number for every connection in the backlog.
Bounded == Len(peers) + backlog <= MaxPeers

\* An open socket has its descriptor for itself, and a descriptor belongs to
\* nothing but an open socket.
OpenOwns ==
  /\ \A p \in Made : peers[p].open => owner[peers[p].fd] = p
  /\ \A f \in Fds : owner[f] # Nobody =>
       owner[f] \in Made /\ peers[owner[f]].open /\ peers[owner[f]].fd = f

\* What is filed under a descriptor was made with it.
FiledMade == \A f \in Mapped : map[f] \in Made /\ peers[map[f]].fd = f

\* The connection between accept and its insertion is open, and nobody has filed it.
NewcomerOpen ==
  /\ newcomer # Nobody <=> pollPc = "adopt"
  /\ newcomer # Nobody =>
       /\ newcomer \in Made /\ peers[newcomer].open /\ ~peers[newcomer].outbound
       /\ \A f \in Fds : map[f] # newcomer

\* So is the one that connect_to_peer works on, which nobody has filed yet.
JoiningOpen ==
  /\ joining # Nobody <=> userPc \in {"connect", "push", "insert"}
  /\ joining # Nobody =>
       /\ joining \in Made /\ peers[joining].open /\ peers[joining].outbound
       /\ \A f \in Fds : map[f] # joining
  /\ userPc = "connect" => peers[joining].remote = "new"

\* stop clears is_local_server_running before it closes anything.
StopOrder ==
  /\ userPc \in {"close", "clear", "closeServer", "stopped"} => ~running
  /\ running => listening

\* No closed connection is filed from the end of a sweep to the first entry that
\* the next scan of a running server reads from, nor when a connection is accepted,
\* unless stop is between its closes and its clear.
NoneDead ==
  (\/ running /\ (pollPc \in {"poll", "blocked", "unwatch"} \/ (pollPc = "scan" /\ i = 1))
   \/ pollPc \in {"accept", "adopt"} /\ userPc # "clear")
    => \A f \in Mapped : peers[map[f]].open

\* A descriptor about to be removed from the list belongs to no connection that
\* was accepted after its sweep, and there is one at most unless it was crowded.
Removing ==
  /\ pollPc # "unwatch" => toRemove = {}
  /\ \A f \in toRemove : map[f] # Nobody => peers[map[f]].outbound
  /\ ~crowded => \A f, g \in toRemove : f = g

\* poll was told of the whole list unless connect_to_peer has extended it since.
PolledList ==
  pollPc = "blocked" /\ running => Len(polled) >= 1 /\ (NoOutbound => Len(list) = Len(polled))

\* The server socket's POLLIN is true when the scan comes to it, and accept finds
\* a connection.
HonestPollin ==
  NoOutbound /\ (pollPc = "accept" \/ (pollPc = "scan" /\ i = 1 /\ running /\ list[1].rev))
    => backlog > 0

\* An open connection that could be closed is known to somebody who will.
OpenKnown ==
  \A p \in Made : peers[p].open =>
    ~Closable(p) \/ p \in {newcomer, joining} \/ \E f \in Mapped : map[f] = p

\* The connections filed, and those that have passed their test and are still to
\* be filed.
Slots ==
  /\ NoOutbound =>
       Cardinality(Mapped) <= IF pollPc = "adopt" THEN MaxIn ELSE MaxIn + 1
  /\ \E limit \in {MaxIn, MaxOut - 1} :
       Cardinality(Mapped) + (IF pollPc = "adopt" THEN 1 ELSE 0)
           + (IF userPc \in {"socket", "connect", "push", "insert"} THEN 1 ELSE 0)
         <= limit + 2

\* The inductive invariant: the tables and the descriptors, then the list.
TableInv ==
  /\ TypeOK /\ Bounded /\ OpenOwns /\ FiledMade
  /\ NewcomerOpen /\ JoiningOpen /\ StopOrder /\ NoneDead /\ AcceptFresh

ListInv ==
  /\ Removing /\ ServerFirst /\ InboundWatched /\ NothingElseWatched
  /\ PolledList /\ HonestPollin /\ InboundOnlySurvives

IInv == TableInv /\ OpenKnown /\ Slots /\ ListInv
-----------------------------------------------------------------------------
(* Numbers, sequences and sets *)

\* No number stands for two things.
LEMMA Numbers ==
  /\ MaxPeers \in Nat /\ MaxPeers >= 1 /\ MaxIn \in Nat /\ MaxOut \in Nat
  /\ Nobody \notin Conns /\ ListenFd \notin Fds
  /\ Listener \notin Conns /\ Listener # Nobody
BY ServerAssumption DEF Nobody, Conns, ListenFd, Fds, Listener

\* A function on 1..n is a sequence of length n.
LEMMA FcnSeq ==
  ASSUME NEW S, NEW n \in Nat, NEW s \in [1..n -> S]
  PROVE  s \in Seq(S) /\ Len(s) = n
<1>1. s \in Seq(S)
  BY SeqDef
<1>2. DOMAIN s = 1..n /\ DOMAIN s = 1..Len(s) /\ Len(s) \in Nat
  BY <1>1
<1> QED
  BY <1>1, <1>2

\* The connections are numbered within the bound, and have their fields.
LEMMA PeerTypes ==
  ASSUME TypeOK, Bounded
  PROVE  /\ Len(peers) \in Nat /\ Len(peers) <= MaxPeers /\ backlog \in Nat
         /\ Made \subseteq Conns /\ Nobody \notin Made /\ Listener \notin Made
         /\ \A p \in Made : /\ peers[p] \in PeerRec
                            /\ peers[p].fd \in Fds
                            /\ peers[p].outbound \in BOOLEAN /\ peers[p].open \in BOOLEAN
                            /\ peers[p].data \in BOOLEAN
                            /\ peers[p].remote \in {"new", "up", "fin", "rst", "rstseen"}
<1>1. /\ Len(peers) \in Nat /\ Len(peers) <= MaxPeers /\ backlog \in Nat
      /\ \A p \in Made : peers[p] \in PeerRec
  BY Numbers DEF TypeOK, Bounded, Made
<1>2. Made \subseteq Conns
  BY <1>1, Numbers DEF Made, Conns
<1> QED
  BY <1>1, <1>2, Numbers DEF PeerRec

\* The filed descriptors are finitely many.
LEMMA MappedFinite ==
  /\ IsFiniteSet(Mapped) /\ Cardinality(Mapped) \in Nat
  /\ IsFiniteSet(Mapped') /\ Cardinality(Mapped') \in Nat
<1>1. IsFiniteSet(Fds)
  BY Numbers, FS_Interval DEF Fds
<1>2. Mapped \subseteq Fds /\ Mapped' \subseteq Fds
  BY DEF Mapped
<1>3. IsFiniteSet(Mapped) /\ IsFiniteSet(Mapped')
  BY <1>1, <1>2, FS_Subset
<1> QED
  BY <1>3, FS_CardinalityType

\* A set that gains one element at most.
LEMMA GrowsByOne ==
  ASSUME NEW S, NEW T, NEW x, IsFiniteSet(S), T \subseteq S \cup {x}
  PROVE  Cardinality(T) <= Cardinality(S) + 1
<1>0. Cardinality(S) \in Nat
  BY FS_CardinalityType
<1>1. IsFiniteSet(S \cup {x}) /\ Cardinality(S \cup {x}) <= Cardinality(S) + 1
  BY <1>0, FS_AddElement
<1>2. Cardinality(T) <= Cardinality(S \cup {x}) /\ IsFiniteSet(T)
  BY <1>1, FS_Subset
<1>3. Cardinality(T) \in Nat /\ Cardinality(S \cup {x}) \in Nat
  BY <1>1, <1>2, FS_CardinalityType
<1> QED
  BY <1>0, <1>1, <1>2, <1>3

\* A set of at most one element.
LEMMA AtMostOne ==
  ASSUME NEW S, IsFiniteSet(S), Cardinality(S) <= 1, NEW x \in S, NEW y \in S
  PROVE  x = y
<1>1. Cardinality(S) \in Nat
  BY FS_CardinalityType
<1>2. Cardinality(S) # 0
  BY FS_EmptySet
<1>3. Cardinality(S) = 1
  BY <1>1, <1>2
<1> QED
  BY <1>3, FS_Singleton
-----------------------------------------------------------------------------
(* The n-th smallest of a set of indices *)

Rank(ks, k) == Cardinality({j \in ks : j <= k})

\* Ranks are different, and count from one.
LEMMA RankInjective ==
  ASSUME NEW n \in Nat, NEW ks \in SUBSET (1..n)
  PROVE  /\ IsFiniteSet(ks) /\ Cardinality(ks) \in Nat
         /\ \A k \in ks : Rank(ks, k) \in 1..Cardinality(ks)
         /\ \A k, l \in ks : k < l => Rank(ks, k) < Rank(ks, l)
<1>1. IsFiniteSet(ks) /\ Cardinality(ks) \in Nat /\ \A k \in ks : k \in Nat
  <2>1. IsFiniteSet(1..n)
    BY FS_Interval
  <2>2. IsFiniteSet(ks)
    BY <2>1, FS_Subset
  <2> QED
    BY <2>2, FS_CardinalityType
<1>2. ASSUME NEW k \in ks
      PROVE  /\ IsFiniteSet({j \in ks : j <= k}) /\ Rank(ks, k) \in Nat
             /\ Rank(ks, k) <= Cardinality(ks) /\ Rank(ks, k) >= 1
  <2>1. /\ IsFiniteSet({j \in ks : j <= k})
        /\ Cardinality({j \in ks : j <= k}) <= Cardinality(ks)
    BY <1>1, FS_Subset
  <2>2. k \in {j \in ks : j <= k}
    BY <1>1
  <2>3. Rank(ks, k) \in Nat
    BY <2>1, FS_CardinalityType DEF Rank
  <2>4. Rank(ks, k) # 0
    BY <2>1, <2>2, FS_EmptySet DEF Rank
  <2> QED
    BY <2>1, <2>3, <2>4 DEF Rank
<1>3. ASSUME NEW k \in ks, NEW l \in ks, k < l
      PROVE  Rank(ks, k) < Rank(ks, l)
  <2>0. /\ k \in Nat /\ l \in Nat
        /\ \A j \in ks : j <= k => j <= l
        /\ l <= l /\ ~(l <= k)
    BY <1>1, <1>3
  <2>1. l \in {j \in ks : j <= l} /\ l \notin {j \in ks : j <= k}
    BY <2>0
  <2>3. {j \in ks : j <= k} \subseteq {j \in ks : j <= l}
    BY <2>0
  <2>2. /\ Cardinality({j \in ks : j <= k}) <= Cardinality({j \in ks : j <= l})
        /\ Cardinality({j \in ks : j <= k}) # Cardinality({j \in ks : j <= l})
    BY <1>2, <2>1, <2>3, FS_Subset
  <2> QED
    BY <1>2, <2>2 DEF Rank
<1>4. ASSUME NEW k \in ks PROVE Rank(ks, k) \in 1..Cardinality(ks)
  <2>1. Rank(ks, k) \in Nat /\ Rank(ks, k) <= Cardinality(ks) /\ Rank(ks, k) >= 1
    BY <1>2
  <2> QED
    BY <1>1, <2>1
<1> QED
  BY <1>1, <1>3, <1>4

\* Every rank is taken: Nth finds an index for each, and every index is found.
LEMMA NthRank ==
  ASSUME NEW n \in Nat, NEW ks \in SUBSET (1..n)
  PROVE  /\ \A m \in 1..Cardinality(ks) : Nth(ks, m) \in ks /\ Rank(ks, Nth(ks, m)) = m
         /\ \A k \in ks : Nth(ks, Rank(ks, k)) = k
<1> DEFINE r == [k \in ks |-> Rank(ks, k)]
           C == Cardinality(ks)
<1>1. /\ IsFiniteSet(ks) /\ C \in Nat
      /\ \A k \in ks : Rank(ks, k) \in 1..C
      /\ \A k, l \in ks : k < l => Rank(ks, k) < Rank(ks, l)
  BY RankInjective
<1>2. \A k, l \in ks : Rank(ks, k) = Rank(ks, l) => k = l
  <2>1. SUFFICES ASSUME NEW k \in ks, NEW l \in ks, k # l PROVE Rank(ks, k) # Rank(ks, l)
    OBVIOUS
  <2>2. k < l \/ l < k
    BY <2>1
  <2>3. Rank(ks, k) \in Int /\ Rank(ks, l) \in Int
    BY <1>1
  <2> QED
    BY <1>1, <2>2, <2>3
<1>3. r \in Injection(ks, 1..C)
  BY <1>1, <1>2 DEF Injection, IsInjective
<1>4. IsFiniteSet(1..C) /\ Cardinality(1..C) = C
  BY <1>1, FS_Interval
<1>5. r \in Surjection(ks, 1..C)
  BY <1>3, <1>4, FS_Injection
<1>6. \A m \in 1..C : \E k \in ks : Rank(ks, k) = m
  BY <1>5 DEF Surjection
<1>7. \A m \in 1..C : Nth(ks, m) \in ks /\ Rank(ks, Nth(ks, m)) = m
  BY <1>6 DEF Nth, Rank
<1>8. \A k \in ks : Nth(ks, Rank(ks, k)) = k
  BY <1>1, <1>2, <1>7
<1> QED
  BY <1>7, <1>8

\* The list without a descriptor's entries: what is in it was in the list, in the
\* same order, and nothing else is missing.
LEMMA UnwatchedShape ==
  ASSUME TypeOK, NEW f \in Fds
  PROVE  /\ Unwatched(f) \in Seq(PollFd)
         /\ \A n \in 1..Len(Unwatched(f)) : Unwatched(f)[n].fd # f
         /\ \A n \in 1..Len(Unwatched(f)) : \E k \in 1..Len(list) :
              Unwatched(f)[n] = list[k] /\ (n > 1 => k > 1)
         /\ \A k \in 1..Len(list) : list[k].fd # f =>
              \E n \in 1..Len(Unwatched(f)) : Unwatched(f)[n] = list[k]
         /\ list # <<>> /\ list[1].fd # f =>
              Unwatched(f) # <<>> /\ Unwatched(f)[1] = list[1]
<1> DEFINE ks == {k \in 1..Len(list) : list[k].fd # f}
           C == Cardinality(ks)
           un == [n \in 1..C |-> list[Nth(ks, n)]]
<1>1. Len(list) \in Nat /\ \A k \in 1..Len(list) : list[k] \in PollFd
  BY DEF TypeOK
<1>2. ks \in SUBSET (1..Len(list))
  OBVIOUS
<1>0. \A k \in ks : k \in 1..Len(list) /\ k \in Nat /\ k >= 1
  BY <1>1
<1> HIDE DEF ks
<1>3. /\ C \in Nat
      /\ \A k \in ks : Rank(ks, k) \in 1..C
      /\ \A k, l \in ks : k < l => Rank(ks, k) < Rank(ks, l)
  BY <1>1, <1>2, RankInjective
<1>4. /\ \A n \in 1..C : Nth(ks, n) \in ks /\ Rank(ks, Nth(ks, n)) = n
      /\ \A k \in ks : Nth(ks, Rank(ks, k)) = k
  BY <1>1, <1>2, NthRank
<1> HIDE DEF C
<1>5. un \in [1..C -> PollFd]
  BY <1>1, <1>2, <1>4
<1>6. un \in Seq(PollFd) /\ Len(un) = C
  BY <1>3, <1>5, FcnSeq
<1>7. Unwatched(f) = un
  BY DEF Unwatched, ks, C
<1>8. \A n \in 1..C : un[n] = list[Nth(ks, n)]
  OBVIOUS
<1> HIDE DEF un
<1>9. \A n \in 1..Len(un) : un[n].fd # f
  BY <1>4, <1>6, <1>8 DEF ks
<1>10. \A n \in 1..Len(un) : \E k \in 1..Len(list) : un[n] = list[k] /\ (n > 1 => k > 1)
  <2>1. SUFFICES ASSUME NEW n \in 1..C
                 PROVE  n > 1 => Nth(ks, n) > 1
    BY <1>2, <1>4, <1>6, <1>8
  <2>2. SUFFICES ASSUME n > 1, ~(Nth(ks, n) > 1) PROVE FALSE
    OBVIOUS
  <2>3. Nth(ks, n) \in ks /\ Nth(ks, n) = 1
    BY <1>0, <1>4, <2>2
  <2>4. 1 \in 1..C /\ Nth(ks, 1) \in ks /\ Rank(ks, Nth(ks, 1)) = 1
    BY <1>3, <1>4
  <2>5. Nth(ks, 1) # 1
    BY <1>4, <2>2, <2>3, <2>4
  <2>6. 1 < Nth(ks, 1)
    BY <1>0, <2>4, <2>5
  <2>7. Rank(ks, 1) < Rank(ks, Nth(ks, 1))
    BY <1>3, <2>3, <2>4, <2>6
  <2>8. Rank(ks, 1) \in 1..C
    BY <1>3, <2>3
  <2> QED
    BY <2>4, <2>7, <2>8
<1>11. \A k \in 1..Len(list) : list[k].fd # f => \E n \in 1..Len(un) : un[n] = list[k]
  <2>1. SUFFICES ASSUME NEW k \in 1..Len(list), list[k].fd # f
                 PROVE  \E n \in 1..Len(un) : un[n] = list[k]
    OBVIOUS
  <2>2. k \in ks
    BY <2>1 DEF ks
  <2>3. Rank(ks, k) \in 1..C /\ Nth(ks, Rank(ks, k)) = k
    BY <1>3, <1>4, <2>2
  <2>4. Rank(ks, k) \in 1..Len(un) /\ un[Rank(ks, k)] = list[k]
    BY <1>6, <1>8, <2>3
  <2> QED
    BY <2>4
<1>12. list # <<>> /\ list[1].fd # f => un # <<>> /\ un[1] = list[1]
  <2>1. SUFFICES ASSUME list # <<>>, list[1].fd # f PROVE un # <<>> /\ un[1] = list[1]
    OBVIOUS
  <2>2. 1 \in 1..Len(list) /\ 1 \in ks
    BY <1>1, <2>1 DEF ks, TypeOK
  <2>3. C >= 1 /\ 1 \in 1..C
    BY <1>3, <2>2
  <2>4. Nth(ks, 1) \in ks /\ Rank(ks, Nth(ks, 1)) = 1
    BY <1>4, <2>3
  <2>5. Nth(ks, 1) = 1
    <3>1. SUFFICES ASSUME 1 < Nth(ks, 1) PROVE FALSE
      BY <1>0, <2>4
    <3>2. Rank(ks, 1) < 1 /\ Rank(ks, 1) \in 1..C
      BY <1>3, <2>2, <2>4, <3>1
    <3> QED
      BY <3>2
  <2> QED
    BY <1>6, <1>8, <2>3, <2>5
<1> QED
  BY <1>6, <1>7, <1>9, <1>10, <1>11, <1>12
-----------------------------------------------------------------------------
(* Steps that move a thread, and leave the tables as they are *)

\* The kernel completes a connection: only the backlog grows.
LEMMA RemoteConnectsInv == IInv /\ RemoteConnects => IInv'
<1> SUFFICES ASSUME IInv, RemoteConnects PROVE IInv'
  OBVIOUS
<1> USE DEF RemoteConnects, serverVars, tables, pollVars, userVars
<1>1. TypeOK' /\ Bounded'
  BY PeerTypes, Numbers DEF IInv, TableInv, TypeOK, Bounded, Made
<1>2. OpenOwns' /\ FiledMade' /\ NewcomerOpen' /\ JoiningOpen' /\ StopOrder' /\ NoneDead'
      /\ AcceptFresh'
  BY DEF IInv, TableInv, OpenOwns, FiledMade, NewcomerOpen, JoiningOpen, StopOrder, NoneDead,
         AcceptFresh, Made, Mapped
<1>3. OpenKnown' /\ Slots'
  BY DEF IInv, OpenKnown, Slots, Made, Mapped, Closable, NoOutbound
<1>4. ListInv'
  BY <1>1 DEF IInv, ListInv, Removing, ServerFirst, InboundWatched, NothingElseWatched,
     PolledList, HonestPollin, InboundOnlySurvives, Made, Mapped, NoOutbound, Watches,
     TypeOK, TableInv
<1> QED
  BY <1>1, <1>2, <1>3, <1>4 DEF IInv, TableInv

\* start_async_poll enters poll with the whole list, the server socket first.
LEMMA PollCallInv == IInv /\ PollCall => IInv'
<1> SUFFICES ASSUME IInv, PollCall PROVE IInv'
  OBVIOUS
<1> USE DEF PollCall, AtPoll, serverVars, kernelVars, tables, pollVars, userVars
<1>1. TypeOK' /\ Bounded'
  <2>1. polled' \in Seq(Conns \cup {Nobody, Listener})
    <3>1. \A k \in 1..Len(list) : SockOf(list[k].fd) \in Conns \cup {Nobody, Listener}
      <4>1. SUFFICES ASSUME NEW k \in 1..Len(list)
                     PROVE  SockOf(list[k].fd) \in Conns \cup {Nobody, Listener}
        OBVIOUS
      <4>2. list[k] \in PollFd /\ owner \in [Fds -> Conns \cup {Nobody}]
        BY DEF IInv, TableInv, TypeOK
      <4>3. list[k].fd \in Fds \cup {ListenFd} /\ owner \in [Fds -> Conns \cup {Nobody}]
        BY <4>2 DEF PollFd
      <4> QED
        BY <4>3 DEF SockOf
    <3>2. polled' \in [1..Len(list) -> Conns \cup {Nobody, Listener}] /\ Len(list) \in Nat
      BY <3>1 DEF IInv, TableInv, TypeOK
    <3> QED
      BY <3>2, FcnSeq
  <2> QED
    BY <2>1 DEF IInv, TableInv, TypeOK, Bounded
<1>2. OpenOwns' /\ FiledMade' /\ NewcomerOpen' /\ JoiningOpen' /\ StopOrder' /\ NoneDead'
      /\ AcceptFresh'
  BY DEF IInv, TableInv, OpenOwns, FiledMade, NewcomerOpen, JoiningOpen, StopOrder, NoneDead,
         AcceptFresh, Made, Mapped
<1>3. OpenKnown' /\ Slots'
  BY DEF IInv, OpenKnown, Slots, Made, Mapped, Closable, NoOutbound
<1>4. Removing' /\ ServerFirst' /\ InboundWatched' /\ NothingElseWatched' /\ HonestPollin'
      /\ InboundOnlySurvives'
  BY <1>1 DEF IInv, ListInv, Removing, ServerFirst, InboundWatched, NothingElseWatched,
     HonestPollin, InboundOnlySurvives, Made, Mapped, NoOutbound, Watches
<1>5. PolledList'
  <2>1. running => list # <<>> /\ Len(list) \in Nat /\ Len(list) >= 1
    BY DEF IInv, TableInv, ListInv, ServerFirst, TypeOK
  <2>2. Len(polled') = Len(list)
    BY FcnSeq DEF IInv, TableInv, TypeOK
  <2> QED
    BY <2>1, <2>2 DEF PolledList
<1> QED
  BY <1>1, <1>2, <1>3, <1>4, <1>5 DEF IInv, TableInv, ListInv

\* The scan passes an entry.
LEMMA ScanSkipInv == IInv /\ ScanSkip => IInv'
<1> SUFFICES ASSUME IInv, ScanSkip PROVE IInv'
  OBVIOUS
<1> USE DEF ScanSkip, AtEntry, AtPoll, serverVars, kernelVars, tables, pollVars, userVars
<1>1. TypeOK' /\ Bounded'
  BY DEF IInv, TableInv, TypeOK, Bounded
<1>2. OpenOwns' /\ FiledMade' /\ NewcomerOpen' /\ JoiningOpen' /\ StopOrder' /\ NoneDead'
      /\ AcceptFresh'
  BY DEF IInv, TableInv, TypeOK, OpenOwns, FiledMade, NewcomerOpen, JoiningOpen, StopOrder,
     NoneDead, AcceptFresh, Made, Mapped
<1>3. OpenKnown' /\ Slots'
  BY DEF IInv, OpenKnown, Slots, Made, Mapped, Closable, NoOutbound
<1>4. Removing' /\ ServerFirst' /\ InboundWatched' /\ NothingElseWatched'
  BY DEF IInv, ListInv, Removing, ServerFirst, InboundWatched, NothingElseWatched, Made,
     Mapped, NoOutbound, Watches
<1>5. PolledList' /\ HonestPollin' /\ InboundOnlySurvives'
  BY DEF IInv, TableInv, TypeOK, ListInv, PolledList, HonestPollin,
     InboundOnlySurvives, Made, NoOutbound
<1> QED
  BY <1>1, <1>2, <1>3, <1>4, <1>5 DEF IInv, TableInv, ListInv

\* The scan is over, or stop was called.
LEMMA ScanEndsInv == IInv /\ ScanEnds => IInv'
<1> SUFFICES ASSUME IInv, ScanEnds PROVE IInv'
  OBVIOUS
<1> USE DEF ScanEnds, AtPoll, serverVars, kernelVars, tables, pollVars, userVars
<1>1. TypeOK' /\ Bounded'
  BY DEF IInv, TableInv, TypeOK, Bounded
<1>2. OpenOwns' /\ FiledMade' /\ NewcomerOpen' /\ JoiningOpen' /\ StopOrder' /\ NoneDead'
      /\ AcceptFresh'
  BY DEF IInv, TableInv, OpenOwns, FiledMade, NewcomerOpen, JoiningOpen, StopOrder,
     NoneDead, AcceptFresh, Made, Mapped
<1>3. OpenKnown' /\ Slots'
  BY DEF IInv, OpenKnown, Slots, Made, Mapped, Closable, NoOutbound
<1>4. Removing' /\ ServerFirst' /\ InboundWatched' /\ NothingElseWatched'
  BY DEF IInv, ListInv, Removing, ServerFirst, InboundWatched, NothingElseWatched, Made,
     Mapped, NoOutbound, Watches
<1>5. PolledList' /\ HonestPollin' /\ InboundOnlySurvives'
  BY DEF IInv, TableInv, TypeOK, ListInv, PolledList, HonestPollin,
     InboundOnlySurvives, Made, NoOutbound
<1> QED
  BY <1>1, <1>2, <1>3, <1>4, <1>5 DEF IInv, TableInv, ListInv

\* A stopped server sweeps no more.
LEMMA SweepSkippedInv == IInv /\ SweepSkipped => IInv'
<1> SUFFICES ASSUME IInv, SweepSkipped PROVE IInv'
  OBVIOUS
<1> USE DEF SweepSkipped, AtPoll, serverVars, kernelVars, tables, pollVars, userVars
<1>1. TypeOK' /\ Bounded'
  BY DEF IInv, TableInv, TypeOK, Bounded
<1>2. OpenOwns' /\ FiledMade' /\ NewcomerOpen' /\ JoiningOpen' /\ StopOrder' /\ NoneDead'
      /\ AcceptFresh'
  BY DEF IInv, TableInv, OpenOwns, FiledMade, NewcomerOpen, JoiningOpen, StopOrder,
     NoneDead, AcceptFresh, Made, Mapped
<1>3. OpenKnown' /\ Slots'
  BY DEF IInv, OpenKnown, Slots, Made, Mapped, Closable, NoOutbound
<1>4. Removing' /\ ServerFirst' /\ InboundWatched' /\ NothingElseWatched'
  BY DEF IInv, ListInv, Removing, ServerFirst, InboundWatched, NothingElseWatched, Made,
     Mapped, NoOutbound, Watches
<1>5. PolledList' /\ HonestPollin' /\ InboundOnlySurvives'
  BY DEF IInv, TableInv, TypeOK, ListInv, PolledList, HonestPollin,
     InboundOnlySurvives, Made, NoOutbound
<1> QED
  BY <1>1, <1>2, <1>3, <1>4, <1>5 DEF IInv, TableInv, ListInv

\* The loop test fails.
LEMMA PollExitsInv == IInv /\ PollExits => IInv'
<1> SUFFICES ASSUME IInv, PollExits PROVE IInv'
  OBVIOUS
<1> USE DEF PollExits, AtPoll, serverVars, kernelVars, tables, pollVars, userVars
<1>1. TypeOK' /\ Bounded'
  BY DEF IInv, TableInv, TypeOK, Bounded
<1>2. OpenOwns' /\ FiledMade' /\ NewcomerOpen' /\ JoiningOpen' /\ StopOrder' /\ NoneDead'
      /\ AcceptFresh'
  BY DEF IInv, TableInv, OpenOwns, FiledMade, NewcomerOpen, JoiningOpen, StopOrder,
     NoneDead, AcceptFresh, Made, Mapped
<1>3. OpenKnown' /\ Slots'
  BY DEF IInv, OpenKnown, Slots, Made, Mapped, Closable, NoOutbound
<1>4. Removing' /\ ServerFirst' /\ InboundWatched' /\ NothingElseWatched'
  BY DEF IInv, ListInv, Removing, ServerFirst, InboundWatched, NothingElseWatched, Made,
     Mapped, NoOutbound, Watches
<1>5. PolledList' /\ HonestPollin' /\ InboundOnlySurvives'
  BY DEF IInv, TableInv, TypeOK, ListInv, PolledList, HonestPollin,
     InboundOnlySurvives, Made, NoOutbound
<1> QED
  BY <1>1, <1>2, <1>3, <1>4, <1>5 DEF IInv, TableInv, ListInv

\* connect_to_peer passes its test, and takes one of the places that Slots counts.
LEMMA ConnectBeginsInv == IInv /\ ConnectBegins => IInv'
<1> SUFFICES ASSUME IInv, ConnectBegins PROVE IInv'
  OBVIOUS
<1> USE DEF ConnectBegins, AtUser, serverVars, kernelVars, tables, pollVars, userVars
<1>1. TypeOK' /\ Bounded'
  BY DEF IInv, TableInv, TypeOK, Bounded
<1>2. OpenOwns' /\ FiledMade' /\ NewcomerOpen' /\ JoiningOpen' /\ StopOrder' /\ NoneDead'
      /\ AcceptFresh'
  BY DEF IInv, TableInv, OpenOwns, FiledMade, NewcomerOpen, JoiningOpen, StopOrder,
     NoneDead, AcceptFresh, Made, Mapped
<1>3. OpenKnown' /\ Slots'
  <2>1. OpenKnown'
    BY DEF IInv, OpenKnown, Made, Mapped, Closable
  <2>2. Cardinality(Mapped) \in Nat /\ Mapped' = Mapped /\ NoOutbound' = NoOutbound
    BY MappedFinite DEF Mapped, NoOutbound, Made
  <2>3. NoOutbound => Cardinality(Mapped) <= IF pollPc = "adopt" THEN MaxIn ELSE MaxIn + 1
    BY DEF IInv, Slots
  <2>4. Cardinality(Mapped) + (IF pollPc = "adopt" THEN 1 ELSE 0) + 1 <= (MaxOut - 1) + 2
    BY <2>2, Numbers
  <2>5. Slots'
    BY <2>2, <2>3, <2>4 DEF Slots
  <2> QED
    BY <2>1, <2>5
<1>4. Removing' /\ ServerFirst' /\ InboundWatched' /\ NothingElseWatched'
  BY DEF IInv, ListInv, Removing, ServerFirst, InboundWatched, NothingElseWatched, Made,
     Mapped, NoOutbound, Watches
<1>5. PolledList' /\ HonestPollin' /\ InboundOnlySurvives'
  BY DEF IInv, TableInv, TypeOK, ListInv, PolledList, HonestPollin,
     InboundOnlySurvives, Made, NoOutbound
<1> QED
  BY <1>1, <1>2, <1>3, <1>4, <1>5 DEF IInv, TableInv, ListInv

\* stop clears is_local_server_running, and most obligations with it.
LEMMA StopBeginsInv == IInv /\ StopBegins => IInv'
<1> SUFFICES ASSUME IInv, StopBegins PROVE IInv'
  OBVIOUS
<1> USE DEF StopBegins, AtUser, serverVars, kernelVars, tables, pollVars, userVars
<1>1. TypeOK' /\ Bounded'
  BY DEF IInv, TableInv, TypeOK, Bounded
<1>2. OpenOwns' /\ FiledMade' /\ NewcomerOpen' /\ JoiningOpen' /\ StopOrder' /\ NoneDead'
      /\ AcceptFresh'
  BY DEF IInv, TableInv, OpenOwns, FiledMade, NewcomerOpen, JoiningOpen, StopOrder,
     NoneDead, AcceptFresh, Made, Mapped
<1>3. OpenKnown' /\ Slots'
  BY DEF IInv, OpenKnown, Slots, Made, Mapped, Closable, NoOutbound
<1>4. Removing' /\ ServerFirst' /\ InboundWatched' /\ NothingElseWatched'
  BY DEF IInv, ListInv, Removing, ServerFirst, InboundWatched, NothingElseWatched, Made,
     Mapped, NoOutbound, Watches
<1>5. PolledList' /\ HonestPollin' /\ InboundOnlySurvives'
  BY DEF IInv, TableInv, TypeOK, ListInv, PolledList, HonestPollin,
     InboundOnlySurvives, Made, NoOutbound
<1> QED
  BY <1>1, <1>2, <1>3, <1>4, <1>5 DEF IInv, TableInv, ListInv

\* stop closes the server socket, which a running server never misses.
LEMMA StopEndsInv == IInv /\ StopEnds => IInv'
<1> SUFFICES ASSUME IInv, StopEnds PROVE IInv'
  OBVIOUS
<1> USE DEF StopEnds, AtUser, serverVars, kernelVars, tables, pollVars, userVars
<1>1. TypeOK' /\ Bounded'
  BY DEF IInv, TableInv, TypeOK, Bounded
<1>2. OpenOwns' /\ FiledMade' /\ NewcomerOpen' /\ JoiningOpen' /\ StopOrder' /\ NoneDead'
      /\ AcceptFresh'
  BY DEF IInv, TableInv, OpenOwns, FiledMade, NewcomerOpen, JoiningOpen, StopOrder,
     NoneDead, AcceptFresh, Made, Mapped
<1>3. OpenKnown' /\ Slots'
  BY DEF IInv, OpenKnown, Slots, Made, Mapped, Closable, NoOutbound
<1>4. Removing' /\ ServerFirst' /\ InboundWatched' /\ NothingElseWatched'
  BY DEF IInv, ListInv, Removing, ServerFirst, InboundWatched, NothingElseWatched, Made,
     Mapped, NoOutbound, Watches
<1>5. PolledList' /\ HonestPollin' /\ InboundOnlySurvives'
  BY DEF IInv, TableInv, TypeOK, ListInv, PolledList, HonestPollin,
     InboundOnlySurvives, Made, NoOutbound
<1> QED
  BY <1>1, <1>2, <1>3, <1>4, <1>5 DEF IInv, TableInv, ListInv

\* The scan comes to the server socket.
LEMMA ScanListenerInv == IInv /\ ScanListener => IInv'
<1> SUFFICES ASSUME IInv, ScanListener PROVE IInv'
  OBVIOUS
<1> USE DEF ScanListener, AtEntry, AtPoll, serverVars, kernelVars, tables, pollVars, userVars
<1>0. i = 1
  BY DEF IInv, TableInv, TypeOK, ListInv, ServerFirst
<1>1. TypeOK' /\ Bounded'
  BY DEF IInv, TableInv, TypeOK, Bounded
<1>2. OpenOwns' /\ FiledMade' /\ NewcomerOpen' /\ JoiningOpen' /\ StopOrder' /\ NoneDead'
      /\ AcceptFresh'
  BY <1>0 DEF IInv, TableInv, OpenOwns, FiledMade, NewcomerOpen, JoiningOpen, StopOrder,
     NoneDead, AcceptFresh, Made, Mapped
<1>3. OpenKnown' /\ Slots'
  BY DEF IInv, OpenKnown, Slots, Made, Mapped, Closable, NoOutbound
<1>4. Removing' /\ ServerFirst' /\ InboundWatched' /\ NothingElseWatched'
  BY DEF IInv, ListInv, Removing, ServerFirst, InboundWatched, NothingElseWatched, Made,
     Mapped, NoOutbound, Watches
<1>5. PolledList' /\ HonestPollin' /\ InboundOnlySurvives'
  BY <1>0 DEF IInv, ListInv, PolledList, HonestPollin, InboundOnlySurvives, Made, NoOutbound
<1> QED
  BY <1>1, <1>2, <1>3, <1>4, <1>5 DEF IInv, TableInv, ListInv

\* accept throws: the server socket's POLLIN was stale, so that there is an
\* outbound connection, or stop has closed the server socket.
LEMMA AcceptThrowsInv == IInv /\ AcceptThrows => IInv'
<1> SUFFICES ASSUME IInv, AcceptThrows PROVE IInv'
  OBVIOUS
<1> USE DEF AcceptThrows, AtPoll, serverVars, kernelVars, tables, pollVars,
           userVars
<1>1. TypeOK' /\ Bounded'
  BY DEF IInv, TableInv, TypeOK, Bounded
<1>2. OpenOwns' /\ FiledMade' /\ NewcomerOpen' /\ JoiningOpen' /\ StopOrder' /\ NoneDead'
      /\ AcceptFresh'
  BY DEF IInv, TableInv, OpenOwns, FiledMade, NewcomerOpen, JoiningOpen, StopOrder,
     NoneDead, AcceptFresh, Made, Mapped
<1>3. OpenKnown' /\ Slots'
  BY DEF IInv, OpenKnown, Slots, Made, Mapped, Closable, NoOutbound
<1>4. Removing' /\ ServerFirst' /\ InboundWatched' /\ NothingElseWatched'
  BY DEF IInv, ListInv, Removing, ServerFirst, InboundWatched, NothingElseWatched, Made,
     Mapped, NoOutbound, Watches
<1>5. PolledList' /\ HonestPollin' /\ InboundOnlySurvives'
  <2>1. ~NoOutbound \/ ~listening
    BY DEF IInv, ListInv, HonestPollin
  <2> QED
    BY <2>1 DEF IInv, ListInv, PolledList, HonestPollin, InboundOnlySurvives, Made, NoOutbound
<1> QED
  BY <1>1, <1>2, <1>3, <1>4, <1>5 DEF IInv, TableInv, ListInv
-----------------------------------------------------------------------------
(* What happens to the connections *)

\* A field of one connection is assigned.
LEMMA TouchedPeer ==
  ASSUME TypeOK, Bounded, NEW p \in Made, NEW r \in PeerRec, peers' = [peers EXCEPT ![p] = r]
  PROVE  /\ peers' \in Seq(PeerRec) /\ Len(peers') = Len(peers)
         /\ \A q \in Made : peers'[q] = IF q = p THEN r ELSE peers[q]
<1>1. peers \in Seq(PeerRec) /\ p \in 1..Len(peers)
  BY DEF TypeOK, Made
<1> QED
  BY <1>1, ExceptSeq DEF Made

\* As long as neither its socket nor what it is changes, the tables agree as before.
LEMMA TouchKeeps ==
  ASSUME IInv, Len(peers') = Len(peers), UNCHANGED <<owner, map>>,
         \A q \in Made : /\ peers'[q].fd = peers[q].fd
                         /\ peers'[q].outbound = peers[q].outbound
                         /\ peers'[q].open = peers[q].open
  PROVE  OpenOwns' /\ FiledMade' /\ Made' = Made /\ Mapped' = Mapped /\ NoOutbound' = NoOutbound
<1>1. Made' = Made /\ Mapped' = Mapped
  BY DEF Made, Mapped
<1>2. OpenOwns'
  BY <1>1 DEF IInv, TableInv, OpenOwns
<1>3. FiledMade'
  BY <1>1 DEF IInv, TableInv, FiledMade
<1>4. NoOutbound' = NoOutbound
  BY <1>1 DEF NoOutbound
<1> QED
  BY <1>1, <1>2, <1>3, <1>4

\* close_sock on some connections: those that can be closed are, and their
\* descriptors are free.
LEMMA CloseShape ==
  ASSUME TypeOK, Bounded, OpenOwns, NEW ps \in SUBSET Made, CloseSocks(ps)
  PROVE  /\ peers' \in Seq(PeerRec) /\ Len(peers') = Len(peers) /\ Made' = Made
         /\ \A q \in Made : /\ peers'[q].fd = peers[q].fd
                            /\ peers'[q].outbound = peers[q].outbound
                            /\ peers'[q].remote = peers[q].remote
                            /\ peers'[q].open <=>
                                 peers[q].open /\ ~(q \in ps /\ Closable(q))
         /\ owner' \in [Fds -> Conns \cup {Nobody}]
         /\ OpenOwns'
<1> DEFINE cs == {q \in ps : peers[q].open /\ Closable(q)}
<1>1. peers' = [q \in Made |-> IF q \in cs THEN [peers[q] EXCEPT !.open = FALSE] ELSE peers[q]]
  BY DEF CloseSocks, ClosedPeers
<1>2. owner' = [f \in Fds |-> IF owner[f] \in cs THEN Nobody ELSE owner[f]]
  BY DEF CloseSocks, Released
<1>3. \A q \in Made : (q \in cs) = (q \in ps /\ peers[q].open /\ Closable(q))
  OBVIOUS
<1> HIDE DEF cs
<1>4. \A q \in Made : peers'[q] = IF q \in cs THEN [peers[q] EXCEPT !.open = FALSE] ELSE peers[q]
  BY <1>1
<1>5. \A q \in Made : peers[q] \in PeerRec
  BY PeerTypes
<1>6. \A q \in Made : /\ peers'[q] \in PeerRec
                      /\ peers'[q].fd = peers[q].fd
                      /\ peers'[q].outbound = peers[q].outbound
                      /\ peers'[q].remote = peers[q].remote
                      /\ peers'[q].open = IF q \in cs THEN FALSE ELSE peers[q].open
  BY <1>4, <1>5 DEF PeerRec
<1>7. peers' \in Seq(PeerRec) /\ Len(peers') = Len(peers)
  <2>1. peers' \in [1..Len(peers) -> PeerRec] /\ Len(peers) \in Nat
    BY <1>1, <1>4, <1>6, PeerTypes DEF Made
  <2> QED
    BY <2>1, FcnSeq
<1>8. Made' = Made
  BY <1>7 DEF Made
<1>9. owner' \in [Fds -> Conns \cup {Nobody}]
  BY <1>2 DEF TypeOK
<1>10. \A q \in Made : peers'[q].open <=> peers[q].open /\ ~(q \in ps /\ Closable(q))
  BY <1>3, <1>6
<1>11. OpenOwns'
  <2>1. ASSUME NEW p \in Made, peers'[p].open PROVE owner'[peers'[p].fd] = p
    <3>1. p \notin cs /\ peers[p].open /\ peers'[p].fd = peers[p].fd /\ peers[p].fd \in Fds
      BY <1>6, <2>1, PeerTypes
    <3>2. owner[peers[p].fd] = p
      BY <3>1 DEF OpenOwns
    <3> QED
      BY <1>2, <3>1, <3>2
  <2>2. ASSUME NEW f \in Fds, owner'[f] # Nobody
        PROVE  owner'[f] \in Made /\ peers'[owner'[f]].open /\ peers'[owner'[f]].fd = f
    <3>1. owner'[f] = owner[f] /\ owner[f] \notin cs
      BY <1>2, <2>2
    <3>2. owner[f] \in Made /\ peers[owner[f]].open /\ peers[owner[f]].fd = f
      BY <2>2, <3>1 DEF OpenOwns
    <3> QED
      BY <1>6, <3>1, <3>2
  <2> QED
    BY <1>8, <2>1, <2>2 DEF OpenOwns
<1> QED
  BY <1>6, <1>7, <1>8, <1>9, <1>10, <1>11

\* A socket is made, accepted or refused under a free descriptor.
LEMMA NewShape ==
  ASSUME TypeOK, Bounded, OpenOwns, Len(peers) < MaxPeers, NEW f \in Fds, owner[f] = Nobody,
         NEW r \in PeerRec, r.fd = f, peers' = Append(peers, r),
         owner' = IF r.open THEN [owner EXCEPT ![f] = Len(peers) + 1] ELSE owner
  PROVE  /\ peers' \in Seq(PeerRec) /\ Len(peers') = Len(peers) + 1
         /\ Made' = Made \cup {Len(peers) + 1} /\ Len(peers) + 1 \notin Made
         /\ Len(peers) + 1 \in Conns
         /\ \A q \in Made : peers'[q] = peers[q]
         /\ peers'[Len(peers) + 1] = r
         /\ owner' \in [Fds -> Conns \cup {Nobody}]
         /\ OpenOwns'
<1> DEFINE p == Len(peers) + 1
<1>1. peers \in Seq(PeerRec) /\ Len(peers) \in Nat /\ p \in Nat /\ p \in Conns
  BY Numbers DEF TypeOK, Conns
<1>2. /\ peers' \in Seq(PeerRec) /\ Len(peers') = p
      /\ \A q \in 1..Len(peers) : peers'[q] = peers[q]
      /\ peers'[p] = r
  BY <1>1
<1>3. Made' = Made \cup {p} /\ p \notin Made
  BY <1>1, <1>2 DEF Made
<1>4. owner' \in [Fds -> Conns \cup {Nobody}]
  BY <1>1 DEF TypeOK
<1> HIDE DEF p
<1>5. OpenOwns'
  <2>0. owner \in [Fds -> Conns \cup {Nobody}] /\ p # Nobody
    BY <1>1, Numbers DEF TypeOK
  <2>1. ASSUME NEW q \in Made', peers'[q].open PROVE owner'[peers'[q].fd] = q
    <3>1. CASE q = p
      BY <1>2, <2>0, <2>1, <3>1 DEF p
    <3>2. CASE q # p
      <4>1. q \in Made /\ peers'[q] = peers[q]
        BY <1>2, <1>3, <3>2 DEF Made
      <4>2. owner[peers[q].fd] = q /\ peers[q].fd \in Fds /\ q # Nobody
        BY <2>1, <4>1, PeerTypes DEF OpenOwns
      <4> QED
        BY <2>0, <4>1, <4>2 DEF p
    <3> QED
      BY <3>1, <3>2
  <2>2. ASSUME NEW g \in Fds, owner'[g] # Nobody
        PROVE  owner'[g] \in Made' /\ peers'[owner'[g]].open /\ peers'[owner'[g]].fd = g
    <3>1. CASE g = f /\ r.open
      BY <1>2, <1>3, <2>0, <3>1 DEF p
    <3>2. CASE ~(g = f /\ r.open)
      <4>1. owner'[g] = owner[g]
        BY <2>0, <3>2
      <4>2. owner[g] \in Made /\ peers[owner[g]].open /\ peers[owner[g]].fd = g
        BY <2>2, <4>1 DEF OpenOwns
      <4> QED
        BY <1>2, <1>3, <4>1, <4>2 DEF Made
    <3> QED
      BY <3>1, <3>2
  <2> QED
    BY <2>1, <2>2 DEF OpenOwns
<1> QED
  BY <1>1, <1>2, <1>3, <1>4, <1>5 DEF Made, p

\* close_sock on one connection.
LEMMA CloseOne ==
  ASSUME TypeOK, Bounded, OpenOwns, NEW p \in Made, CloseSocks({p})
  PROVE  /\ peers' \in Seq(PeerRec) /\ Len(peers') = Len(peers)
         /\ owner' \in [Fds -> Conns \cup {Nobody}]
         /\ \A q \in Made :
              /\ peers'[q].fd = peers[q].fd /\ peers'[q].outbound = peers[q].outbound
              /\ peers'[q].remote = peers[q].remote
              /\ peers'[q].open <=> peers[q].open /\ ~(q = p /\ Closable(q))
              /\ q # p => peers'[q].open = peers[q].open
         /\ OpenOwns'
<1>1. {p} \in SUBSET Made /\ \A q \in Made : q \in {p} <=> q = p
  OBVIOUS
<1>2. /\ peers' \in Seq(PeerRec) /\ Len(peers') = Len(peers)
      /\ owner' \in [Fds -> Conns \cup {Nobody}]
      /\ \A q \in Made :
           /\ peers'[q].fd = peers[q].fd /\ peers'[q].outbound = peers[q].outbound
           /\ peers'[q].remote = peers[q].remote
           /\ peers'[q].open <=> peers[q].open /\ ~(q \in {p} /\ Closable(q))
      /\ OpenOwns'
  BY <1>1, CloseShape
<1>3. Len(peers') = Len(peers) /\ \A q \in Made : q \in 1..Len(peers) /\ peers[q].open \in BOOLEAN
  BY <1>2, PeerTypes DEF Made
<1>4. \A q \in Made : peers'[q].open \in BOOLEAN
  <2>1. \A q \in Made : peers'[q] \in PeerRec
    BY <1>2, <1>3
  <2> QED
    BY <2>1 DEF PeerRec
<1> QED
  BY <1>1, <1>2, <1>3, <1>4

\* A descriptor is appended to the list.
LEMMA WatchedShape ==
  ASSUME TypeOK, NEW f \in Fds, NEW garbage \in BOOLEAN, list' = Watched(f, garbage),
         UNCHANGED running
  PROVE  /\ list' \in Seq(PollFd) /\ list' # <<>>
         /\ Len(list) \in Nat /\ Len(list') = Len(list) + 1
         /\ \A k \in 1..Len(list) : list'[k] = list[k]
         /\ list'[Len(list')].fd = f
         /\ \A g \in Fds : Watches(g)' <=> Watches(g) \/ g = f
         /\ ServerFirst => ServerFirst'
<1> DEFINE e == [fd |-> f, rev |-> garbage]
<1>1. e \in PollFd /\ e.fd = f
  BY DEF PollFd
<1>2. list \in Seq(PollFd) /\ Len(list) \in Nat /\ list' = Append(list, e)
  BY DEF TypeOK, Watched
<1> HIDE DEF e
<1>3. /\ list' \in Seq(PollFd) /\ Len(list') = Len(list) + 1
      /\ \A k \in 1..Len(list) : list'[k] = list[k]
      /\ list'[Len(list) + 1] = e
  BY <1>1, <1>2
<1>4. list' # <<>>
  BY <1>2, <1>3
<1>5. \A k : k \in 1..Len(list') <=> k \in 1..Len(list) \/ k = Len(list')
  BY <1>2, <1>3
<1>6. \A g \in Fds : Watches(g)' <=> Watches(g) \/ g = f
  BY <1>1, <1>2, <1>3, <1>5 DEF Watches
<1>7. ServerFirst => ServerFirst'
  <2>1. SUFFICES ASSUME running, ServerFirst
                 PROVE  list'[1].fd = ListenFd /\ \A k \in 2..Len(list') : list'[k].fd # ListenFd
    BY <1>4 DEF ServerFirst
  <2>2. list # <<>> /\ list[1].fd = ListenFd /\ \A k \in 2..Len(list) : list[k].fd # ListenFd
    BY <2>1 DEF ServerFirst
  <2>3. 1 \in 1..Len(list)
    BY <1>2, <2>2
  <2>4. \A k \in 2..Len(list') : k \in 2..Len(list) \/ k = Len(list')
    BY <1>2, <1>3
  <2>5. f # ListenFd /\ \A k \in 2..Len(list) : k \in 1..Len(list)
    BY Numbers
  <2> QED
    BY <1>1, <1>3, <2>2, <2>3, <2>4, <2>5
<1> QED
  BY <1>1, <1>2, <1>3, <1>4, <1>6, <1>7

\* A connection is filed under a free descriptor.
LEMMA FiledShape ==
  ASSUME TypeOK, NEW f \in Fds, NEW p \in Conns, map[f] = Nobody, map' = Filed(f, p)
  PROVE  /\ map' \in [Fds -> Conns \cup {Nobody}] /\ map'[f] = p
         /\ \A g \in Fds : g # f => map'[g] = map[g]
         /\ Mapped' = Mapped \cup {f} /\ f \notin Mapped
         /\ \A g \in Mapped : map'[g] = map[g]
         /\ Cardinality(Mapped') <= Cardinality(Mapped) + 1
<1>1. map \in [Fds -> Conns \cup {Nobody}] /\ map' = [map EXCEPT ![f] = p] /\ p # Nobody
  BY Numbers DEF TypeOK, Filed
<1>2. /\ map' \in [Fds -> Conns \cup {Nobody}] /\ map'[f] = p
      /\ \A g \in Fds : g # f => map'[g] = map[g]
  BY <1>1
<1>3. Mapped' = Mapped \cup {f} /\ f \notin Mapped
  BY <1>1, <1>2 DEF Mapped
<1>4. Cardinality(Mapped') <= Cardinality(Mapped) + 1
  BY <1>3, MappedFinite, GrowsByOne
<1> QED
  BY <1>2, <1>3, <1>4 DEF Mapped
-----------------------------------------------------------------------------
(* Steps of the remote peers and of the threads that change the tables *)

\* poll reports: what it says of the server socket holds unless the list has moved.
LEMMA PollReturnInv == IInv /\ PollReturn => IInv'
<1> SUFFICES ASSUME IInv, PollReturn PROVE IInv'
  OBVIOUS
<1> USE DEF PollReturn, AtPoll, serverVars, kernelVars, tables, pollVars, userVars
<1>0. /\ Len(list) \in Nat /\ list' \in Seq(PollFd) /\ Len(list') = Len(list)
      /\ \A k \in 1..Len(list) : list'[k].fd = list[k].fd
      /\ list # <<>> <=> list' # <<>>
      /\ list' = Reported =>
           \A k \in 1..Len(list) : k <= Len(polled) => list'[k].rev = Readable(SockOf(list[k].fd))
  <2>1. list \in Seq(PollFd) /\ Len(list) \in Nat /\ \A k \in 1..Len(list) : list[k] \in PollFd
    BY DEF IInv, TableInv, TypeOK
  <2>2. CASE list' = Reported
    <3>1. ASSUME NEW k \in 1..Len(list)
          PROVE  /\ Reported[k] \in PollFd /\ Reported[k].fd = list[k].fd
                 /\ k <= Len(polled) => Reported[k].rev = Readable(SockOf(list[k].fd))
      <4>1. Readable(SockOf(list[k].fd)) \in BOOLEAN
        BY DEF Readable
      <4>2. Reported[k] = IF k <= Len(polled) THEN [list[k] EXCEPT !.rev = Readable(SockOf(list[k].fd))]
                          ELSE list[k]
        BY DEF Reported
      <4>3. CASE k <= Len(polled)
        BY <2>1, <4>1, <4>2, <4>3 DEF PollFd
      <4>4. CASE ~(k <= Len(polled))
        BY <2>1, <4>2, <4>4
      <4> QED
        BY <4>3, <4>4
    <3>2. Reported \in [1..Len(list) -> PollFd]
      BY <3>1 DEF Reported
    <3>3. Reported \in Seq(PollFd) /\ Len(Reported) = Len(list)
      BY <2>1, <3>2, FcnSeq
    <3> QED
      BY <2>1, <2>2, <3>1, <3>3
  <2>3. CASE Len(list) > Len(polled) /\ UNCHANGED list
    <3>1. list' = Reported =>
            \A k \in 1..Len(list) : k <= Len(polled) => list'[k].rev = Readable(SockOf(list[k].fd))
      <4>1. SUFFICES ASSUME list' = Reported, NEW k \in 1..Len(list), k <= Len(polled)
                     PROVE  list'[k].rev = Readable(SockOf(list[k].fd))
        OBVIOUS
      <4>2. list'[k] = [list[k] EXCEPT !.rev = Readable(SockOf(list[k].fd))]
        BY <4>1 DEF Reported
      <4> QED
        BY <2>1, <4>2 DEF PollFd
    <3> QED
      BY <2>1, <2>3, <3>1
  <2> QED
    BY <2>2, <2>3
<1>1. TypeOK' /\ Bounded'
  BY <1>0 DEF IInv, TableInv, TypeOK, Bounded, Race
<1>2. OpenOwns' /\ FiledMade' /\ NewcomerOpen' /\ JoiningOpen' /\ StopOrder' /\ NoneDead'
      /\ AcceptFresh'
  BY DEF IInv, TableInv, OpenOwns, FiledMade, NewcomerOpen, JoiningOpen, StopOrder,
     NoneDead, AcceptFresh, Made, Mapped
<1>3. OpenKnown' /\ Slots'
  BY DEF IInv, OpenKnown, Slots, Made, Mapped, Closable, NoOutbound
<1>4. Removing' /\ ServerFirst' /\ InboundWatched' /\ NothingElseWatched'
  <2>1. ServerFirst'
    BY <1>0 DEF IInv, ListInv, ServerFirst
  <2>2. \A f \in Fds : Watches(f)' = Watches(f)
    BY <1>0 DEF Watches
  <2>3. InboundWatched'
    BY <2>2 DEF IInv, ListInv, InboundWatched, Mapped
  <2>4. NothingElseWatched'
    BY <1>0 DEF IInv, ListInv, NothingElseWatched, Mapped, NoOutbound, Made
  <2> QED
    BY <2>1, <2>3, <2>4 DEF IInv, ListInv, Removing
<1>5. PolledList' /\ HonestPollin' /\ InboundOnlySurvives'
  <2>1. HonestPollin'
    <3>1. SUFFICES ASSUME NoOutbound, running, list'[1].rev PROVE backlog > 0
      BY DEF HonestPollin, NoOutbound, Made
    <3>2. /\ Len(polled) >= 1 /\ Len(list) = Len(polled) /\ list # <<>>
          /\ SockOf(list[1].fd) = Listener
      BY <3>1 DEF IInv, TableInv, StopOrder, ListInv, PolledList, ServerFirst, SockOf
    <3>3. list' = Reported
      <4>1. Len(polled) \in Nat /\ ~(Len(list) > Len(polled))
        BY <1>0, <3>2 DEF IInv, TableInv, TypeOK
      <4> QED
        BY <4>1
    <3>5. Len(list) >= 1 /\ 1 \in 1..Len(list) /\ 1 <= Len(polled)
      BY <1>0, <3>2 DEF IInv, TableInv, TypeOK
    <3>4. Readable(Listener)
      BY <1>0, <3>1, <3>2, <3>3, <3>5
    <3> QED
      BY <3>4, PeerTypes DEF Readable, IInv, TableInv
  <2>2. InboundOnlySurvives'
    BY DEF Race, InboundOnlySurvives, NoOutbound, Made
  <2> QED
    BY <2>1, <2>2 DEF PolledList
<1> QED
  BY <1>1, <1>2, <1>3, <1>4, <1>5 DEF IInv, TableInv, ListInv

\* Bytes arrive on a connection.
LEMMA RemoteSendsInv == ASSUME NEW p \in Made, IInv, RemoteSends(p) PROVE IInv'
<1> USE DEF RemoteSends, serverVars, tables, pollVars, userVars
<1> DEFINE r == [peers[p] EXCEPT !.data = TRUE]
<1>a. /\ r \in PeerRec /\ r.fd = peers[p].fd /\ r.outbound = peers[p].outbound
      /\ r.open = peers[p].open /\ r.remote = peers[p].remote
  BY PeerTypes DEF PeerRec, IInv, TableInv
<1>b. peers' = [peers EXCEPT ![p] = r]
  BY PeerTypes DEF IInv, TableInv, TypeOK
<1> HIDE DEF r
<1>c. /\ peers' \in Seq(PeerRec) /\ Len(peers') = Len(peers)
      /\ \A q \in Made : peers'[q] = IF q = p THEN r ELSE peers[q]
  BY <1>a, <1>b, TouchedPeer DEF IInv, TableInv
<1>d. \A q \in Made : /\ peers'[q].fd = peers[q].fd /\ peers'[q].outbound = peers[q].outbound
                      /\ peers'[q].open = peers[q].open /\ peers'[q].remote = peers[q].remote
  BY <1>a, <1>c
<1>e. OpenOwns' /\ FiledMade' /\ Made' = Made /\ Mapped' = Mapped /\ NoOutbound' = NoOutbound
  BY <1>c, <1>d, TouchKeeps
<1>1. TypeOK' /\ Bounded'
  BY <1>c DEF IInv, TableInv, TypeOK, Bounded, Made
<1>2. NewcomerOpen' /\ JoiningOpen' /\ StopOrder' /\ NoneDead' /\ AcceptFresh'
  BY <1>d, <1>e DEF IInv, TableInv, FiledMade, NewcomerOpen, JoiningOpen, StopOrder,
     NoneDead, AcceptFresh
<1>3. OpenKnown' /\ Slots'
  BY <1>d, <1>e DEF IInv, OpenKnown, Slots, Closable
<1>4. Removing' /\ ServerFirst' /\ InboundWatched' /\ NothingElseWatched'
  <2>1. \A f \in Fds : map[f] # Nobody => map[f] \in Made
    BY DEF IInv, TableInv, FiledMade, Mapped
  <2>2. Mapped \subseteq Fds /\ toRemove \subseteq Fds
    BY DEF IInv, TableInv, TypeOK, Mapped
  <2> QED
    BY <1>d, <1>e, <2>1, <2>2 DEF IInv, TableInv, FiledMade, ListInv, Removing, ServerFirst,
       InboundWatched, NothingElseWatched, Watches
<1>5. PolledList' /\ HonestPollin' /\ InboundOnlySurvives'
  BY <1>e DEF IInv, ListInv, PolledList, HonestPollin, InboundOnlySurvives
<1> QED
  BY <1>1, <1>2, <1>3, <1>4, <1>5, <1>e DEF IInv, TableInv, ListInv
\* A remote end closes or resets its connection.
LEMMA RemoteLeavesInv ==
  ASSUME NEW p \in Made, NEW how \in {"fin", "rst"}, IInv, RemoteLeaves(p, how)
  PROVE  IInv'
<1> USE DEF RemoteLeaves, serverVars, tables, pollVars, userVars
<1> DEFINE r == [peers[p] EXCEPT !.remote = how]
<1>a. /\ r \in PeerRec /\ r.fd = peers[p].fd /\ r.outbound = peers[p].outbound
      /\ r.open = peers[p].open /\ r.remote = how /\ peers[p].remote = "up"
  BY PeerTypes DEF PeerRec, IInv, TableInv
<1>b. peers' = [peers EXCEPT ![p] = r]
  BY PeerTypes DEF IInv, TableInv, TypeOK
<1> HIDE DEF r
<1>c. /\ peers' \in Seq(PeerRec) /\ Len(peers') = Len(peers)
      /\ \A q \in Made : peers'[q] = IF q = p THEN r ELSE peers[q]
  BY <1>a, <1>b, TouchedPeer DEF IInv, TableInv
<1>d. \A q \in Made : /\ peers'[q].fd = peers[q].fd /\ peers'[q].outbound = peers[q].outbound
                      /\ peers'[q].open = peers[q].open 
                      /\ peers[q].remote # peers'[q].remote => q = p /\ peers[q].remote = "up"

  BY <1>a, <1>c
<1>e. OpenOwns' /\ FiledMade' /\ Made' = Made /\ Mapped' = Mapped /\ NoOutbound' = NoOutbound
  BY <1>c, <1>d, TouchKeeps
<1>1. TypeOK' /\ Bounded'
  BY <1>c DEF IInv, TableInv, TypeOK, Bounded, Made
<1>2. NewcomerOpen' /\ JoiningOpen' /\ StopOrder' /\ NoneDead' /\ AcceptFresh'
  BY <1>d, <1>e DEF IInv, TableInv, FiledMade, NewcomerOpen, JoiningOpen, StopOrder,
     NoneDead, AcceptFresh
<1>3. OpenKnown' /\ Slots'
  BY <1>d, <1>e DEF IInv, OpenKnown, Slots, Closable
<1>4. Removing' /\ ServerFirst' /\ InboundWatched' /\ NothingElseWatched'
  <2>1. \A f \in Fds : map[f] # Nobody => map[f] \in Made
    BY DEF IInv, TableInv, FiledMade, Mapped
  <2>2. Mapped \subseteq Fds /\ toRemove \subseteq Fds
    BY DEF IInv, TableInv, TypeOK, Mapped
  <2> QED
    BY <1>d, <1>e, <2>1, <2>2 DEF IInv, TableInv, FiledMade, ListInv, Removing, ServerFirst,
       InboundWatched, NothingElseWatched, Watches
<1>5. PolledList' /\ HonestPollin' /\ InboundOnlySurvives'
  BY <1>e DEF IInv, ListInv, PolledList, HonestPollin, InboundOnlySurvives
<1> QED
  BY <1>1, <1>2, <1>3, <1>4, <1>5, <1>e DEF IInv, TableInv, ListInv
\* connect_to_host succeeds, for the connection that nobody has filed.
LEMMA ConnectSucceedsInv == IInv /\ ConnectSucceeds => IInv'
<1> SUFFICES ASSUME IInv, ConnectSucceeds PROVE IInv'
  OBVIOUS
<1> USE DEF ConnectSucceeds, serverVars, AtUser, tables, pollVars, userVars
<1> DEFINE p == joining
           r == [peers[p] EXCEPT !.remote = "up"]
<1>0. p \in Made /\ userPc = "connect" /\ joining # Nobody /\ peers[p].remote = "new"
  BY DEF IInv, TableInv, JoiningOpen
<1>a. /\ r \in PeerRec /\ r.fd = peers[p].fd /\ r.outbound = peers[p].outbound
      /\ r.open = peers[p].open /\ r.remote = "up"
  BY <1>0, PeerTypes DEF PeerRec, IInv, TableInv
<1>b. peers' = [peers EXCEPT ![p] = r]
  BY PeerTypes DEF IInv, TableInv, TypeOK
<1> HIDE DEF r, p
<1>c. /\ peers' \in Seq(PeerRec) /\ Len(peers') = Len(peers)
      /\ \A q \in Made : peers'[q] = IF q = p THEN r ELSE peers[q]
  BY <1>0, <1>a, <1>b, TouchedPeer DEF IInv, TableInv
<1>d. \A q \in Made : /\ peers'[q].fd = peers[q].fd /\ peers'[q].outbound = peers[q].outbound
                      /\ peers'[q].open = peers[q].open 
                      /\ peers[q].remote # peers'[q].remote => q = p /\ peers[q].remote = "new"

  BY <1>0, <1>a, <1>c
<1>e. OpenOwns' /\ FiledMade' /\ Made' = Made /\ Mapped' = Mapped /\ NoOutbound' = NoOutbound
  BY <1>c, <1>d, TouchKeeps
<1>1. TypeOK' /\ Bounded'
  BY <1>c DEF IInv, TableInv, TypeOK, Bounded, Made
<1>2. NewcomerOpen' /\ JoiningOpen' /\ StopOrder' /\ NoneDead' /\ AcceptFresh'
  BY <1>d, <1>e DEF IInv, TableInv, FiledMade, NewcomerOpen, JoiningOpen, StopOrder,
     NoneDead, AcceptFresh
<1>3. OpenKnown' /\ Slots'
  BY <1>d, <1>e DEF IInv, OpenKnown, Slots, Closable
<1>4. Removing' /\ ServerFirst' /\ InboundWatched' /\ NothingElseWatched'
  <2>1. \A f \in Fds : map[f] # Nobody => map[f] \in Made
    BY DEF IInv, TableInv, FiledMade, Mapped
  <2>2. Mapped \subseteq Fds /\ toRemove \subseteq Fds
    BY DEF IInv, TableInv, TypeOK, Mapped
  <2> QED
    BY <1>d, <1>e, <2>1, <2>2 DEF IInv, TableInv, FiledMade, ListInv, Removing, ServerFirst,
       InboundWatched, NothingElseWatched, Watches
<1>5. PolledList' /\ HonestPollin' /\ InboundOnlySurvives'
  BY <1>e DEF IInv, ListInv, PolledList, HonestPollin, InboundOnlySurvives
<1> QED
  BY <1>1, <1>2, <1>3, <1>4, <1>5, <1>e DEF IInv, TableInv, ListInv

\* handle_client_communications: the connection that is read, and perhaps closed,
\* is behind the first entry; the next sweep finds it.
LEMMA ScanClientInv == IInv /\ ScanClient => IInv'
<1> SUFFICES ASSUME IInv, ScanClient PROVE IInv'
  OBVIOUS
<1> USE DEF ScanClient, AtEntry, AtPoll, serverVars, tables, pollVars, userVars
<1> DEFINE f == list[i].fd
           p == map[f]
<1>0. /\ f \in Fds /\ p \in Made /\ peers[p].fd = f /\ p # joining /\ p # Nobody
      /\ i \in Nat /\ i > 1 /\ i' > 1
  <2>1. list[i] \in PollFd /\ i \in Nat \ {0} /\ Len(list) \in Nat
    BY DEF IInv, TableInv, TypeOK
  <2>2. f \in Fds /\ p # Nobody
    BY <2>1 DEF PollFd
  <2>3. p \in Made /\ peers[p].fd = f /\ p # joining
    BY <2>2 DEF IInv, TableInv, FiledMade, JoiningOpen, Mapped
  <2>4. i # 1
    BY DEF IInv, ListInv, ServerFirst
  <2> QED
    BY <2>1, <2>2, <2>3, <2>4
<1> HIDE DEF p, f
<1> DEFINE Shape ==
             /\ peers' \in Seq(PeerRec) /\ Len(peers') = Len(peers)
             /\ owner' \in [Fds -> Conns \cup {Nobody}]
             /\ \A q \in Made :
                     /\ peers'[q].fd = peers[q].fd /\ peers'[q].outbound = peers[q].outbound
                     /\ peers'[q].open => peers[q].open
                     /\ q # p => peers'[q].open = peers[q].open
                     /\ peers[q].remote # peers'[q].remote =>
                          peers[q].remote = "rst" /\ peers'[q].remote = "rstseen"
             /\ OpenOwns'
<1>a. Shape
  <2>0. owner \in [Fds -> Conns \cup {Nobody}]
    BY DEF IInv, TableInv, TypeOK
  <2>1. ASSUME NEW r \in PeerRec, peers' = [peers EXCEPT ![p] = r], UNCHANGED owner,
               r.fd = peers[p].fd, r.outbound = peers[p].outbound, r.open = peers[p].open,
               peers[p].remote # r.remote => peers[p].remote = "rst" /\ r.remote = "rstseen"
        PROVE  Shape
    <3>1. /\ peers' \in Seq(PeerRec) /\ Len(peers') = Len(peers)
          /\ \A q \in Made : peers'[q] = IF q = p THEN r ELSE peers[q]
      BY <1>0, <2>1, TouchedPeer DEF IInv, TableInv
    <3>2. \A q \in Made : /\ peers'[q].fd = peers[q].fd
                           /\ peers'[q].outbound = peers[q].outbound
                           /\ peers'[q].open = peers[q].open
      BY <1>0, <2>1, <3>1
    <3>3. OpenOwns'
      BY <2>1, <3>1, <3>2, TouchKeeps
    <3> QED
      BY <2>0, <2>1, <3>1, <3>2, <3>3
  <2>2. CASE peers' = [peers EXCEPT ![p].data = FALSE] /\ UNCHANGED owner
    <3> DEFINE r == [peers[p] EXCEPT !.data = FALSE]
    <3>1. /\ r \in PeerRec /\ r.fd = peers[p].fd /\ r.outbound = peers[p].outbound
          /\ r.open = peers[p].open /\ r.remote = peers[p].remote
      BY <1>0, PeerTypes DEF PeerRec, IInv, TableInv
    <3>2. peers' = [peers EXCEPT ![p] = r]
      BY <2>2
    <3> HIDE DEF r
    <3> QED
      BY <2>1, <2>2, <3>1, <3>2
  <2>3. CASE peers[p].remote = "rst" /\ peers' = [peers EXCEPT ![p].remote = "rstseen"]
             /\ UNCHANGED owner
    <3> DEFINE r == [peers[p] EXCEPT !.remote = "rstseen"]
    <3>1. /\ r \in PeerRec /\ r.fd = peers[p].fd /\ r.outbound = peers[p].outbound
          /\ r.open = peers[p].open /\ r.remote = "rstseen"
      BY <1>0, PeerTypes DEF PeerRec, IInv, TableInv
    <3>2. peers' = [peers EXCEPT ![p] = r]
      BY <2>3
    <3> HIDE DEF r
    <3> QED
      BY <2>1, <2>3, <3>1, <3>2
  <2>4. CASE CloseSocks({p})
    BY <1>0, <2>4, CloseOne DEF IInv, TableInv
  <2>5. CASE UNCHANGED <<peers, owner>>
    BY <2>0, <2>5 DEF IInv, TableInv, TypeOK, OpenOwns, Made
  <2> QED
    BY <2>2, <2>3, <2>4, <2>5 DEF Recv, p, f
<1> USE DEF Shape
<1>b. Made' = Made /\ Mapped' = Mapped /\ NoOutbound' = NoOutbound
  BY <1>a DEF Made, Mapped, NoOutbound
<1>c. \A g \in Mapped : g \in Fds /\ map[g] \in Made
  BY DEF IInv, TableInv, FiledMade, Mapped
<1>1. TypeOK' /\ Bounded'
  BY <1>0, <1>a DEF IInv, TableInv, TypeOK, Bounded, Made
<1>2. OpenOwns' /\ FiledMade' /\ NewcomerOpen' /\ JoiningOpen' /\ StopOrder' /\ NoneDead'
      /\ AcceptFresh'
  BY <1>0, <1>a, <1>b, <1>c DEF IInv, TableInv, FiledMade, NewcomerOpen, JoiningOpen, StopOrder,
     NoneDead, AcceptFresh
<1>3. OpenKnown' /\ Slots'
  BY <1>a, <1>b DEF IInv, OpenKnown, Slots, Closable
<1>4. Removing' /\ ServerFirst' /\ InboundWatched' /\ NothingElseWatched'
  BY <1>a, <1>b, <1>c DEF IInv, ListInv, Removing, ServerFirst,
     InboundWatched, NothingElseWatched, Watches
<1>5. PolledList' /\ HonestPollin' /\ InboundOnlySurvives'
  BY <1>0, <1>b DEF IInv, ListInv, PolledList, HonestPollin, InboundOnlySurvives
<1> QED
  BY <1>1, <1>2, <1>3, <1>4, <1>5 DEF IInv, TableInv, ListInv

\* connect_to_host fails, and the socket is closed: nobody has filed it.
LEMMA ConnectFailsInv == IInv /\ ConnectFails => IInv'
<1> SUFFICES ASSUME IInv, ConnectFails PROVE IInv'
  OBVIOUS
<1> USE DEF ConnectFails, AtUser, serverVars, tables, pollVars, userVars
<1> DEFINE p == joining
<1>0. p \in Made /\ \A g \in Fds : map[g] # p
  BY DEF IInv, TableInv, JoiningOpen
<1> HIDE DEF p
<1>a. /\ peers' \in Seq(PeerRec) /\ Len(peers') = Len(peers)
      /\ owner' \in [Fds -> Conns \cup {Nobody}]
      /\ \A q \in Made :
           /\ peers'[q].fd = peers[q].fd /\ peers'[q].outbound = peers[q].outbound
           /\ peers'[q].remote = peers[q].remote
           /\ peers'[q].open => peers[q].open
           /\ q # p => peers'[q].open = peers[q].open
           /\ q = p /\ peers'[q].open => ~Closable(q)
      /\ OpenOwns'
  BY <1>0, CloseOne DEF IInv, TableInv, p
<1>b. Made' = Made /\ Mapped' = Mapped /\ NoOutbound' = NoOutbound
  BY <1>a DEF Made, Mapped, NoOutbound
<1>c. \A g \in Mapped : g \in Fds /\ map[g] \in Made
  BY DEF IInv, TableInv, FiledMade, Mapped
<1>1. TypeOK' /\ Bounded'
  BY <1>0, <1>a DEF IInv, TableInv, TypeOK, Bounded, Made
<1>2. OpenOwns' /\ FiledMade' /\ NewcomerOpen' /\ JoiningOpen' /\ StopOrder' /\ NoneDead'
      /\ AcceptFresh'
  <2>1. newcomer # Nobody => newcomer # p
    BY DEF IInv, TableInv, NewcomerOpen, JoiningOpen, p
  <2> QED
    BY <1>0, <1>a, <1>b, <1>c, <2>1 DEF IInv, TableInv, FiledMade, NewcomerOpen, JoiningOpen,
       StopOrder, NoneDead, AcceptFresh
<1>3. OpenKnown' /\ Slots'
  <2>1. OpenKnown'
    BY <1>a, <1>b DEF IInv, OpenKnown, Closable, p
  <2>2. Cardinality(Mapped) \in Nat
    BY MappedFinite
  <2> QED
    BY <1>b, <2>1, <2>2, Numbers DEF IInv, Slots
<1>4. Removing' /\ ServerFirst' /\ InboundWatched' /\ NothingElseWatched'
  BY <1>a, <1>b, <1>c DEF IInv, TableInv, TypeOK, Mapped, ListInv, Removing, ServerFirst,
     InboundWatched, NothingElseWatched, Watches
<1>5. PolledList' /\ HonestPollin' /\ InboundOnlySurvives'
  BY <1>0, <1>b DEF IInv, ListInv, PolledList, HonestPollin, InboundOnlySurvives
<1> QED
  BY <1>1, <1>2, <1>3, <1>4, <1>5 DEF IInv, TableInv, ListInv

\* remove_disconnected_peers, first half: what stays in the map is open.
LEMMA SweepInv == IInv /\ Sweep => IInv'
<1> SUFFICES ASSUME IInv, Sweep PROVE IInv'
  OBVIOUS
<1> USE DEF Sweep, AtPoll, serverVars, kernelVars, tables, pollVars, userVars
<1>0. /\ map \in [Fds -> Conns \cup {Nobody}] /\ map' \in [Fds -> Conns \cup {Nobody}]
      /\ \A f \in Fds : map'[f] # Nobody => map'[f] = map[f] /\ map[f] # Nobody
      /\ \A f \in Fds : map[f] # Nobody /\ f \notin Dead => map'[f] = map[f]
      /\ Dead \subseteq Mapped /\ \A f \in Dead : map'[f] = Nobody
      /\ \A f \in Mapped : f \in Fds /\ map[f] # Nobody /\ map[f] \in Made
      /\ \A f \in Mapped' : f \in Fds /\ map'[f] # Nobody /\ map'[f] = map[f] /\ f \in Mapped
      /\ \A f \in Mapped' : peers[map[f]].open
  <2>1. map \in [Fds -> Conns \cup {Nobody}]
    BY DEF IInv, TableInv, TypeOK
  <2>2. map' \in [Fds -> Conns \cup {Nobody}]
    BY <2>1
  <2>3. Dead \subseteq Mapped /\ \A f \in Mapped : f \in Fds /\ map[f] # Nobody /\ map[f] \in Made
    BY DEF IInv, TableInv, FiledMade, Dead, Mapped
  <2>4. \A f \in Fds : map'[f] = IF f \in Dead THEN Nobody ELSE map[f]
    BY <2>1
  <2>5. \A f \in Mapped' : f \in Fds /\ map'[f] # Nobody
    BY DEF Mapped
  <2>6. \A f \in Mapped' : f \in Mapped /\ f \notin Dead /\ map'[f] = map[f]
    BY <2>4, <2>5 DEF Mapped
  <2>7. \A f \in Mapped' : peers[map[f]].open
    BY <2>6 DEF Dead
  <2> HIDE DEF Sweep
  <2> QED
    BY <2>1, <2>2, <2>3, <2>4, <2>5, <2>6, <2>7
<1>n. newcomer = Nobody /\ toRemove = {}
  BY DEF IInv, TableInv, NewcomerOpen, ListInv, Removing
<1>1. TypeOK' /\ Bounded'
  BY <1>0 DEF IInv, TableInv, TypeOK, Bounded, Mapped
<1>2. OpenOwns' /\ FiledMade' /\ NewcomerOpen' /\ JoiningOpen' /\ StopOrder' /\ NoneDead'
      /\ AcceptFresh'
  <2>1. FiledMade' /\ NoneDead'
    BY <1>0 DEF IInv, TableInv, FiledMade, NoneDead, Made
  <2>2. JoiningOpen'
    BY <1>0 DEF IInv, TableInv, JoiningOpen, Made
  <2> QED
    BY <1>n, <2>1, <2>2 DEF IInv, TableInv, OpenOwns, NewcomerOpen, StopOrder, AcceptFresh, Made
<1>3. OpenKnown' /\ Slots'
  <2>1. OpenKnown'
    <3>1. SUFFICES ASSUME NEW p \in Made, peers[p].open, Closable(p),
                          p \notin {newcomer, joining}
                   PROVE  \E f \in Mapped' : map'[f] = p
      BY DEF OpenKnown, Made, Closable
    <3>2. PICK f \in Mapped : map[f] = p
      BY <3>1 DEF IInv, OpenKnown
    <3>3. f \notin Dead
      BY <3>1, <3>2 DEF Dead
    <3>4. map'[f] = p /\ f \in Mapped'
      BY <1>0, <3>2, <3>3 DEF Mapped
    <3> QED
      BY <3>4
  <2>2. Cardinality(Mapped') <= Cardinality(Mapped)
    BY <1>0, MappedFinite, FS_Subset
  <2>3. Slots'
    BY <2>2, MappedFinite, Numbers DEF IInv, Slots, NoOutbound, Made
  <2> QED
    BY <2>1, <2>3
<1>4. Removing' /\ ServerFirst' /\ InboundWatched' /\ NothingElseWatched'
  <2>1. IsFiniteSet(Dead) /\ Cardinality(Dead) \in Nat
    BY <1>0, MappedFinite, FS_Subset, FS_CardinalityType
  <2>2. ~crowded' => \A f, g \in Dead : f = g
    <3>1. SUFFICES ASSUME ~crowded', NEW f \in Dead, NEW g \in Dead PROVE f = g
      OBVIOUS
    <3>2. ~(Cardinality(Dead) > 1)
      BY <3>1, Zenon
    <3>3. Cardinality(Dead) <= 1
      BY <2>1, <3>2
    <3> QED
      BY <2>1, <3>3, AtMostOne
  <2>3. Removing'
    BY <1>0, <2>2 DEF Removing
  <2>4. NothingElseWatched'
    <3>1. ~crowded' => ~crowded
      BY DEF IInv, TableInv, TypeOK
    <3>2. \A f \in Mapped : f \in Mapped' \/ f \in Dead
      BY <1>0 DEF Mapped
    <3> QED
      BY <1>n, <3>1, <3>2 DEF IInv, ListInv, NothingElseWatched, NoOutbound, Made
  <2>5. InboundWatched'
    BY <1>0 DEF IInv, ListInv, InboundWatched, Watches
  <2> QED
    BY <2>3, <2>4, <2>5 DEF IInv, ListInv, ServerFirst
<1>5. PolledList' /\ HonestPollin' /\ InboundOnlySurvives'
  BY DEF IInv, ListInv, PolledList, HonestPollin,
     InboundOnlySurvives, Made, NoOutbound
<1> QED
  BY <1>1, <1>2, <1>3, <1>4, <1>5 DEF IInv, TableInv, ListInv

\* remove_disconnected_peers, second half: the entry that goes belongs to no open
\* inbound connection.
LEMMA UnwatchInv == IInv /\ Unwatch => IInv'
<1> SUFFICES ASSUME IInv, Unwatch PROVE IInv'
  OBVIOUS
<1> USE DEF Unwatch, AtPoll, serverVars, kernelVars, tables, pollVars, userVars
<1> DEFINE Shape ==
      /\ list' \in Seq(PollFd)
      /\ \A f \in Mapped : ~peers[map[f]].outbound /\ Watches(f) => Watches(f)'
      /\ \A n \in 1..Len(list') : \E k \in 1..Len(list) :
           list'[n] = list[k] /\ (n > 1 => k > 1)
      /\ ~crowded => \A n \in 1..Len(list') : list'[n].fd \notin toRemove
      /\ list # <<>> /\ list[1].fd = ListenFd => list' # <<>> /\ list'[1] = list[1]
<1>0. Shape
  <2>0. list \in Seq(PollFd)
    BY DEF IInv, TableInv, TypeOK
  <2>1. CASE toRemove = {} /\ UNCHANGED list
    BY <2>0, <2>1 DEF Watches
  <2>2. ASSUME NEW f \in toRemove, list' = Unwatched(f) PROVE Shape
    <3>1. f \in Fds /\ f # ListenFd
      BY Numbers DEF IInv, TableInv, TypeOK
    <3>2. /\ list' \in Seq(PollFd)
          /\ \A n \in 1..Len(list') : list'[n].fd # f
          /\ \A n \in 1..Len(list') : \E k \in 1..Len(list) :
               list'[n] = list[k] /\ (n > 1 => k > 1)
          /\ \A k \in 1..Len(list) : list[k].fd # f =>
               \E n \in 1..Len(list') : list'[n] = list[k]
          /\ list # <<>> /\ list[1].fd # f => list' # <<>> /\ list'[1] = list[1]
      BY <2>2, <3>1, UnwatchedShape DEF IInv, TableInv
    <3>3. \A g \in Mapped : ~peers[map[g]].outbound => g # f
      BY <2>2 DEF IInv, ListInv, Removing, Mapped
    <3>4. \A g \in Fds : g # f /\ Watches(g) => Watches(g)'
      BY <3>2 DEF Watches
    <3>5. \A g \in Mapped : ~peers[map[g]].outbound /\ Watches(g) => Watches(g)'
      BY <3>3, <3>4 DEF Mapped
    <3>6. ~crowded => \A n \in 1..Len(list') : list'[n].fd \notin toRemove
      BY <2>2, <3>2 DEF IInv, ListInv, Removing
    <3> QED
      BY <3>1, <3>2, <3>5, <3>6
  <2> QED
    BY <2>1, <2>2
<1>a. Made' = Made /\ Mapped' = Mapped /\ NoOutbound' = NoOutbound
  BY DEF Made, Mapped, NoOutbound
<1>1. TypeOK' /\ Bounded'
  BY <1>0 DEF IInv, TableInv, TypeOK, Bounded
<1>2. OpenOwns' /\ FiledMade' /\ NewcomerOpen' /\ JoiningOpen' /\ StopOrder' /\ NoneDead'
      /\ AcceptFresh'
  BY DEF IInv, TableInv, OpenOwns, FiledMade, NewcomerOpen, JoiningOpen, StopOrder,
     NoneDead, AcceptFresh, Made, Mapped
<1>3. OpenKnown' /\ Slots'
  BY DEF IInv, OpenKnown, Slots, Made, Mapped, Closable, NoOutbound
<1>4. Removing' /\ ServerFirst' /\ InboundWatched' /\ NothingElseWatched'
  <2>0. /\ Len(list) \in Nat /\ Len(list') \in Nat
        /\ \A n \in 2..Len(list') : n \in 1..Len(list') /\ n > 1
        /\ \A k \in 1..Len(list) : k > 1 => k \in 2..Len(list)
    BY <1>0 DEF IInv, TableInv, TypeOK
  <2>1. Removing'
    BY DEF Removing
  <2>2. \A n \in 2..Len(list') : \E k \in 2..Len(list) : list'[n] = list[k]
    BY <1>0, <2>0
  <2>3. ServerFirst'
    BY <1>0, <2>2 DEF IInv, ListInv, ServerFirst
  <2>4. InboundWatched'
    BY <1>0, <1>a DEF IInv, ListInv, InboundWatched
  <2>5. NothingElseWatched'
    BY <1>0, <1>a, <2>0, <2>2 DEF IInv, ListInv, NothingElseWatched
  <2> QED
    BY <2>1, <2>3, <2>4, <2>5
<1>5. PolledList' /\ HonestPollin' /\ InboundOnlySurvives'
  BY <1>a DEF IInv, ListInv, PolledList, HonestPollin, InboundOnlySurvives
<1> QED
  BY <1>1, <1>2, <1>3, <1>4, <1>5 DEF IInv, TableInv, ListInv

\* handle_new_client before its insertion: the descriptor is free in the kernel's
\* table, hence in the map, where nothing is closed unless stop is at work.
LEMMA AcceptInv == ASSUME IInv, NEW f \in Fds, Accept(f) PROVE IInv'
<1> USE DEF Accept, AtPoll, serverVars, tables, pollVars, userVars
<1> DEFINE p == Len(peers) + 1
           r == [NewPeer(f, FALSE) EXCEPT !.open = Admitted]
<1>r. /\ r \in PeerRec /\ r.fd = f /\ r.outbound = FALSE
      /\ r.open = Admitted /\ r.remote = "up"
  <2>1. Admitted \in BOOLEAN
    BY DEF Admitted
  <2>2. /\ NewPeer(f, FALSE) \in PeerRec /\ NewPeer(f, FALSE).fd = f
        /\ NewPeer(f, FALSE).outbound = FALSE /\ NewPeer(f, FALSE).remote = "up"
    BY DEF NewPeer, PeerRec
  <2>3. ASSUME NEW q \in PeerRec, NEW a \in BOOLEAN
        PROVE  /\ [q EXCEPT !.open = a] \in PeerRec
               /\ [q EXCEPT !.open = a].fd = q.fd
               /\ [q EXCEPT !.open = a].outbound = q.outbound
               /\ [q EXCEPT !.open = a].open = a
               /\ [q EXCEPT !.open = a].remote = q.remote
    BY DEF PeerRec
  <2> QED
    BY <2>1, <2>2, <2>3
<1>0. /\ peers' = Append(peers, r)
      /\ owner' = IF r.open THEN [owner EXCEPT ![f] = Len(peers) + 1] ELSE owner
      /\ owner[f] = Nobody /\ Len(peers) < MaxPeers /\ Len(peers) \in Nat /\ backlog \in Nat
  <2>1. Len(peers) \in Nat /\ backlog \in Nat /\ Len(peers) + backlog <= MaxPeers
    BY PeerTypes DEF IInv, TableInv, Bounded
  <2> QED
    BY <1>r, <2>1, Numbers DEF LowestFree
<1> HIDE DEF r
<1>a. /\ peers' \in Seq(PeerRec) /\ Len(peers') = p
      /\ Made' = Made \cup {p} /\ p \notin Made
      /\ p \in Conns
      /\ \A q \in Made : peers'[q] = peers[q]
      /\ peers'[p] = r
      /\ owner' \in [Fds -> Conns \cup {Nobody}]
      /\ OpenOwns'
  BY <1>0, <1>r, NewShape DEF IInv, TableInv
<1>p. p # Nobody /\ p # newcomer /\ p # joining /\ p \notin {map[g] : g \in Mapped}
  BY <1>a, Numbers DEF IInv, TableInv, NewcomerOpen, JoiningOpen, FiledMade
<1>q. \A g \in Fds : map[g] # p
  BY <1>p DEF Mapped
<1> HIDE DEF p
<1>b. Mapped' = Mapped /\ NoOutbound' = NoOutbound
  BY <1>a, <1>r DEF Mapped, NoOutbound
<1>c. \A g \in Mapped : g \in Fds /\ map[g] \in Made /\ peers'[map[g]] = peers[map[g]]
  BY <1>a DEF IInv, TableInv, FiledMade, Mapped
<1>n. newcomer = Nobody /\ newcomer' = (IF Admitted THEN p ELSE Nobody)
      /\ pollPc' = (IF Admitted THEN "adopt" ELSE "scan") /\ i' = (IF Admitted THEN i ELSE 2)
  BY <1>0 DEF IInv, TableInv, NewcomerOpen, AfterAccept, p
<1>1. TypeOK' /\ Bounded'
  <2>1. TypeOK'
    BY <1>0, <1>a, <1>n DEF IInv, TableInv, TypeOK
  <2>2. Bounded'
    BY <1>0, <1>a DEF IInv, TableInv, Bounded, p
  <2> QED
    BY <2>1, <2>2
<1>2. FiledMade' /\ NewcomerOpen' /\ JoiningOpen' /\ StopOrder' /\ NoneDead' /\ AcceptFresh'
  <2>1. FiledMade' /\ StopOrder'
    BY <1>a, <1>b, <1>c DEF IInv, TableInv, FiledMade, StopOrder
  <2>2. NewcomerOpen'
    BY <1>a, <1>n, <1>p, <1>q, <1>r DEF NewcomerOpen
  <2>3. JoiningOpen'
    BY <1>a DEF IInv, TableInv, JoiningOpen
  <2>4. NoneDead'
    <3>1. pollPc = "accept" /\ userPc' = userPc /\ (pollPc' = "adopt" \/ (pollPc' = "scan" /\ i' = 2))
      BY <1>n
    <3>2. userPc # "clear" => \A g \in Mapped : peers[map[g]].open
      BY <3>1 DEF IInv, TableInv, NoneDead
    <3>3. userPc # "clear" => \A g \in Mapped' : peers'[map'[g]].open
      BY <1>b, <1>c, <3>2
    <3> HIDE DEF Accept
    <3> QED
      BY <3>1, <3>3 DEF NoneDead
  <2>5. AcceptFresh'
    <3>1. SUFFICES ASSUME map[f] # Nobody, userPc # "clear" PROVE FALSE
      BY <1>a, <1>n, <1>r DEF AcceptFresh
    <3>2. f \in Mapped /\ map[f] \in Made /\ peers[map[f]].fd = f /\ peers[map[f]].open
      BY <1>0, <3>1 DEF IInv, TableInv, FiledMade, NoneDead, Mapped
    <3> QED
      BY <1>0, <1>c, <3>1, <3>2 DEF IInv, TableInv, OpenOwns
  <2> QED
    BY <2>1, <2>2, <2>3, <2>4, <2>5
<1>3. OpenKnown' /\ Slots'
  <2>1. OpenKnown'
    <3>1. ASSUME NEW q \in Made, peers[q].open
          PROVE  ~Closable(q)' \/ q \in {newcomer', joining'} \/ \E g \in Mapped' : map'[g] = q
      <4>1. ~Closable(q) \/ q \in {newcomer, joining} \/ \E g \in Mapped : map[g] = q
        BY <3>1 DEF IInv, OpenKnown
      <4>2. q # newcomer /\ (~Closable(q))' = ~Closable(q)
        BY <1>a, <1>n, PeerTypes DEF Closable, IInv, TableInv
      <4> QED
        BY <1>b, <4>1, <4>2
    <3>2. peers'[p].open => p = newcomer'
      BY <1>a, <1>n, <1>r
    <3> QED
      BY <1>a, <3>1, <3>2 DEF OpenKnown
  <2>2. Cardinality(Mapped) \in Nat /\ (Admitted => Cardinality(Mapped) <= MaxIn)
    BY MappedFinite DEF Admitted
  <2>3. Slots'
    BY <1>b, <1>n, <2>2, Numbers DEF IInv, Slots
  <2> QED
    BY <2>1, <2>3
<1>4. Removing' /\ ServerFirst' /\ InboundWatched' /\ NothingElseWatched'
  <2>1. toRemove = {}
    BY DEF IInv, ListInv, Removing
  <2> QED
    BY <1>b, <1>c, <2>1 DEF IInv, ListInv, Removing, ServerFirst,
       InboundWatched, NothingElseWatched, Watches
<1>5. PolledList' /\ HonestPollin' /\ InboundOnlySurvives'
  BY <1>b, <1>n DEF IInv, ListInv, PolledList, HonestPollin, InboundOnlySurvives
<1> QED
  BY <1>1, <1>2, <1>3, <1>4, <1>5, <1>a DEF IInv, TableInv, ListInv

\* connect_to_peer makes its socket.
LEMMA ConnectSocketInv == ASSUME IInv, NEW f \in Fds, ConnectSocket(f) PROVE IInv'
<1> USE DEF ConnectSocket, AtUser, serverVars, tables, pollVars, userVars
<1> DEFINE p == Len(peers) + 1
           r == NewPeer(f, TRUE)
<1>r. r \in PeerRec /\ r.fd = f /\ r.outbound = TRUE /\ r.open = TRUE /\ r.remote = "new"
  BY DEF NewPeer, PeerRec
<1>0. /\ peers' = Append(peers, r)
      /\ owner' = IF r.open THEN [owner EXCEPT ![f] = Len(peers) + 1] ELSE owner
      /\ owner[f] = Nobody /\ Len(peers) < MaxPeers /\ Len(peers) \in Nat /\ backlog \in Nat
      /\ joining = Nobody
  <2>1. Len(peers) \in Nat /\ backlog \in Nat
    BY PeerTypes DEF IInv, TableInv
  <2>2. joining = Nobody
    BY DEF IInv, TableInv, JoiningOpen
  <2>3. peers' = Append(peers, r)
    OBVIOUS
  <2> HIDE DEF r
  <2>4. owner' = IF r.open THEN [owner EXCEPT ![f] = Len(peers) + 1] ELSE owner
    BY <1>r
  <2>5. owner[f] = Nobody
    BY DEF LowestFree
  <2>6. Len(peers) < MaxPeers
    BY <2>1, Numbers
  <2> QED
    BY <2>1, <2>2, <2>3, <2>4, <2>5, <2>6
<1> HIDE DEF r
<1>a. /\ peers' \in Seq(PeerRec) /\ Len(peers') = p
      /\ Made' = Made \cup {p} /\ p \notin Made
      /\ p \in Conns
      /\ \A q \in Made : peers'[q] = peers[q]
      /\ peers'[p] = r
      /\ owner' \in [Fds -> Conns \cup {Nobody}]
      /\ OpenOwns'
  BY <1>0, <1>r, NewShape DEF IInv, TableInv
<1>p. p # Nobody /\ p # newcomer /\ p \notin {map[g] : g \in Mapped} /\ joining' = p
  BY <1>a, Numbers DEF IInv, TableInv, NewcomerOpen, FiledMade
<1>q. \A g \in Fds : map[g] # p
  BY <1>p DEF Mapped
<1>1. TypeOK' /\ Bounded'
  <2>1. TypeOK'
    BY <1>0, <1>a DEF IInv, TableInv, TypeOK
  <2>2. Bounded'
    BY <1>0, <1>a, Numbers DEF Bounded
  <2> QED
    BY <2>1, <2>2
<1> HIDE DEF p
<1>b. Mapped' = Mapped /\ NoOutbound' = FALSE
  BY <1>a, <1>r DEF Mapped, NoOutbound
<1>c. \A g \in Mapped : g \in Fds /\ map[g] \in Made /\ peers'[map[g]] = peers[map[g]]
  BY <1>a DEF IInv, TableInv, FiledMade, Mapped
<1>2. FiledMade' /\ NewcomerOpen' /\ JoiningOpen' /\ StopOrder' /\ NoneDead' /\ AcceptFresh'
  <2>1. FiledMade' /\ StopOrder'
    BY <1>a, <1>b, <1>c DEF IInv, TableInv, FiledMade, StopOrder
  <2>2. NewcomerOpen' /\ AcceptFresh'
    BY <1>a DEF IInv, TableInv, NewcomerOpen, AcceptFresh
  <2>3. JoiningOpen'
    BY <1>a, <1>p, <1>q, <1>r DEF JoiningOpen
  <2>4. NoneDead'
    BY <1>0, <1>b, <1>c DEF IInv, TableInv, NoneDead
  <2> QED
    BY <2>1, <2>2, <2>3, <2>4
<1>3. OpenKnown' /\ Slots'
  <2>1. OpenKnown'
    <3>1. ASSUME NEW q \in Made, peers[q].open
          PROVE  ~Closable(q)' \/ q \in {newcomer', joining'} \/ \E g \in Mapped' : map'[g] = q
      <4>1. ~Closable(q) \/ q \in {newcomer, joining} \/ \E g \in Mapped : map[g] = q
        BY <3>1 DEF IInv, OpenKnown
      <4>2. q # joining /\ (~Closable(q))' = ~Closable(q)
        BY <1>0, <1>a, PeerTypes DEF Closable, IInv, TableInv
      <4> QED
        BY <1>b, <4>1, <4>2
    <3> QED
      BY <1>a, <1>p, <3>1 DEF OpenKnown
  <2>2. Slots'
    BY <1>b DEF IInv, Slots
  <2> QED
    BY <2>1, <2>2
<1>4. Removing' /\ ServerFirst' /\ InboundWatched' /\ NothingElseWatched'
  <2>1. \A g \in toRemove : g \in Fds
    BY DEF IInv, TableInv, TypeOK
  <2>2. \A g \in toRemove : map[g] # Nobody => g \in Mapped
    BY <2>1 DEF Mapped
  <2> QED
    BY <1>b, <1>c, <2>2 DEF IInv, ListInv, Removing, ServerFirst,
       InboundWatched, NothingElseWatched, Watches
<1>5. PolledList' /\ HonestPollin' /\ InboundOnlySurvives'
  BY <1>b DEF IInv, ListInv, PolledList, HonestPollin, InboundOnlySurvives
<1> QED
  BY <1>1, <1>2, <1>3, <1>4, <1>5, <1>a DEF IInv, TableInv, ListInv

\* handle_new_client files the connection in both tables, or drops it if stop has
\* left a key for its descriptor behind.
LEMMA AdoptInv == IInv /\ Adopt => IInv'
<1> SUFFICES ASSUME IInv, Adopt PROVE IInv'
  OBVIOUS
<1> USE DEF Adopt, AtPoll, serverVars, pollVars, userVars
<1> DEFINE p == newcomer
           f == peers[newcomer].fd
<1>0. /\ p \in Made /\ p \in Conns /\ p # Nobody /\ f \in Fds /\ peers[p].open
      /\ ~peers[p].outbound /\ p # joining /\ (running => map[f] = Nobody)
      /\ newcomer' = Nobody /\ i' = 2
  <2>1. p # Nobody /\ p \in Made /\ peers[p].open /\ ~peers[p].outbound /\ p # joining
    BY DEF IInv, TableInv, NewcomerOpen, JoiningOpen
  <2>2. p \in Conns /\ f \in Fds
    BY <2>1, PeerTypes DEF IInv, TableInv
  <2>3. running => map[f] = Nobody
    BY <2>1 DEF IInv, TableInv, AcceptFresh, StopOrder
  <2> QED
    BY <2>1, <2>2, <2>3 DEF AfterAccept
<1>a. PICK garbage \in BOOLEAN : list' = Watched(f, garbage)
  OBVIOUS
<1>b. map' = Filed(f, p)
  OBVIOUS
<1>p. /\ peers' \in Seq(PeerRec) /\ Len(peers') = Len(peers)
      /\ owner' \in [Fds -> Conns \cup {Nobody}]
      /\ \A q \in Made :
           /\ peers'[q].fd = peers[q].fd /\ peers'[q].outbound = peers[q].outbound
           /\ peers'[q].remote = peers[q].remote
           /\ peers'[q].open => peers[q].open
           /\ q # p => peers'[q].open = peers[q].open
           /\ map[f] # Nobody => ~peers'[p].open
      /\ OpenOwns'
  <2>1. CASE map[f] = Nobody
    BY <2>1 DEF IInv, TableInv, TypeOK, OpenOwns, Made, f
  <2>2. CASE map[f] # Nobody
    <3>1. CloseSocks({p})
      BY <2>2 DEF p, f
    <3>2. Closable(p)
      BY <1>0 DEF Closable
    <3> HIDE DEF p, f
    <3> QED
      BY <1>0, <3>1, <3>2, CloseOne DEF IInv, TableInv
  <2> QED
    BY <2>1, <2>2
<1> HIDE DEF p, f
<1>c. /\ list' \in Seq(PollFd) /\ list' # <<>>
      /\ Len(list) \in Nat /\ Len(list') = Len(list) + 1
      /\ \A k \in 1..Len(list) : list'[k] = list[k]
      /\ list'[Len(list')].fd = f
      /\ \A g \in Fds : Watches(g)' <=> Watches(g) \/ g = f
      /\ ServerFirst => ServerFirst'
  BY <1>0, <1>a, WatchedShape DEF IInv, TableInv
<1>d. /\ map' \in [Fds -> Conns \cup {Nobody}]
      /\ Mapped \subseteq Fds /\ Mapped \subseteq Mapped'
      /\ \A g \in Mapped : map'[g] = map[g]
      /\ \A g \in Mapped' : g \in Mapped \/ (g = f /\ map[f] = Nobody /\ map'[g] = p)
      /\ \A g \in Fds : map'[g] = map[g] \/ map'[g] = p
      /\ map[f] = Nobody => f \in Mapped' /\ map'[f] = p
      /\ Cardinality(Mapped') <= Cardinality(Mapped) + 1
  <2>1. CASE map[f] = Nobody
    BY <1>0, <1>b, <2>1, FiledShape DEF IInv, TableInv, Mapped
  <2>2. CASE map[f] # Nobody
    <3>1. map' = map /\ Mapped' = Mapped /\ Mapped \subseteq Fds
      BY <1>b, <2>2 DEF Filed, Mapped
    <3> QED
      BY <2>2, <3>1, MappedFinite DEF IInv, TableInv, TypeOK
  <2> QED
    BY <2>1, <2>2
<1>e. Made' = Made /\ NoOutbound' = NoOutbound
  BY <1>p DEF Made, NoOutbound
<1>g. \A g \in Mapped : g \in Fds /\ map[g] \in Made
  BY DEF IInv, TableInv, FiledMade, Mapped
<1>1. TypeOK' /\ Bounded'
  BY <1>0, <1>c, <1>d, <1>p DEF IInv, TableInv, TypeOK, Bounded
<1>2. FiledMade' /\ NewcomerOpen' /\ JoiningOpen' /\ StopOrder' /\ NoneDead' /\ AcceptFresh'
  <2>1. FiledMade'
    BY <1>0, <1>d, <1>e, <1>g, <1>p DEF IInv, TableInv, FiledMade, p, f
  <2>2. JoiningOpen'
    BY <1>0, <1>d, <1>e, <1>p DEF IInv, TableInv, JoiningOpen
  <2> QED
    BY <1>0, <2>1, <2>2 DEF IInv, TableInv, NewcomerOpen, StopOrder, NoneDead, AcceptFresh
<1>3. OpenKnown' /\ Slots'
  <2>1. OpenKnown'
    <3>1. ASSUME NEW q \in Made, peers'[q].open
          PROVE  ~Closable(q)' \/ q = joining \/ \E g \in Mapped' : map'[g] = q
      <4>1. peers[q].open /\ Closable(q)' = Closable(q)
        BY <1>p, <3>1 DEF Closable
      <4>2. ~Closable(q) \/ q \in {p, joining} \/ \E g \in Mapped : map[g] = q
        BY <4>1 DEF IInv, OpenKnown, p
      <4>3. q = p => \E g \in Mapped' : map'[g] = q
        BY <1>d, <1>p, <3>1
      <4> QED
        BY <1>d, <4>1, <4>2, <4>3
    <3> QED
      BY <1>e, <3>1 DEF OpenKnown
  <2>2. Slots'
    BY <1>d, <1>e, MappedFinite, Numbers DEF IInv, Slots
  <2> QED
    BY <2>1, <2>2
<1>4. Removing' /\ ServerFirst' /\ InboundWatched' /\ NothingElseWatched'
  <2>1. Removing' /\ toRemove = {}
    BY DEF IInv, ListInv, Removing
  <2>2. ServerFirst'
    BY <1>c DEF IInv, ListInv
  <2>3. InboundWatched'
    <3>1. SUFFICES ASSUME running, NEW g \in Mapped', peers'[map'[g]].open,
                          ~peers'[map'[g]].outbound
                   PROVE  Watches(g)'
      BY DEF InboundWatched
    <3>2. g \in Fds /\ (g = f \/ (g \in Mapped /\ map'[g] = map[g] /\ map[g] \in Made))
      BY <1>0, <1>d, <1>g
    <3>3. g = f \/ Watches(g)
      BY <1>p, <3>1, <3>2 DEF IInv, ListInv, InboundWatched
    <3> QED
      BY <1>c, <3>2, <3>3
  <2>4. NothingElseWatched'
    <3>1. SUFFICES ASSUME running, ~crowded, NoOutbound, NEW k \in 2..Len(list')
                   PROVE  list'[k].fd \in Mapped' \cup toRemove'
      BY <1>e DEF NothingElseWatched
    <3>2. (k \in 2..Len(list) /\ k \in 1..Len(list)) \/ k = Len(list')
      BY <1>c
    <3>3. f \in Mapped'
      BY <1>0, <1>d, <3>1
    <3> QED
      BY <1>c, <1>d, <2>1, <3>1, <3>2, <3>3 DEF IInv, ListInv, NothingElseWatched
  <2> QED
    BY <2>1, <2>2, <2>3, <2>4
<1>5. PolledList' /\ HonestPollin' /\ InboundOnlySurvives'
  BY <1>0, <1>e DEF IInv, ListInv, PolledList, HonestPollin, InboundOnlySurvives
<1> QED
  BY <1>1, <1>2, <1>3, <1>4, <1>5, <1>p DEF IInv, TableInv, ListInv

\* connect_to_peer extends the list, whatever the poll thread does with it.
LEMMA ConnectWatchesInv == IInv /\ ConnectWatches => IInv'
<1> SUFFICES ASSUME IInv, ConnectWatches PROVE IInv'
  OBVIOUS
<1> USE DEF ConnectWatches, AtUser, serverVars, kernelVars, pollVars, userVars
<1> DEFINE f == peers[joining].fd
<1>0. joining \in Made /\ peers[joining].outbound /\ f \in Fds
  <2>1. joining \in Made /\ peers[joining].outbound
    BY DEF IInv, TableInv, JoiningOpen
  <2> QED
    BY <2>1, PeerTypes DEF IInv, TableInv
<1>a. PICK garbage \in BOOLEAN : list' = Watched(f, garbage)
  OBVIOUS
<1> HIDE DEF f
<1>c. /\ list' \in Seq(PollFd) /\ list' # <<>>
      /\ Len(list) \in Nat /\ Len(list') = Len(list) + 1
      /\ \A k \in 1..Len(list) : list'[k] = list[k]
      /\ list'[Len(list')].fd = f
      /\ \A g \in Fds : Watches(g)' <=> Watches(g) \/ g = f
      /\ ServerFirst => ServerFirst'
  BY <1>0, <1>a, WatchedShape DEF IInv, TableInv
<1>e. /\ Made' = Made /\ ~NoOutbound /\ ~NoOutbound' /\ Mapped' = Mapped /\ Mapped \subseteq Fds
      /\ fate' \in {"ok", "undefined"}
  BY <1>0 DEF Made, NoOutbound, Mapped, Race
<1>1. TypeOK' /\ Bounded'
  BY <1>c, <1>e DEF IInv, TableInv, TypeOK, Bounded
<1>2. OpenOwns' /\ FiledMade' /\ NewcomerOpen' /\ JoiningOpen' /\ StopOrder' /\ NoneDead'
      /\ AcceptFresh'
  BY <1>e DEF IInv, TableInv, OpenOwns, FiledMade, NewcomerOpen, JoiningOpen, StopOrder,
     NoneDead, AcceptFresh
<1>3. OpenKnown' /\ Slots'
  BY <1>e DEF IInv, OpenKnown, Slots, Closable
<1>4. Removing' /\ ServerFirst' /\ InboundWatched' /\ NothingElseWatched'
  <2>2. ServerFirst'
    BY <1>c DEF IInv, ListInv
  <2>3. InboundWatched'
    BY <1>c, <1>e DEF IInv, ListInv, InboundWatched
  <2> QED
    BY <1>e, <2>2, <2>3 DEF IInv, ListInv, Removing, NothingElseWatched
<1>5. PolledList' /\ HonestPollin' /\ InboundOnlySurvives'
  BY <1>e DEF IInv, ListInv, PolledList, HonestPollin, InboundOnlySurvives
<1> QED
  BY <1>1, <1>2, <1>3, <1>4, <1>5 DEF IInv, TableInv, ListInv

\* connect_to_peer files its connection, or drops it if the descriptor is taken.
LEMMA ConnectFilesInv == IInv /\ ConnectFiles => IInv'
<1> SUFFICES ASSUME IInv, ConnectFiles PROVE IInv'
  OBVIOUS
<1> USE DEF ConnectFiles, AtUser, serverVars, pollVars, userVars
<1> DEFINE p == joining
           f == peers[joining].fd
<1>0. /\ p \in Made /\ p \in Conns /\ p # Nobody /\ f \in Fds /\ peers[p].open /\ peers[p].outbound
      /\ p # newcomer /\ (newcomer # Nobody => peers[newcomer].fd # f) /\ joining' = Nobody
      /\ \A g \in Fds : map[g] # p
  <2>1. /\ p # Nobody /\ p \in Made /\ peers[p].open /\ peers[p].outbound /\ p # newcomer
        /\ \A g \in Fds : map[g] # p
    BY DEF IInv, TableInv, NewcomerOpen, JoiningOpen
  <2>2. p \in Conns /\ f \in Fds
    BY <2>1, PeerTypes DEF IInv, TableInv
  <2>3. newcomer # Nobody => peers[newcomer].fd # f
    BY <2>1 DEF IInv, TableInv, NewcomerOpen, OpenOwns
  <2> QED
    BY <2>1, <2>2, <2>3
<1>b. map' = Filed(f, p)
  OBVIOUS
<1>f. fate' \in {"ok", "undefined"}
  BY DEF Race
<1> HIDE DEF p, f
<1>c. /\ peers' \in Seq(PeerRec) /\ Len(peers') = Len(peers)
      /\ owner' \in [Fds -> Conns \cup {Nobody}]
      /\ \A q \in Made :
           /\ peers'[q].fd = peers[q].fd /\ peers'[q].outbound = peers[q].outbound
           /\ peers'[q].remote = peers[q].remote
           /\ peers'[q].open => peers[q].open
           /\ q # p => peers'[q].open = peers[q].open
           /\ map[f] = Nobody => peers'[q].open = peers[q].open
           /\ q = p /\ map[f] # Nobody /\ peers'[q].open => ~Closable(q)
      /\ OpenOwns'
  <2>1. CASE map[f] = Nobody
    BY <2>1 DEF IInv, TableInv, TypeOK, OpenOwns, Made, f
  <2>2. CASE map[f] # Nobody
    <3>1. CloseSocks({p})
      BY <2>2 DEF p, f
    <3> QED
      BY <1>0, <2>2, <3>1, CloseOne DEF IInv, TableInv
  <2> QED
    BY <2>1, <2>2
<1>d. /\ map' \in [Fds -> Conns \cup {Nobody}]
      /\ Mapped \subseteq Fds /\ Mapped \subseteq Mapped'
      /\ \A g \in Mapped : map'[g] = map[g]
      /\ \A g \in Mapped' : g \in Mapped \/ (g = f /\ map[f] = Nobody /\ map'[g] = p)
      /\ map[f] = Nobody => f \in Mapped' /\ map'[f] = p
      /\ Cardinality(Mapped') <= Cardinality(Mapped) + 1
  <2>1. CASE map[f] = Nobody
    BY <1>0, <1>b, <2>1, FiledShape DEF IInv, TableInv, Mapped
  <2>2. CASE map[f] # Nobody
    <3>1. map' = map /\ Mapped' = Mapped /\ Mapped \subseteq Fds
      BY <1>b, <2>2 DEF Filed, Mapped
    <3> QED
      BY <2>2, <3>1, MappedFinite DEF IInv, TableInv, TypeOK
  <2> QED
    BY <2>1, <2>2
<1>e. Made' = Made /\ ~NoOutbound /\ ~NoOutbound'
  BY <1>0, <1>c DEF Made, NoOutbound
<1>g. /\ \A g \in Mapped : g \in Fds /\ map[g] \in Made /\ map[g] # p
      /\ \A g \in Fds : map'[g] # Nobody => g \in Mapped'
      /\ \A g \in Fds : map[g] # Nobody => g \in Mapped
  BY <1>0 DEF IInv, TableInv, FiledMade, Mapped
<1>1. TypeOK' /\ Bounded'
  BY <1>0, <1>c, <1>d, <1>f DEF IInv, TableInv, TypeOK, Bounded
<1>2. OpenOwns' /\ FiledMade' /\ NewcomerOpen' /\ JoiningOpen' /\ StopOrder' /\ NoneDead'
      /\ AcceptFresh'
  <2>1. FiledMade'
    BY <1>0, <1>c, <1>d, <1>e, <1>g DEF IInv, TableInv, FiledMade, p, f
  <2>2. NewcomerOpen' /\ JoiningOpen' /\ StopOrder'
    <3>1. \A g \in Fds : map'[g] = map[g] \/ map'[g] = p
      BY <1>0, <1>b DEF Filed, IInv, TableInv, TypeOK
    <3> QED
      BY <1>0, <1>c, <1>e, <3>1 DEF IInv, TableInv, NewcomerOpen, JoiningOpen, StopOrder
  <2>3. NoneDead'
    BY <1>0, <1>c, <1>d, <1>g DEF IInv, TableInv, NoneDead
  <2>4. AcceptFresh'
    <3>1. SUFFICES ASSUME newcomer # Nobody PROVE map'[peers'[newcomer].fd] = Nobody
      BY DEF AcceptFresh
    <3>2. newcomer \in Made /\ peers'[newcomer].fd = peers[newcomer].fd
          /\ peers[newcomer].fd \in Fds
      BY <1>c, <3>1, PeerTypes DEF IInv, TableInv, NewcomerOpen
    <3>3. peers[newcomer].fd \notin Mapped'
      BY <1>0, <1>d, <3>1, <3>2 DEF IInv, TableInv, AcceptFresh, Mapped
    <3> QED
      BY <1>g, <3>2, <3>3
  <2> QED
    BY <1>c, <2>1, <2>2, <2>3, <2>4
<1>3. OpenKnown' /\ Slots'
  <2>1. OpenKnown'
    <3>1. ASSUME NEW q \in Made, peers'[q].open
          PROVE  ~Closable(q)' \/ q \in {newcomer', joining'} \/ \E g \in Mapped' : map'[g] = q
      <4>1. peers[q].open /\ Closable(q)' = Closable(q)
        BY <1>c, <3>1 DEF Closable
      <4>2. ~Closable(q) \/ q \in {newcomer, p} \/ \E g \in Mapped : map[g] = q
        BY <4>1 DEF IInv, OpenKnown, p
      <4>3. q = p => ~Closable(q) \/ \E g \in Mapped' : map'[g] = q
        BY <1>c, <1>d, <3>1
      <4> QED
        BY <1>d, <4>1, <4>2, <4>3
    <3> QED
      BY <1>e, <3>1 DEF OpenKnown
  <2>2. Slots'
    BY <1>d, <1>e, MappedFinite, Numbers DEF IInv, Slots
  <2> QED
    BY <2>1, <2>2
<1>4. Removing' /\ ServerFirst' /\ InboundWatched' /\ NothingElseWatched'
  <2>1. Removing'
    <3>1. \A g \in toRemove : g \in Fds
      BY DEF IInv, TableInv, TypeOK
    <3>2. ASSUME NEW g \in toRemove, map'[g] # Nobody PROVE peers'[map'[g]].outbound
      <4>1. g \in Mapped \/ map'[g] = p
        BY <1>d, <1>g, <3>1, <3>2
      <4>2. CASE g \in Mapped
        BY <1>c, <1>d, <1>g, <4>2 DEF IInv, ListInv, Removing, Mapped
      <4> QED
        BY <1>0, <1>c, <4>1, <4>2
    <3> QED
      BY <3>2 DEF IInv, ListInv, Removing
  <2>2. InboundWatched'
    <3>1. SUFFICES ASSUME running, NEW g \in Mapped', peers'[map'[g]].open,
                          ~peers'[map'[g]].outbound
                   PROVE  Watches(g)
      BY DEF InboundWatched, Watches
    <3>2. g \in Mapped /\ map'[g] = map[g] /\ map[g] \in Made
      BY <1>0, <1>c, <1>d, <1>g, <3>1
    <3> QED
      BY <1>c, <3>1, <3>2 DEF IInv, ListInv, InboundWatched
  <2> QED
    BY <1>e, <2>1, <2>2 DEF IInv, ListInv, ServerFirst, NothingElseWatched
<1>5. PolledList' /\ HonestPollin' /\ InboundOnlySurvives'
  BY <1>e DEF IInv, ListInv, PolledList, HonestPollin, InboundOnlySurvives
<1> QED
  BY <1>1, <1>2, <1>3, <1>4, <1>5 DEF IInv, TableInv, ListInv

\* close_all_connections closes what is filed, and leaves it filed for a moment.
LEMMA CloseAllInv == IInv /\ CloseAll => IInv'
<1> SUFFICES ASSUME IInv, CloseAll PROVE IInv'
  OBVIOUS
<1> USE DEF CloseAll, AtUser, serverVars, tables, pollVars, userVars
<1>0. /\ ~running /\ joining = Nobody /\ fate' \in {"ok", "undefined"}
      /\ AllFiled \in SUBSET Made /\ (newcomer # Nobody => newcomer \notin AllFiled)
  <2>1. ~running /\ joining = Nobody
    BY DEF IInv, TableInv, StopOrder, JoiningOpen
  <2>2. AllFiled \in SUBSET Made
    BY DEF AllFiled, IInv, TableInv, FiledMade
  <2>3. newcomer # Nobody => newcomer \notin AllFiled
    BY DEF AllFiled, Mapped, IInv, TableInv, NewcomerOpen
  <2> QED
    BY <2>1, <2>2, <2>3 DEF Race
<1>c. /\ peers' \in Seq(PeerRec) /\ Len(peers') = Len(peers) /\ Made' = Made
      /\ \A q \in Made : /\ peers'[q].fd = peers[q].fd
                         /\ peers'[q].outbound = peers[q].outbound
                         /\ peers'[q].remote = peers[q].remote
                         /\ peers'[q].open <=>
                              peers[q].open /\ ~(q \in AllFiled /\ Closable(q))
      /\ owner' \in [Fds -> Conns \cup {Nobody}]
      /\ OpenOwns'
  BY <1>0, CloseShape DEF IInv, TableInv
<1>d. Mapped' = Mapped /\ NoOutbound' = NoOutbound
  BY <1>c DEF Mapped, NoOutbound
<1>g. \A g \in Mapped : g \in Fds /\ map[g] \in Made
  BY DEF IInv, TableInv, FiledMade, Mapped
<1>1. TypeOK' /\ Bounded'
  BY <1>0, <1>c DEF IInv, TableInv, TypeOK, Bounded
<1>2. FiledMade' /\ NewcomerOpen' /\ JoiningOpen' /\ StopOrder' /\ NoneDead' /\ AcceptFresh'
  <2>1. FiledMade'
    BY <1>c, <1>d, <1>g DEF IInv, TableInv, FiledMade
  <2>2. NewcomerOpen' /\ JoiningOpen'
    BY <1>0, <1>c DEF IInv, TableInv, NewcomerOpen, JoiningOpen
  <2> QED
    BY <1>0, <2>1, <2>2 DEF StopOrder, NoneDead, AcceptFresh
<1>3. OpenKnown' /\ Slots'
  <2>1. OpenKnown'
    <3>1. ASSUME NEW q \in Made, peers'[q].open PROVE ~Closable(q)' \/ q = newcomer
      <4>1. peers[q].open /\ Closable(q)' = Closable(q) /\ ~(q \in AllFiled /\ Closable(q))
        BY <1>c, <3>1 DEF Closable
      <4>2. ~Closable(q) \/ q = newcomer \/ q \in AllFiled
        BY <1>0, <4>1, PeerTypes DEF IInv, TableInv, OpenKnown, AllFiled
      <4> QED
        BY <4>1, <4>2
    <3> QED
      BY <1>c, <3>1 DEF OpenKnown
  <2>2. Slots'
    BY <1>d, MappedFinite, Numbers DEF IInv, Slots
  <2> QED
    BY <2>1, <2>2
<1>4. Removing' /\ ServerFirst' /\ InboundWatched' /\ NothingElseWatched'
  <2>1. \A g \in toRemove : g \in Fds
    BY DEF IInv, TableInv, TypeOK
  <2>2. \A g \in toRemove : map[g] # Nobody => g \in Mapped
    BY <2>1 DEF Mapped
  <2> QED
    BY <1>0, <1>c, <1>g, <2>2 DEF IInv, ListInv, Removing, ServerFirst, InboundWatched,
       NothingElseWatched
<1>5. PolledList' /\ HonestPollin' /\ InboundOnlySurvives'
  BY <1>0, <1>d DEF IInv, ListInv, PolledList, HonestPollin, InboundOnlySurvives
<1> QED
  BY <1>1, <1>2, <1>3, <1>4, <1>5, <1>c DEF IInv, TableInv, ListInv

\* Then it empties both tables, and what was filed meanwhile is closed.
LEMMA ClearTablesInv == IInv /\ ClearTables => IInv'
<1> SUFFICES ASSUME IInv, ClearTables PROVE IInv'
  OBVIOUS
<1> USE DEF ClearTables, AtUser, serverVars, pollVars, userVars
<1>0. /\ ~running /\ joining = Nobody /\ fate' \in {"ok", "undefined"}
      /\ AllFiled \in SUBSET Made /\ (newcomer # Nobody => newcomer \notin AllFiled) /\ Nobody \notin Made
      /\ \A f \in Fds : map'[f] = Nobody
      /\ map' \in [Fds -> Conns \cup {Nobody}]
  <2>1. ~running /\ joining = Nobody
    BY DEF IInv, TableInv, StopOrder, JoiningOpen
  <2>2. AllFiled \in SUBSET Made
    BY DEF AllFiled, IInv, TableInv, FiledMade
  <2>3. newcomer # Nobody => newcomer \notin AllFiled
    BY DEF AllFiled, Mapped, IInv, TableInv, NewcomerOpen
  <2> QED
    BY <2>1, <2>2, <2>3, PeerTypes DEF IInv, TableInv, Race
<1>c. /\ peers' \in Seq(PeerRec) /\ Len(peers') = Len(peers) /\ Made' = Made
      /\ \A q \in Made : /\ peers'[q].fd = peers[q].fd
                         /\ peers'[q].outbound = peers[q].outbound
                         /\ peers'[q].remote = peers[q].remote
                         /\ peers'[q].open <=>
                              peers[q].open /\ ~(q \in AllFiled /\ Closable(q))
      /\ owner' \in [Fds -> Conns \cup {Nobody}]
      /\ OpenOwns'
  BY <1>0, CloseShape DEF IInv, TableInv
<1>d. Mapped' = {} /\ NoOutbound' = NoOutbound
  BY <1>0, <1>c DEF Mapped, NoOutbound
<1>1. TypeOK' /\ Bounded'
  BY <1>0, <1>c DEF IInv, TableInv, TypeOK, Bounded
<1>2. FiledMade' /\ NewcomerOpen' /\ JoiningOpen' /\ StopOrder' /\ NoneDead' /\ AcceptFresh'
  <2>1. FiledMade' /\ StopOrder' /\ NoneDead'
    BY <1>0, <1>d DEF FiledMade, StopOrder, NoneDead
  <2>2. NewcomerOpen' /\ JoiningOpen'
    BY <1>0, <1>c, PeerTypes DEF IInv, TableInv, NewcomerOpen, JoiningOpen
  <2>3. AcceptFresh'
    <3>1. newcomer # Nobody => peers'[newcomer].fd \in Fds
      BY <1>c, PeerTypes DEF IInv, TableInv, NewcomerOpen
    <3> QED
      BY <1>0, <3>1 DEF AcceptFresh
  <2> QED
    BY <2>1, <2>2, <2>3
<1>3. OpenKnown' /\ Slots'
  <2>1. OpenKnown'
    <3>1. ASSUME NEW q \in Made, peers'[q].open PROVE ~Closable(q)' \/ q = newcomer
      <4>1. peers[q].open /\ Closable(q)' = Closable(q) /\ ~(q \in AllFiled /\ Closable(q))
        BY <1>c, <3>1 DEF Closable
      <4>2. ~Closable(q) \/ q = newcomer \/ q \in AllFiled
        BY <1>0, <4>1 DEF IInv, OpenKnown, AllFiled
      <4> QED
        BY <4>1, <4>2
    <3> QED
      BY <1>c, <3>1 DEF OpenKnown
  <2>2. Cardinality(Mapped') = 0
    BY <1>d, FS_EmptySet
  <2>3. Slots'
    BY <1>d, <2>2, Numbers DEF Slots
  <2> QED
    BY <2>1, <2>3
<1>4. Removing' /\ ServerFirst' /\ InboundWatched' /\ NothingElseWatched'
  <2>1. \A g \in toRemove : g \in Fds
    BY DEF IInv, TableInv, TypeOK
  <2> QED
    BY <1>0, <2>1 DEF IInv, ListInv, Removing, ServerFirst, InboundWatched, NothingElseWatched
<1>5. PolledList' /\ HonestPollin' /\ InboundOnlySurvives'
  BY <1>0, <1>d DEF IInv, ListInv, PolledList, HonestPollin, InboundOnlySurvives
<1> QED
  BY <1>1, <1>2, <1>3, <1>4, <1>5, <1>c DEF IInv, TableInv, ListInv
-----------------------------------------------------------------------------
(* The invariant is inductive *)

\* The constructor's state.
LEMMA InitInv == Init => IInv
<1> SUFFICES ASSUME Init PROVE IInv
  OBVIOUS
<1> USE DEF Init
<1>0. PICK garbage \in BOOLEAN : list = <<[fd |-> ListenFd, rev |-> garbage]>>
  OBVIOUS
<1>a. Made = {} /\ Mapped = {} /\ Len(peers) = 0
  BY DEF Made, Mapped
<1>b. /\ list \in Seq(PollFd) /\ list # <<>> /\ Len(list) = 1 /\ list[1].fd = ListenFd
  <2> DEFINE e == [fd |-> ListenFd, rev |-> garbage]
  <2>1. e \in PollFd /\ e.fd = ListenFd
    BY DEF PollFd
  <2>2. list = <<e>>
    BY <1>0
  <2> HIDE DEF e
  <2> QED
    BY <2>1, <2>2
<1>1. TypeOK /\ Bounded
  <2>1. Bounded
    BY <1>a, Numbers DEF Bounded
  <2>2. peers \in Seq(PeerRec) /\ polled \in Seq(Conns \cup {Nobody, Listener})
    OBVIOUS
  <2>3. owner \in [Fds -> Conns \cup {Nobody}] /\ map \in [Fds -> Conns \cup {Nobody}]
    OBVIOUS
  <2>4. /\ running \in BOOLEAN /\ listening \in BOOLEAN /\ crowded \in BOOLEAN
    BY Zenon
  <2>6. /\ backlog \in Nat /\ i \in Nat \ {0} /\ toRemove \subseteq Fds
        /\ newcomer \in Conns \cup {Nobody} /\ joining \in Conns \cup {Nobody}
    OBVIOUS
  <2>5. pollPc = "poll" /\ userPc = "idle" /\ fate = "ok"
    OBVIOUS
  <2> HIDE DEF Init
  <2> QED
    BY <1>b, <2>1, <2>2, <2>3, <2>4, <2>5, <2>6 DEF TypeOK
<1>2. OpenOwns /\ FiledMade /\ NewcomerOpen /\ JoiningOpen /\ StopOrder /\ NoneDead /\ AcceptFresh
  BY <1>a DEF OpenOwns, FiledMade, NewcomerOpen, JoiningOpen, StopOrder, NoneDead, AcceptFresh
<1>3. OpenKnown /\ Slots
  <2>1. Cardinality(Mapped) = 0
    BY <1>a, FS_EmptySet
  <2> QED
    BY <1>a, <2>1, Numbers DEF OpenKnown, Slots
<1>4. ListInv
  BY <1>a, <1>b DEF ListInv, Removing, ServerFirst, InboundWatched, NothingElseWatched, PolledList,
     HonestPollin, InboundOnlySurvives
<1> QED
  BY <1>1, <1>2, <1>3, <1>4 DEF IInv, TableInv

\* Nothing happens.
LEMMA StutterInv == IInv /\ UNCHANGED vars => IInv'
<1> SUFFICES ASSUME IInv, UNCHANGED vars PROVE IInv'
  OBVIOUS
<1> USE DEF vars, serverVars, kernelVars, tables, pollVars, userVars
<1>1. TypeOK' /\ Bounded'
  BY DEF IInv, TableInv, TypeOK, Bounded
<1>2. OpenOwns' /\ FiledMade' /\ NewcomerOpen' /\ JoiningOpen' /\ StopOrder' /\ NoneDead'
      /\ AcceptFresh'
  BY DEF IInv, TableInv, OpenOwns, FiledMade, NewcomerOpen, JoiningOpen, StopOrder,
     NoneDead, AcceptFresh, Made, Mapped
<1>3. OpenKnown' /\ Slots'
  BY DEF IInv, OpenKnown, Slots, Made, Mapped, Closable, NoOutbound
<1>4. Removing' /\ ServerFirst' /\ InboundWatched' /\ NothingElseWatched'
  BY DEF IInv, ListInv, Removing, ServerFirst, InboundWatched, NothingElseWatched, Made,
     Mapped, NoOutbound, Watches
<1>5. PolledList' /\ HonestPollin' /\ InboundOnlySurvives'
  BY DEF IInv, ListInv, PolledList, HonestPollin,
     InboundOnlySurvives, Made, NoOutbound
<1> QED
  BY <1>1, <1>2, <1>3, <1>4, <1>5 DEF IInv, TableInv, ListInv

\* Every step of every actor keeps the invariant.
LEMMA NextInv == IInv /\ [Next]_vars => IInv'
<1> SUFFICES ASSUME IInv, [Next]_vars PROVE IInv'
  OBVIOUS
<1>1. CASE UNCHANGED vars
  BY <1>1, StutterInv
<1>2. CASE Remote
  BY <1>2, RemoteConnectsInv, RemoteSendsInv, RemoteLeavesInv DEF Remote
<1>3. CASE PollThread
  BY <1>3, PollCallInv, PollReturnInv, ScanSkipInv, ScanClientInv, ScanEndsInv, ScanListenerInv,
     AcceptInv, AdoptInv, AcceptThrowsInv, SweepInv, SweepSkippedInv, UnwatchInv, PollExitsInv DEF PollThread
<1>4. CASE Connect
  BY <1>4, ConnectBeginsInv, ConnectSocketInv, ConnectSucceedsInv, ConnectFailsInv,
     ConnectWatchesInv, ConnectFilesInv DEF Connect
<1>5. CASE Stop
  BY <1>5, StopBeginsInv, CloseAllInv, ClearTablesInv, StopEndsInv DEF Stop
<1> QED
  BY <1>1, <1>2, <1>3, <1>4, <1>5 DEF Next
-----------------------------------------------------------------------------
(* The theorems *)

\* The invariant that all theorems of this module rest on.
THEOREM Inductive == Spec => []IInv
<1>1. Init => IInv
  BY InitInv
<1>2. IInv /\ [Next]_vars => IInv'
  BY NextInv
<1> QED
  BY <1>1, <1>2, PTL DEF Spec

\* The tables, the descriptors and the threads stay in their types: no
\* connection is numbered, and no descriptor given, beyond the bound.
THEOREM TypeCorrect == Spec => []TypeOK
<1>1. IInv => TypeOK
  BY DEF IInv, TableInv
<1> QED
  BY <1>1, Inductive, PTL

\* For every number of connections: while the server runs, its own socket is the
\* first entry of pollfd_list and the only entry of its kind.
THEOREM ServerIsFirst == Spec => []ServerFirst
<1>1. IInv => ServerFirst
  BY DEF IInv, ListInv
<1> QED
  BY <1>1, Inductive, PTL

\* No descriptor ever leads to a connection that is not the one whose socket has
\* it, though both threads file connections and the kernel uses numbers again.
THEOREM NeverMisdelivered == Spec => []KeyedBySocket
<1>1. IInv => KeyedBySocket
  BY DEF IInv, TableInv, FiledMade, OpenOwns, KeyedBySocket
<1> QED
  BY <1>1, Inductive, PTL

\* handle_new_client finds the descriptor of a new connection free, except between
\* the closes and the clear of stop's close_all_connections.
THEOREM AcceptFindsFree == Spec => []AcceptFresh
<1>1. IInv => AcceptFresh
  BY DEF IInv, TableInv
<1> QED
  BY <1>1, Inductive, PTL

\* The map passes its limits, whatever they are, by one connection that is
\* accepted, or two if connect_to_peer is used as well, and never by more.
THEOREM ConnectionsBounded == Spec => []ConnBound
<1>1. IInv => ConnBound
  <2>1. Cardinality(Mapped) \in Nat
    BY MappedFinite
  <2> QED
    BY <2>1, Numbers DEF IInv, Slots, ConnBound
<1> QED
  BY <1>1, Inductive, PTL

\* poll watches every open inbound connection that is filed, whatever numbers the
\* kernel uses again and whatever the sweeps remove from pollfd_list.
THEOREM InboundIsWatched == Spec => []InboundWatched
<1>1. IInv => InboundWatched
  BY DEF IInv, ListInv
<1> QED
  BY <1>1, Inductive, PTL

\* It watches nothing else, until a sweep finds two disconnected peers or somebody
\* connects out.
THEOREM NothingElseIsWatched == Spec => []NothingElseWatched
<1>1. IInv => NothingElseWatched
  BY DEF IInv, ListInv
<1> QED
  BY <1>1, Inductive, PTL

\* A server that connects to nobody is ended by an AcceptException in one case only:
\* stop has closed the server socket under a poll thread that is past its loop test.
THEOREM InboundOnlyEndsInStop == Spec => []InboundOnlySurvives
<1>1. IInv => InboundOnlySurvives
  BY DEF IInv, ListInv
<1> QED
  BY <1>1, Inductive, PTL

\* After close_all_connections every connection that is still open is one that
\* close_sock could not close, or one that the detached thread has adopted.
THEOREM StopCloses == Spec => []StopClosesFiled
<1>1. IInv => StopClosesFiled
  BY PeerTypes DEF IInv, TableInv, JoiningOpen, OpenKnown, StopClosesFiled
<1> QED
  BY <1>1, Inductive, PTL
=============================================================================
