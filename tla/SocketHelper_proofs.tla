------------------------- MODULE SocketHelper_proofs -------------------------
(***************************************************************************)
(* Proofs about the SocketHelpers of a process, for any number of threads, *)
(* sockets and descriptors: what close_sock, send_data and receive keep    *)
(* true when they interleave without a lock, and how much of it a race     *)
(* between them takes away.                                                *)
(***************************************************************************)
EXTENDS SocketHelper, FunctionTheorems, SequenceTheorems, TLAPS

(***************************************************************************)
(* The inductive invariant                                                 *)
(***************************************************************************)

\* In close_sock behind its first test; and between the reading of this->sock and
\* a system call.
InClose(t) == th[t].pc \in {"shut", "release", "store"}
HasRead(t) == th[t].pc \in {"sendcall", "recvcall", "shut", "release"}

\* The thread has the only shared_ptr to its peer: connect_to_peer and
\* handle_new_client before the insertion, and the destructor.
LastRef(t) ==
  \/ th[t].pc \in {"connect", "file"}
  \/ InClose(t) /\ th[t].ret \in {"free", "clear"}

\* The thread is in close_all_connections.
InStop(t) ==
  \/ th[t].pc \in {"stop", "clear"}
  \/ InClose(t) /\ th[t].ret \in {"stop", "clear"}

\* Each thread works on a socket that was made, in the code that is its own.
Roles ==
  \A t \in Threads :
    /\ th[t].pc \in {"idle", "stop", "clear"} <=> th[t].tgt = None
    /\ th[t].tgt # None => th[t].tgt \in Made
    /\ th[t].pc \in {"recvcall", "drop"} => t = Poll
    /\ t = Poll => th[t].pc \notin {"connect", "send", "sendcall", "stop", "clear"}
    /\ InClose(t) =>
         th[t].ret \in IF t = Poll THEN {"recv", "free"} ELSE {"stop", "free", "clear"}

\* Whoever has the last reference shares the peer with nobody but threads that
\* are sending, which have a plain reference.
Alone ==
  \A t \in Threads : LastRef(t) =>
    /\ th[t].tgt \notin filed /\ helper[th[t].tgt].life = "live"
    /\ \A u \in Threads : u # t /\ th[u].tgt = th[t].tgt => th[u].pc \in {"send", "sendcall"}

\* A peer that is not filed yet, or dropped by the running server, has no key.
Fresh ==
  /\ \A t \in Threads : th[t].pc \in {"connect", "file"} =>
       helper[th[t].tgt].open /\ key[th[t].tgt] = None
  /\ \A t \in Threads : th[t].pc = "connect" =>
       ~helper[th[t].tgt].init /\ (raced \/ th[t].tgt \notin shut)
  /\ \A t \in Threads : LastRef(t) /\ running => key[th[t].tgt] = None
  /\ \A h \in Socks : h \notin Made => key[h] = None
  /\ shut \subseteq Made

\* What is filed, and what the poll thread works on, is alive.
Alive ==
  /\ filed \subseteq Made /\ \A h \in filed : helper[h].life = "live"
  /\ th[Poll].tgt # None => helper[th[Poll].tgt].life = "live"
  /\ running /\ (th[Poll].pc \in {"recvcall", "drop"} \/ (InClose(Poll) /\ th[Poll].ret = "recv"))
       => th[Poll].tgt \in filed

\* stop runs once, on a server that has stopped, and empties the map at the end.
StopPhase ==
  /\ \A t \in Threads : InStop(t) => ~running /\ \A u \in Threads : InStop(u) => u = t
  /\ \A t \in Threads : InClose(t) /\ th[t].ret = "stop" => th[t].tgt \in filed
  /\ \A t \in Threads : th[t].pc = "clear" \/ (InClose(t) /\ th[t].ret = "clear") => todo = {}
  /\ todo \subseteq filed /\ (running => todo = {})

\* A descriptor belongs to the open helper that has its number, and only a closed
\* one has none.
Owned ==
  /\ \A f \in Fds : owner[f] # None =>
       owner[f] \in Made /\ helper[owner[f]].open /\ helper[owner[f]].sock = f
  /\ \A h \in Made : helper[h].open <=> helper[h].sock \in Fds

\* What a thread has read of this->sock is the socket's number still, unless the
\* socket was closed since; and without a race it leads to that socket.
Registers ==
  \A t \in Threads : HasRead(t) =>
    /\ th[t].reg \in Fds \cup {Closed}
    /\ helper[th[t].tgt].open => th[t].reg = helper[th[t].tgt].sock
    /\ raced \/ th[t].reg = Closed \/ Behind(th[t].reg) = th[t].tgt

\* Between close and the assignments the descriptor is free already.
StoreFree == \A t \in Threads : th[t].pc = "store" => \A f \in Fds : owner[f] # th[t].tgt

\* An initialised socket has been connected, and not been shut down.
Connected ==
  /\ \A h \in Made : helper[h].init => remote[h] # "new" /\ (raced \/ h \notin shut)
  /\ \A t \in Threads : LastRef(t) /\ th[t].pc = "shut" => helper[th[t].tgt].init

\* While the server runs, receive closes what has come to its end.
ClosedAtEnd ==
  /\ ~raced => \A t \in Threads : InClose(t) /\ th[t].ret = "recv" =>
       remote[th[t].tgt] \in {"fin", "rstseen"}
  /\ running /\ ~raced => \A h \in Made :
       helper[h].open \/ key[h] = None \/ remote[h] \in {"fin", "rstseen"}

\* A packet half sent is the last thing in its stream.
HalfSent ==
  \A t \in Threads : Sending(t) =>
    /\ th[t].op \in 1..Len(result) /\ result[th[t].op].tgt = th[t].tgt
    /\ th[t].put < PktLen
    /\ th[t].tgt \notin overlapped =>
         \A u \in Threads : Sending(u) /\ th[u].tgt = th[t].tgt => u = t
    /\ ~misled /\ th[t].tgt \notin overlapped /\ th[t].put > 0 =>
         LET sent == stream[th[t].tgt] IN
         sent # <<>> /\ sent[Len(sent)] = [op |-> th[t].op, k |-> th[t].put]

ThreadInv == Roles /\ Alone /\ Fresh /\ Alive /\ StopPhase
SocketInv == Owned /\ Registers /\ StoreFree /\ OpenOwnsSocket /\ MisledOnlyByRace
EndInv == Connected /\ ClosedAtEnd /\ LeakOnlyAfterReset /\ DroppedOnlyAtEnd
StreamInv == HalfSent /\ PacketsUnbroken

IInv == TypeOK /\ ThreadInv /\ SocketInv /\ EndInv /\ StreamInv

(***************************************************************************)
(* Types, and the end of the process                                       *)
(***************************************************************************)

\* No number stands for two things.
LEMMA Numbers ==
  /\ None \notin Socks /\ None \notin Fds /\ Closed \notin Fds /\ Closed # None
  /\ MaxSocks \in Nat /\ MaxFds \in Nat /\ MaxSends \in Nat /\ PktLen \in Nat /\ PktLen >= 1
  /\ Poll \in Threads /\ Poll \notin Users /\ Users \subseteq Threads
  /\ Connectors \subseteq Users /\ Stoppers \subseteq Users
BY SocketAssumption DEF None, Socks, Fds, Closed, Threads

\* The fields of what was made.
LEMMA Fields ==
  ASSUME TypeOK
  PROVE  /\ Len(helper) \in Nat /\ Len(helper) <= MaxSocks
         /\ Made \subseteq Socks /\ None \notin Made
         /\ \A h \in Made : /\ helper[h] \in HelperRec
                            /\ helper[h].sock \in Fds \cup {Closed}
                            /\ helper[h].open \in BOOLEAN /\ helper[h].init \in BOOLEAN
                            /\ helper[h].life \in {"live", "destroyed"}
         /\ \A t \in Threads : /\ th[t] \in ThreadRec
                               /\ th[t].tgt \in Socks \cup {None}
                               /\ th[t].reg \in Fds \cup {None, Closed}
                               /\ th[t].ret \in {"none", "recv", "stop", "free", "clear"}
                               /\ th[t].op \in 0..MaxSends /\ th[t].put \in 0..PktLen
                               /\ th[t].pc \in {"idle", "connect", "file", "send", "sendcall",
                                    "recvcall", "shut", "release", "store", "drop", "stop",
                                    "clear"}
<1>1. /\ Len(helper) \in Nat /\ Len(helper) <= MaxSocks
      /\ \A h \in Made : helper[h] \in HelperRec
      /\ \A t \in Threads : th[t] \in ThreadRec
  BY DEF TypeOK, Made
<1>2. Made \subseteq Socks
  BY <1>1, Numbers DEF Made, Socks
<1> QED
  BY <1>1, <1>2, Numbers DEF HelperRec, ThreadRec

\* One thread moves.
LEMMA Moved ==
  ASSUME TypeOK, NEW t \in Threads, NEW r \in ThreadRec, th' = [th EXCEPT ![t] = r]
  PROVE  /\ th' \in [Threads -> ThreadRec] /\ th'[t] = r
         /\ \A u \in Threads : u # t => th'[u] = th[u]
BY DEF TypeOK

\* One helper changes.
LEMMA Changed ==
  ASSUME TypeOK, NEW h \in Made, NEW r \in HelperRec
  PROVE  LET hs == [helper EXCEPT ![h] = r] IN
         /\ hs \in Seq(HelperRec) /\ Len(hs) = Len(helper)
         /\ \A g \in Made : hs[g] = IF g = h THEN r ELSE helper[g]
<1>1. helper \in Seq(HelperRec) /\ h \in 1..Len(helper)
  BY DEF TypeOK, Made
<1> QED
  BY <1>1, ExceptSeq DEF Made

\* Nothing is left to be wrong when the process has ended.
LEMMA EndsInv ==
  ASSUME IInv, NEW how \in {"exited", "terminated", "killed", "undefined"}, Ends(how),
         UNCHANGED raced, misled' \in BOOLEAN, misled' => raced
  PROVE  IInv'
<1> USE DEF Ends
<1>0. /\ Made' = {} /\ Len(helper') = 0 /\ Len(result') = 0
      /\ \A t \in Threads : th'[t] = Idle
      /\ \A t \in Threads : th'[t].pc = "idle" /\ th'[t].tgt = None
      /\ \A f \in Fds : owner'[f] = None
      /\ \A s \in Socks : stream'[s] = <<>> /\ key'[s] = None /\ Len(stream'[s]) = 0
  BY DEF Made, Idle
<1>1. TypeOK'
  <2>1. Idle \in ThreadRec
    BY Numbers DEF Idle, ThreadRec, None
  <2>2. helper' \in Seq(HelperRec) /\ result' \in Seq(ResultRec)
    OBVIOUS
  <2>3. stream' \in [Socks -> Seq(Piece)]
    OBVIOUS
  <2>4. th' \in [Threads -> ThreadRec]
    BY <2>1
  <2>5. /\ remote' \in [Socks -> {"new", "up", "fin", "rst", "rstseen"}]
        /\ owner' \in [Fds -> Socks \cup {None}] /\ key' \in [Socks -> Fds \cup {None, Closed}]
    OBVIOUS
  <2>6. raced' \in BOOLEAN
    BY DEF IInv, TypeOK
  <2>7. running' \in BOOLEAN /\ swept' \in BOOLEAN
    BY Zenon
  <2>8. /\ shut' \subseteq Socks /\ filed' \subseteq Socks /\ todo' \subseteq Socks
        /\ overlapped' \subseteq Socks /\ fate' = how
    OBVIOUS
  <2> HIDE DEF Ends
  <2> QED
    BY <1>0, <2>2, <2>3, <2>4, <2>5, <2>6, <2>7, <2>8, Numbers DEF TypeOK
<1>2. ThreadInv'
  BY <1>0, Numbers DEF ThreadInv, Roles, Alone, Fresh, Alive, StopPhase, LastRef, InClose, InStop
<1>3. SocketInv'
  BY <1>0 DEF SocketInv, Owned, Registers, StoreFree, OpenOwnsSocket, MisledOnlyByRace, HasRead
<1>4. EndInv'
  BY <1>0 DEF EndInv, Connected, ClosedAtEnd, LeakOnlyAfterReset, DroppedOnlyAtEnd, LastRef, InClose
<1>5. StreamInv'
  BY <1>0 DEF StreamInv, HalfSent, PacketsUnbroken, Sending
<1> QED
  BY <1>1, <1>2, <1>3, <1>4, <1>5 DEF IInv

(***************************************************************************)
(* close_sock: the call                                                    *)
(***************************************************************************)

\* A call of close_sock on h, or its way back to the caller that ret names: who may
\* make it, and what it leaves alone.
CloseCall(t, h, ret) ==
  /\ t \in Threads /\ h \in Made /\ helper[h].life = "live"
  /\ ret \in {"recv", "stop", "free", "clear"}
  /\ ret = "recv" => t = Poll /\ th[t].tgt = h /\ (running => h \in filed)
                     /\ (raced \/ remote[h] \in {"fin", "rstseen"})
  /\ ret = "stop" => t # Poll /\ InStop(t) /\ h \in filed
  /\ ret = "free" => (running => key[h] = None)
  /\ ret = "clear" => t # Poll /\ InStop(t) /\ todo = {}
  /\ ret \in {"free", "clear"} =>
       /\ h \notin filed'
       /\ \A u \in Threads : u # t /\ th[u].tgt = h => th[u].pc \in {"send", "sendcall"}
  /\ UNCHANGED <<remote, shut, owner, key, running, swept, stream, result, overlapped, fate>>
  /\ filed' \subseteq filed /\ (ret # "clear" => filed' = filed)
  /\ todo' \subseteq todo /\ todo' \subseteq filed'
  /\ misled' \in BOOLEAN /\ (misled => misled') /\ (misled' => raced')

\* A thread back in the caller of close_sock.
LEMMA ResumedFields ==
  ASSUME NEW h \in Socks, NEW ret \in {"recv", "stop", "free", "clear"}
  PROVE  /\ Resumed(h, ret) \in ThreadRec
         /\ Resumed(h, ret).tgt = IF ret = "recv" THEN h ELSE None
         /\ Resumed(h, ret).pc = IF ret = "recv" THEN "drop" ELSE IF ret = "stop" THEN "stop"
                                 ELSE IF ret = "free" THEN "idle" ELSE "clear"
<1>1. Idle \in ThreadRec
  BY Numbers DEF Idle, ThreadRec, None
<1>2. CASE ret = "recv"
  BY <1>1, <1>2 DEF Resumed, ThreadRec
<1>3. CASE ret = "stop"
  BY <1>1, <1>3 DEF Resumed, ThreadRec
<1>4. CASE ret = "free"
  BY <1>1, <1>4 DEF Resumed, ThreadRec
<1>5. CASE ret = "clear"
  BY <1>1, <1>5 DEF Resumed, ThreadRec
<1> QED
  BY <1>2, <1>3, <1>4, <1>5

\* What the helpers are when close_sock is over.
LEMMA AfterClose ==
  ASSUME TypeOK, NEW h \in Made, NEW ret \in {"recv", "stop", "free", "clear"},
         NEW hs, hs = helper \/ hs = Stored(h), helper' = Outlived(hs, h, ret)
  PROVE  /\ helper' \in Seq(HelperRec) /\ Len(helper') = Len(helper) /\ Made' = Made
         /\ \A g \in Made : g # h => helper'[g] = helper[g]
         /\ helper'[h].init = helper[h].init
         /\ helper'[h].life = IF ret \in {"free", "clear"} THEN "destroyed" ELSE helper[h].life
         /\ hs = helper => helper'[h].sock = helper[h].sock /\ helper'[h].open = helper[h].open
         /\ hs = Stored(h) => helper'[h].sock = Closed /\ helper'[h].open = FALSE
<1> DEFINE r == [helper[h] EXCEPT !.sock = Closed, !.open = FALSE]
<1>1. r \in HelperRec /\ r.sock = Closed /\ r.open = FALSE /\ r.init = helper[h].init
      /\ r.life = helper[h].life
  BY Fields DEF HelperRec
<1>2. Stored(h) = [helper EXCEPT ![h] = r]
  BY Fields DEF Stored, TypeOK
<1> HIDE DEF r
<1>3. /\ hs \in Seq(HelperRec) /\ Len(hs) = Len(helper)
      /\ \A g \in Made : g # h => hs[g] = helper[g]
      /\ hs[h].init = helper[h].init /\ hs[h].life = helper[h].life
      /\ hs = helper => hs[h].sock = helper[h].sock /\ hs[h].open = helper[h].open
      /\ hs = Stored(h) => hs[h].sock = Closed /\ hs[h].open = FALSE
      /\ hs[h] \in HelperRec
  <2>1. CASE hs = Stored(h)
    <3>0. hs = [helper EXCEPT ![h] = r] /\ r \in HelperRec
      BY <1>1, <1>2, <2>1
    <3>1. /\ hs \in Seq(HelperRec) /\ Len(hs) = Len(helper)
          /\ \A g \in Made : hs[g] = IF g = h THEN r ELSE helper[g]
      BY <3>0, Changed
    <3>2. hs[h] = r
      BY <3>1
    <3>3. hs = helper => helper[h] = r
      BY <3>2
    <3> QED
      BY <1>1, <3>1, <3>2, <3>3
  <2>2. CASE hs = helper /\ hs # Stored(h)
    BY <2>2, Fields DEF TypeOK
  <2> QED
    BY <2>1, <2>2
<1>4. CASE ret \in {"free", "clear"}
  <2> DEFINE d == [hs[h] EXCEPT !.life = "destroyed"]
  <2>1. d \in HelperRec /\ d.sock = hs[h].sock /\ d.open = hs[h].open /\ d.init = hs[h].init
        /\ d.life = "destroyed"
    BY <1>3 DEF HelperRec
  <2>2. helper' = [hs EXCEPT ![h] = d] /\ h \in 1..Len(hs)
    BY <1>3, <1>4 DEF Outlived, Made
  <2> HIDE DEF d
  <2>3. helper' \in Seq(HelperRec) /\ Len(helper') = Len(hs)
        /\ \A g \in 1..Len(hs) : helper'[g] = IF g = h THEN d ELSE hs[g]
    BY <1>3, <2>1, <2>2, ExceptSeq
  <2> QED
    BY <1>3, <1>4, <2>1, <2>3 DEF Made
<1>5. CASE ret \notin {"free", "clear"}
  BY <1>3, <1>5 DEF Outlived, Made
<1> QED
  BY <1>4, <1>5

\* close_sock is entered on an open socket.
LEMMA EnterInv ==
  ASSUME IInv, NEW t, NEW h, NEW ret, CloseCall(t, h, ret), th[t].pc # "store",
         helper[h].open, Close(t, h, ret)
  PROVE  IInv'
<1> DEFINE r == [Idle EXCEPT !.pc = IF helper[h].init THEN "shut" ELSE "release",
                             !.tgt = h, !.reg = helper[h].sock, !.ret = ret]
<1>0. t \in Threads /\ h \in Made /\ ret \in {"recv", "stop", "free", "clear"} /\ h \in Socks
      /\ h # None
  BY Fields, Numbers DEF CloseCall, IInv
<1>r. /\ r \in ThreadRec /\ r.tgt = h /\ r.reg = helper[h].sock /\ r.ret = ret
      /\ r.pc = IF helper[h].init THEN "shut" ELSE "release"
  <2>1. Idle \in ThreadRec
    BY Numbers DEF Idle, ThreadRec, None
  <2>2. helper[h].sock \in Fds \cup {None, Closed}
    BY <1>0, Fields DEF IInv
  <2> QED
    BY <1>0, <2>1, <2>2 DEF ThreadRec
<1>c. th' = [th EXCEPT ![t] = r] /\ Reads(t, h) /\ helper' = helper
  BY DEF Close
<1> HIDE DEF r
<1>t. /\ th' \in [Threads -> ThreadRec] /\ th'[t] = r
      /\ \A u \in Threads : u # t => th'[u] = th[u]
  BY <1>0, <1>r, <1>c, Moved DEF IInv
<1>m. Made' = Made /\ raced' \in BOOLEAN /\ (raced => raced') /\ helper[h].sock \in Fds
  BY <1>0, <1>c DEF Made, Reads, IInv, TypeOK, SocketInv, Owned
<1>n. ~raced' => \A u \in Threads : u # t /\ th[u].tgt = h => th[u].pc # "store"
  BY <1>c DEF Reads
<1>s. /\ InClose(t)' /\ th'[t].pc \in {"shut", "release"} /\ th'[t].tgt = h /\ th'[t].ret = ret
      /\ (LastRef(t)' <=> ret \in {"free", "clear"})
      /\ (InStop(t)' <=> ret \in {"stop", "clear"})
      /\ th'[t].reg = helper[h].sock
  BY <1>r, <1>t DEF InClose, LastRef, InStop
<1>u. \A u \in Threads : u # t =>
        /\ th'[u] = th[u] /\ (InClose(u)' <=> InClose(u)) /\ (LastRef(u)' <=> LastRef(u))
        /\ (InStop(u)' <=> InStop(u)) /\ (HasRead(u)' <=> HasRead(u))
        /\ (Sending(u)' <=> Sending(u))
  BY <1>t DEF InClose, LastRef, InStop, HasRead, Sending
<1>1. TypeOK'
  BY <1>c, <1>t, <1>m DEF IInv, TypeOK, CloseCall
<1>2. ThreadInv'
  <2>1. Roles'
    BY <1>0, <1>m, <1>s, <1>u DEF IInv, ThreadInv, Roles, CloseCall
  <2>2. Alone'
    <3>1. ASSUME NEW u \in Threads, u # t, LastRef(u) PROVE th[u].tgt # h /\ th[u].tgt \notin filed'
      <4>1. th[u].tgt \notin filed /\ th[u].pc \notin {"send", "sendcall"}
        BY <3>1 DEF IInv, ThreadInv, Alone, LastRef, InClose
      <4>2. CASE ret = "recv"
        BY <1>0, <3>1, <4>1, <4>2 DEF IInv, ThreadInv, Roles, Alone, CloseCall
      <4>3. CASE ret # "recv"
        BY <1>0, <3>1, <4>1, <4>3 DEF CloseCall
      <4> QED
        BY <4>1, <4>2, <4>3 DEF CloseCall
    <3>2. ASSUME NEW u \in Threads, u # t, LastRef(u)
          PROVE  /\ th'[u].tgt \notin filed' /\ helper'[th'[u].tgt].life = "live"
                 /\ \A w \in Threads : w # u /\ th'[w].tgt = th'[u].tgt =>
                      th'[w].pc \in {"send", "sendcall"}
      BY <1>c, <1>s, <1>u, <3>1, <3>2 DEF IInv, ThreadInv, Alone
    <3>3. ret \in {"free", "clear"} =>
                 /\ th'[t].tgt \notin filed' /\ helper'[th'[t].tgt].life = "live"
                 /\ \A w \in Threads : w # t /\ th'[w].tgt = th'[t].tgt =>
                      th'[w].pc \in {"send", "sendcall"}
      BY <1>c, <1>s, <1>u DEF CloseCall
    <3> QED
      BY <1>s, <1>u, <3>2, <3>3 DEF Alone
  <2>3. Fresh'
    <3>1. ret \in {"free", "clear"} /\ running => key[h] = None
      BY <1>0 DEF IInv, ThreadInv, StopPhase, CloseCall
    <3> QED
      BY <1>0, <1>c, <1>m, <1>s, <1>u, <3>1 DEF IInv, ThreadInv, Fresh, CloseCall
  <2>4. Alive'
    BY <1>0, <1>c, <1>m, <1>s, <1>u, Numbers DEF IInv, ThreadInv, Alive, CloseCall, StopPhase
  <2>5. StopPhase'
    <3>1. InStop(t)' => InStop(t) /\ ~running
      BY <1>0, <1>s DEF IInv, ThreadInv, StopPhase, CloseCall
    <3>2. \A u \in Threads : InStop(u)' =>
            ~running' /\ \A w \in Threads : InStop(w)' => w = u
      BY <1>u, <3>1 DEF IInv, ThreadInv, StopPhase, CloseCall
    <3>3. \A u \in Threads : InClose(u)' /\ th'[u].ret = "stop" => th'[u].tgt \in filed'
      <4>1. SUFFICES ASSUME NEW u \in Threads, u # t, InClose(u), th[u].ret = "stop"
                     PROVE  th[u].tgt \in filed'
        BY <1>s, <1>u DEF CloseCall
      <4>2. th[u].tgt \in filed /\ InStop(u)
        BY <4>1 DEF IInv, ThreadInv, StopPhase, InStop
      <4>3. ret # "clear"
        BY <1>0, <4>1, <4>2 DEF IInv, ThreadInv, StopPhase, CloseCall
      <4> QED
        BY <4>2, <4>3 DEF CloseCall
    <3>4. \A u \in Threads : th'[u].pc = "clear" \/ (InClose(u)' /\ th'[u].ret = "clear") =>
            todo' = {}
      BY <1>s, <1>u DEF IInv, ThreadInv, StopPhase, CloseCall
    <3>5. todo' \subseteq filed' /\ (running' => todo' = {})
      BY DEF IInv, ThreadInv, StopPhase, CloseCall
    <3> QED
      BY <3>2, <3>3, <3>4, <3>5 DEF StopPhase
  <2> QED
    BY <2>1, <2>2, <2>3, <2>4, <2>5 DEF ThreadInv
<1>3. SocketInv'
  <2>1. Owned'
    BY <1>c, <1>m DEF IInv, SocketInv, Owned, CloseCall
  <2>2. OpenOwnsSocket'
    BY <1>c, <1>m, <1>u DEF IInv, SocketInv, OpenOwnsSocket, Closing, CloseCall, Behind
  <2>3. Registers'
    <3>1. ~raced' => Behind(helper[h].sock) = h
      BY <1>0, <1>m, <1>n DEF IInv, SocketInv, OpenOwnsSocket, Closing
    <3> QED
      BY <1>c, <1>m, <1>s, <1>u, <3>1 DEF IInv, SocketInv, Registers, CloseCall, Behind
  <2>4. StoreFree' /\ MisledOnlyByRace'
    BY <1>s, <1>u DEF IInv, SocketInv, StoreFree, MisledOnlyByRace, CloseCall
  <2> QED
    BY <2>1, <2>2, <2>3, <2>4 DEF SocketInv
<1>4. EndInv'
  <2>1. Connected'
    BY <1>c, <1>m, <1>r, <1>s, <1>t, <1>u DEF IInv, EndInv, Connected, CloseCall
  <2>2. ClosedAtEnd'
    BY <1>c, <1>m, <1>s, <1>u DEF IInv, EndInv, ClosedAtEnd, CloseCall
  <2>3. LeakOnlyAfterReset' /\ DroppedOnlyAtEnd'
    BY <1>c, <1>m DEF IInv, EndInv, LeakOnlyAfterReset, DroppedOnlyAtEnd, CloseCall
  <2> QED
    BY <2>1, <2>2, <2>3 DEF EndInv
<1>5. StreamInv'
  <2>1. ~Sending(t)'
    BY <1>s DEF Sending
  <2>2. HalfSent'
    BY <1>u, <2>1 DEF IInv, StreamInv, HalfSent, CloseCall
  <2>3. PacketsUnbroken'
    BY DEF IInv, StreamInv, PacketsUnbroken, CloseCall
  <2> QED
    BY <2>2, <2>3 DEF StreamInv
<1> QED
  BY <1>1, <1>2, <1>3, <1>4, <1>5 DEF IInv

(***************************************************************************)
(* close_sock: the return                                                  *)
(***************************************************************************)

\* close_sock is over, or found nothing to do, and its caller goes on.
LEMMA ReturnInv ==
  ASSUME IInv, NEW t, NEW h, NEW ret, CloseCall(t, h, ret), NEW hs,
         \/ hs = helper /\ th[t].pc # "store"
         \/ hs = Stored(h) /\ th[t].pc = "store" /\ th[t].tgt = h /\ th[t].ret = ret,
         ret \in {"free", "clear"} =>
           \/ raced
           \/ \A f \in Fds : owner[f] # h
           \/ helper[h].init /\ remote[h] \in {"rst", "rstseen"},
         th' = [th EXCEPT ![t] = Resumed(h, ret)], helper' = Outlived(hs, h, ret),
         UNCHANGED raced
  PROVE  IInv'
<1> DEFINE r == Resumed(h, ret)
<1>0. t \in Threads /\ h \in Made /\ ret \in {"recv", "stop", "free", "clear"} /\ h \in Socks
      /\ h # None
  BY Fields, Numbers DEF CloseCall, IInv
<1>r. /\ r \in ThreadRec /\ r.tgt = (IF ret = "recv" THEN h ELSE None)
      /\ r.pc = IF ret = "recv" THEN "drop" ELSE IF ret = "stop" THEN "stop"
                ELSE IF ret = "free" THEN "idle" ELSE "clear"
  BY <1>0, ResumedFields
<1>t. /\ th' \in [Threads -> ThreadRec] /\ th'[t] = r
      /\ \A u \in Threads : u # t => th'[u] = th[u]
  BY <1>0, <1>r, Moved DEF IInv
<1>c. /\ helper' \in Seq(HelperRec) /\ Len(helper') = Len(helper) /\ Made' = Made
      /\ \A g \in Made : g # h => helper'[g] = helper[g]
      /\ helper'[h].init = helper[h].init
      /\ helper'[h].life = (IF ret \in {"free", "clear"} THEN "destroyed" ELSE helper[h].life)
      /\ hs = helper => helper'[h].sock = helper[h].sock /\ helper'[h].open = helper[h].open
      /\ hs = Stored(h) => helper'[h].sock = Closed /\ helper'[h].open = FALSE
  BY <1>0, AfterClose DEF IInv
<1>i. \A g \in Made : helper'[g].init = helper[g].init
  BY <1>c
<1>o. \A g \in Made : /\ helper'[g].open => helper[g].open /\ helper'[g].sock = helper[g].sock
                      /\ hs = helper => helper'[g].open = helper[g].open
                                        /\ helper'[g].sock = helper[g].sock
                      /\ g # h => helper'[g].open = helper[g].open
                                        /\ helper'[g].sock = helper[g].sock
  BY <1>c
<1>h. (hs = helper /\ th[t].pc # "store")
      \/ (th[t].pc = "store" /\ th[t].tgt = h /\ th[t].ret = ret /\ InClose(t)
                       /\ helper'[h].sock = Closed /\ helper'[h].open = FALSE)
  BY <1>c DEF InClose
<1> HIDE DEF r
<1>s. /\ ~InClose(t)' /\ ~LastRef(t)' /\ ~HasRead(t)' /\ ~Sending(t)'
      /\ (InStop(t)' <=> ret \in {"stop", "clear"})
      /\ th'[t].pc # "store"
  BY <1>0, <1>r, <1>t DEF InClose, LastRef, InStop, HasRead, Sending
<1>u. \A u \in Threads : u # t =>
        /\ th'[u] = th[u] /\ (InClose(u)' <=> InClose(u)) /\ (LastRef(u)' <=> LastRef(u))
        /\ (InStop(u)' <=> InStop(u)) /\ (HasRead(u)' <=> HasRead(u))
        /\ (Sending(u)' <=> Sending(u))
  BY <1>t DEF InClose, LastRef, InStop, HasRead, Sending
<1>a. \A u \in Threads : u # t /\ LastRef(u) =>
        th[u].tgt # h /\ th[u].tgt \notin filed' /\ th[u].tgt \in Made
  <2>1. ASSUME NEW u \in Threads, u # t, LastRef(u)
        PROVE  th[u].tgt # h /\ th[u].tgt \notin filed' /\ th[u].tgt \in Made
    <3>1. th[u].tgt \notin filed /\ th[u].pc \notin {"send", "sendcall"} /\ th[u].tgt \in Made
      BY <2>1 DEF IInv, ThreadInv, Roles, Alone, LastRef, InClose
    <3>2. CASE ret = "recv"
      BY <1>0, <2>1, <3>1, <3>2 DEF IInv, ThreadInv, Roles, Alone, CloseCall
    <3>3. CASE ret # "recv"
      BY <1>0, <2>1, <3>1, <3>3 DEF CloseCall
    <3> QED
      BY <3>1, <3>2, <3>3 DEF CloseCall
  <2> QED
    BY <2>1
<1>1. TypeOK'
  BY <1>c, <1>t DEF IInv, TypeOK, CloseCall
<1>2. ThreadInv'
  <2>1. Roles'
    BY <1>0, <1>c, <1>r, <1>s, <1>t, <1>u DEF IInv, ThreadInv, Roles, CloseCall
  <2>2. Alone'
    <3>1. ASSUME NEW u \in Threads, u # t, LastRef(u)
          PROVE  /\ th'[u].tgt \notin filed' /\ helper'[th'[u].tgt].life = "live"
                 /\ \A w \in Threads : w # u /\ th'[w].tgt = th'[u].tgt =>
                      th'[w].pc \in {"send", "sendcall"}
      <4>1. helper[th[u].tgt].life = "live" /\ helper'[th[u].tgt] = helper[th[u].tgt]
        BY <1>a, <1>c, <3>1 DEF IInv, ThreadInv, Alone
      <4>2. th'[t].tgt # th[u].tgt
        BY <1>a, <1>r, <1>t, <3>1, Fields DEF IInv
      <4> QED
        BY <1>a, <1>u, <3>1, <4>1, <4>2 DEF IInv, ThreadInv, Alone
    <3> QED
      BY <1>s, <1>u, <3>1 DEF Alone
  <2>3. Fresh'
    <3>1. ASSUME NEW u \in Threads, th'[u].pc \in {"connect", "file"}
          PROVE  /\ helper'[th'[u].tgt].open /\ key'[th'[u].tgt] = None
                 /\ th'[u].pc = "connect" =>
                      ~helper'[th'[u].tgt].init /\ (raced' \/ th'[u].tgt \notin shut')
      <4>1. u # t /\ LastRef(u)
        BY <1>s, <1>u, <3>1 DEF LastRef
      <4>2. helper'[th[u].tgt] = helper[th[u].tgt]
        BY <1>a, <1>c, <4>1
      <4> QED
        BY <1>u, <3>1, <4>1, <4>2 DEF IInv, ThreadInv, Fresh, CloseCall
    <3>2. \A u \in Threads : LastRef(u)' /\ running' => key'[th'[u].tgt] = None
      BY <1>s, <1>u DEF IInv, ThreadInv, Fresh, CloseCall
    <3> QED
      BY <1>c, <3>1, <3>2 DEF IInv, ThreadInv, Fresh, CloseCall
  <2>4. Alive'
    <3>1. ~(ret \in {"free", "clear"}) => \A g \in Made : helper'[g].life = helper[g].life
      BY <1>c
    <3>2. filed' \subseteq Made /\ \A g \in filed' : helper'[g].life = "live"
      BY <1>c, <3>1 DEF IInv, ThreadInv, Alive, CloseCall
    <3>3. th'[Poll].tgt # None => helper'[th'[Poll].tgt].life = "live"
      <4>1. CASE t = Poll
        BY <1>c, <1>r, <1>t, <4>1 DEF CloseCall
      <4>2. CASE t # Poll /\ th[Poll].tgt # None
        <5>1. th'[Poll] = th[Poll] /\ th[Poll].pc \notin {"send", "sendcall"}
              /\ th[Poll].tgt \in Made
          BY <1>u, <4>2, Numbers DEF IInv, ThreadInv, Roles
        <5>2. ret \in {"free", "clear"} => th[Poll].tgt # h
          BY <4>2, <5>1, Numbers DEF CloseCall
        <5> QED
          BY <1>c, <3>1, <4>2, <5>1, <5>2 DEF IInv, ThreadInv, Alive
      <4> QED
        BY <1>u, <4>1, <4>2, Numbers
    <3>4. running' /\ (th'[Poll].pc \in {"recvcall", "drop"}
                        \/ (InClose(Poll)' /\ th'[Poll].ret = "recv"))
            => th'[Poll].tgt \in filed'
      <4>1. running' => running /\ filed' = filed
        BY <1>0 DEF IInv, ThreadInv, StopPhase, CloseCall
      <4>2. CASE t = Poll
        BY <1>0, <1>r, <1>s, <1>t, <4>1, <4>2 DEF CloseCall
      <4>3. CASE t # Poll
        BY <1>u, <4>1, <4>3, Numbers DEF IInv, ThreadInv, Alive
      <4> QED
        BY <4>2, <4>3
    <3> QED
      BY <1>c, <3>2, <3>3, <3>4 DEF Alive
  <2>5. StopPhase'
    <3>1. InStop(t)' => InStop(t) /\ ~running
      BY <1>0, <1>s DEF IInv, ThreadInv, StopPhase, CloseCall
    <3>2. \A u \in Threads : InStop(u)' =>
            ~running' /\ \A w \in Threads : InStop(w)' => w = u
      BY <1>u, <3>1 DEF IInv, ThreadInv, StopPhase, CloseCall
    <3>3. \A u \in Threads : InClose(u)' /\ th'[u].ret = "stop" => th'[u].tgt \in filed'
      <4>1. SUFFICES ASSUME NEW u \in Threads, u # t, InClose(u), th[u].ret = "stop"
                     PROVE  th[u].tgt \in filed'
        BY <1>s, <1>u DEF CloseCall
      <4>2. th[u].tgt \in filed /\ InStop(u)
        BY <4>1 DEF IInv, ThreadInv, StopPhase, InStop
      <4>3. ret # "clear"
        BY <1>0, <4>1, <4>2 DEF IInv, ThreadInv, StopPhase, CloseCall
      <4> QED
        BY <4>2, <4>3 DEF CloseCall
    <3>4. \A u \in Threads : th'[u].pc = "clear" \/ (InClose(u)' /\ th'[u].ret = "clear") =>
            todo' = {}
      BY <1>0, <1>r, <1>t, <1>s, <1>u DEF IInv, ThreadInv, StopPhase, CloseCall
    <3>5. todo' \subseteq filed' /\ (running' => todo' = {})
      BY DEF IInv, ThreadInv, StopPhase, CloseCall
    <3> QED
      BY <3>2, <3>3, <3>4, <3>5 DEF StopPhase
  <2> QED
    BY <2>1, <2>2, <2>3, <2>4, <2>5 DEF ThreadInv
<1>3. SocketInv'
  <2>1. Owned'
    <3>1. ASSUME NEW f \in Fds, owner[f] # None
          PROVE  owner[f] \in Made /\ helper'[owner[f]].open /\ helper'[owner[f]].sock = f
      <4>1. owner[f] \in Made /\ helper[owner[f]].open /\ helper[owner[f]].sock = f
        BY <3>1 DEF IInv, SocketInv, Owned
      <4>2. hs = helper \/ owner[f] # h
        BY <1>0, <1>h DEF IInv, SocketInv, StoreFree
      <4> QED
        BY <1>o, <4>1, <4>2
    <3>2. \A g \in Made : helper'[g].open <=> helper'[g].sock \in Fds
      <4>1. SUFFICES ASSUME NEW g \in Made PROVE helper'[g].open <=> helper'[g].sock \in Fds
        OBVIOUS
      <4>2. helper[g].open <=> helper[g].sock \in Fds
        BY DEF IInv, SocketInv, Owned
      <4>3. CASE hs = helper \/ g # h
        BY <1>o, <4>2, <4>3
      <4>4. CASE hs # helper /\ g = h
        BY <1>h, <4>4, Numbers
      <4> QED
        BY <4>3, <4>4
    <3> QED
      BY <1>c, <3>1, <3>2 DEF Owned, CloseCall
  <2>2. OpenOwnsSocket'
    <3>1. ASSUME NEW g \in Made, helper'[g].open, ~raced
          PROVE  Closing(g)' \/ Behind(helper[g].sock)' = g
      <4>1. Closing(g) \/ Behind(helper[g].sock) = g
        <5>1. helper[g].open /\ ~raced
          BY <1>o, <3>1
        <5> QED
          BY <5>1 DEF IInv, SocketInv, OpenOwnsSocket
      <4>2. CASE Behind(helper[g].sock) = g
        <5>1. helper'[g].sock = helper[g].sock /\ owner' = owner
          BY <1>o, <3>1 DEF CloseCall
        <5> QED
          <6>1. Behind(helper[g].sock)' = Behind(helper[g].sock)
            BY <5>1 DEF Behind
          <6> QED
            BY <4>2, <6>1
      <4>3. CASE Closing(g)
        <5>1. PICK u \in Threads : th[u].tgt = g /\ th[u].pc = "store"
          BY <4>3 DEF Closing
        <5>2. u # t
          <6>1. SUFFICES ASSUME u = t PROVE FALSE
            OBVIOUS
          <6>2. helper'[h].open = FALSE /\ g = h
            BY <1>h, <5>1, <6>1
          <6> QED
            BY <3>1, <6>2
        <5> QED
          BY <1>u, <5>1, <5>2 DEF Closing
      <4> QED
        BY <4>1, <4>2, <4>3
    <3> QED
      <4>1. ~raced' => ~raced
        OBVIOUS
      <4> QED
        <5>1. \A g \in Made' : helper'[g].open /\ ~raced'
                => Closing(g)' \/ Behind(helper[g].sock)' = g
          BY <1>c, <3>1, <4>1
        <5> QED
          BY <5>1 DEF OpenOwnsSocket
  <2>3. Registers'
    <3>1. ASSUME NEW u \in Threads, HasRead(u)' PROVE u # t /\ HasRead(u) /\ th[u].tgt \in Made
      BY <1>s, <1>u, <3>1 DEF IInv, ThreadInv, Roles, HasRead
    <3> QED
      BY <1>o, <1>u, <3>1 DEF IInv, SocketInv, Registers, CloseCall, Behind
  <2>4. StoreFree' /\ MisledOnlyByRace'
    BY <1>s, <1>u DEF IInv, SocketInv, StoreFree, MisledOnlyByRace, CloseCall
  <2> QED
    BY <2>1, <2>2, <2>3, <2>4 DEF SocketInv
<1>4. EndInv'
  <2>1. Connected'
    BY <1>c, <1>i, <1>a, <1>s, <1>u DEF IInv, EndInv, Connected, CloseCall
  <2>2. ClosedAtEnd'
    <3>1. ~raced /\ running /\ hs # helper =>
            key[h] = None \/ remote[h] \in {"fin", "rstseen"}
      BY <1>0, <1>h DEF IInv, ThreadInv, StopPhase, CloseCall
    <3> QED
      BY <1>c, <1>o, <1>s, <1>u, <3>1 DEF IInv, EndInv, ClosedAtEnd, CloseCall
  <2>3. LeakOnlyAfterReset'
    BY <1>c, <1>i DEF IInv, EndInv, LeakOnlyAfterReset, CloseCall
  <2>4. DroppedOnlyAtEnd'
    <3>1. running /\ ret \in {"free", "clear"} => key[h] = None
      BY <1>0 DEF IInv, ThreadInv, StopPhase, CloseCall
    <3> QED
      BY <1>c, <3>1 DEF IInv, EndInv, DroppedOnlyAtEnd, CloseCall
  <2> QED
    BY <2>1, <2>2, <2>3, <2>4 DEF EndInv
<1>5. StreamInv'
  <2>2. HalfSent'
    BY <1>u, <1>s DEF IInv, StreamInv, HalfSent, CloseCall
  <2>3. PacketsUnbroken'
    BY DEF IInv, StreamInv, PacketsUnbroken, CloseCall
  <2> QED
    BY <2>2, <2>3 DEF StreamInv
<1> QED
  BY <1>1, <1>2, <1>3, <1>4, <1>5 DEF IInv

(***************************************************************************)
(* close_sock: who calls it, and its failures                              *)
(***************************************************************************)

\* close_sock is called, on a socket open or closed.
LEMMA CloseInv ==
  ASSUME IInv, NEW t, NEW h, NEW ret, CloseCall(t, h, ret), th[t].pc # "store",
         Close(t, h, ret)
  PROVE  IInv'
<1>1. CASE helper[h].open
  BY <1>1, EnterInv
<1>2. CASE ~helper[h].open
  <2>1. /\ th' = [th EXCEPT ![t] = Resumed(h, ret)] /\ helper' = Outlived(helper, h, ret)
        /\ UNCHANGED raced
    BY <1>2 DEF Close
  <2>2. \A f \in Fds : owner[f] # h
    BY <1>2, Fields, Numbers DEF CloseCall, IInv, SocketInv, Owned
  <2> QED
    BY <2>1, <2>2, ReturnInv
<1> QED
  BY <1>1, <1>2

\* A race is never forgotten.
LEMMA RacedStays ==
  ASSUME IInv, NEW t, NEW h, NEW ret, Close(t, h, ret)
  PROVE  raced' \in BOOLEAN /\ (raced => raced')
BY DEF Close, Reads, IInv, TypeOK

\* Back from the system calls of close_sock to its caller, by way of the store.
LEMMA ClosingCall ==
  ASSUME IInv, NEW t \in Threads, InClose(t), UNCHANGED <<kernelVars, mapVars, sendVars, fate, flags>>
  PROVE  CloseCall(t, th[t].tgt, th[t].ret) /\ th[t].tgt # None
<1> USE DEF kernelVars, mapVars, sendVars, flags
<1>1. /\ th[t].tgt \in Made /\ th[t].tgt # None
      /\ th[t].ret \in IF t = Poll THEN {"recv", "free"} ELSE {"stop", "free", "clear"}
  BY DEF IInv, ThreadInv, Roles, InClose
<1>2. th[t].ret \in {"free", "clear"} =>
        /\ th[t].tgt \notin filed /\ helper[th[t].tgt].life = "live"
        /\ \A u \in Threads : u # t /\ th[u].tgt = th[t].tgt => th[u].pc \in {"send", "sendcall"}
        /\ running => key[th[t].tgt] = None
  BY DEF IInv, ThreadInv, Alone, Fresh, LastRef
<1>3. th[t].ret = "recv" =>
        /\ t = Poll /\ helper[th[t].tgt].life = "live"
        /\ running => th[t].tgt \in filed
        /\ raced \/ remote[th[t].tgt] \in {"fin", "rstseen"}
  BY <1>1 DEF IInv, ThreadInv, Alive, EndInv, ClosedAtEnd
<1>4. th[t].ret = "stop" => th[t].tgt \in filed /\ helper[th[t].tgt].life = "live"
  BY DEF IInv, ThreadInv, StopPhase, Alive
<1>5. th[t].ret = "clear" => todo = {}
  BY DEF IInv, ThreadInv, StopPhase
<1>6. th[t].ret \in {"stop", "clear"} => InStop(t) /\ t # Poll
  BY <1>1 DEF InStop
<1>7. misled' \in BOOLEAN /\ (misled => misled') /\ (misled' => raced') /\ todo \subseteq filed
  BY DEF IInv, TypeOK, SocketInv, MisledOnlyByRace, ThreadInv, StopPhase
<1> QED
  BY <1>1, <1>2, <1>3, <1>4, <1>5, <1>6, <1>7 DEF CloseCall

\* A socket whose number the thread has read as -1 is closed.
LEMMA ReadClosed ==
  ASSUME IInv, NEW t \in Threads, HasRead(t), ~raced, Behind(th[t].reg) # th[t].tgt
  PROVE  th[t].reg = Closed /\ Behind(th[t].reg) = None
         /\ \A f \in Fds : owner[f] # th[t].tgt
<1>1. th[t].reg = Closed
  BY DEF IInv, SocketInv, Registers
<1>2. th[t].tgt \in Made
  BY DEF IInv, ThreadInv, Roles, HasRead
<1>3. ~helper[th[t].tgt].open
  BY <1>1, <1>2, Numbers DEF IInv, SocketInv, Registers, Owned
<1> QED
  BY <1>1, <1>2, <1>3, Fields, Numbers DEF IInv, SocketInv, Owned, Behind

\* close_sock: the assignments after close.
LEMMA StoreInv == ASSUME IInv, NEW t \in Threads, Store(t) PROVE IInv'
<1> DEFINE h == th[t].tgt
           ret == th[t].ret
<1>1. CloseCall(t, h, ret)
  BY ClosingCall DEF Store, At, InClose
<1>2. \A f \in Fds : owner[f] # h
  BY DEF Store, At, IInv, SocketInv, StoreFree
<1>3. /\ th' = [th EXCEPT ![t] = Resumed(h, ret)] /\ helper' = Outlived(Stored(h), h, ret)
      /\ UNCHANGED raced /\ th[t].pc = "store"
  BY DEF Store, At, Returns, flags
<1> QED
  BY <1>1, <1>2, <1>3, ReturnInv

\* close_sock: shutdown refuses the descriptor.
LEMMA ShutdownFailsInv == ASSUME IInv, NEW t \in Threads, ShutdownFails(t) PROVE IInv'
<1> DEFINE h == th[t].tgt
           ret == th[t].ret
<1>1. CloseCall(t, h, ret) /\ h # None
  BY ClosingCall DEF ShutdownFails, At, InClose
<1>2. /\ th' = [th EXCEPT ![t] = Resumed(h, ret)] /\ helper' = Outlived(helper, h, ret)
      /\ UNCHANGED raced /\ th[t].pc = "shut" /\ MayRefuse(Behind(th[t].reg))
  BY DEF ShutdownFails, At, Returns, flags, Refused
<1>3. ASSUME ret \in {"free", "clear"}, ~raced, ~(\A f \in Fds : owner[f] # h)
      PROVE  helper[h].init /\ remote[h] \in {"rst", "rstseen"}
  <2>1. Behind(th[t].reg) = h
    BY <1>2, <1>3, ReadClosed DEF HasRead
  <2>2. helper[h].init /\ h \in Made
    BY <1>1, <1>2, <1>3 DEF IInv, EndInv, Connected, LastRef, InClose, CloseCall
  <2>3. remote[h] # "new" /\ h \notin shut
    BY <1>3, <2>2 DEF IInv, EndInv, Connected
  <2> QED
    BY <1>1, <1>2, <2>1, <2>2, <2>3 DEF MayRefuse, Refuses
<1> QED
  BY <1>1, <1>2, <1>3, ReturnInv

\* close_sock: close refuses the descriptor.
LEMMA ReleaseFailsInv == ASSUME IInv, NEW t \in Threads, ReleaseFails(t) PROVE IInv'
<1> DEFINE h == th[t].tgt
           ret == th[t].ret
<1>1. CloseCall(t, h, ret) /\ h # None
  BY ClosingCall DEF ReleaseFails, At, InClose
<1>2. /\ th' = [th EXCEPT ![t] = Resumed(h, ret)] /\ helper' = Outlived(helper, h, ret)
      /\ UNCHANGED raced /\ th[t].pc = "release" /\ Behind(th[t].reg) = None
  BY DEF ReleaseFails, At, Returns, flags, Refused
<1>3. raced \/ \A f \in Fds : owner[f] # h
  BY <1>1, <1>2, ReadClosed DEF HasRead
<1> QED
  BY <1>1, <1>2, <1>3, ReturnInv

\* connect_to_peer: connect fails, and the destructor closes the socket.
LEMMA ConnectFailsInv == ASSUME IInv, NEW t \in Connectors, ConnectFails(t) PROVE IInv'
<1> DEFINE h == th[t].tgt
<1>1. t \in Threads /\ th[t].pc = "connect" /\ LastRef(t) /\ Close(t, h, "free")
  BY Numbers DEF ConnectFails, At, LastRef
<1>2. CloseCall(t, h, "free")
  <2>1. h \in Made
    BY <1>1 DEF IInv, ThreadInv, Roles
  <2>2. todo \subseteq filed /\ misled \in BOOLEAN /\ (misled => raced)
    BY DEF IInv, ThreadInv, StopPhase, TypeOK, SocketInv, MisledOnlyByRace
  <2>3. key[h] = None /\ helper[h].life = "live" /\ h \notin filed
        /\ \A u \in Threads : u # t /\ th[u].tgt = h => th[u].pc \in {"send", "sendcall"}
    BY <1>1 DEF IInv, ThreadInv, Alone, Fresh
  <2> QED
    BY <1>1, <2>1, <2>2, <2>3, RacedStays
      DEF CloseCall, ConnectFails, kernelVars, mapVars, sendVars
<1> QED
  BY <1>1, <1>2, CloseInv

\* The insertion of a peer whose descriptor is taken in the map.
LEMMA FileFailsInv == ASSUME IInv, NEW t \in Threads, FileFails(t) PROVE IInv'
<1> DEFINE h == th[t].tgt
<1>1. th[t].pc = "file" /\ LastRef(t) /\ Close(t, h, "free")
  BY DEF FileFails, At, LastRef
<1>2. CloseCall(t, h, "free")
  <2>1. h \in Made
    BY <1>1 DEF IInv, ThreadInv, Roles
  <2>2. todo \subseteq filed /\ misled \in BOOLEAN /\ (misled => raced)
    BY DEF IInv, ThreadInv, StopPhase, TypeOK, SocketInv, MisledOnlyByRace
  <2>3. key[h] = None /\ helper[h].life = "live" /\ h \notin filed
        /\ \A u \in Threads : u # t /\ th[u].tgt = h => th[u].pc \in {"send", "sendcall"}
    BY <1>1 DEF IInv, ThreadInv, Alone, Fresh
  <2> QED
    BY <1>1, <2>1, <2>2, <2>3, RacedStays
      DEF CloseCall, FileFails, kernelVars, mapVars, sendVars
<1> QED
  BY <1>1, <1>2, CloseInv

\* close_all_connections closes a peer.
LEMMA StopClosesInv ==
  ASSUME IInv, NEW t \in Stoppers, NEW h \in Made, StopCloses(t, h) PROVE IInv'
<1>1. t \in Threads /\ t # Poll /\ th[t].pc = "stop" /\ InStop(t) /\ Close(t, h, "stop")
  BY Numbers DEF StopCloses, At, InStop
<1>2. CloseCall(t, h, "stop")
  <2>1. todo \subseteq filed /\ h \in filed /\ helper[h].life = "live"
        /\ misled \in BOOLEAN /\ (misled => raced)
    BY DEF StopCloses, IInv, ThreadInv, StopPhase, Alive, TypeOK, SocketInv, MisledOnlyByRace
  <2> QED
    BY <1>1, <2>1, RacedStays DEF CloseCall, StopCloses, kernelVars, sendVars
<1> QED
  BY <1>1, <1>2, CloseInv

\* clear drops a peer that the poll thread does not hold.
LEMMA ClearClosesInv ==
  ASSUME IInv, NEW t \in Stoppers, NEW h \in Made, Clear(t, h), ~Holds(h) PROVE IInv'
<1>1. /\ t \in Threads /\ t # Poll /\ th[t].pc = "clear" /\ InStop(t) /\ Close(t, h, "clear")
      /\ h \in filed /\ filed' = filed \ {h}
  BY Numbers DEF Clear, At, InStop
<1>2. ASSUME NEW u \in Threads, u # t, th[u].tgt = h PROVE th[u].pc \in {"send", "sendcall"}
  <2>1. u # Poll
    BY <1>2 DEF Holds
  <2>2. h # None /\ ~InStop(u)
    BY <1>1, <1>2, Fields DEF IInv, ThreadInv, StopPhase
  <2>3. ~LastRef(u)
    BY <1>1, <1>2 DEF IInv, ThreadInv, Alone
  <2>4. ~InClose(u)
    BY <1>2, <2>1, <2>2, <2>3 DEF IInv, ThreadInv, Roles, LastRef, InStop
  <2>5. th[u].pc \notin {"idle", "stop", "clear", "recvcall", "drop"}
    BY <1>2, <2>1, <2>2 DEF IInv, ThreadInv, Roles
  <2> QED
    BY <1>2, <2>3, <2>4, <2>5, Fields DEF LastRef, InClose, IInv
<1>3. CloseCall(t, h, "clear")
  <2>1. todo = {} /\ helper[h].life = "live" /\ misled \in BOOLEAN /\ (misled => raced)
    BY <1>1 DEF IInv, ThreadInv, StopPhase, Alive, TypeOK, SocketInv, MisledOnlyByRace
  <2> QED
    BY <1>1, <1>2, <2>1, RacedStays DEF CloseCall, Clear, kernelVars, sendVars
<1> QED
  BY <1>1, <1>3, CloseInv

\* receive: the other end has closed, so the socket is closed.
LEMMA RecvEofInv == ASSUME IInv, RecvEof PROVE IInv'
<1> DEFINE h == th[Poll].tgt
           s == Behind(th[Poll].reg)
<1>1. /\ Poll \in Threads /\ th[Poll].pc = "recvcall" /\ HasRead(Poll) /\ Close(Poll, h, "recv")
      /\ s # None /\ remote[s] \in {"fin", "rstseen"} /\ misled' = (misled \/ s # h)
  BY Numbers DEF RecvEof, At, HasRead, AtEof, Reaches
<1>2. raced \/ s = h
  BY <1>1, ReadClosed
<1>3. CloseCall(Poll, h, "recv")
  <2>1. h \in Made /\ h # None
    BY <1>1 DEF IInv, ThreadInv, Roles
  <2>2. todo \subseteq filed /\ misled \in BOOLEAN /\ (misled => raced)
    BY DEF IInv, ThreadInv, StopPhase, TypeOK, SocketInv, MisledOnlyByRace
  <2>3. helper[h].life = "live" /\ (running => h \in filed)
    BY <1>1, <2>1 DEF IInv, ThreadInv, Alive
  <2>4. misled' \in BOOLEAN /\ (misled => misled') /\ (misled' => raced)
    BY <1>1, <1>2, <2>2
  <2> QED
    BY <1>1, <1>2, <2>1, <2>2, <2>3, <2>4, RacedStays
      DEF CloseCall, RecvEof, kernelVars, mapVars, sendVars
<1> QED
  BY <1>1, <1>3, CloseInv

\* The poll thread lets go of a peer that stop has dropped.
LEMMA DropClosesInv == ASSUME IInv, Drop, th[Poll].tgt \notin filed PROVE IInv'
<1> DEFINE h == th[Poll].tgt
<1>1. Poll \in Threads /\ th[Poll].pc = "drop" /\ Close(Poll, h, "free")
  BY Numbers DEF Drop, At
<1>2. h \in Made /\ h # None
  BY <1>1 DEF IInv, ThreadInv, Roles
<1>3. helper[h].life = "live" /\ ~running
  BY <1>1, <1>2 DEF IInv, ThreadInv, Alive
<1>4. ASSUME NEW u \in Threads, u # Poll, th[u].tgt = h PROVE th[u].pc \in {"send", "sendcall"}
  <2>1. ~LastRef(u)
    BY <1>1, <1>4 DEF IInv, ThreadInv, Alone
  <2>2. ~InClose(u)
    BY <1>4, <2>1 DEF IInv, ThreadInv, Roles, StopPhase, LastRef
  <2>3. th[u].pc \notin {"idle", "stop", "clear", "recvcall", "drop"}
    BY <1>2, <1>4 DEF IInv, ThreadInv, Roles
  <2> QED
    BY <1>4, <2>1, <2>2, <2>3, Fields DEF LastRef, InClose, IInv
<1>5. CloseCall(Poll, h, "free")
  <2>1. todo \subseteq filed /\ misled \in BOOLEAN /\ (misled => raced)
    BY DEF IInv, ThreadInv, StopPhase, TypeOK, SocketInv, MisledOnlyByRace
  <2> QED
    BY <1>1, <1>2, <1>3, <1>4, <2>1, RacedStays
      DEF CloseCall, Drop, kernelVars, mapVars, sendVars
<1> QED
  BY <1>1, <1>5, CloseInv

(***************************************************************************)
(* Frames: what a step that closes nothing keeps                           *)
(***************************************************************************)

\* The constructor ends the process.
LEMMA ConstructFailsInv == ASSUME IInv, NEW t \in Connectors, ConstructFails(t) PROVE IInv'
<1>1. misled' \in BOOLEAN /\ (misled' => raced) /\ UNCHANGED raced /\ Ends("exited")
  BY DEF ConstructFails, flags, IInv, TypeOK, SocketInv, MisledOnlyByRace
<1> QED
  BY <1>1, EndsInv

\* send_data goes on with a peer that is gone.
LEMMA SendUsesFreedInv == ASSUME IInv, NEW t \in Users, SendUsesFreed(t) PROVE IInv'
<1>1. misled' \in BOOLEAN /\ (misled' => raced) /\ UNCHANGED raced /\ Ends("undefined")
  BY DEF SendUsesFreed, flags, IInv, TypeOK, SocketInv, MisledOnlyByRace
<1> QED
  BY <1>1, EndsInv

\* No descriptor is left for accept.
LEMMA AcceptFailsInv == ASSUME IInv, AcceptFails PROVE IInv'
<1>1. misled' \in BOOLEAN /\ (misled' => raced) /\ UNCHANGED raced /\ Ends("terminated")
  BY DEF AcceptFails, flags, IInv, TypeOK, SocketInv, MisledOnlyByRace
<1> QED
  BY <1>1, EndsInv

\* A call that has reached another socket than the thread's own is the work of a race.
LEMMA Reached ==
  ASSUME IInv, NEW t \in Threads, HasRead(t), Behind(th[t].reg) \notin {None, th[t].tgt}
  PROVE  raced
BY ReadClosed

\* send raises SIGPIPE.
LEMMA SendKillsInv == ASSUME IInv, NEW t \in Users, SendKills(t) PROVE IInv'
<1> DEFINE s == Behind(th[t].reg)
<1>1. /\ t \in Threads /\ HasRead(t) /\ s # None /\ misled' = (misled \/ s # th[t].tgt)
      /\ UNCHANGED raced /\ Ends("killed")
  BY Numbers DEF SendKills, At, HasRead, Broken, Reaches
<1>2. s # th[t].tgt => raced
  BY <1>1, Reached
<1>3. misled \in BOOLEAN /\ (misled => raced)
  BY DEF IInv, TypeOK, SocketInv, MisledOnlyByRace
<1>4. misled' \in BOOLEAN /\ (misled' => raced)
  BY <1>1, <1>2, <1>3
<1> QED
  BY <1>1, <1>4, EndsInv

\* What a step of thread t to the state r leaves as it is, for the threads that stay.
LEMMA Others ==
  ASSUME IInv, NEW t \in Threads, NEW r \in ThreadRec, th' = [th EXCEPT ![t] = r]
  PROVE  /\ th' \in [Threads -> ThreadRec] /\ th'[t] = r
         /\ \A u \in Threads : u # t =>
              /\ th'[u] = th[u] /\ (InClose(u)' <=> InClose(u)) /\ (LastRef(u)' <=> LastRef(u))
              /\ (InStop(u)' <=> InStop(u)) /\ (HasRead(u)' <=> HasRead(u))
              /\ (Sending(u)' <=> Sending(u))
BY Moved DEF IInv, InClose, LastRef, InStop, HasRead, Sending

\* A thread that closes nothing moves: whoever has the last reference, or is in stop,
\* has it still.
LEMMA ThreadFrame ==
  ASSUME IInv, NEW t \in Threads, NEW r \in ThreadRec, th' = [th EXCEPT ![t] = r],
         UNCHANGED <<helper, shut, key, filed>>,
         r.pc \in {"idle", "send", "sendcall", "recvcall", "drop", "stop", "clear"},
         r.pc \in {"idle", "stop", "clear"} <=> r.tgt = None,
         r.tgt # None => r.tgt \in Made,
         r.pc \in {"recvcall", "drop"} => t = Poll,
         t = Poll => r.pc \in {"idle", "recvcall", "drop"},
         r.pc \in {"recvcall", "drop"} =>
           /\ helper[r.tgt].life = "live" /\ (running => r.tgt \in filed)
           /\ \A u \in Threads : u # t /\ LastRef(u) => th[u].tgt # r.tgt,
         r.pc \in {"stop", "clear"} => ~running' /\ \A u \in Threads : u # t => ~InStop(u),
         r.pc = "clear" => todo' = {},
         raced => raced', running' => running, running' => todo' = {}, todo' \subseteq filed,
         todo' \subseteq todo \/ \A u \in Threads : ~InStop(u)
  PROVE  ThreadInv'
<1>0. Made' = Made /\ (r.tgt # None => r.tgt \in Socks)
  BY Fields DEF Made, IInv
<1>t. /\ th'[t] = r
      /\ \A u \in Threads : u # t =>
           /\ th'[u] = th[u] /\ (InClose(u)' <=> InClose(u)) /\ (LastRef(u)' <=> LastRef(u))
           /\ (InStop(u)' <=> InStop(u))
  BY Others
<1>s. ~InClose(t)' /\ ~LastRef(t)' /\ (InStop(t)' <=> r.pc \in {"stop", "clear"})
  BY <1>t DEF InClose, LastRef, InStop
<1>1. Roles'
  BY <1>0, <1>s, <1>t DEF IInv, ThreadInv, Roles
<1>2. Alone'
  <2>1. ASSUME NEW u \in Threads, u # t, LastRef(u)
        PROVE  /\ th'[u].tgt \notin filed' /\ helper'[th'[u].tgt].life = "live"
               /\ \A w \in Threads : w # u /\ th'[w].tgt = th'[u].tgt =>
                    th'[w].pc \in {"send", "sendcall"}
    <3>1. /\ th'[u].tgt \notin filed' /\ helper'[th'[u].tgt].life = "live"
          /\ \A w \in Threads : w # u /\ w # t /\ th'[w].tgt = th'[u].tgt =>
               th'[w].pc \in {"send", "sendcall"}
      BY <1>t, <2>1 DEF IInv, ThreadInv, Alone
    <3>2. th[u].tgt # None
      BY <2>1 DEF IInv, ThreadInv, Roles, LastRef, InClose
    <3>3. r.tgt = th[u].tgt => r.pc \in {"send", "sendcall"}
      BY <2>1, <3>2
    <3> QED
      BY <1>t, <2>1, <3>1, <3>3
  <2> QED
    BY <1>s, <1>t, <2>1 DEF Alone
<1>3. Fresh'
  <2>1. \A u \in Threads : th'[u].pc \in {"connect", "file"} => u # t /\ th'[u] = th[u]
    BY <1>t
  <2>2. \A u \in Threads : LastRef(u)' /\ running' => key'[th'[u].tgt] = None
    BY <1>s, <1>t DEF IInv, ThreadInv, Fresh
  <2>3. \A u \in Threads : th'[u].pc = "connect" =>
          ~helper'[th'[u].tgt].init /\ (raced' \/ th'[u].tgt \notin shut')
    BY <2>1 DEF IInv, ThreadInv, Fresh
  <2>4. \A u \in Threads : th'[u].pc \in {"connect", "file"} =>
          helper'[th'[u].tgt].open /\ key'[th'[u].tgt] = None
    BY <2>1 DEF IInv, ThreadInv, Fresh
  <2> QED
    BY <1>0, <2>2, <2>3, <2>4 DEF IInv, ThreadInv, Fresh
<1>4. Alive'
  <2>1. filed' \subseteq Made' /\ \A h \in filed' : helper'[h].life = "live"
    BY <1>0 DEF IInv, ThreadInv, Alive
  <2>2. th'[Poll].tgt # None => helper'[th'[Poll].tgt].life = "live"
    BY <1>t, Numbers DEF IInv, ThreadInv, Alive
  <2>3. running' /\ (th'[Poll].pc \in {"recvcall", "drop"}
                     \/ (InClose(Poll)' /\ th'[Poll].ret = "recv")) => th'[Poll].tgt \in filed'
    BY <1>s, <1>t, Numbers DEF IInv, ThreadInv, Alive
  <2> QED
    BY <2>1, <2>2, <2>3 DEF Alive
<1>5. StopPhase'
  <2>1. \A u \in Threads : InStop(u)' => ~running' /\ \A w \in Threads : InStop(w)' => w = u
    BY <1>s, <1>t DEF IInv, ThreadInv, StopPhase
  <2>2. \A u \in Threads : InClose(u)' /\ th'[u].ret = "stop" => th'[u].tgt \in filed'
    BY <1>s, <1>t DEF IInv, ThreadInv, StopPhase
  <2>3. \A u \in Threads : th'[u].pc = "clear" \/ (InClose(u)' /\ th'[u].ret = "clear")
          => todo' = {}
    <3>1. ASSUME NEW u \in Threads, u # t,
                 th[u].pc = "clear" \/ (InClose(u) /\ th[u].ret = "clear")
          PROVE  todo' = {}
      <4>1. todo = {} /\ InStop(u)
        BY <3>1 DEF IInv, ThreadInv, StopPhase, InStop
      <4> QED
        BY <4>1
    <3> QED
      BY <1>s, <1>t, <3>1
  <2> QED
    BY <2>1, <2>2, <2>3 DEF StopPhase
<1> QED
  BY <1>1, <1>2, <1>3, <1>4, <1>5 DEF ThreadInv

\* A thread that is not about to store moves, and has read of this->sock what is in it.
LEMMA SocketFrame ==
  ASSUME IInv, NEW t \in Threads, NEW r \in ThreadRec, th' = [th EXCEPT ![t] = r],
         UNCHANGED <<helper, owner>>, raced' \in BOOLEAN, raced => raced', misled' => raced',
         th[t].pc # "store", r.pc # "store",
         HasRead(t)' => /\ r.tgt \in Made /\ r.reg = helper[r.tgt].sock
                        /\ raced' \/ \A u \in Threads \ {t} : ~(th[u].tgt = r.tgt /\ th[u].pc = "store")
  PROVE  SocketInv'
<1>t. /\ th'[t] = r
      /\ \A u \in Threads : u # t => th'[u] = th[u] /\ (HasRead(u)' <=> HasRead(u))
  BY Others
<1>0. Made' = Made
  BY DEF Made
<1>1. Owned'
  BY <1>0 DEF IInv, SocketInv, Owned
<1>2. OpenOwnsSocket'
  BY <1>0, <1>t DEF IInv, SocketInv, OpenOwnsSocket, Closing, Behind
<1>3. Registers'
  <2>1. ASSUME NEW u \in Threads, u # t, HasRead(u)
        PROVE  /\ th'[u].reg \in Fds \cup {Closed}
               /\ helper'[th'[u].tgt].open => th'[u].reg = helper'[th'[u].tgt].sock
               /\ raced' \/ th'[u].reg = Closed \/ Behind(th[u].reg)' = th'[u].tgt
    BY <1>t, <2>1 DEF IInv, SocketInv, Registers, Behind
  <2>2. ASSUME HasRead(t)'
        PROVE  /\ r.reg \in Fds \cup {Closed}
               /\ raced' \/ r.reg = Closed \/ Behind(r.reg)' = r.tgt
    <3>1. r.reg = helper[r.tgt].sock /\ r.tgt \in Made
      BY <2>2
    <3>2. r.reg \in Fds \cup {Closed}
      BY <3>1, Fields DEF IInv
    <3>3. ASSUME ~raced', r.reg # Closed PROVE Behind(r.reg)' = r.tgt
      <4>1. helper[r.tgt].open /\ ~raced
        BY <3>1, <3>2, <3>3 DEF IInv, SocketInv, Owned
      <4>2. ~Closing(r.tgt)
        BY <2>2, <3>3 DEF Closing
      <4>3. Behind(helper[r.tgt].sock) = r.tgt
        BY <3>1, <4>1, <4>2 DEF IInv, SocketInv, OpenOwnsSocket
      <4> QED
        BY <3>1, <4>3 DEF Behind
    <3> QED
      BY <3>2, <3>3
  <2>3. th'[t].reg = r.reg /\ th'[t].tgt = r.tgt
    BY <1>t
  <2> QED
    BY <1>t, <2>1, <2>2, <2>3 DEF Registers, Behind
<1>4. StoreFree' /\ MisledOnlyByRace'
  BY <1>t DEF IInv, SocketInv, StoreFree, MisledOnlyByRace
<1> QED
  BY <1>1, <1>2, <1>3, <1>4 DEF SocketInv

\* The other ends only go forward, and nobody enters close_sock.
LEMMA EndFrame ==
  ASSUME IInv, UNCHANGED <<helper, shut, owner>>, raced => raced', running' => running,
         \A h \in Made : /\ remote[h] # "new" => remote'[h] # "new"
                         /\ remote[h] \in {"fin", "rstseen"} => remote'[h] \in {"fin", "rstseen"}
                         /\ remote[h] \in {"rst", "rstseen"} => remote'[h] \in {"rst", "rstseen"}
                         /\ key'[h] = key[h] \/ (helper[h].open /\ helper[h].life = "live"),
         \A u \in Threads : InClose(u)' => th'[u] = th[u]
  PROVE  EndInv'
<1>0. Made' = Made
  BY DEF Made
<1>t. \A u \in Threads : /\ InClose(u)' => InClose(u) /\ th'[u] = th[u] /\ th[u].tgt \in Made
                         /\ LastRef(u)' /\ th'[u].pc = "shut" => LastRef(u)
  BY DEF InClose, LastRef, IInv, ThreadInv, Roles
<1>1. Connected'
  <2>1. \A u \in Threads : LastRef(u)' /\ th'[u].pc = "shut" => th'[u] = th[u]
    BY <1>t DEF InClose, LastRef
  <2> QED
    BY <1>0, <1>t, <2>1 DEF IInv, EndInv, Connected
<1>2. ClosedAtEnd'
  BY <1>0, <1>t DEF IInv, EndInv, ClosedAtEnd
<1>3. LeakOnlyAfterReset' /\ DroppedOnlyAtEnd'
  BY <1>0 DEF IInv, EndInv, LeakOnlyAfterReset, DroppedOnlyAtEnd
<1> QED
  BY <1>1, <1>2, <1>3 DEF EndInv

\* Nobody begins to send, and nothing goes into a stream.
LEMMA StreamFrame ==
  ASSUME IInv, UNCHANGED <<stream, overlapped>>, misled => misled',
         Len(result') = Len(result),
         \A o \in 1..Len(result) :
           result'[o] = result[o]
             \/ (result'[o].tgt = result[o].tgt /\ result'[o].end = "failed"),
         \A u \in Threads : Sending(u)' => Sending(u) /\ th'[u].tgt = th[u].tgt
                              /\ th'[u].op = th[u].op /\ th'[u].put = th[u].put
  PROVE  StreamInv'
<1>1. HalfSent'
  <2>1. \A o \in 1..Len(result) : result'[o].tgt = result[o].tgt
    OBVIOUS
  <2> QED
    BY <2>1 DEF IInv, StreamInv, HalfSent
<1>2. PacketsUnbroken'
  <2>1. \A s \in Socks, o \in 1..Len(result) :
          result'[o] = [tgt |-> s, end |-> "whole"] => result[o] = [tgt |-> s, end |-> "whole"]
    OBVIOUS
  <2> QED
    BY <2>1 DEF IInv, StreamInv, PacketsUnbroken
<1> QED
  BY <1>1, <1>2 DEF StreamInv

(***************************************************************************)
(* Sending                                                                 *)
(***************************************************************************)

\* A thread takes another pc, or other values of its own.
LEMMA NewState ==
  ASSUME IInv, NEW t \in Threads, NEW pc \in {"idle", "connect", "file", "send", "sendcall",
           "recvcall", "shut", "release", "store", "drop", "stop", "clear"}
  PROVE  LET r == [th[t] EXCEPT !.pc = pc] IN
         /\ r \in ThreadRec /\ r.pc = pc /\ r.tgt = th[t].tgt /\ r.reg = th[t].reg
         /\ r.op = th[t].op /\ r.put = th[t].put /\ r.ret = th[t].ret
BY Fields DEF IInv, ThreadRec

\* A thread that does nothing.
LEMMA IdleState == Idle \in ThreadRec /\ Idle.pc = "idle" /\ Idle.tgt = None
BY Numbers DEF Idle, ThreadRec, None

\* send_data reads this->sock.
LEMMA SendLoadsInv == ASSUME IInv, NEW t \in Users, SendLoads(t) PROVE IInv'
<1> DEFINE h == th[t].tgt
           r == [th[t] EXCEPT !.pc = "sendcall", !.reg = helper[h].sock]
<1>1. /\ t \in Threads /\ t # Poll /\ th[t].pc = "send" /\ Reads(t, h)
      /\ th' = [th EXCEPT ![t] = r]
  BY Numbers DEF SendLoads, At
<1>2. h \in Made /\ h # None
  BY <1>1 DEF IInv, ThreadInv, Roles
<1>3. /\ r \in ThreadRec /\ r.pc = "sendcall" /\ r.tgt = h /\ r.reg = helper[h].sock
      /\ r.op = th[t].op /\ r.put = th[t].put
  BY <1>1, <1>2, Fields DEF IInv, ThreadRec
<1> HIDE DEF r
<1>4. /\ raced' \in BOOLEAN /\ (raced => raced') /\ misled' = misled /\ (misled' => raced')
      /\ (raced' \/ \A u \in Threads \ {t} : ~(th[u].tgt = h /\ th[u].pc = "store"))
  BY <1>1 DEF SendLoads, Reads, IInv, TypeOK, SocketInv, MisledOnlyByRace
<1>5. UNCHANGED <<helper, remote, shut, owner, filed, key, running, todo, swept, stream, result,
                  overlapped, fate>>
  BY DEF SendLoads, kernelVars, mapVars, sendVars
<1>6. TypeOK'
  BY <1>1, <1>3, <1>4, <1>5, Others DEF IInv, TypeOK
<1>7. ThreadInv'
  BY <1>1, <1>2, <1>3, <1>4, <1>5, ThreadFrame DEF IInv, ThreadInv, StopPhase
<1>8. SocketInv'
  BY <1>1, <1>2, <1>3, <1>4, <1>5, SocketFrame
<1>9. EndInv'
  <2>1. \A u \in Threads : InClose(u)' => th'[u] = th[u]
    BY <1>1, <1>3, Others DEF InClose
  <2> QED
    BY <1>4, <1>5, <2>1, EndFrame
<1>10. StreamInv'
  <2>1. \A u \in Threads : Sending(u)' => Sending(u) /\ th'[u].tgt = th[u].tgt
                             /\ th'[u].op = th[u].op /\ th'[u].put = th[u].put
    BY <1>1, <1>3, Others DEF Sending
  <2> QED
    BY <1>4, <1>5, <2>1, StreamFrame
<1> QED
  BY <1>6, <1>7, <1>8, <1>9, <1>10 DEF IInv

\* A pending reset is reported by the next call.
LEMMA ResetSeen ==
  ASSUME IInv, NEW s \in Socks \cup {None},
         remote' = IF s # None /\ remote[s] = "rst" THEN [remote EXCEPT ![s] = "rstseen"]
                   ELSE remote
  PROVE  /\ remote' \in [Socks -> {"new", "up", "fin", "rst", "rstseen"}]
         /\ \A h \in Socks :
              /\ remote[h] # "new" => remote'[h] # "new"
              /\ remote[h] \in {"fin", "rstseen"} => remote'[h] \in {"fin", "rstseen"}
              /\ remote[h] \in {"rst", "rstseen"} => remote'[h] \in {"rst", "rstseen"}
BY DEF IInv, TypeOK

\* A thread that has read this->sock calls with it, and is misled only by a race.
LEMMA MisledCall ==
  ASSUME IInv, NEW t \in Threads, HasRead(t), UNCHANGED raced,
         misled' = (misled \/ Behind(th[t].reg) \notin {None, th[t].tgt})
  PROVE  misled' \in BOOLEAN /\ (misled => misled') /\ (misled' => raced')
<1>1. Behind(th[t].reg) \notin {None, th[t].tgt} => raced
  BY Reached
<1>2. misled \in BOOLEAN /\ (misled => raced)
  BY DEF IInv, TypeOK, SocketInv, MisledOnlyByRace
<1> QED
  BY <1>1, <1>2

\* A descriptor leads to a socket or to nothing.
LEMMA BehindType == ASSUME IInv, NEW r PROVE Behind(r) \in Socks \cup {None}
BY DEF IInv, TypeOK, Behind

\* A packet's record gets its end.
LEMMA ResultEnds ==
  ASSUME IInv, NEW o \in 1..Len(result), NEW end \in {"whole", "failed"},
         result' = [result EXCEPT ![o].end = end]
  PROVE  /\ result' \in Seq(ResultRec) /\ Len(result') = Len(result)
         /\ result'[o].tgt = result[o].tgt /\ result'[o].end = end
         /\ result'[o] = [tgt |-> result[o].tgt, end |-> end]
         /\ \A p \in 1..Len(result) : p # o => result'[p] = result[p]
<1> DEFINE q == [result[o] EXCEPT !.end = end]
<1>1. result \in Seq(ResultRec) /\ result[o] \in ResultRec
  BY DEF IInv, TypeOK
<1>2. q \in ResultRec /\ q.tgt = result[o].tgt /\ q.end = end
      /\ q = [tgt |-> result[o].tgt, end |-> end]
  BY <1>1 DEF ResultRec
<1>3. result' = [result EXCEPT ![o] = q]
  OBVIOUS
<1> HIDE DEF q
<1>4. /\ result' \in Seq(ResultRec) /\ Len(result') = Len(result)
      /\ \A p \in 1..Len(result) : result'[p] = IF p = o THEN q ELSE result[p]
  BY <1>1, <1>2, <1>3, ExceptSeq
<1> QED
  BY <1>2, <1>4

\* send fails, and SendException leaves send_data.
LEMMA SendFailsInv == ASSUME IInv, NEW t \in Users, SendFails(t) PROVE IInv'
<1> DEFINE s == Behind(th[t].reg)
<1>1. /\ t \in Threads /\ t # Poll /\ th[t].pc = "sendcall" /\ HasRead(t) /\ Sending(t)
      /\ th' = [th EXCEPT ![t] = Idle]
  BY Numbers DEF SendFails, At, HasRead, Sending
<1>2. Idle \in ThreadRec /\ Idle.pc = "idle" /\ Idle.tgt = None
  BY IdleState
<1>3. misled' \in BOOLEAN /\ (misled => misled') /\ (misled' => raced') /\ UNCHANGED raced
  BY <1>1, MisledCall DEF SendFails
<1>4. UNCHANGED <<helper, shut, owner, filed, key, running, todo, swept, stream, overlapped, fate>>
  BY DEF SendFails, mapVars
<1>5. /\ remote' \in [Socks -> {"new", "up", "fin", "rst", "rstseen"}]
      /\ \A h \in Socks :
           /\ remote[h] # "new" => remote'[h] # "new"
           /\ remote[h] \in {"fin", "rstseen"} => remote'[h] \in {"fin", "rstseen"}
           /\ remote[h] \in {"rst", "rstseen"} => remote'[h] \in {"rst", "rstseen"}
  BY BehindType, ResetSeen DEF SendFails
<1>6. th[t].op \in 1..Len(result)
  BY <1>1 DEF IInv, StreamInv, HalfSent
<1>7. /\ result' \in Seq(ResultRec) /\ Len(result') = Len(result)
      /\ \A o \in 1..Len(result) :
           result'[o] = result[o]
             \/ (result'[o].tgt = result[o].tgt /\ result'[o].end = "failed")
  BY <1>6, ResultEnds DEF SendFails
<1>8. TypeOK'
  BY <1>1, <1>2, <1>3, <1>4, <1>5, <1>7, Others DEF IInv, TypeOK
<1>9. ThreadInv'
  BY <1>1, <1>2, <1>3, <1>4, ThreadFrame DEF IInv, ThreadInv, StopPhase
<1>10. SocketInv'
  <2>1. ~HasRead(t)' /\ raced' \in BOOLEAN
    BY <1>1, <1>2, <1>3, Others DEF HasRead, IInv, TypeOK
  <2> QED
    BY <1>1, <1>2, <1>3, <1>4, <2>1, SocketFrame
<1>11. EndInv'
  <2>1. \A u \in Threads : InClose(u)' => th'[u] = th[u]
    BY <1>1, <1>2, Others DEF InClose
  <2> QED
    BY <1>3, <1>4, <1>5, <2>1, Fields, EndFrame DEF IInv
<1>12. StreamInv'
  <2>1. \A u \in Threads : Sending(u)' => Sending(u) /\ th'[u].tgt = th[u].tgt
                             /\ th'[u].op = th[u].op /\ th'[u].put = th[u].put
    BY <1>1, <1>2, Others DEF Sending
  <2> QED
    BY <1>3, <1>4, <1>7, <2>1, StreamFrame
<1> QED
  BY <1>8, <1>9, <1>10, <1>11, <1>12 DEF IInv

\* A step of a thread that neither sends nor touches a socket.
LEMMA QuietStep ==
  ASSUME IInv, NEW t \in Threads, NEW r \in ThreadRec, th' = [th EXCEPT ![t] = r],
         th[t].pc # "store", r.pc \in {"idle", "drop", "stop", "clear"},
         UNCHANGED <<helper, shut, owner, filed, key, stream, result, overlapped, fate, raced>>,
         remote' \in [Socks -> {"new", "up", "fin", "rst", "rstseen"}],
         \A h \in Socks :
           /\ remote[h] # "new" => remote'[h] # "new"
           /\ remote[h] \in {"fin", "rstseen"} => remote'[h] \in {"fin", "rstseen"}
           /\ remote[h] \in {"rst", "rstseen"} => remote'[h] \in {"rst", "rstseen"},
         misled' \in BOOLEAN, misled => misled', misled' => raced',
         running' \in BOOLEAN, swept' \in BOOLEAN, todo' \subseteq Socks, running' => running,
         ThreadInv'
  PROVE  IInv'
<1>1. TypeOK'
  BY Others DEF IInv, TypeOK
<1>2. SocketInv'
  <2>1. ~HasRead(t)' /\ raced' \in BOOLEAN /\ (raced => raced')
    BY Others DEF HasRead, IInv, TypeOK
  <2> QED
    BY <2>1, SocketFrame
<1>3. EndInv'
  <2>1. \A u \in Threads : InClose(u)' => th'[u] = th[u]
    BY Others DEF InClose
  <2> QED
    BY <2>1, Fields, EndFrame DEF IInv
<1>4. StreamInv'
  <2>1. \A u \in Threads : Sending(u)' => Sending(u) /\ th'[u].tgt = th[u].tgt
                             /\ th'[u].op = th[u].op /\ th'[u].put = th[u].put
    BY Others DEF Sending
  <2> QED
    BY <2>1, StreamFrame
<1> QED
  BY <1>1, <1>2, <1>3, <1>4 DEF IInv

(***************************************************************************)
(* stop, receive and the other ends                                        *)
(***************************************************************************)

\* stop begins.
LEMMA StopBeginsInv == ASSUME IInv, NEW t \in Stoppers, StopBegins(t) PROVE IInv'
<1> DEFINE r == [th[t] EXCEPT !.pc = "stop"]
<1>1. t \in Threads /\ t # Poll /\ th[t].pc = "idle" /\ th' = [th EXCEPT ![t] = r] /\ running
  BY Numbers DEF StopBegins, At, Goes
<1>2. r \in ThreadRec /\ r.pc = "stop" /\ r.tgt = None
  <2>1. r \in ThreadRec /\ r.pc = "stop" /\ r.tgt = th[t].tgt
    BY <1>1, NewState
  <2>2. th[t].tgt = None
    BY <1>1 DEF IInv, ThreadInv, Roles
  <2> QED
    BY <2>1, <2>2
<1> HIDE DEF r
<1>3. /\ UNCHANGED <<helper, remote, shut, owner, filed, key, swept, stream, result, overlapped,
                     fate, raced, misled>>
      /\ running' = FALSE /\ todo' = filed
  BY DEF StopBegins, kernelVars, sendVars, flags
<1>4. \A u \in Threads : ~InStop(u)
  BY <1>1 DEF IInv, ThreadInv, StopPhase
<1>5. ThreadInv'
  BY <1>1, <1>2, <1>3, <1>4, ThreadFrame
<1>6. misled' \in BOOLEAN /\ (misled' => raced') /\ swept' \in BOOLEAN /\ todo' \subseteq Socks
      /\ remote' \in [Socks -> {"new", "up", "fin", "rst", "rstseen"}]
  BY <1>3 DEF IInv, TypeOK, SocketInv, MisledOnlyByRace
<1>7. running' \in BOOLEAN /\ (running' => running)
  BY <1>1, <1>3, Zenon
<1> QED
  BY <1>1, <1>2, <1>3, <1>5, <1>6, <1>7, QuietStep

\* close_all_connections goes on to clear.
LEMMA StopClearsInv == ASSUME IInv, NEW t \in Stoppers, StopClears(t) PROVE IInv'
<1> DEFINE r == [th[t] EXCEPT !.pc = "clear"]
<1>1. t \in Threads /\ t # Poll /\ th[t].pc = "stop" /\ th' = [th EXCEPT ![t] = r]
      /\ todo = {} /\ InStop(t)
  BY Numbers DEF StopClears, At, Goes, InStop
<1>2. r \in ThreadRec /\ r.pc = "clear" /\ r.tgt = None
  <2>1. r \in ThreadRec /\ r.pc = "clear" /\ r.tgt = th[t].tgt
    BY <1>1, NewState
  <2>2. th[t].tgt = None
    BY <1>1 DEF IInv, ThreadInv, Roles
  <2> QED
    BY <2>1, <2>2
<1> HIDE DEF r
<1>3. UNCHANGED <<helper, remote, shut, owner, filed, key, running, todo, swept, stream, result,
                  overlapped, fate, raced, misled>>
  BY DEF StopClears, kernelVars, mapVars, sendVars, flags
<1>4. ~running /\ (\A u \in Threads : u # t => ~InStop(u)) /\ todo \subseteq filed
  BY <1>1 DEF IInv, ThreadInv, StopPhase
<1>5. ThreadInv'
  BY <1>1, <1>2, <1>3, <1>4, ThreadFrame
<1>6. /\ misled' \in BOOLEAN /\ (misled' => raced') /\ swept' \in BOOLEAN /\ todo' \subseteq Socks
      /\ remote' \in [Socks -> {"new", "up", "fin", "rst", "rstseen"}] /\ running' \in BOOLEAN
  BY <1>3 DEF IInv, TypeOK, SocketInv, MisledOnlyByRace
<1> QED
  BY <1>1, <1>2, <1>3, <1>5, <1>6, QuietStep

\* The map is empty, and stop is over.
LEMMA StopEndsInv == ASSUME IInv, NEW t \in Stoppers, StopEnds(t) PROVE IInv'
<1> DEFINE r == [th[t] EXCEPT !.pc = "idle"]
<1>1. t \in Threads /\ t # Poll /\ th[t].pc = "clear" /\ th' = [th EXCEPT ![t] = r]
  BY Numbers DEF StopEnds, At, Goes
<1>2. r \in ThreadRec /\ r.pc = "idle" /\ r.tgt = None
  <2>1. r \in ThreadRec /\ r.pc = "idle" /\ r.tgt = th[t].tgt
    BY <1>1, NewState
  <2>2. th[t].tgt = None
    BY <1>1 DEF IInv, ThreadInv, Roles
  <2> QED
    BY <2>1, <2>2
<1> HIDE DEF r
<1>3. UNCHANGED <<helper, remote, shut, owner, filed, key, running, todo, swept, stream, result,
                  overlapped, fate, raced, misled>>
  BY DEF StopEnds, kernelVars, mapVars, sendVars, flags
<1>5. ThreadInv'
  BY <1>1, <1>2, <1>3, ThreadFrame DEF IInv, ThreadInv, StopPhase
<1>6. /\ misled' \in BOOLEAN /\ (misled' => raced') /\ swept' \in BOOLEAN /\ todo' \subseteq Socks
      /\ remote' \in [Socks -> {"new", "up", "fin", "rst", "rstseen"}] /\ running' \in BOOLEAN
  BY <1>3 DEF IInv, TypeOK, SocketInv, MisledOnlyByRace
<1> QED
  BY <1>1, <1>2, <1>3, <1>5, <1>6, QuietStep

\* What the poll thread works on, nobody has the last reference to.
LEMMA PollShares ==
  ASSUME IInv, th[Poll].pc \in {"recvcall", "drop"}
  PROVE  /\ th[Poll].tgt \in Made /\ th[Poll].tgt # None
         /\ helper[th[Poll].tgt].life = "live" /\ (running => th[Poll].tgt \in filed)
         /\ \A u \in Threads : u # Poll /\ LastRef(u) => th[u].tgt # th[Poll].tgt
<1>1. th[Poll].tgt \in Made /\ th[Poll].tgt # None
  BY Numbers DEF IInv, ThreadInv, Roles
<1>2. helper[th[Poll].tgt].life = "live" /\ (running => th[Poll].tgt \in filed)
  BY <1>1 DEF IInv, ThreadInv, Alive
<1>3. \A u \in Threads : u # Poll /\ LastRef(u) => th[u].tgt # th[Poll].tgt
  BY Numbers DEF IInv, ThreadInv, Alone
<1> QED
  BY <1>1, <1>2, <1>3

\* recv returns bytes or an error.
LEMMA RecvReturnsInv == ASSUME IInv, RecvReturns PROVE IInv'
<1> DEFINE r == [th[Poll] EXCEPT !.pc = "drop"]
           s == Behind(th[Poll].reg)
<1>1. Poll \in Threads /\ th[Poll].pc = "recvcall" /\ HasRead(Poll)
      /\ th' = [th EXCEPT ![Poll] = r]
  BY Numbers DEF RecvReturns, At, Goes, HasRead
<1>2. r \in ThreadRec /\ r.pc = "drop" /\ r.tgt = th[Poll].tgt
  BY <1>1, NewState
<1> HIDE DEF r
<1>3. UNCHANGED <<helper, shut, owner, filed, key, running, todo, swept, stream, result,
                  overlapped, fate, raced>>
  BY DEF RecvReturns, mapVars, sendVars
<1>4. misled' \in BOOLEAN /\ (misled => misled') /\ (misled' => raced')
  BY <1>1, MisledCall DEF RecvReturns
<1>5. /\ remote' \in [Socks -> {"new", "up", "fin", "rst", "rstseen"}]
      /\ \A h \in Socks :
           /\ remote[h] # "new" => remote'[h] # "new"
           /\ remote[h] \in {"fin", "rstseen"} => remote'[h] \in {"fin", "rstseen"}
           /\ remote[h] \in {"rst", "rstseen"} => remote'[h] \in {"rst", "rstseen"}
  BY BehindType, ResetSeen DEF RecvReturns
<1>6. ThreadInv'
  <2>1. todo \subseteq filed /\ (running => todo = {})
    BY DEF IInv, ThreadInv, StopPhase
  <2> QED
    BY <1>1, <1>2, <1>3, <2>1, PollShares, ThreadFrame
<1>7. swept' \in BOOLEAN /\ todo' \subseteq Socks /\ running' \in BOOLEAN
  BY <1>3 DEF IInv, TypeOK
<1> QED
  BY <1>1, <1>2, <1>3, <1>4, <1>5, <1>6, <1>7, QuietStep

\* The poll thread lets go of a peer that is in the map still.
LEMMA DropKeepsInv == ASSUME IInv, Drop, th[Poll].tgt \in filed PROVE IInv'
<1>1. /\ Poll \in Threads /\ th[Poll].pc = "drop" /\ th' = [th EXCEPT ![Poll] = Idle]
      /\ UNCHANGED <<helper, remote, shut, owner, filed, key, running, todo, swept, stream, result,
                     overlapped, fate, raced, misled>>
  BY Numbers DEF Drop, At, kernelVars, mapVars, sendVars
<1>2. ThreadInv'
  BY <1>1, IdleState, ThreadFrame DEF IInv, ThreadInv, StopPhase
<1>3. /\ misled' \in BOOLEAN /\ (misled' => raced') /\ swept' \in BOOLEAN /\ todo' \subseteq Socks
      /\ remote' \in [Socks -> {"new", "up", "fin", "rst", "rstseen"}] /\ running' \in BOOLEAN
  BY <1>1 DEF IInv, TypeOK, SocketInv, MisledOnlyByRace
<1> QED
  BY <1>1, <1>2, <1>3, IdleState, QuietStep

\* The poll thread calls receive on a peer that is filed.
LEMMA ReceiveInv == ASSUME IInv, NEW h \in Made, Receive(h) PROVE IInv'
<1> DEFINE r == IF helper[h].open
                THEN [Idle EXCEPT !.pc = "recvcall", !.tgt = h, !.reg = helper[h].sock]
                ELSE [Idle EXCEPT !.pc = "drop", !.tgt = h]
<1>1. /\ Poll \in Threads /\ th[Poll].pc = "idle" /\ th' = [th EXCEPT ![Poll] = r]
      /\ running /\ h \in filed /\ helper[h].life = "live"
  BY Numbers DEF Receive, At, IInv, ThreadInv, Alive
<1>2. /\ r \in ThreadRec /\ r.tgt = h
      /\ helper[h].open => r.pc = "recvcall" /\ r.reg = helper[h].sock
      /\ ~helper[h].open => r.pc = "drop"
  <2>1. h \in Socks /\ helper[h].sock \in Fds \cup {None, Closed} /\ Idle \in ThreadRec
    BY Fields, IdleState DEF IInv
  <2> QED
    BY <2>1 DEF ThreadRec
<1> HIDE DEF r
<1>3. UNCHANGED <<helper, remote, shut, owner, filed, key, running, todo, stream, result,
                  overlapped, fate, misled>> /\ swept' = FALSE
  BY DEF Receive, kernelVars, sendVars
<1>4. /\ raced' \in BOOLEAN /\ (raced => raced') /\ (misled' => raced')
      /\ helper[h].open =>
           raced' \/ \A u \in Threads \ {Poll} : ~(th[u].tgt = h /\ th[u].pc = "store")
  <2>1. raced \in BOOLEAN /\ (misled => raced)
    BY DEF IInv, TypeOK, SocketInv, MisledOnlyByRace
  <2>0. (helper[h].open => Reads(Poll, h)) /\ (~helper[h].open => UNCHANGED raced)
    BY DEF Receive
  <2>2. CASE helper[h].open
    <3>1. raced' <=> (raced \/ \E u \in Threads \ {Poll} : th[u].tgt = h /\ th[u].pc = "store")
      BY <2>0, <2>2 DEF Reads
    <3>2. raced' \in BOOLEAN
      BY <2>0, <2>2 DEF Reads
    <3> QED
      BY <1>3, <2>1, <3>1, <3>2
  <2>3. CASE ~helper[h].open
    BY <1>3, <2>0, <2>1, <2>3
  <2> QED
    BY <2>2, <2>3
<1>5. h # None /\ r.pc \in {"recvcall", "drop"}
  BY <1>2, Fields DEF IInv
<1>6. TypeOK'
  <2>1. swept' \in BOOLEAN
    BY <1>3, Zenon
  <2> QED
    BY <1>1, <1>2, <1>3, <1>4, <2>1, Others DEF IInv, TypeOK
<1>7. ThreadInv'
  <2>1. \A u \in Threads : u # Poll /\ LastRef(u) => th[u].tgt # h
    BY <1>1 DEF IInv, ThreadInv, Alone
  <2>2. todo \subseteq filed /\ (running => todo = {})
    BY DEF IInv, ThreadInv, StopPhase
  <2> QED
    BY <1>1, <1>2, <1>3, <1>4, <1>5, <2>1, <2>2, ThreadFrame
<1>8. SocketInv'
  <2>1. HasRead(Poll)' => helper[h].open
    BY <1>1, <1>2, Others DEF HasRead
  <2> QED
    BY <1>1, <1>2, <1>3, <1>4, <1>5, <2>1, SocketFrame
<1>9. EndInv'
  <2>1. \A u \in Threads : InClose(u)' => th'[u] = th[u]
    BY <1>1, <1>2, <1>5, Others DEF InClose
  <2> QED
    BY <1>3, <1>4, <2>1, EndFrame
<1>10. StreamInv'
  <2>1. \A u \in Threads : Sending(u)' => Sending(u) /\ th'[u].tgt = th[u].tgt
                             /\ th'[u].op = th[u].op /\ th'[u].put = th[u].put
    BY <1>1, <1>2, <1>5, Others DEF Sending
  <2> QED
    BY <1>3, <1>4, <2>1, StreamFrame
<1> QED
  BY <1>6, <1>7, <1>8, <1>9, <1>10 DEF IInv

\* Only the other end of a connection moves.
LEMMA RemoteStep ==
  ASSUME IInv, NEW s \in Socks, NEW how \in {"fin", "rst", "rstseen"},
         remote[s] = "up" \/ (remote[s] = "fin" /\ how = "rstseen"),
         remote' = [remote EXCEPT ![s] = how],
         UNCHANGED <<helper, shut, owner, filed, key, running, todo, swept, th, stream, result,
                     overlapped, fate, raced, misled>>
  PROVE  IInv'
<1>1. /\ remote' \in [Socks -> {"new", "up", "fin", "rst", "rstseen"}]
      /\ \A h \in Socks :
           /\ remote[h] # "new" => remote'[h] # "new"
           /\ remote[h] \in {"fin", "rstseen"} => remote'[h] \in {"fin", "rstseen"}
           /\ remote[h] \in {"rst", "rstseen"} => remote'[h] \in {"rst", "rstseen"}
  BY DEF IInv, TypeOK
<1>2. TypeOK'
  BY <1>1 DEF IInv, TypeOK
<1>3. ThreadInv'
  BY DEF IInv, ThreadInv, Roles, Alone, Fresh, Alive, StopPhase, LastRef, InClose, InStop, Made
<1>4. SocketInv'
  BY DEF IInv, SocketInv, Owned, Registers, StoreFree, OpenOwnsSocket, MisledOnlyByRace, HasRead,
         Closing, Behind, Made
<1>5. EndInv'
  BY <1>1, Fields, EndFrame DEF IInv, InClose
<1>6. StreamInv'
  BY StreamFrame DEF Sending
<1> QED
  BY <1>2, <1>3, <1>4, <1>5, <1>6 DEF IInv

\* The other ends.
LEMMA RemoteInv == ASSUME IInv, Remote PROVE IInv'
<1>1. ASSUME NEW s \in Made, RemoteAnswers(s) PROVE IInv'
  BY <1>1, Fields, RemoteStep DEF RemoteAnswers, mapVars, sendVars, flags, IInv
<1>2. ASSUME NEW s \in Made, NEW how \in {"fin", "rst"}, RemoteLeaves(s, how) PROVE IInv'
  BY <1>2, Fields, RemoteStep DEF RemoteLeaves, mapVars, sendVars, flags, IInv
<1> QED
  BY <1>1, <1>2 DEF Remote

\* Nothing happens.
LEMMA StutterInv == ASSUME IInv, UNCHANGED vars PROVE IInv'
<1> USE DEF vars, kernelVars, mapVars, sendVars, flags
<1>2. TypeOK'
  BY DEF IInv, TypeOK
<1>3. ThreadInv'
  BY DEF IInv, ThreadInv, Roles, Alone, Fresh, Alive, StopPhase, LastRef, InClose, InStop, Made
<1>4. SocketInv'
  BY DEF IInv, SocketInv, Owned, Registers, StoreFree, OpenOwnsSocket, MisledOnlyByRace, HasRead,
         Closing, Behind, Made
<1>5. EndInv'
  BY EndFrame DEF InClose
<1>6. StreamInv'
  BY StreamFrame DEF Sending
<1> QED
  BY <1>2, <1>3, <1>4, <1>5, <1>6 DEF IInv

(***************************************************************************)
(* Filing, dropping and finding a peer                                     *)
(***************************************************************************)

\* A peer is filed.
LEMMA FileInv == ASSUME IInv, NEW t \in Threads, File(t) PROVE IInv'
<1> DEFINE h == th[t].tgt
<1>1. /\ th[t].pc = "file" /\ LastRef(t) /\ th' = [th EXCEPT ![t] = Idle]
      /\ filed' = filed \cup {h} /\ key' = [key EXCEPT ![h] = helper[h].sock]
      /\ UNCHANGED <<helper, remote, shut, owner, running, todo, swept, stream, result, overlapped,
                     fate, raced, misled>>
  BY DEF File, At, LastRef, kernelVars, sendVars, flags
<1>2. h \in Made /\ h \in Socks /\ h \notin filed /\ helper[h].life = "live" /\ helper[h].open
      /\ helper[h].sock \in Fds \cup {Closed}
  BY <1>1, Fields DEF IInv, ThreadInv, Roles, Alone, Fresh
<1>3. \A u \in Threads : u # t /\ LastRef(u) => th[u].tgt # h
  BY <1>1 DEF IInv, ThreadInv, Alone, LastRef, InClose
<1>t. /\ th' \in [Threads -> ThreadRec] /\ th'[t] = Idle
      /\ \A u \in Threads : u # t =>
           /\ th'[u] = th[u] /\ (InClose(u)' <=> InClose(u)) /\ (LastRef(u)' <=> LastRef(u))
           /\ (InStop(u)' <=> InStop(u)) /\ (Sending(u)' <=> Sending(u))
  BY <1>1, IdleState, Others
<1>s. /\ Idle.pc = "idle" /\ Idle.tgt = None /\ ~InClose(t)' /\ ~LastRef(t)' /\ ~InStop(t)'
      /\ ~HasRead(t)' /\ ~Sending(t)'
  BY <1>t, IdleState DEF InClose, LastRef, InStop, HasRead, Sending
<1>m. Made' = Made
  BY <1>1 DEF Made
<1>k. /\ key' \in [Socks -> Fds \cup {None, Closed}]
      /\ \A g \in Socks : g # h => key'[g] = key[g]
  BY <1>1, <1>2 DEF IInv, TypeOK
<1>4. TypeOK'
  BY <1>1, <1>2, <1>k, <1>t DEF IInv, TypeOK
<1>5. ThreadInv'
  <2>1. Roles'
    BY <1>m, <1>s, <1>t DEF IInv, ThreadInv, Roles
  <2>2. Alone'
    <3>1. ASSUME NEW u \in Threads, u # t, LastRef(u)
          PROVE  /\ th'[u].tgt \notin filed' /\ helper'[th'[u].tgt].life = "live"
                 /\ \A w \in Threads : w # u /\ th'[w].tgt = th'[u].tgt =>
                      th'[w].pc \in {"send", "sendcall"}
      <4>1. th[u].tgt # None
        BY <3>1 DEF IInv, ThreadInv, Roles, LastRef, InClose
      <4> QED
        BY <1>1, <1>3, <1>s, <1>t, <3>1, <4>1 DEF IInv, ThreadInv, Alone
    <3> QED
      BY <1>s, <1>t, <3>1 DEF Alone
  <2>3. Fresh'
    <3>1. \A u \in Threads : LastRef(u)' =>
            /\ u # t /\ th'[u] = th[u] /\ LastRef(u) /\ th[u].tgt # h /\ th[u].tgt \in Socks
      <4>1. \A u \in Threads : LastRef(u) => th[u].tgt \in Socks
        BY Fields DEF IInv, ThreadInv, Roles, LastRef, InClose
      <4> QED
        BY <1>3, <1>s, <1>t, <4>1
    <3>2. \A u \in Threads : th'[u].pc \in {"connect", "file"} => LastRef(u)'
      BY DEF LastRef
    <3>3. \A u \in Threads : th'[u].pc \in {"connect", "file"} =>
            helper'[th'[u].tgt].open /\ key'[th'[u].tgt] = None
      BY <1>1, <1>k, <3>1, <3>2 DEF IInv, ThreadInv, Fresh
    <3>4. \A u \in Threads : th'[u].pc = "connect" =>
            ~helper'[th'[u].tgt].init /\ (raced' \/ th'[u].tgt \notin shut')
      BY <1>1, <3>1, <3>2 DEF IInv, ThreadInv, Fresh
    <3>5. \A u \in Threads : LastRef(u)' /\ running' => key'[th'[u].tgt] = None
      BY <1>1, <1>k, <3>1 DEF IInv, ThreadInv, Fresh
    <3> QED
      BY <1>1, <1>2, <1>k, <1>m, <3>3, <3>4, <3>5 DEF IInv, ThreadInv, Fresh
  <2>4. Alive'
    BY <1>1, <1>2, <1>m, <1>s, <1>t, Numbers DEF IInv, ThreadInv, Alive
  <2>5. StopPhase'
    <3>1. \A u \in Threads : th'[u].pc = "clear" \/ (InClose(u)' /\ th'[u].ret = "clear")
            => todo' = {}
      BY <1>1, <1>s, <1>t DEF IInv, ThreadInv, StopPhase
    <3> QED
      BY <1>1, <1>s, <1>t, <3>1 DEF IInv, ThreadInv, StopPhase
  <2> QED
    BY <2>1, <2>2, <2>3, <2>4, <2>5 DEF ThreadInv
<1>6. SocketInv'
  <2>1. raced' \in BOOLEAN /\ (misled' => raced')
    BY <1>1 DEF IInv, TypeOK, SocketInv, MisledOnlyByRace
  <2> QED
    BY <1>1, <1>s, <2>1, IdleState, SocketFrame
<1>7. EndInv'
  <2>1. \A g \in Made : key'[g] = key[g] \/ (helper[g].open /\ helper[g].life = "live")
    BY <1>2, <1>k, Fields DEF IInv
  <2>2. \A u \in Threads : InClose(u)' => th'[u] = th[u]
    BY <1>s, <1>t
  <2> QED
    BY <1>1, <2>1, <2>2, EndFrame
<1>8. StreamInv'
  <2>1. \A u \in Threads : Sending(u)' => Sending(u) /\ th'[u].tgt = th[u].tgt
                             /\ th'[u].op = th[u].op /\ th'[u].put = th[u].put
    BY <1>s, <1>t
  <2> QED
    BY <1>1, <2>1, StreamFrame
<1> QED
  BY <1>4, <1>5, <1>6, <1>7, <1>8 DEF IInv

\* clear drops a peer that the poll thread holds.
LEMMA ClearKeepsInv ==
  ASSUME IInv, NEW t \in Stoppers, NEW h \in Made, Clear(t, h), Holds(h) PROVE IInv'
<1>1. /\ t \in Threads /\ th[t].pc = "clear" /\ InStop(t) /\ ~InClose(t) /\ filed' = filed \ {h}
      /\ UNCHANGED <<helper, remote, shut, owner, key, running, todo, swept, th, stream, result,
                     overlapped, fate, raced, misled>>
  BY Numbers DEF Clear, At, InStop, InClose, kernelVars, sendVars
<1>2. /\ ~running /\ todo = {} /\ Made' = Made
      /\ \A u \in Threads : ~(InClose(u) /\ th[u].ret = "stop")
  BY <1>1 DEF IInv, ThreadInv, StopPhase, InStop, Made
<1>3. \A u \in Threads : /\ (InClose(u)' <=> InClose(u)) /\ (LastRef(u)' <=> LastRef(u))
                         /\ (InStop(u)' <=> InStop(u)) /\ (HasRead(u)' <=> HasRead(u))
                         /\ (Sending(u)' <=> Sending(u))
  BY <1>1 DEF InClose, LastRef, InStop, HasRead, Sending
<1>4. TypeOK'
  BY <1>1 DEF IInv, TypeOK
<1>5. ThreadInv'
  <2>1. Roles' /\ Alone' /\ Fresh'
    BY <1>1, <1>2, <1>3 DEF IInv, ThreadInv, Roles, Alone, Fresh
  <2>2. Alive' /\ StopPhase'
    BY <1>1, <1>2, <1>3 DEF IInv, ThreadInv, Alive, StopPhase
  <2> QED
    BY <2>1, <2>2 DEF ThreadInv
<1>6. SocketInv'
  BY <1>1, <1>2, <1>3 DEF IInv, SocketInv, Owned, Registers, StoreFree, OpenOwnsSocket,
       MisledOnlyByRace, Closing, Behind
<1>7. EndInv'
  BY <1>1, EndFrame
<1>8. StreamInv'
  BY <1>1, <1>3, StreamFrame
<1> QED
  BY <1>4, <1>5, <1>6, <1>7, <1>8 DEF IInv

\* clear drops a peer.
LEMMA ClearInv == ASSUME IInv, NEW t \in Stoppers, NEW h \in Made, Clear(t, h) PROVE IInv'
BY ClearKeepsInv, ClearClosesInv

\* The poll thread's shared_ptr goes.
LEMMA DropInv == ASSUME IInv, Drop PROVE IInv'
BY DropKeepsInv, DropClosesInv

\* send_pkt_to_peer finds the peer.
LEMMA SendPktInv == ASSUME IInv, NEW t \in Users, NEW h \in Made, SendPkt(t, h) PROVE IInv'
<1> DEFINE n == Len(result) + 1
           r == [Idle EXCEPT !.pc = "send", !.tgt = h, !.op = n]
           q == [tgt |-> h, end |-> "sending"]
<1>1. /\ t \in Threads /\ t # Poll /\ th[t].pc = "idle" /\ h \in filed
      /\ th' = [th EXCEPT ![t] = r] /\ result' = Append(result, q)
      /\ overlapped' = IF \E u \in Threads : Sending(u) /\ th[u].tgt = h
                       THEN overlapped \cup {h} ELSE overlapped
      /\ UNCHANGED <<helper, remote, shut, owner, filed, key, running, todo, swept, stream, fate,
                     raced, misled>>
  BY Numbers DEF SendPkt, At, kernelVars, mapVars, flags
<1>2. h \in Socks /\ h # None /\ result \in Seq(ResultRec) /\ n \in 1..MaxSends
  <2>1. h \in Socks /\ h # None /\ result \in Seq(ResultRec) /\ Len(result) < MaxSends
    BY Fields DEF SendPkt, IInv, TypeOK
  <2>2. Len(result) \in Nat
    BY <2>1
  <2> QED
    BY <2>1, <2>2, Numbers
<1>3. r \in ThreadRec /\ r.pc = "send" /\ r.tgt = h /\ r.op = n /\ r.put = 0
  <2>1. Idle \in ThreadRec /\ Idle.put = 0
    BY IdleState DEF Idle
  <2>2. n \in 0..MaxSends
    BY <1>2, Numbers
  <2> HIDE DEF n
  <2> QED
    BY <1>2, <2>1, <2>2 DEF ThreadRec
<1>4. /\ result' \in Seq(ResultRec) /\ Len(result') = n /\ result'[n] = q
      /\ \A o \in 1..Len(result) : result'[o] = result[o]
  <2>1. q \in ResultRec
    BY <1>2 DEF ResultRec
  <2> QED
    BY <1>1, <1>2, <2>1
<1>n. n \in Nat /\ n >= 1 /\ n <= MaxSends /\ Len(result) \in Nat
      /\ 1..n = (1..Len(result)) \cup {n}
  BY <1>2, Numbers
<1> HIDE DEF r, n
<1>t. /\ th' \in [Threads -> ThreadRec] /\ th'[t] = r
      /\ \A u \in Threads : u # t =>
           th'[u] = th[u] /\ (InClose(u)' <=> InClose(u)) /\ (Sending(u)' <=> Sending(u))
  BY <1>1, <1>3, Others
<1>s. ~InClose(t)' /\ ~HasRead(t)' /\ Sending(t)' /\ ~Sending(t)
  BY <1>1, <1>3, <1>t DEF InClose, HasRead, Sending
<1>5. TypeOK'
  BY <1>1, <1>2, <1>4, <1>n, <1>t DEF IInv, TypeOK
<1>6. ThreadInv'
  BY <1>1, <1>2, <1>3, ThreadFrame DEF IInv, ThreadInv, StopPhase
<1>7. SocketInv'
  <2>1. raced' \in BOOLEAN /\ (misled' => raced')
    BY <1>1 DEF IInv, TypeOK, SocketInv, MisledOnlyByRace
  <2> QED
    BY <1>1, <1>3, <1>s, <2>1, SocketFrame
<1>8. EndInv'
  BY <1>1, <1>s, <1>t, EndFrame
<1>9. HalfSent'
  <2>0. overlapped \subseteq overlapped'
    BY <1>1
  <2>1. ASSUME NEW u \in Threads, u # t, Sending(u)
        PROVE  /\ th'[u].op \in 1..Len(result') /\ result'[th'[u].op].tgt = th'[u].tgt
               /\ th'[u].put < PktLen
               /\ th'[u].tgt \notin overlapped' =>
                    \A w \in Threads : Sending(w)' /\ th'[w].tgt = th'[u].tgt => w = u
               /\ ~misled' /\ th'[u].tgt \notin overlapped' /\ th'[u].put > 0 =>
                    LET sent == stream'[th'[u].tgt] IN
                    sent # <<>> /\ sent[Len(sent)] = [op |-> th'[u].op, k |-> th'[u].put]
    <3>1. /\ th[u].op \in 1..Len(result) /\ result[th[u].op].tgt = th[u].tgt /\ th[u].put < PktLen
          /\ th[u].tgt \notin overlapped =>
               \A w \in Threads : Sending(w) /\ th[w].tgt = th[u].tgt => w = u
          /\ ~misled /\ th[u].tgt \notin overlapped /\ th[u].put > 0 =>
               LET sent == stream[th[u].tgt] IN
               sent # <<>> /\ sent[Len(sent)] = [op |-> th[u].op, k |-> th[u].put]
      BY <2>1 DEF IInv, StreamInv, HalfSent
    <3>2. th[u].tgt \notin overlapped' => th[u].tgt # h
      BY <1>1, <2>1
    <3> QED
      BY <1>1, <1>3, <1>4, <1>n, <1>t, <2>0, <2>1, <3>1, <3>2
  <2>2. /\ th'[t].op \in 1..Len(result') /\ result'[th'[t].op].tgt = th'[t].tgt
        /\ th'[t].put < PktLen /\ ~(th'[t].put > 0)
    BY <1>3, <1>4, <1>n, <1>t, Numbers
  <2>3. th'[t].tgt \notin overlapped' =>
          \A w \in Threads : Sending(w)' /\ th'[w].tgt = th'[t].tgt => w = t
    BY <1>1, <1>3, <1>t
  <2> QED
    BY <1>t, <1>s, <2>1, <2>2, <2>3 DEF HalfSent
<1>10. PacketsUnbroken'
  <2>1. ASSUME NEW s \in Socks, NEW o \in 1..Len(result'),
               result'[o] = [tgt |-> s, end |-> "whole"]
        PROVE  o \in 1..Len(result) /\ result[o] = [tgt |-> s, end |-> "whole"]
    <3>1. o # n
      BY <1>4, <2>1
    <3> QED
      BY <1>4, <1>n, <2>1, <3>1
  <2>2. overlapped \subseteq overlapped'
    BY <1>1
  <2> QED
    BY <1>1, <2>1, <2>2 DEF IInv, StreamInv, PacketsUnbroken
<1> QED
  BY <1>5, <1>6, <1>7, <1>8, <1>9, <1>10 DEF IInv, StreamInv

(***************************************************************************)
(* Connecting, and the sweep                                               *)
(***************************************************************************)

\* connect_to_peer: the connection is there.
LEMMA ConnectInv == ASSUME IInv, NEW t \in Connectors, Connect(t) PROVE IInv'
<1> DEFINE h == th[t].tgt
           r == [th[t] EXCEPT !.pc = "file"]
           c == [helper[h] EXCEPT !.init = TRUE]
<1>1. /\ t \in Threads /\ th[t].pc = "connect" /\ LastRef(t) /\ th' = [th EXCEPT ![t] = r]
      /\ helper' = [helper EXCEPT ![h] = c] /\ remote' = [remote EXCEPT ![h] = "up"]
      /\ UNCHANGED <<shut, owner, filed, key, running, todo, swept, stream, result, overlapped, fate,
                     raced, misled>>
  BY Numbers DEF Connect, At, LastRef, Goes, mapVars, sendVars, flags
<1>2. /\ h \in Made /\ h \in Socks /\ helper[h].open /\ helper[h].life = "live"
      /\ key[h] = None /\ (raced \/ h \notin shut)
  BY <1>1, Fields DEF IInv, ThreadInv, Roles, Alone, Fresh
<1>c. /\ c \in HelperRec /\ c.init /\ c.sock = helper[h].sock /\ c.life = helper[h].life
      /\ (c.open <=> helper[h].open)
  BY <1>2, Fields DEF IInv, HelperRec
<1>r. /\ r \in ThreadRec /\ r.pc = "file" /\ r.tgt = h
  BY <1>1, NewState
<1> HIDE DEF c, r
<1>h. /\ helper' \in Seq(HelperRec) /\ Len(helper') = Len(helper) /\ Made' = Made
      /\ \A g \in Made : /\ g # h => helper'[g] = helper[g]
                         /\ (helper'[g].open <=> helper[g].open)
                         /\ helper'[g].sock = helper[g].sock /\ helper'[g].life = helper[g].life
      /\ helper'[h].init
  <2>1. /\ helper' \in Seq(HelperRec) /\ Len(helper') = Len(helper)
        /\ \A g \in Made : helper'[g] = IF g = h THEN c ELSE helper[g]
    BY <1>1, <1>2, <1>c, Changed DEF IInv
  <2> QED
    BY <1>2, <1>c, <2>1 DEF Made
<1>o. /\ remote' \in [Socks -> {"new", "up", "fin", "rst", "rstseen"}] /\ remote'[h] = "up"
      /\ \A g \in Socks : g # h => remote'[g] = remote[g]
  BY <1>1, <1>2 DEF IInv, TypeOK
<1>t. /\ th' \in [Threads -> ThreadRec] /\ th'[t] = r
      /\ \A u \in Threads : u # t =>
           /\ th'[u] = th[u] /\ (InClose(u)' <=> InClose(u)) /\ (LastRef(u)' <=> LastRef(u))
           /\ (InStop(u)' <=> InStop(u)) /\ (HasRead(u)' <=> HasRead(u))
           /\ (Sending(u)' <=> Sending(u))
  BY <1>1, <1>r, Others
<1>s. /\ ~InClose(t)' /\ LastRef(t)' /\ ~InStop(t)' /\ ~HasRead(t)' /\ ~Sending(t)'
      /\ th'[t].pc # "store" /\ th[t].pc # "store" /\ t # Poll
  BY <1>1, <1>r, <1>t DEF InClose, LastRef, InStop, HasRead, Sending, IInv, ThreadInv, Roles
<1>a. \A u \in Threads : u # t /\ th[u].tgt = h => th[u].pc \in {"send", "sendcall"}
  BY <1>1 DEF IInv, ThreadInv, Alone
<1>4. TypeOK'
  BY <1>1, <1>h, <1>o, <1>t DEF IInv, TypeOK
<1>5. ThreadInv'
  <2>1. Roles'
    BY <1>1, <1>2, <1>h, <1>r, <1>s, <1>t DEF IInv, ThreadInv, Roles
  <2>2. Alone'
    <3>1. ASSUME NEW u \in Threads, LastRef(u)'
          PROVE  /\ th'[u].tgt \notin filed' /\ helper'[th'[u].tgt].life = "live"
                 /\ \A w \in Threads : w # u /\ th'[w].tgt = th'[u].tgt =>
                      th'[w].pc \in {"send", "sendcall"}
      <4>1. LastRef(u) /\ th'[u].tgt = th[u].tgt /\ th[u].tgt \in Made
        BY <1>1, <1>2, <1>r, <1>t, <3>1 DEF IInv, ThreadInv, Roles, LastRef, InClose
      <4>2. /\ th[u].tgt \notin filed /\ helper[th[u].tgt].life = "live"
            /\ \A w \in Threads : w # u /\ th[w].tgt = th[u].tgt =>
                 th[w].pc \in {"send", "sendcall"}
        BY <4>1 DEF IInv, ThreadInv, Alone
      <4>3. u # t => th[u].tgt # h
        BY <1>a, <4>1 DEF LastRef, InClose
      <4>4. \A w \in Threads : w # u /\ th'[w].tgt = th'[u].tgt => th'[w].pc \in {"send", "sendcall"}
        BY <1>r, <1>t, <4>1, <4>2, <4>3
      <4> QED
        BY <1>1, <1>h, <4>1, <4>2, <4>4
    <3> QED
      BY <3>1 DEF Alone
  <2>3. Fresh'
    <3>1. \A u \in Threads : u # t /\ LastRef(u) => th[u].tgt # h /\ th[u].tgt \in Made
      BY <1>a DEF IInv, ThreadInv, Roles, LastRef, InClose
    <3>2. \A u \in Threads : th'[u].pc \in {"connect", "file"} =>
            helper'[th'[u].tgt].open /\ key'[th'[u].tgt] = None
      BY <1>1, <1>2, <1>h, <1>r, <1>t, <3>1 DEF IInv, ThreadInv, Fresh, LastRef
    <3>3. \A u \in Threads : th'[u].pc = "connect" =>
            ~helper'[th'[u].tgt].init /\ (raced' \/ th'[u].tgt \notin shut')
      BY <1>1, <1>2, <1>h, <1>r, <1>t, <3>1 DEF IInv, ThreadInv, Fresh, LastRef
    <3>4. \A u \in Threads : LastRef(u)' /\ running' => key'[th'[u].tgt] = None
      BY <1>1, <1>2, <1>r, <1>t DEF IInv, ThreadInv, Fresh
    <3> QED
      BY <1>1, <1>h, <3>2, <3>3, <3>4 DEF IInv, ThreadInv, Fresh
  <2>4. Alive' /\ StopPhase'
    <3>1. Alive'
      <4>1. th'[Poll] = th[Poll] /\ (InClose(Poll)' <=> InClose(Poll))
            /\ (th[Poll].tgt # None => th[Poll].tgt \in Made)
        BY <1>s, <1>t, Numbers DEF IInv, ThreadInv, Roles
      <4> QED
        BY <1>1, <1>h, <4>1 DEF IInv, ThreadInv, Alive
    <3>2. StopPhase'
      <4>1. \A u \in Threads : th'[u].pc = "clear" \/ (InClose(u)' /\ th'[u].ret = "clear")
              => todo' = {}
        BY <1>1, <1>r, <1>s, <1>t DEF IInv, ThreadInv, StopPhase
      <4> QED
        BY <1>1, <1>s, <1>t, <4>1 DEF IInv, ThreadInv, StopPhase
    <3> QED
      BY <3>1, <3>2
  <2> QED
    BY <2>1, <2>2, <2>3, <2>4 DEF ThreadInv
<1>6. SocketInv'
  <2>1. Owned'
    BY <1>1, <1>h DEF IInv, SocketInv, Owned
  <2>2. OpenOwnsSocket'
    <3>1. \A g \in Made : Closing(g) => Closing(g)'
      BY <1>s, <1>t DEF Closing
    <3> QED
      BY <1>1, <1>h, <3>1 DEF IInv, SocketInv, OpenOwnsSocket, Behind
  <2>3. Registers'
    <3>1. \A u \in Threads : HasRead(u)' => u # t /\ HasRead(u) /\ th'[u] = th[u] /\ th[u].tgt \in Made
      BY <1>s, <1>t DEF IInv, ThreadInv, Roles, HasRead
    <3> QED
      BY <1>1, <1>h, <3>1 DEF IInv, SocketInv, Registers, Behind
  <2>4. StoreFree' /\ MisledOnlyByRace'
    BY <1>1, <1>s, <1>t DEF IInv, SocketInv, StoreFree, MisledOnlyByRace
  <2> QED
    BY <2>1, <2>2, <2>3, <2>4 DEF SocketInv
<1>7. EndInv'
  <2>1. Connected'
    <3>1. \A u \in Threads : LastRef(u)' /\ th'[u].pc = "shut" => helper'[th'[u].tgt].init
      BY <1>h, <1>r, <1>t DEF IInv, ThreadInv, Roles, EndInv, Connected, LastRef, InClose
    <3>2. \A g \in Made : helper'[g].init => remote'[g] # "new" /\ (raced' \/ g \notin shut')
      BY <1>1, <1>2, <1>h, <1>o, Fields DEF IInv, EndInv, Connected
    <3> QED
      BY <1>h, <3>1, <3>2 DEF Connected
  <2>2. ClosedAtEnd'
    <3>1. \A u \in Threads : InClose(u)' =>
            /\ InClose(u) /\ th'[u] = th[u] /\ th[u].tgt # h /\ th[u].tgt \in Socks
      BY <1>a, <1>s, <1>t, Fields DEF IInv, ThreadInv, Roles, InClose
    <3>2. ~raced' => \A u \in Threads : InClose(u)' /\ th'[u].ret = "recv" =>
            remote'[th'[u].tgt] \in {"fin", "rstseen"}
      BY <1>1, <1>o, <3>1 DEF IInv, EndInv, ClosedAtEnd
    <3>3. running' /\ ~raced' => \A g \in Made :
            helper'[g].open \/ key'[g] = None \/ remote'[g] \in {"fin", "rstseen"}
      BY <1>1, <1>2, <1>h, <1>o, Fields DEF IInv, EndInv, ClosedAtEnd
    <3> QED
      BY <1>h, <3>2, <3>3 DEF ClosedAtEnd
  <2>3. LeakOnlyAfterReset'
    <3>1. ASSUME NEW g \in Made, NEW f \in Fds, helper'[g].life = "destroyed", owner'[f] = g
          PROVE  raced' \/ (helper'[g].init /\ remote'[g] \in {"rst", "rstseen"})
      <4>1. g # h /\ g \in Socks /\ helper[g].life = "destroyed" /\ owner[f] = g
        BY <1>1, <1>2, <1>h, <3>1, Fields DEF IInv
      <4> QED
        BY <1>1, <1>h, <1>o, <4>1 DEF IInv, EndInv, LeakOnlyAfterReset
    <3> QED
      BY <1>h, <3>1 DEF LeakOnlyAfterReset
  <2>4. DroppedOnlyAtEnd'
    BY <1>1, <1>2, <1>h, <1>o, Fields DEF IInv, EndInv, DroppedOnlyAtEnd
  <2> QED
    BY <2>1, <2>2, <2>3, <2>4 DEF EndInv
<1>8. StreamInv'
  BY <1>1, <1>s, <1>t, StreamFrame
<1> QED
  BY <1>4, <1>5, <1>6, <1>7, <1>8 DEF IInv

\* remove_disconnected_peers.
LEMMA SweepInv == ASSUME IInv, Sweep PROVE IInv'
<1> DEFINE dead == {h \in filed : ~helper[h].open}
           d(h) == [helper[h] EXCEPT !.life = "destroyed"]
<1>1. /\ th[Poll].pc = "idle" /\ running /\ filed' = filed \ dead /\ swept' = TRUE
      /\ helper' = [h \in Made |-> IF h \in dead THEN d(h) ELSE helper[h]]
      /\ UNCHANGED <<remote, shut, owner, key, running, todo, th, stream, result, overlapped, fate,
                     raced, misled>>
  BY DEF Sweep, At, kernelVars, sendVars, flags
<1>2. /\ helper' \in Seq(HelperRec) /\ Len(helper') = Len(helper) /\ Made' = Made
      /\ \A h \in Made : /\ (helper'[h].open <=> helper[h].open)
                         /\ (helper'[h].init <=> helper[h].init)
                         /\ helper'[h].sock = helper[h].sock
                         /\ h \notin dead => helper'[h].life = helper[h].life
                         /\ h \in dead => helper'[h].life = "destroyed"
  <2>1. \A h \in Made : d(h) \in HelperRec /\ d(h).open = helper[h].open
          /\ d(h).init = helper[h].init /\ d(h).sock = helper[h].sock /\ d(h).life = "destroyed"
    BY Fields DEF IInv, HelperRec
  <2> HIDE DEF d, dead
  <2>2. \A h \in Made : helper'[h] = IF h \in dead THEN d(h) ELSE helper[h]
    BY <1>1
  <2>3. /\ helper' \in Seq(HelperRec) /\ Len(helper') = Len(helper)
    <3>1. \A h \in Made : (IF h \in dead THEN d(h) ELSE helper[h]) \in HelperRec
      BY <2>1, Fields DEF IInv
    <3>2. helper' \in [1..Len(helper) -> HelperRec] /\ Len(helper) \in Nat
      BY <1>1, <3>1, Fields DEF IInv, Made
    <3> QED
      BY <3>2
  <2> QED
    BY <2>1, <2>2, <2>3 DEF Made
<1>d. \A h \in dead : h \in filed /\ h \in Made /\ ~helper[h].open
  BY DEF IInv, ThreadInv, Alive
<1> HIDE DEF dead, d
<1>3. \A u \in Threads : /\ (InClose(u)' <=> InClose(u)) /\ (LastRef(u)' <=> LastRef(u))
                         /\ (InStop(u)' <=> InStop(u)) /\ (HasRead(u)' <=> HasRead(u))
                         /\ (Sending(u)' <=> Sending(u))
  BY <1>1 DEF InClose, LastRef, InStop, HasRead, Sending
<1>4. \A u \in Threads : th[u].tgt # None => th[u].tgt \in Made
  BY DEF IInv, ThreadInv, Roles
<1>5. TypeOK'
  <2>1. swept' \in BOOLEAN
    BY <1>1, Zenon
  <2> QED
    BY <1>1, <1>2, <2>1 DEF IInv, TypeOK
<1>6. ThreadInv'
  <2>1. Roles'
    BY <1>1, <1>2, <1>3 DEF IInv, ThreadInv, Roles
  <2>2. \A u \in Threads : LastRef(u) => th[u].tgt \in Made /\ th[u].tgt \notin filed
                                         /\ helper[th[u].tgt].life = "live"
    BY <1>4 DEF IInv, ThreadInv, Roles, Alone, LastRef, InClose
  <2>3. Alone'
    BY <1>1, <1>2, <1>3, <1>d, <2>2 DEF IInv, ThreadInv, Alone
  <2>4. Fresh'
    <3>1. \A u \in Threads : th[u].pc \in {"connect", "file"} => LastRef(u)
      BY DEF LastRef
    <3> QED
      BY <1>1, <1>2, <1>3, <2>2, <3>1 DEF IInv, ThreadInv, Fresh
  <2>5. Alive'
    <3>1. th[Poll].tgt = None /\ ~InClose(Poll)
      BY <1>1, Numbers DEF IInv, ThreadInv, Roles, InClose
    <3> QED
      BY <1>1, <1>2, <1>3, <1>d, <3>1, Numbers DEF IInv, ThreadInv, Alive
  <2>6. StopPhase'
    <3>1. todo = {} /\ \A u \in Threads : ~InStop(u)
      BY <1>1 DEF IInv, ThreadInv, StopPhase
    <3>2. \A u \in Threads : ~(InClose(u) /\ th[u].ret = "stop")
      BY <3>1 DEF InStop
    <3> QED
      BY <1>1, <1>3, <3>1, <3>2 DEF StopPhase
  <2> QED
    BY <2>1, <2>3, <2>4, <2>5, <2>6 DEF ThreadInv
<1>7. SocketInv'
  <2>1. Owned' /\ StoreFree' /\ MisledOnlyByRace'
    BY <1>1, <1>2 DEF IInv, SocketInv, Owned, StoreFree, MisledOnlyByRace
  <2>2. OpenOwnsSocket'
    BY <1>1, <1>2 DEF IInv, SocketInv, OpenOwnsSocket, Closing, Behind
  <2>3. Registers'
    <3>1. \A u \in Threads : HasRead(u) => th[u].tgt \in Made
      BY <1>4 DEF IInv, ThreadInv, Roles, HasRead
    <3> QED
      BY <1>1, <1>2, <1>3, <3>1 DEF IInv, SocketInv, Registers, Behind
  <2> QED
    BY <2>1, <2>2, <2>3 DEF SocketInv
<1>8. EndInv'
  <2>1. Connected'
    <3>1. \A u \in Threads : LastRef(u) => th[u].tgt \in Made
      BY <1>4 DEF IInv, ThreadInv, Roles, LastRef, InClose
    <3> QED
      BY <1>1, <1>2, <1>3, <3>1 DEF IInv, EndInv, Connected
  <2>2. ClosedAtEnd'
    BY <1>1, <1>2, <1>3 DEF IInv, EndInv, ClosedAtEnd
  <2>3. LeakOnlyAfterReset'
    <3>1. \A h \in dead : \A f \in Fds : owner[f] # h
      BY <1>d, Fields, Numbers DEF IInv, SocketInv, Owned
    <3> QED
      BY <1>1, <1>2, <3>1 DEF IInv, EndInv, LeakOnlyAfterReset
  <2>4. DroppedOnlyAtEnd'
    <3>1. \A h \in dead : key[h] = None \/ raced \/ remote[h] \in {"fin", "rstseen"}
      BY <1>1, <1>d DEF IInv, EndInv, ClosedAtEnd
    <3> QED
      BY <1>1, <1>2, <3>1 DEF IInv, EndInv, DroppedOnlyAtEnd
  <2> QED
    BY <2>1, <2>2, <2>3, <2>4 DEF EndInv
<1>9. StreamInv'
  BY <1>1, <1>3, StreamFrame
<1> QED
  BY <1>5, <1>6, <1>7, <1>8, <1>9 DEF IInv

(***************************************************************************)
(* A new socket                                                            *)
(***************************************************************************)

\* A new socket, for connect_to_peer or from accept.
LEMMA OpenInv ==
  ASSUME IInv, NEW t \in Threads, NEW f \in Fds, NEW end \in {"new", "up"},
         NEW pc \in {"connect", "file"}, pc = "connect" => t # Poll,
         th[t].pc = "idle", Opens(f, end),
         th' = [th EXCEPT ![t].pc = pc, ![t].tgt = Len(helper) + 1],
         UNCHANGED <<shut, filed, key, running, todo, swept, stream, result, overlapped, fate,
                     raced, misled>>
  PROVE  IInv'
<1> DEFINE h == Len(helper) + 1
           r == [th[t] EXCEPT !.pc = pc, !.tgt = h]
<1>1. h \in Socks /\ h \notin Made /\ h # None /\ Len(helper) \in Nat /\ h \in Nat
      /\ owner[f] = None /\ h <= MaxSocks
  BY Fields, Numbers DEF Opens, LowestFree, Made, Socks, None, IInv
<1>r. r \in ThreadRec /\ r.pc = pc /\ r.tgt = h
  <2> HIDE DEF h
  <2> QED
    BY <1>1, Fields DEF IInv, ThreadRec
<1>c. NewHelper(f) \in HelperRec /\ NewHelper(f).sock = f /\ NewHelper(f).open
      /\ ~NewHelper(f).init /\ NewHelper(f).life = "live"
  BY DEF NewHelper, HelperRec
<1>h. /\ helper' \in Seq(HelperRec) /\ Len(helper') = h /\ helper'[h] = NewHelper(f)
      /\ \A g \in Made : helper'[g] = helper[g]
  BY <1>c DEF Opens, IInv, TypeOK, Made
<1>m. Made' = Made \cup {h}
  BY <1>1, <1>h DEF Made
<1>2. th' = [th EXCEPT ![t] = r]
  OBVIOUS
<1>o. /\ owner' \in [Fds -> Socks \cup {None}] /\ owner'[f] = h
      /\ \A g \in Fds : g # f => owner'[g] = owner[g]
      /\ remote' \in [Socks -> {"new", "up", "fin", "rst", "rstseen"}] /\ remote'[h] = end
      /\ \A g \in Socks : g # h => remote'[g] = remote[g]
  BY <1>1 DEF Opens, IInv, TypeOK
<1> HIDE DEF h, r
<1>t. /\ th' \in [Threads -> ThreadRec] /\ th'[t] = r
      /\ \A u \in Threads : u # t =>
           /\ th'[u] = th[u] /\ (InClose(u)' <=> InClose(u)) /\ (LastRef(u)' <=> LastRef(u))
           /\ (InStop(u)' <=> InStop(u)) /\ (HasRead(u)' <=> HasRead(u))
           /\ (Sending(u)' <=> Sending(u))
  BY <1>2, <1>r, Others
<1>s. /\ ~InClose(t)' /\ LastRef(t)' /\ ~InStop(t)' /\ ~HasRead(t)' /\ ~Sending(t)'
      /\ th'[t].pc # "store" /\ th'[t].pc = pc /\ th'[t].tgt = h
      /\ (th'[t].pc = "connect" <=> pc = "connect")
  BY <1>r, <1>t DEF InClose, LastRef, InStop, HasRead, Sending
<1>a. \A u \in Threads : th[u].tgt # h /\ (th[u].tgt # None => th[u].tgt \in Made)
  BY <1>1 DEF IInv, ThreadInv, Roles
<1>b. \A u \in Threads : LastRef(u) \/ HasRead(u) \/ InClose(u) => th[u].tgt \in Made /\ th[u].tgt \in Socks
  BY <1>a, Fields DEF IInv, ThreadInv, Roles, LastRef, HasRead, InClose
<1>u. UNCHANGED <<shut, filed, key, running, todo, swept, stream, result, overlapped, fate,
                  raced, misled>>
  OBVIOUS
<1>4. TypeOK'
  BY <1>1, <1>h, <1>o, <1>t, <1>u DEF IInv, TypeOK
<1>5. ThreadInv'
  <2>1. Roles'
    BY <1>1, <1>a, <1>m, <1>s, <1>t DEF IInv, ThreadInv, Roles
  <2>2. Alone'
    <3>1. ASSUME NEW u \in Threads, u # t, LastRef(u)
          PROVE  /\ th'[u].tgt \notin filed' /\ helper'[th'[u].tgt].life = "live"
                 /\ \A w \in Threads : w # u /\ th'[w].tgt = th'[u].tgt =>
                      th'[w].pc \in {"send", "sendcall"}
      BY <1>a, <1>b, <1>h, <1>s, <1>t, <1>u, <3>1 DEF IInv, ThreadInv, Alone
    <3>2. /\ h \notin filed' /\ helper'[h].life = "live"
          /\ \A w \in Threads : w # t => th'[w].tgt # h
      BY <1>1, <1>a, <1>c, <1>h, <1>t, <1>u DEF IInv, ThreadInv, Alive
    <3> QED
      BY <1>s, <1>t, <3>1, <3>2 DEF Alone
  <2>3. Fresh'
    <3>0. key[h] = None /\ h \notin shut
      BY <1>1 DEF IInv, ThreadInv, Fresh
    <3>1. \A u \in Threads : th[u].pc \in {"connect", "file"} => LastRef(u)
      BY DEF LastRef
    <3>2. \A u \in Threads : th'[u].pc \in {"connect", "file"} =>
            helper'[th'[u].tgt].open /\ key'[th'[u].tgt] = None
      BY <1>b, <1>c, <1>h, <1>s, <1>t, <1>u, <3>0, <3>1 DEF IInv, ThreadInv, Fresh
    <3>3. \A u \in Threads : th'[u].pc = "connect" =>
            ~helper'[th'[u].tgt].init /\ (raced' \/ th'[u].tgt \notin shut')
      BY <1>b, <1>c, <1>h, <1>s, <1>t, <1>u, <3>0, <3>1 DEF IInv, ThreadInv, Fresh
    <3>4. \A u \in Threads : LastRef(u)' /\ running' => key'[th'[u].tgt] = None
      BY <1>s, <1>t, <1>u, <3>0 DEF IInv, ThreadInv, Fresh
    <3> QED
      BY <1>m, <1>u, <3>2, <3>3, <3>4 DEF IInv, ThreadInv, Fresh
  <2>4. Alive'
    <3>1. filed' \subseteq Made' /\ \A g \in filed' : helper'[g].life = "live"
      BY <1>h, <1>m, <1>u DEF IInv, ThreadInv, Alive
    <3>2. th'[Poll].tgt # None => helper'[th'[Poll].tgt].life = "live"
      BY <1>a, <1>c, <1>h, <1>s, <1>t, Numbers DEF IInv, ThreadInv, Alive
    <3>3. running' /\ (th'[Poll].pc \in {"recvcall", "drop"}
                       \/ (InClose(Poll)' /\ th'[Poll].ret = "recv")) => th'[Poll].tgt \in filed'
      BY <1>s, <1>t, <1>u, Numbers DEF IInv, ThreadInv, Alive
    <3> QED
      BY <3>1, <3>2, <3>3 DEF Alive
  <2>5. StopPhase'
    <3>1. \A u \in Threads : th'[u].pc = "clear" \/ (InClose(u)' /\ th'[u].ret = "clear")
            => todo' = {}
      BY <1>s, <1>t, <1>u DEF IInv, ThreadInv, StopPhase
    <3> QED
      BY <1>s, <1>t, <1>u, <3>1 DEF IInv, ThreadInv, StopPhase
  <2> QED
    BY <2>1, <2>2, <2>3, <2>4, <2>5 DEF ThreadInv
<1>6. SocketInv'
  <2>1. Owned'
    <3>1. ASSUME NEW g \in Fds, owner'[g] # None
          PROVE  owner'[g] \in Made' /\ helper'[owner'[g]].open /\ helper'[owner'[g]].sock = g
      <4>1. CASE g = f
        BY <1>c, <1>h, <1>m, <1>o, <4>1
      <4>2. CASE g # f
        BY <1>h, <1>m, <1>o, <3>1, <4>2 DEF IInv, SocketInv, Owned
      <4> QED
        BY <4>1, <4>2
    <3>2. \A g \in Made' : helper'[g].open <=> helper'[g].sock \in Fds
      <4>1. helper'[h].open /\ helper'[h].sock \in Fds
        BY <1>c, <1>h
      <4>2. \A g \in Made : helper'[g].open <=> helper'[g].sock \in Fds
        BY <1>h DEF IInv, SocketInv, Owned
      <4> QED
        BY <1>m, <4>1, <4>2
    <3> QED
      BY <3>1, <3>2 DEF Owned
  <2>b. \A x : Behind(x) # None => Behind(x)' = Behind(x)
    BY <1>1, <1>o DEF Behind
  <2>2. OpenOwnsSocket'
    <3>1. ASSUME NEW g \in Made, helper[g].open, ~raced
          PROVE  Closing(g)' \/ Behind(helper[g].sock)' = g
      <4>1. Closing(g) \/ Behind(helper[g].sock) = g
        BY <3>1 DEF IInv, SocketInv, OpenOwnsSocket
      <4>2. CASE Closing(g)
        <5>1. PICK u \in Threads : th[u].tgt = g /\ th[u].pc = "store"
          BY <4>2 DEF Closing
        <5>2. u # t
          BY <5>1
        <5> QED
          BY <1>t, <5>1, <5>2 DEF Closing
      <4>3. CASE Behind(helper[g].sock) = g
        <5>1. helper'[g] = helper[g] /\ g # None
          BY <1>h, Fields DEF IInv
        <5> QED
          BY <1>1, <1>o, <4>3, <5>1 DEF Behind
      <4> QED
        BY <4>1, <4>2, <4>3
    <3>2. Behind(f)' = h
      BY <1>o DEF Behind
    <3>3. \A g \in Made' : helper'[g].open /\ ~raced' => Closing(g)' \/ (Behind(helper[g].sock)' = g /\ g \in Made) \/ g = h
      BY <1>h, <1>m, <1>u, <3>1
    <3>4. \A g \in Made : Behind(helper[g].sock)' = g => (IF helper'[g].sock \in Fds THEN owner'[helper'[g].sock] ELSE None) = g
      BY <1>h DEF Behind
    <3>5. (IF helper'[h].sock \in Fds THEN owner'[helper'[h].sock] ELSE None) = h
      BY <1>c, <1>h, <1>o
    <3> QED
      BY <3>3, <3>4, <3>5 DEF OpenOwnsSocket, Behind
  <2>3. Registers'
    <3>1. ASSUME NEW u \in Threads, HasRead(u)'
          PROVE  /\ th'[u].reg \in Fds \cup {Closed}
                 /\ helper'[th'[u].tgt].open => th'[u].reg = helper'[th'[u].tgt].sock
                 /\ raced' \/ th'[u].reg = Closed \/ Behind(th[u].reg)' = th'[u].tgt
      <4>1. u # t /\ HasRead(u) /\ th'[u] = th[u] /\ th[u].tgt \in Made /\ th[u].tgt # None
        BY <1>b, <1>s, <1>t, <3>1, Fields DEF IInv
      <4>2. /\ th[u].reg \in Fds \cup {Closed}
            /\ helper[th[u].tgt].open => th[u].reg = helper[th[u].tgt].sock
            /\ raced \/ th[u].reg = Closed \/ Behind(th[u].reg) = th[u].tgt
        BY <4>1 DEF IInv, SocketInv, Registers
      <4> QED
        BY <1>h, <1>u, <2>b, <4>1, <4>2
    <3>2. \A u \in Threads : HasRead(u)' => u # t /\ th'[u] = th[u]
      BY <1>s, <1>t
    <3> QED
      BY <3>1, <3>2 DEF Registers, Behind
  <2>4. StoreFree' /\ MisledOnlyByRace'
    <3>1. \A u \in Threads : th'[u].pc = "store" => u # t /\ th'[u] = th[u]
      BY <1>s, <1>t
    <3>2. \A u \in Threads : th[u].tgt # owner'[f]
      BY <1>a, <1>o
    <3> QED
      <4>1. MisledOnlyByRace'
        BY <1>u DEF IInv, SocketInv, MisledOnlyByRace
      <4>2. ASSUME NEW u \in Threads, th'[u].pc = "store", NEW d \in Fds
            PROVE  owner'[d] # th'[u].tgt
        <5>1. th'[u] = th[u] /\ th[u].pc = "store"
          BY <3>1, <4>2
        <5>2. owner[d] # th[u].tgt
          BY <5>1 DEF IInv, SocketInv, StoreFree
        <5> QED
          BY <1>o, <3>2, <5>1, <5>2
      <4> QED
        BY <4>1, <4>2 DEF StoreFree
  <2> QED
    BY <2>1, <2>2, <2>3, <2>4 DEF SocketInv
<1>7. EndInv'
  <2>1. Connected'
    <3>1. \A u \in Threads : LastRef(u)' /\ th'[u].pc = "shut" => helper'[th'[u].tgt].init
      BY <1>b, <1>h, <1>s, <1>t DEF IInv, EndInv, Connected
    <3>2. \A g \in Made' : helper'[g].init => remote'[g] # "new" /\ (raced' \/ g \notin shut')
      BY <1>1, <1>c, <1>h, <1>m, <1>o, <1>u, Fields DEF IInv, EndInv, Connected
    <3> QED
      BY <3>1, <3>2 DEF Connected
  <2>2. ClosedAtEnd'
    <3>1. ~raced' => \A u \in Threads : InClose(u)' /\ th'[u].ret = "recv" =>
            remote'[th'[u].tgt] \in {"fin", "rstseen"}
      BY <1>a, <1>b, <1>o, <1>s, <1>t, <1>u DEF IInv, EndInv, ClosedAtEnd
    <3>2. running' /\ ~raced' => \A g \in Made' :
            helper'[g].open \/ key'[g] = None \/ remote'[g] \in {"fin", "rstseen"}
      BY <1>1, <1>c, <1>h, <1>m, <1>o, <1>u, Fields DEF IInv, EndInv, ClosedAtEnd
    <3> QED
      BY <3>1, <3>2 DEF ClosedAtEnd
  <2>3. LeakOnlyAfterReset'
    <3>1. ASSUME NEW g \in Made', NEW d \in Fds, helper'[g].life = "destroyed", owner'[d] = g
          PROVE  raced' \/ (helper'[g].init /\ remote'[g] \in {"rst", "rstseen"})
      <4>1. g # h /\ g \in Made /\ g \in Socks /\ d # f
        BY <1>c, <1>h, <1>m, <1>o, <3>1, Fields DEF IInv
      <4> QED
        BY <1>h, <1>o, <1>u, <3>1, <4>1 DEF IInv, EndInv, LeakOnlyAfterReset
    <3> QED
      BY <3>1 DEF LeakOnlyAfterReset
  <2>4. DroppedOnlyAtEnd'
    BY <1>1, <1>c, <1>h, <1>m, <1>o, <1>u, Fields DEF IInv, EndInv, DroppedOnlyAtEnd
  <2> QED
    BY <2>1, <2>2, <2>3, <2>4 DEF EndInv
<1>8. StreamInv'
  BY <1>s, <1>t, <1>u, StreamFrame
<1> QED
  BY <1>4, <1>5, <1>6, <1>7, <1>8 DEF IInv

\* connect_to_peer makes a socket.
LEMMA ConstructInv ==
  ASSUME IInv, NEW t \in Connectors, NEW f \in Fds, Construct(t, f) PROVE IInv'
BY OpenInv, Numbers DEF Construct, At, mapVars, sendVars, flags

\* handle_new_client makes a SocketHelper of what accept returns.
LEMMA AcceptInv == ASSUME IInv, NEW f \in Fds, Accept(f) PROVE IInv'
BY OpenInv, Numbers DEF Accept, At, mapVars, sendVars, flags

(***************************************************************************)
(* close_sock: close                                                       *)
(***************************************************************************)

\* close_sock works on an object that is alive.
LEMMA LiveWhileClosing ==
  ASSUME IInv, NEW t \in Threads, InClose(t)
  PROVE  th[t].tgt \in Made /\ th[t].tgt # None /\ helper[th[t].tgt].life = "live"
<1>1. /\ th[t].tgt \in Made /\ th[t].tgt # None
      /\ th[t].ret \in IF t = Poll THEN {"recv", "free"} ELSE {"stop", "free", "clear"}
  BY DEF IInv, ThreadInv, Roles, InClose
<1>2. th[t].ret \in {"free", "clear"} => helper[th[t].tgt].life = "live"
  BY DEF IInv, ThreadInv, Alone, LastRef
<1>3. t = Poll => helper[th[t].tgt].life = "live"
  BY <1>1 DEF IInv, ThreadInv, Alive
<1>4. th[t].ret = "stop" => helper[th[t].tgt].life = "live"
  BY DEF IInv, ThreadInv, StopPhase, Alive
<1> QED
  BY <1>1, <1>2, <1>3, <1>4

\* A step inside close_sock, which changes no more of the helper than is_sock_init.
LEMMA ClosingThreads ==
  ASSUME IInv, NEW t \in Threads, NEW r \in ThreadRec, th' = [th EXCEPT ![t] = r],
         InClose(t), r.pc \in {"shut", "release", "store"}, r.tgt = th[t].tgt,
         r.ret = th[t].ret,
         Len(helper') = Len(helper),
         \A g \in Made : /\ (helper'[g].open <=> helper[g].open)
                         /\ helper'[g].life = helper[g].life
                         /\ helper'[g].init => helper[g].init,
         shut \subseteq shut', shut' \subseteq Made, raced' \/ shut' \subseteq shut \cup {th[t].tgt},
         raced => raced',
         UNCHANGED <<filed, key, running, todo>>
  PROVE  ThreadInv'
<1>m. Made' = Made
  BY DEF Made
<1>t. /\ th'[t] = r
      /\ \A u \in Threads : u # t =>
           /\ th'[u] = th[u] /\ (InClose(u)' <=> InClose(u)) /\ (LastRef(u)' <=> LastRef(u))
           /\ (InStop(u)' <=> InStop(u))
  BY Others
<1>s. (InClose(t)' <=> InClose(t)) /\ (LastRef(t)' <=> LastRef(t)) /\ (InStop(t)' <=> InStop(t))
  BY <1>t DEF InClose, LastRef, InStop
<1>a. \A u \in Threads : /\ th'[u].tgt = th[u].tgt
                         /\ InClose(u) => th'[u].ret = th[u].ret
                         /\ u = t \/ th'[u] = th[u]
                         /\ LastRef(u) => th[u].tgt \in Made
  BY <1>t DEF IInv, ThreadInv, Roles, LastRef, InClose
<1>b. /\ th[t].pc \in {"shut", "release", "store"} /\ th'[t].pc \in {"shut", "release", "store"}
      /\ th[t].tgt # None
  BY <1>t, LiveWhileClosing DEF InClose
<1>1. Roles'
  BY <1>m, <1>s, <1>t, <1>b DEF IInv, ThreadInv, Roles
<1>2. Alone'
  <2>1. ASSUME NEW u \in Threads, LastRef(u)
        PROVE  /\ th'[u].tgt \notin filed' /\ helper'[th'[u].tgt].life = "live"
               /\ \A w \in Threads : w # u /\ th'[w].tgt = th'[u].tgt =>
                    th'[w].pc \in {"send", "sendcall"}
    <3>1. /\ th[u].tgt \notin filed /\ helper[th[u].tgt].life = "live"
          /\ \A w \in Threads : w # u /\ th[w].tgt = th[u].tgt =>
               th[w].pc \in {"send", "sendcall"}
      BY <2>1 DEF IInv, ThreadInv, Alone
    <3> QED
      BY <1>a, <1>b, <2>1, <3>1
  <2> QED
    BY <1>s, <1>t, <2>1 DEF Alone
<1>3. Fresh'
  <2>1. \A u \in Threads : th'[u].pc \in {"connect", "file"} =>
          /\ u # t /\ th'[u] = th[u] /\ LastRef(u) /\ th[u].tgt \in Made
          /\ th[u].tgt # th[t].tgt
    BY <1>a, <1>b DEF IInv, ThreadInv, Alone, LastRef
  <2>2. \A u \in Threads : th'[u].pc \in {"connect", "file"} =>
          helper'[th'[u].tgt].open /\ key'[th'[u].tgt] = None
    BY <2>1 DEF IInv, ThreadInv, Fresh
  <2>3. \A u \in Threads : th'[u].pc = "connect" =>
          ~helper'[th'[u].tgt].init /\ (raced' \/ th'[u].tgt \notin shut')
    BY <2>1 DEF IInv, ThreadInv, Fresh
  <2>4. \A u \in Threads : LastRef(u)' /\ running' => key'[th'[u].tgt] = None
    BY <1>a, <1>s, <1>t DEF IInv, ThreadInv, Fresh
  <2> QED
    BY <1>m, <2>2, <2>3, <2>4 DEF IInv, ThreadInv, Fresh
<1>4. Alive'
  <2>1. th[Poll].tgt # None => th[Poll].tgt \in Made
    BY Numbers DEF IInv, ThreadInv, Roles
  <2>2. th'[Poll].pc \in {"recvcall", "drop"} \/ (InClose(Poll)' /\ th'[Poll].ret = "recv")
          => th[Poll].pc \in {"recvcall", "drop"} \/ (InClose(Poll) /\ th[Poll].ret = "recv")
    BY <1>a, <1>b, <1>s, <1>t, Numbers
  <2> QED
    BY <1>a, <1>m, <2>1, <2>2, Numbers DEF IInv, ThreadInv, Alive
<1>5. StopPhase'
  <2>1. \A u \in Threads : th'[u].pc = "clear" \/ (InClose(u)' /\ th'[u].ret = "clear")
          => todo' = {}
    BY <1>a, <1>b, <1>s, <1>t DEF IInv, ThreadInv, StopPhase
  <2>2. \A u \in Threads : InClose(u)' /\ th'[u].ret = "stop" => th'[u].tgt \in filed'
    BY <1>a, <1>s, <1>t DEF IInv, ThreadInv, StopPhase
  <2> QED
    BY <1>s, <1>t, <2>1, <2>2 DEF IInv, ThreadInv, StopPhase
<1> QED
  BY <1>1, <1>2, <1>3, <1>4, <1>5 DEF ThreadInv

\* close_sock: the descriptor goes back to the kernel.
LEMMA ReleaseInv == ASSUME IInv, NEW t \in Threads, Release(t) PROVE IInv'
<1> DEFINE h == th[t].tgt
           s == Behind(th[t].reg)
           r == [th[t] EXCEPT !.pc = "store"]
<1>1. /\ th[t].pc = "release" /\ InClose(t) /\ HasRead(t) /\ s # None
      /\ th' = [th EXCEPT ![t] = r]
      /\ owner' = [owner EXCEPT ![th[t].reg] = None]
      /\ misled' = (misled \/ s # h) /\ raced' = (raced \/ CallPending(t, s))
      /\ UNCHANGED <<helper, remote, shut, filed, key, running, todo, swept, stream, result,
                     overlapped, fate>>
  BY DEF Release, At, InClose, HasRead, Reaches, Goes, mapVars, sendVars
<1>2. h \in Made /\ h # None /\ h \in Socks /\ helper[h].life = "live"
  BY <1>1, LiveWhileClosing, Fields DEF IInv
<1>r. r \in ThreadRec /\ r.pc = "store" /\ r.tgt = h /\ r.ret = th[t].ret
  BY NewState
<1>3. th[t].reg \in Fds /\ owner[th[t].reg] = s /\ s \in Made /\ helper[s].open
      /\ helper[s].sock = th[t].reg
  BY <1>1 DEF Behind, IInv, SocketInv, Owned
<1>4. raced \/ s = h
  BY <1>1, Reached
<1>f. /\ misled \in BOOLEAN /\ raced \in BOOLEAN /\ (misled => raced)
      /\ misled' \in BOOLEAN /\ raced' \in BOOLEAN /\ (raced => raced') /\ (misled => misled')
      /\ (misled' => raced') /\ (~raced' => ~raced /\ ~CallPending(t, s) /\ s = h)
  <2>1. misled \in BOOLEAN /\ raced \in BOOLEAN /\ (misled => raced)
    BY DEF IInv, TypeOK, SocketInv, MisledOnlyByRace
  <2>2. (misled' <=> (misled \/ s # h)) /\ (raced' <=> (raced \/ CallPending(t, s)))
    BY <1>1
  <2>3. misled' \in BOOLEAN /\ raced' \in BOOLEAN
    BY <1>1
  <2> QED
    BY <1>4, <2>1, <2>2, <2>3
<1>o. /\ owner' \in [Fds -> Socks \cup {None}] /\ owner'[th[t].reg] = None
      /\ \A g \in Fds : g # th[t].reg => owner'[g] = owner[g]
  BY <1>1, <1>3 DEF IInv, TypeOK
<1>u. UNCHANGED <<helper, remote, shut, filed, key, running, todo, swept, stream, result,
                  overlapped, fate>>
  BY <1>1
<1>m. Made' = Made
  BY <1>u DEF Made
<1> HIDE DEF r
<1>t. /\ th' \in [Threads -> ThreadRec] /\ th'[t] = r
      /\ \A u \in Threads : u # t =>
           /\ th'[u] = th[u] /\ (InClose(u)' <=> InClose(u)) /\ (HasRead(u)' <=> HasRead(u))
           /\ (Sending(u)' <=> Sending(u)) /\ (LastRef(u)' <=> LastRef(u))
  BY <1>1, <1>r, Others
<1>s. /\ InClose(t)' /\ ~HasRead(t)' /\ ~Sending(t)' /\ th'[t].pc = "store" /\ th'[t].tgt = h
  BY <1>r, <1>t DEF InClose, HasRead, Sending
<1>5. TypeOK'
  BY <1>f, <1>o, <1>t, <1>u DEF IInv, TypeOK
<1>6. ThreadInv'
  <2>1. shut \subseteq Made
    BY DEF IInv, ThreadInv, Fresh
  <2> QED
    BY <1>1, <1>f, <1>r, <1>u, <2>1, ClosingThreads
<1>7. SocketInv'
  <2>1. Owned'
    BY <1>m, <1>o, <1>u DEF IInv, SocketInv, Owned
  <2>2. OpenOwnsSocket'
    <3>1. ASSUME NEW g \in Made, helper[g].open, ~raced'
          PROVE  Closing(g)' \/ (helper[g].sock \in Fds /\ owner'[helper[g].sock] = g)
      <4>0. Closing(g) \/ Behind(helper[g].sock) = g
        BY <1>f, <3>1 DEF IInv, SocketInv, OpenOwnsSocket
      <4>1. CASE g = h
        BY <1>s, <4>1 DEF Closing
      <4>2. CASE g # h /\ Closing(g)
        <5>1. PICK u \in Threads : th[u].tgt = g /\ th[u].pc = "store"
          BY <4>2 DEF Closing
        <5>2. u # t
          BY <1>1, <5>1
        <5> QED
          BY <1>t, <5>1, <5>2 DEF Closing
      <4>3. CASE g # h /\ Behind(helper[g].sock) = g
        <5>1. helper[g].sock \in Fds /\ owner[helper[g].sock] = g
          BY <3>1, <4>3, Fields DEF Behind, IInv
        <5>2. helper[g].sock # th[t].reg
          BY <1>3, <1>f, <3>1, <4>3, <5>1
        <5> QED
          BY <1>o, <5>1, <5>2
      <4> QED
        BY <4>0, <4>1, <4>2, <4>3
    <3> QED
      BY <1>m, <1>u, <3>1 DEF OpenOwnsSocket, Behind
  <2>3. Registers'
    <3>1. ASSUME NEW u \in Threads, HasRead(u)'
          PROVE  /\ th'[u].reg \in Fds \cup {Closed}
                 /\ helper'[th'[u].tgt].open => th'[u].reg = helper'[th'[u].tgt].sock
                 /\ raced' \/ th'[u].reg = Closed
                      \/ (th'[u].reg \in Fds /\ owner'[th'[u].reg] = th'[u].tgt)
      <4>1. u # t /\ HasRead(u) /\ th'[u] = th[u]
        BY <1>s, <1>t, <3>1
      <4>2. /\ th[u].reg \in Fds \cup {Closed}
            /\ helper[th[u].tgt].open => th[u].reg = helper[th[u].tgt].sock
            /\ raced \/ th[u].reg = Closed \/ Behind(th[u].reg) = th[u].tgt
        BY <4>1 DEF IInv, SocketInv, Registers
      <4>3. ASSUME ~raced', th[u].reg # Closed
            PROVE  th[u].reg \in Fds /\ owner'[th[u].reg] = th[u].tgt
        <5>1. th[u].reg \in Fds /\ owner[th[u].reg] = th[u].tgt
          BY <1>f, <4>2, <4>3 DEF Behind
        <5>2. th[u].tgt # s
          BY <1>f, <4>1, <4>3 DEF CallPending, HasRead
        <5> QED
          BY <1>3, <1>o, <5>1, <5>2
      <4> QED
        BY <1>u, <4>1, <4>2, <4>3
    <3> QED
      BY <3>1 DEF Registers, Behind
  <2>4. StoreFree'
    <3>1. ASSUME NEW f \in Fds PROVE owner'[f] # h
      <4>1. CASE helper[h].open
        BY <1>1, <1>2, <1>o, <4>1 DEF IInv, SocketInv, Owned, Registers
      <4>2. CASE ~helper[h].open
        BY <1>2, <1>o, <4>2 DEF IInv, SocketInv, Owned
      <4> QED
        BY <4>1, <4>2
    <3>2. ASSUME NEW u \in Threads, u # t, th[u].pc = "store", NEW f \in Fds
          PROVE  owner'[f] # th[u].tgt
      <4>1. th[u].tgt # None /\ owner[f] # th[u].tgt
        BY <3>2 DEF IInv, SocketInv, StoreFree, ThreadInv, Roles
      <4> QED
        BY <1>o, <4>1
    <3> QED
      BY <1>s, <1>t, <3>1, <3>2 DEF StoreFree
  <2>5. MisledOnlyByRace'
    BY <1>f DEF MisledOnlyByRace
  <2> QED
    BY <2>1, <2>2, <2>3, <2>4, <2>5 DEF SocketInv
<1>8. EndInv'
  <2>1. Connected'
    <3>1. \A u \in Threads : LastRef(u)' /\ th'[u].pc = "shut" => u # t /\ LastRef(u) /\ th'[u] = th[u]
      BY <1>s, <1>t
    <3> QED
      BY <1>f, <1>m, <1>u, <3>1 DEF IInv, EndInv, Connected
  <2>2. ClosedAtEnd'
    <3>1. \A u \in Threads : InClose(u)' => InClose(u) /\ th'[u].ret = th[u].ret
                                            /\ th'[u].tgt = th[u].tgt
      BY <1>1, <1>r, <1>t
    <3> QED
      BY <1>f, <1>m, <1>u, <3>1 DEF IInv, EndInv, ClosedAtEnd
  <2>3. LeakOnlyAfterReset'
    <3>1. ASSUME NEW g \in Made, NEW f \in Fds, owner'[f] = g PROVE owner[f] = g
      BY <1>o, <3>1, Fields DEF IInv
    <3> QED
      BY <1>f, <1>m, <1>u, <3>1 DEF IInv, EndInv, LeakOnlyAfterReset
  <2>4. DroppedOnlyAtEnd'
    BY <1>f, <1>m, <1>u DEF IInv, EndInv, DroppedOnlyAtEnd
  <2> QED
    BY <2>1, <2>2, <2>3, <2>4 DEF EndInv
<1>9. StreamInv'
  <2>1. \A u \in Threads : Sending(u)' => Sending(u) /\ th'[u].tgt = th[u].tgt
                             /\ th'[u].op = th[u].op /\ th'[u].put = th[u].put
    BY <1>s, <1>t
  <2> QED
    BY <1>f, <1>u, <2>1, StreamFrame
<1> QED
  BY <1>5, <1>6, <1>7, <1>8, <1>9 DEF IInv

(***************************************************************************)
(* close_sock: shutdown                                                    *)
(***************************************************************************)

\* close_sock: shutdown, and is_sock_init is reset.
LEMMA ShutdownInv == ASSUME IInv, NEW t \in Threads, Shutdown(t) PROVE IInv'
<1> DEFINE h == th[t].tgt
           s == Behind(th[t].reg)
           r == [th[t] EXCEPT !.pc = "release", !.reg = helper[h].sock]
           c == [helper[h] EXCEPT !.init = FALSE]
<1>1. /\ th[t].pc = "shut" /\ InClose(t) /\ HasRead(t) /\ s # None
      /\ th' = [th EXCEPT ![t] = r] /\ helper' = [helper EXCEPT ![h] = c]
      /\ shut' = shut \cup {s} /\ misled' = (misled \/ s # h) /\ Reads(t, h)
      /\ UNCHANGED <<remote, owner, filed, key, running, todo, swept, stream, result, overlapped, fate>>
  BY DEF Shutdown, At, InClose, HasRead, Reaches, Refuses, mapVars, sendVars
<1>2. /\ h \in Made /\ h # None /\ h \in Socks /\ helper[h].life = "live"
      /\ helper[h].sock \in Fds \cup {Closed}
  BY <1>1, LiveWhileClosing, Fields DEF IInv
<1>3. s \in Made /\ s \in Socks
  BY <1>1, Fields DEF Behind, IInv, SocketInv, Owned
<1>4. raced \/ s = h
  BY <1>1, Reached
<1>f. /\ misled' \in BOOLEAN /\ raced' \in BOOLEAN /\ (raced => raced') /\ (misled => misled')
      /\ (misled' => raced')
      /\ ~raced' => ~raced /\ s = h
                    /\ \A u \in Threads \ {t} : ~(th[u].tgt = h /\ th[u].pc = "store")
  <2>1. misled \in BOOLEAN /\ raced \in BOOLEAN /\ (misled => raced)
    BY DEF IInv, TypeOK, SocketInv, MisledOnlyByRace
  <2>2. (misled' <=> (misled \/ s # h))
        /\ (raced' <=> (raced \/ \E u \in Threads \ {t} : th[u].tgt = h /\ th[u].pc = "store"))
    BY <1>1 DEF Reads
  <2>3. misled' \in BOOLEAN /\ raced' \in BOOLEAN
    BY <1>1 DEF Reads
  <2> QED
    BY <1>4, <2>1, <2>2, <2>3
<1>r. r \in ThreadRec /\ r.pc = "release" /\ r.tgt = h /\ r.ret = th[t].ret
      /\ r.reg = helper[h].sock
  BY <1>2, Fields DEF IInv, ThreadRec
<1>c. /\ c \in HelperRec /\ ~c.init /\ c.sock = helper[h].sock /\ c.life = helper[h].life
      /\ (c.open <=> helper[h].open)
  BY <1>2, Fields DEF IInv, HelperRec
<1>u. UNCHANGED <<remote, owner, filed, key, running, todo, swept, stream, result, overlapped, fate>>
  BY <1>1
<1> HIDE DEF r, c
<1>h. /\ helper' \in Seq(HelperRec) /\ Len(helper') = Len(helper) /\ Made' = Made
      /\ \A g \in Made : /\ g # h => helper'[g] = helper[g]
                         /\ (helper'[g].open <=> helper[g].open)
                         /\ helper'[g].sock = helper[g].sock /\ helper'[g].life = helper[g].life
                         /\ (helper'[g].init => helper[g].init /\ g # h)
  <2>1. /\ helper' \in Seq(HelperRec) /\ Len(helper') = Len(helper)
        /\ \A g \in Made : helper'[g] = IF g = h THEN c ELSE helper[g]
    BY <1>1, <1>2, <1>c, Changed DEF IInv
  <2> QED
    BY <1>2, <1>c, <2>1 DEF Made
<1>t. /\ th' \in [Threads -> ThreadRec] /\ th'[t] = r
      /\ \A u \in Threads : u # t =>
           /\ th'[u] = th[u] /\ (InClose(u)' <=> InClose(u)) /\ (HasRead(u)' <=> HasRead(u))
           /\ (Sending(u)' <=> Sending(u)) /\ (LastRef(u)' <=> LastRef(u))
  BY <1>1, <1>r, Others
<1>s. /\ InClose(t)' /\ HasRead(t)' /\ ~Sending(t)' /\ th'[t].pc = "release" /\ th'[t].tgt = h
      /\ th'[t].reg = helper[h].sock /\ th[t].pc # "store"
  BY <1>1, <1>r, <1>t DEF InClose, HasRead, Sending
<1>5. TypeOK'
  BY <1>1, <1>3, <1>f, <1>h, <1>t, <1>u DEF IInv, TypeOK
<1>6. ThreadInv'
  <2>1. shut \subseteq Made
    BY DEF IInv, ThreadInv, Fresh
  <2>2. shut \subseteq shut' /\ shut' \subseteq Made /\ (raced' \/ shut' \subseteq shut \cup {h})
    BY <1>1, <1>3, <1>f, <2>1
  <2> QED
    BY <1>1, <1>f, <1>h, <1>r, <1>u, <2>2, ClosingThreads
<1>7. SocketInv'
  <2>1. Owned'
    BY <1>h, <1>u DEF IInv, SocketInv, Owned
  <2>2. OpenOwnsSocket'
    <3>1. \A g \in Made : Closing(g) => Closing(g)'
      BY <1>s, <1>t DEF Closing
    <3> QED
      BY <1>f, <1>h, <1>u, <3>1 DEF IInv, SocketInv, OpenOwnsSocket, Behind
  <2>3. Registers'
    <3>1. ASSUME NEW u \in Threads, HasRead(u)', u # t
          PROVE  /\ th'[u].reg \in Fds \cup {Closed}
                 /\ helper'[th'[u].tgt].open => th'[u].reg = helper'[th'[u].tgt].sock
                 /\ raced' \/ th'[u].reg = Closed \/ Behind(th[u].reg)' = th'[u].tgt
      <4>1. HasRead(u) /\ th'[u] = th[u] /\ th[u].tgt \in Made
        BY <1>t, <3>1 DEF IInv, ThreadInv, Roles, HasRead
      <4> QED
        BY <1>f, <1>h, <1>u, <4>1 DEF IInv, SocketInv, Registers, Behind
    <3>2. ASSUME ~raced', helper[h].sock # Closed PROVE Behind(helper[h].sock) = h
      <4>1. helper[h].open /\ ~raced
        BY <1>2, <1>f, <3>2 DEF IInv, SocketInv, Owned
      <4>2. ~Closing(h)
        BY <1>1, <1>f, <3>2 DEF Closing
      <4> QED
        BY <1>2, <4>1, <4>2 DEF IInv, SocketInv, OpenOwnsSocket
    <3>3. raced' \/ th'[t].reg = Closed \/ Behind(th[t].reg)' = h
      BY <1>s, <1>u, <3>2 DEF Behind
    <3>4. th'[t].reg \in Fds \cup {Closed} /\ th'[t].reg = helper'[th'[t].tgt].sock
      BY <1>2, <1>h, <1>s
    <3> QED
      BY <1>s, <3>1, <3>3, <3>4 DEF Registers, Behind
  <2>4. StoreFree' /\ MisledOnlyByRace'
    BY <1>f, <1>s, <1>t, <1>u DEF IInv, SocketInv, StoreFree, MisledOnlyByRace
  <2> QED
    BY <2>1, <2>2, <2>3, <2>4 DEF SocketInv
<1>8. EndInv'
  <2>1. Connected'
    <3>1. ASSUME NEW u \in Threads, LastRef(u)', th'[u].pc = "shut"
          PROVE  helper'[th'[u].tgt].init
      <4>1. u # t /\ LastRef(u) /\ th'[u] = th[u] /\ th[u].pc = "shut"
        BY <1>s, <1>t, <3>1
      <4>2. th[u].tgt # h /\ th[u].tgt \in Made /\ helper[th[u].tgt].init
        BY <1>1, <4>1 DEF IInv, ThreadInv, Roles, Alone, LastRef, InClose, EndInv, Connected
      <4> QED
        BY <1>h, <4>1, <4>2
    <3>2. \A g \in Made : helper'[g].init => remote'[g] # "new" /\ (raced' \/ g \notin shut')
      <4>1. \A g \in Made : helper'[g].init => remote[g] # "new" /\ (raced \/ g \notin shut)
        BY <1>h DEF IInv, EndInv, Connected
      <4> QED
        BY <1>1, <1>f, <1>h, <1>u, <4>1
    <3> QED
      BY <1>h, <3>1, <3>2 DEF Connected
  <2>2. ClosedAtEnd'
    <3>1. \A u \in Threads : InClose(u)' => InClose(u) /\ th'[u].ret = th[u].ret
                                            /\ th'[u].tgt = th[u].tgt
      BY <1>1, <1>r, <1>t
    <3> QED
      BY <1>f, <1>h, <1>u, <3>1 DEF IInv, EndInv, ClosedAtEnd
  <2>3. LeakOnlyAfterReset'
    <3>1. ASSUME NEW g \in Made, helper'[g].life = "destroyed"
          PROVE  helper'[g] = helper[g] /\ helper[g].life = "destroyed"
      BY <1>2, <1>h, <3>1
    <3> QED
      BY <1>f, <1>h, <1>u, <3>1 DEF IInv, EndInv, LeakOnlyAfterReset
  <2>4. DroppedOnlyAtEnd'
    BY <1>f, <1>h, <1>u DEF IInv, EndInv, DroppedOnlyAtEnd
  <2> QED
    BY <2>1, <2>2, <2>3, <2>4 DEF EndInv
<1>9. StreamInv'
  <2>1. \A u \in Threads : Sending(u)' => Sending(u) /\ th'[u].tgt = th[u].tgt
                             /\ th'[u].op = th[u].op /\ th'[u].put = th[u].put
    BY <1>s, <1>t
  <2> QED
    BY <1>f, <1>u, <2>1, StreamFrame
<1> QED
  BY <1>5, <1>6, <1>7, <1>8, <1>9 DEF IInv

\* What a call of send puts behind a stream.
LEMMA Appended ==
  ASSUME NEW st \in Seq(Piece), NEW op \in 1..MaxSends, NEW put \in 0..PktLen,
         NEW n \in 1..PktLen, n <= PktLen - put
  PROVE  LET new == st \o Pieces(op, put, n) IN
         /\ new \in Seq(Piece) /\ Len(new) = Len(st) + n /\ Len(st) \in Nat
         /\ \A i \in 1..Len(st) : new[i] = st[i]
         /\ \A j \in 1..n : new[Len(st) + j] = [op |-> op, k |-> put + j]
<1> DEFINE ps == Pieces(op, put, n)
<1>0. n \in Nat /\ put \in Nat
  BY Numbers
<1>1. \A j \in 1..n : [op |-> op, k |-> put + j] \in Piece
  BY <1>0, Numbers DEF Piece
<1>2. ps \in Seq(Piece) /\ Len(ps) = n /\ \A j \in 1..n : ps[j] = [op |-> op, k |-> put + j]
  BY <1>0, <1>1 DEF Pieces
<1> HIDE DEF ps
<1>3. st \o ps \in Seq(Piece) /\ Len(st \o ps) = Len(st) + n /\ Len(st) \in Nat
  BY <1>0, <1>2
<1>4. \A i \in 1..Len(st) : (st \o ps)[i] = st[i]
  BY <1>0, <1>2
<1>5. \A j \in 1..n : (st \o ps)[Len(st) + j] = ps[j]
  BY <1>0, <1>2
<1> QED
  BY <1>2, <1>3, <1>4, <1>5 DEF ps

(***************************************************************************)
(* send_data                                                               *)
(***************************************************************************)

\* send takes some pieces of the packet.
LEMMA SendSomeInv == ASSUME IInv, NEW t \in Users, NEW n \in 1..PktLen, SendSome(t, n) PROVE IInv'
<1> DEFINE h == th[t].tgt
           s == Behind(th[t].reg)
           op == th[t].op
           put == th[t].put
           done == put + n = PktLen
           more == [th[t] EXCEPT !.pc = "send", !.reg = None, !.put = put + n]
           r == IF done THEN Idle ELSE more
<1>1. /\ t \in Threads /\ t # Poll /\ th[t].pc = "sendcall" /\ HasRead(t) /\ Sending(t)
      /\ s # None /\ n <= PktLen - put
  BY Numbers DEF SendSome, At, HasRead, Sending
<1>p. th' = [th EXCEPT ![t] = r]
  <2>1. th' = [th EXCEPT ![t] = IF done THEN Idle ELSE more]
    BY Zenon DEF SendSome
  <2> QED
    BY <2>1, Zenon
<1>q. /\ stream' = [stream EXCEPT ![s] = stream[s] \o Pieces(op, put, n)]
      /\ result' = IF done THEN [result EXCEPT ![op].end = "whole"] ELSE result
      /\ misled' = (misled \/ s # h)
  BY DEF SendSome, Reaches
<1>u. UNCHANGED <<helper, remote, shut, owner, filed, key, running, todo, swept, overlapped, fate,
                  raced>>
  BY DEF SendSome, kernelVars, mapVars
<1>2. /\ n \in Nat /\ n >= 1 /\ put \in Nat /\ put \in 0..PktLen /\ h \in Made /\ h # None
      /\ h \in Socks /\ s \in Socks /\ op \in 1..Len(result) /\ result[op].tgt = h
      /\ op \in 1..MaxSends /\ put < PktLen
  <2>1. /\ h \in Made /\ h # None /\ h \in Socks /\ put \in 0..PktLen
    BY <1>1, Fields DEF IInv, ThreadInv, Roles
  <2>2. op \in 1..Len(result) /\ result[op].tgt = h /\ put < PktLen
    BY <1>1 DEF IInv, StreamInv, HalfSent
  <2>3. Len(result) \in Nat /\ Len(result) <= MaxSends
    BY DEF IInv, TypeOK
  <2>4. s \in Socks
    BY <1>1, BehindType
  <2> QED
    BY <2>1, <2>2, <2>3, <2>4, Numbers
<1>3. /\ more \in ThreadRec /\ more.pc = "send" /\ more.tgt = h /\ more.op = op
      /\ more.put = put + n
  <2>1. put + n \in 0..PktLen
    BY <1>1, <1>2, Numbers
  <2> QED
    BY <1>1, <2>1, Fields DEF IInv, ThreadRec
<1> DEFINE new == stream[s] \o Pieces(op, put, n)
<1>4. /\ new \in Seq(Piece) /\ Len(new) = Len(stream[s]) + n /\ Len(stream[s]) \in Nat
      /\ \A i \in 1..Len(stream[s]) : new[i] = stream[s][i]
      /\ \A j \in 1..n : new[Len(stream[s]) + j] = [op |-> op, k |-> put + j]
  BY <1>1, <1>2, Appended DEF IInv, TypeOK
<1> HIDE DEF new, more
<1>5. /\ stream' \in [Socks -> Seq(Piece)] /\ stream'[s] = new
      /\ \A x \in Socks : x # s => stream'[x] = stream[x]
  BY <1>2, <1>4, <1>q DEF new, IInv, TypeOK
<1>6. /\ result' \in Seq(ResultRec) /\ Len(result') = Len(result)
      /\ \A o \in 1..Len(result) : result'[o].tgt = result[o].tgt
      /\ \A o \in 1..Len(result) : o # op => result'[o] = result[o]
      /\ ~done => result' = result
  <2>1. CASE done
    BY <1>2, <1>q, <2>1, ResultEnds
  <2>2. CASE ~done
    BY <1>q, <2>2 DEF IInv, TypeOK
  <2> QED
    BY <2>1, <2>2
<1>r. r \in ThreadRec /\ r.pc \in {"idle", "send"} /\ (r.pc = "send" <=> r.tgt # None)
      /\ (r.tgt # None => r.tgt = h) /\ (r.pc = "send" <=> ~done)
  BY <1>2, <1>3, IdleState
<1>f. /\ misled' \in BOOLEAN /\ (misled => misled') /\ (misled' => raced')
      /\ (~misled' => ~misled /\ s = h) /\ raced' \in BOOLEAN
  <2>1. misled \in BOOLEAN /\ (misled => raced) /\ raced \in BOOLEAN
    BY DEF IInv, TypeOK, SocketInv, MisledOnlyByRace
  <2>2. misled' <=> (misled \/ s # h)
    BY <1>q
  <2>3. misled' \in BOOLEAN
    BY <1>q
  <2>4. raced \/ s = h
    BY <1>1, Reached
  <2> QED
    BY <1>u, <2>1, <2>2, <2>3, <2>4
<1>t. /\ th' \in [Threads -> ThreadRec] /\ th'[t] = r
      /\ \A u \in Threads : u # t =>
           th'[u] = th[u] /\ (InClose(u)' <=> InClose(u)) /\ (Sending(u)' <=> Sending(u))
  BY <1>1, <1>p, <1>r, Others
<1>s. /\ ~InClose(t)' /\ ~HasRead(t)' /\ (Sending(t)' <=> ~done) /\ r.pc # "store"
      /\ th[t].pc # "store"
  BY <1>1, <1>r, <1>t DEF InClose, HasRead, Sending
<1>m. ~done => th'[t] = more
  BY <1>t
<1>7. TypeOK'
  BY <1>5, <1>6, <1>f, <1>t, <1>u DEF IInv, TypeOK
<1>8. ThreadInv'
  <2>1. todo \subseteq filed /\ (running => todo = {})
    BY DEF IInv, ThreadInv, StopPhase
  <2> HIDE DEF r
  <2> QED
    BY <1>1, <1>2, <1>p, <1>r, <1>u, <2>1, ThreadFrame
<1>9. SocketInv'
  <2> HIDE DEF r
  <2> QED
    BY <1>1, <1>f, <1>p, <1>s, <1>u, <1>r, SocketFrame
<1>10. EndInv'
  BY <1>s, <1>t, <1>u, EndFrame
<1> HIDE DEF r
<1>11. HalfSent'
  <2>1. ASSUME NEW u \in Threads, u # t, Sending(u)
        PROVE  /\ th'[u].op \in 1..Len(result') /\ result'[th'[u].op].tgt = th'[u].tgt
               /\ th'[u].put < PktLen
               /\ th'[u].tgt \notin overlapped' =>
                    \A w \in Threads : Sending(w)' /\ th'[w].tgt = th'[u].tgt => w = u
               /\ ~misled' /\ th'[u].tgt \notin overlapped' /\ th'[u].put > 0 =>
                    LET sent == stream'[th'[u].tgt] IN
                    sent # <<>> /\ sent[Len(sent)] = [op |-> th'[u].op, k |-> th'[u].put]
    <3>1. /\ th[u].op \in 1..Len(result) /\ result[th[u].op].tgt = th[u].tgt /\ th[u].put < PktLen
          /\ th[u].tgt \notin overlapped =>
               \A w \in Threads : Sending(w) /\ th[w].tgt = th[u].tgt => w = u
          /\ ~misled /\ th[u].tgt \notin overlapped /\ th[u].put > 0 =>
               LET sent == stream[th[u].tgt] IN
               sent # <<>> /\ sent[Len(sent)] = [op |-> th[u].op, k |-> th[u].put]
      BY <2>1 DEF IInv, StreamInv, HalfSent
    <3>2. th[u].tgt \notin overlapped => th[u].tgt # h
      BY <1>1, <2>1, <3>1
    <3>3. th[u].tgt \in Socks /\ th[u].tgt # None
      BY <2>1, Fields DEF IInv, ThreadInv, Roles, Sending
    <3>4. th[u].tgt \notin overlapped =>
            \A w \in Threads : Sending(w)' /\ th'[w].tgt = th[u].tgt => w = u
      BY <1>r, <1>t, <3>1, <3>2, <3>3
    <3>5. ~misled' /\ th[u].tgt \notin overlapped => ~misled /\ stream'[th[u].tgt] = stream[th[u].tgt]
      BY <1>5, <1>f, <3>2, <3>3
    <3> QED
      BY <1>6, <1>t, <1>u, <2>1, <3>1, <3>4, <3>5
  <2>2. ASSUME ~done
        PROVE  /\ th'[t].op \in 1..Len(result') /\ result'[th'[t].op].tgt = th'[t].tgt
               /\ th'[t].put < PktLen
               /\ th'[t].tgt \notin overlapped' =>
                    \A w \in Threads : Sending(w)' /\ th'[w].tgt = th'[t].tgt => w = t
               /\ ~misled' => LET sent == stream'[th'[t].tgt] IN
                    sent # <<>> /\ sent[Len(sent)] = [op |-> th'[t].op, k |-> th'[t].put]
    <3>1. th'[t].op = op /\ th'[t].tgt = h /\ th'[t].put = put + n
      BY <1>3, <1>m, <2>2
    <3>2. put + n < PktLen
      <4>1. \A a, b \in Nat : b <= PktLen - a /\ a + b # PktLen => a + b < PktLen
        BY Numbers
      <4> QED
        BY <1>1, <1>2, <2>2, <4>1
    <3>3. h \notin overlapped => \A w \in Threads : Sending(w)' /\ th'[w].tgt = h => w = t
      BY <1>1, <1>t DEF IInv, StreamInv, HalfSent
    <3>4. new # <<>> /\ new[Len(new)] = [op |-> op, k |-> put + n]
      <4>1. Len(new) >= 1 /\ n \in 1..n
        BY <1>2, <1>4
      <4> QED
        BY <1>4, <4>1
    <3> QED
      BY <1>2, <1>5, <1>6, <1>f, <1>u, <3>1, <3>2, <3>3, <3>4
  <2> QED
    BY <1>s, <1>t, <2>1, <2>2 DEF HalfSent
<1>12. PacketsUnbroken'
  <2> SUFFICES ASSUME ~misled', NEW x \in Socks \ overlapped
               PROVE  /\ \A i \in 1..Len(stream'[x]) :
                           LET e == stream'[x][i] IN
                           e.k = 1 \/ (i > 1 /\ stream'[x][i - 1] = [op |-> e.op, k |-> e.k - 1])
                      /\ \A o \in 1..Len(result') :
                           result'[o] = [tgt |-> x, end |-> "whole"] =>
                             \E i \in 1..Len(stream'[x]) : stream'[x][i] = [op |-> o, k |-> PktLen]
    BY <1>u DEF PacketsUnbroken
  <2>1. /\ \A i \in 1..Len(stream[x]) :
             LET e == stream[x][i] IN
             e.k = 1 \/ (i > 1 /\ stream[x][i - 1] = [op |-> e.op, k |-> e.k - 1])
        /\ \A o \in 1..Len(result) :
             result[o] = [tgt |-> x, end |-> "whole"] =>
               \E i \in 1..Len(stream[x]) : stream[x][i] = [op |-> o, k |-> PktLen]
    BY <1>f DEF IInv, StreamInv, PacketsUnbroken
  <2>2. CASE x # s
    <3>1. stream'[x] = stream[x] /\ s = h
      BY <1>5, <1>f, <2>2
    <3>2. \A o \in 1..Len(result') : result'[o] = [tgt |-> x, end |-> "whole"] =>
            result[o] = [tgt |-> x, end |-> "whole"]
      BY <1>2, <1>6, <2>2, <3>1
    <3> QED
      BY <1>6, <2>1, <3>1, <3>2
  <2>3. CASE x = s
    <3> DEFINE old == stream[s]
               l == Len(old)
    <3>0. stream'[x] = new /\ s = h /\ l \in Nat /\ Len(new) = l + n
      BY <1>4, <1>5, <1>f, <2>3
    <3>1. \A i \in 1..l : new[i] = old[i]
      BY <1>4
    <3>2. \A j \in 1..n : new[l + j] = [op |-> op, k |-> put + j]
      BY <1>4
    <3>3. put > 0 => old # <<>> /\ old[l] = [op |-> op, k |-> put]
      BY <1>1, <1>f, <2>3, <3>0 DEF IInv, StreamInv, HalfSent
    <3>6. old \in Seq(Piece)
      BY <1>2 DEF IInv, TypeOK
    <3>7. /\ \A i \in 1..l : old[i].k = 1
               \/ (i > 1 /\ old[i - 1] = [op |-> old[i].op, k |-> old[i].k - 1])
          /\ \A o \in 1..Len(result) :
             result[o] = [tgt |-> x, end |-> "whole"] =>
               \E i \in 1..l : old[i] = [op |-> o, k |-> PktLen]
      BY <2>1, <2>3
    <3>8. old # <<>> => l >= 1
      BY <3>6
    <3> HIDE DEF old, l
    <3>4. ASSUME NEW i \in 1..(l + n)
          PROVE  new[i].k = 1 \/ (i > 1 /\ new[i - 1] = [op |-> new[i].op, k |-> new[i].k - 1])
      <4>1. CASE i \in 1..l
        <5>1. new[i] = old[i] /\ (i > 1 => new[i - 1] = old[i - 1])
          BY <3>0, <3>1, <4>1
        <5> QED
          BY <3>7, <4>1, <5>1
      <4>2. CASE i \notin 1..l
        <5>1. PICK j \in 1..n : i = l + j
          <6>1. i - l \in 1..n /\ i = l + (i - l)
            BY <1>2, <3>0, <4>2
          <6> QED
            BY <6>1
        <5>2. new[i].k = put + j /\ new[i].op = op
          <6>1. new[i] = [op |-> op, k |-> put + j]
            BY <3>2, <5>1
          <6> QED
            BY <6>1
        <5>3. CASE j > 1
          <6>1. j - 1 \in 1..n /\ i - 1 = l + (j - 1) /\ i > 1
            BY <1>2, <3>0, <5>1, <5>3
          <6>2. new[i - 1] = [op |-> op, k |-> put + (j - 1)]
            BY <3>2, <6>1
          <6>3. put + (j - 1) = new[i].k - 1
            BY <1>2, <5>1, <5>2
          <6> QED
            BY <5>2, <6>1, <6>2, <6>3
        <5>4. CASE j = 1 /\ put > 0
          <6>1. l >= 1 /\ old[l] = [op |-> op, k |-> put]
            BY <3>3, <3>8, <5>4
          <6>2. i - 1 = l /\ i > 1 /\ l \in 1..l
            BY <3>0, <5>1, <5>4, <6>1
          <6>3. new[i - 1] = [op |-> op, k |-> put]
            BY <3>1, <6>1, <6>2
          <6>4. new[i].k - 1 = put
            BY <1>2, <5>2, <5>4
          <6> QED
            BY <5>2, <6>2, <6>3, <6>4
        <5>5. CASE j = 1 /\ put = 0
          BY <5>2, <5>5
        <5> QED
          BY <1>2, <5>1, <5>3, <5>4, <5>5
      <4> QED
        BY <4>1, <4>2
    <3>5. ASSUME NEW o \in 1..Len(result'), result'[o] = [tgt |-> x, end |-> "whole"]
          PROVE  \E i \in 1..(l + n) : new[i] = [op |-> o, k |-> PktLen]
      <4>1. CASE result'[o] = result[o]
        <5>1. PICK i \in 1..l : old[i] = [op |-> o, k |-> PktLen]
          BY <1>6, <3>5, <3>7, <4>1
        <5>2. i \in 1..(l + n) /\ new[i] = old[i]
          BY <1>2, <3>0, <3>1
        <5> QED
          BY <5>1, <5>2
      <4>2. CASE result'[o] # result[o]
        <5>1. o = op /\ done
          BY <1>6, <4>2
        <5>2. l + n \in 1..(l + n) /\ n \in 1..n
          BY <1>2, <3>0
        <5>3. new[l + n] = [op |-> op, k |-> put + n]
          BY <3>2, <5>2
        <5> QED
          BY <5>1, <5>2, <5>3
      <4> QED
        BY <4>1, <4>2
    <3> QED
      BY <3>0, <3>4, <3>5
  <2> QED
    BY <2>2, <2>3
<1> QED
  BY <1>7, <1>8, <1>9, <1>10, <1>11, <1>12 DEF IInv, StreamInv

\* The invariant holds at the start.
LEMMA InitInv == Init => IInv
<1> SUFFICES ASSUME Init PROVE IInv
  OBVIOUS
<1> USE DEF Init
<1>0. /\ Made = {} /\ Len(helper) = 0 /\ Len(result) = 0
      /\ \A t \in Threads : th[t] = Idle /\ th[t].pc = "idle" /\ th[t].tgt = None
      /\ \A f \in Fds : owner[f] = None
      /\ \A s \in Socks : stream[s] = <<>> /\ key[s] = None /\ Len(stream[s]) = 0
  BY DEF Made, Idle
<1>1. TypeOK
  <2>1. /\ helper \in Seq(HelperRec) /\ result \in Seq(ResultRec)
        /\ stream \in [Socks -> Seq(Piece)] /\ th \in [Threads -> ThreadRec]
    BY IdleState
  <2>2. running \in BOOLEAN /\ swept \in BOOLEAN /\ raced \in BOOLEAN /\ misled \in BOOLEAN
    BY Zenon
  <2>3. /\ remote \in [Socks -> {"new", "up", "fin", "rst", "rstseen"}]
        /\ owner \in [Fds -> Socks \cup {None}] /\ key \in [Socks -> Fds \cup {None, Closed}]
        /\ shut \subseteq Socks /\ filed \subseteq Socks /\ todo \subseteq Socks
        /\ overlapped \subseteq Socks /\ fate \in {"ok", "exited", "terminated", "killed", "undefined"}
    OBVIOUS
  <2> HIDE DEF Init
  <2> QED
    BY <1>0, <2>1, <2>2, <2>3, Numbers DEF TypeOK
<1>2. ThreadInv
  BY <1>0, Numbers DEF ThreadInv, Roles, Alone, Fresh, Alive, StopPhase, LastRef, InClose, InStop
<1>3. SocketInv
  BY <1>0 DEF SocketInv, Owned, Registers, StoreFree, OpenOwnsSocket, MisledOnlyByRace, HasRead
<1>4. EndInv
  BY <1>0 DEF EndInv, Connected, ClosedAtEnd, LeakOnlyAfterReset, DroppedOnlyAtEnd, LastRef, InClose
<1>5. StreamInv
  BY <1>0 DEF StreamInv, HalfSent, PacketsUnbroken, Sending
<1> QED
  BY <1>1, <1>2, <1>3, <1>4, <1>5 DEF IInv

\* Every step keeps the invariant.
LEMMA NextInv == IInv /\ [Next]_vars => IInv'
<1> SUFFICES ASSUME IInv, [Next]_vars PROVE IInv'
  OBVIOUS
<1>1. ASSUME NEW t \in Users, SendLoop(t) \/ \E h \in Made : SendPkt(t, h) PROVE IInv'
  BY <1>1, SendPktInv, SendLoadsInv, SendUsesFreedInv, SendSomeInv, SendFailsInv, SendKillsInv
    DEF SendLoop
<1>2. ASSUME NEW t \in Connectors, ConnectToPeer(t) PROVE IInv'
  BY <1>2, ConstructInv, ConstructFailsInv, ConnectInv, ConnectFailsInv DEF ConnectToPeer
<1>3. ASSUME NEW t \in Stoppers, Stop(t) PROVE IInv'
  BY <1>3, StopBeginsInv, StopClearsInv, StopEndsInv, StopClosesInv, ClearInv DEF Stop
<1>4. ASSUME NEW t \in Threads, CloseSock(t) \/ File(t) \/ FileFails(t) PROVE IInv'
  BY <1>4, ShutdownInv, ShutdownFailsInv, ReleaseInv, ReleaseFailsInv, StoreInv, FileInv,
     FileFailsInv DEF CloseSock
<1>5. CASE PollThread
  BY <1>5, AcceptInv, AcceptFailsInv, ReceiveInv, RecvReturnsInv, RecvEofInv, DropInv, SweepInv
    DEF PollThread
<1>6. CASE Remote
  BY <1>6, RemoteInv
<1>7. CASE UNCHANGED vars
  BY <1>7, StutterInv
<1> QED
  BY <1>1, <1>2, <1>3, <1>4, <1>5, <1>6, <1>7 DEF Next

(***************************************************************************)
(* The theorems                                                            *)
(***************************************************************************)

\* The inductive invariant holds always.
THEOREM Inductive == Spec => []IInv
BY InitInv, NextInv, PTL DEF Spec

\* The variables keep their types: no number leaves the bounds.
THEOREM TypeCorrect == Spec => []TypeOK
BY Inductive, PTL DEF IInv

\* is_sock_open is false only when the descriptor has gone back to the kernel: what
\* remove_disconnected_peers forgets leaks nothing.
THEOREM ClosedGaveBack == Spec => []ClosedIsReleased
<1>1. IInv => ClosedIsReleased
  BY Fields DEF IInv, SocketInv, Owned, ClosedIsReleased
<1> QED
  BY <1>1, Inductive, PTL

\* sock is the number of the own socket while is_sock_open is true, whatever the
\* kernel does with the numbers, up to the races of close_sock.
THEOREM OpenIsItsOwn == Spec => []OpenOwnsSocket
<1>1. IInv => OpenOwnsSocket
  BY DEF IInv, SocketInv
<1> QED
  BY <1>1, Inductive, PTL

\* A system call reaches the socket of another connection only after close_sock has
\* overtaken a thread between its reading of sock and its call.
THEOREM OnlyRacesMislead == Spec => []MisledOnlyByRace
<1>1. IInv => MisledOnlyByRace
  BY DEF IInv, SocketInv
<1> QED
  BY <1>1, Inductive, PTL

\* ~SocketHelper leaves no descriptor behind but that of a reset connection, or after
\* such a race.
THEOREM LeaksOnlyResets == Spec => []LeakOnlyAfterReset
<1>1. IInv => LeakOnlyAfterReset
  BY DEF IInv, EndInv
<1> QED
  BY <1>1, Inductive, PTL

\* handle_client_communications never works on a freed peer, with stop in any order.
THEOREM ReceiverIsSafe == Spec => []ReceiverHoldsPeer
<1>1. IInv => ReceiverHoldsPeer
  BY DEF IInv, ThreadInv, Alive, ReceiverHoldsPeer
<1> QED
  BY <1>1, Inductive, PTL

\* The running server drops no peer whose connection lives, up to such a race.
THEOREM DropsOnlyTheEnded == Spec => []DroppedOnlyAtEnd
<1>1. IInv => DroppedOnlyAtEnd
  BY DEF IInv, EndInv
<1> QED
  BY <1>1, Inductive, PTL

\* What send_data puts behind a stream is whole packets in order, while one thread
\* at a time sends to the peer and no call is misled.
THEOREM PacketsStayWhole == Spec => []PacketsUnbroken
<1>1. IInv => PacketsUnbroken
  BY DEF IInv, StreamInv
<1> QED
  BY <1>1, Inductive, PTL
=============================================================================
