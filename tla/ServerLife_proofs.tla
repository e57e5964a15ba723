-------------------------- MODULE ServerLife_proofs --------------------------
(***************************************************************************)
(* Proofs about the lives of the servers, for any number of servers and    *)
(* connections: a server that says it is running is served, and what       *)
(* becomes of the poll threads that stop leaves behind.                    *)
(***************************************************************************)
EXTENDS ServerLife, TLAPS

(***************************************************************************)
(* The inductive invariant                                                 *)
(***************************************************************************)

\* What the main thread knows of the server that it starts or stops.
MainKnows ==
  /\ main.pc \in {"launch", "detach"} => Live(main.srv) /\ server[main.srv].running
  /\ main.pc \in {"close", "release", "join"} => Live(main.srv) /\ ~server[main.srv].running
  /\ main.then # "return" => main.pc \in {"close", "release", "join"}

\* The steps of a poll thread while its server runs.
Serving == {"top", "enter", "wait", "scan", "accept", "read"}

\* A running server has its thread in the poll loop, unless start has not come
\* that far, or SIGINT has made sure that it never will.
RunningIsServed ==
  \A s \in Servers : server[s].running =>
    /\ Live(s) /\ server[s].sock = "listening"
    /\ \/ poll[s] \in Serving
       \/ main.pc = "launch" /\ main.srv = s
       \/ main.then = "exit"
       \/ main.pc = "exit"

\* The thread of a destroyed server sleeps.
GoneSleeps ==
  ~provoked => \A s \in Servers : server[s].life = "gone" => Asleep(s)

\* A connection that is there is one of some server.
Placed == \A c \in Conns : conn[c].st # "none" => conn[c].at \in Servers

IInv ==
  /\ TypeOK
  /\ fate = "running" => MainKnows /\ RunningIsServed /\ GoneSleeps /\ Placed
  /\ HarmlessUnlessProvoked

(***************************************************************************)
(* What steps have in common                                               *)
(***************************************************************************)

\* The process ends in one of three ways, the last only when it was provoked.
LEMMA EndKeeps ==
  ASSUME IInv, NEW how \in {"exited", "terminated", "undefined"}, Ends(how),
         how = "undefined" => provoked
  PROVE  IInv'
<1>1. /\ fate' = how /\ fate' # "running" /\ provoked' = provoked
      /\ server' = [s \in Servers |-> NoServer] /\ poll' = [s \in Servers |-> "none"]
      /\ main' = AtRest /\ conn' = [c \in Conns |-> NoConn]
  BY DEF Ends
<1>2. NoServer \in ServerRec /\ NoConn \in ConnRec /\ AtRest \in MainRec
  BY LifeAssumption DEF NoServer, ServerRec, NoConn, ConnRec, AtRest, MainRec, Static, Servers
<1>3. TypeOK'
  BY <1>1, <1>2 DEF IInv, TypeOK
<1> QED  BY <1>1, <1>3 DEF IInv, HarmlessUnlessProvoked

\* While the process runs, what is to be shown of a step.
LEMMA GoesOn ==
  ASSUME TypeOK', fate' = "running", MainKnows', RunningIsServed', GoneSleeps', Placed'
  PROVE  IInv'
BY DEF IInv, HarmlessUnlessProvoked

\* Connections that are dropped give no thread anything to do.
LEMMA DropFrame ==
  ASSUME TypeOK, Placed, NEW cs \in SUBSET Conns, conn' = Dropped(cs) \/ conn' = conn
  PROVE  /\ conn' \in [Conns -> ConnRec] /\ Placed'
         /\ \A s \in Servers : Pending(s)' => Pending(s)
<1>1. NoConn \in ConnRec /\ \A s \in Servers : NoConn.at # s
  BY LifeAssumption DEF NoConn, ConnRec, Servers
<1>2. conn' \in [Conns -> ConnRec]
  BY <1>1 DEF TypeOK, Dropped
<1>3. \A c \in Conns : conn'[c] = conn[c] \/ conn'[c] = NoConn
  BY DEF Dropped
<1>4. ASSUME NEW s \in Servers, Pending(s)'  PROVE Pending(s)
  BY <1>1, <1>3, <1>4 DEF Pending, Of
<1>5. Placed'
  BY <1>3 DEF Placed, NoConn
<1> QED  BY <1>2, <1>4, <1>5

\* Threads sleep on, unless they move or something reaches their sockets.
LEMMA SleepFrame ==
  ASSUME NEW s \in Servers, Asleep(s), poll'[s] = poll[s], Pending(s)' => Pending(s)
  PROVE  Asleep(s)'
BY DEF Asleep

\* The steps that wake no thread.
LEMMA MainFrame ==
  ASSUME IInv, fate = "running", UNCHANGED <<poll, fate>>,
         server' \in [Servers -> ServerRec], main' \in MainRec, provoked' \in BOOLEAN,
         conn' \in [Conns -> ConnRec], Placed', \A s \in Servers : Pending(s)' => Pending(s),
         MainKnows', RunningIsServed',
         provoked => provoked',
         ~provoked' => \A s \in Servers :
           server'[s].life = "gone" => server[s].life = "gone" \/ Asleep(s)
  PROVE  IInv'
<1>1. TypeOK'
  BY DEF IInv, TypeOK
<1>2. GoneSleeps'
  BY SleepFrame DEF IInv, GoneSleeps
<1> QED  BY <1>1, <1>2, GoesOn

\* Connections that stay as they are.
LEMMA ConnsStay ==
  ASSUME IInv, fate = "running", conn' = conn
  PROVE  /\ conn' \in [Conns -> ConnRec] /\ Placed'
         /\ \A s \in Servers : Pending(s)' => Pending(s)
BY DEF IInv, TypeOK, Placed, Pending, Of

(***************************************************************************)
(* The steps of the main thread                                            *)
(***************************************************************************)

\* A new server does not run yet.
LEMMA ConstructKeeps ==
  ASSUME IInv, NEW s \in Servers, Construct(s)
  PROVE  IInv'
<1>1. /\ fate = "running" /\ main.pc = "idle" /\ server[s].life = "none"
      /\ server' = [server EXCEPT ![s].life = "live"]
      /\ UNCHANGED <<poll, main, conn, provoked, fate>>
  BY DEF Construct, AtMain
<1>2. /\ server \in [Servers -> ServerRec] /\ main \in MainRec /\ provoked \in BOOLEAN
      /\ MainKnows /\ RunningIsServed
  BY <1>1 DEF IInv, TypeOK
<1>3. /\ server' \in [Servers -> ServerRec]
      /\ server'[s].life = "live" /\ server'[s].running = server[s].running
      /\ \A t \in Servers \ {s} : server'[t] = server[t]
  BY <1>1, <1>2 DEF ServerRec
<1>4. ~server[s].running
  BY <1>1, <1>2 DEF RunningIsServed, Live
<1>5. MainKnows'
  BY <1>1, <1>2 DEF MainKnows
<1>6. RunningIsServed'
  BY <1>1, <1>2, <1>3, <1>4 DEF RunningIsServed, Live
<1>7. \A t \in Servers : server'[t].life = "gone" => server[t].life = "gone"
  BY <1>3
<1> QED  BY <1>1, <1>2, <1>3, <1>5, <1>6, <1>7, ConnsStay, MainFrame

\* start binds and listens; the main thread goes on to the thread.
LEMMA StartBindsKeeps ==
  ASSUME IInv, NEW s \in Servers, StartBinds(s)
  PROVE  IInv'
<1>1. /\ fate = "running" /\ main.pc = "idle" /\ server[s].life = "live"
      /\ server' = [server EXCEPT ![s].sock = "listening", ![s].running = TRUE]
      /\ main' = [main EXCEPT !.pc = "launch", !.srv = s]
      /\ UNCHANGED <<poll, conn, provoked, fate>>
  BY DEF StartBinds, AtMain, Live, RunningAtLaunch
<1>2. /\ server \in [Servers -> ServerRec] /\ main \in MainRec /\ provoked \in BOOLEAN
      /\ MainKnows /\ RunningIsServed
  BY <1>1 DEF IInv, TypeOK
<1>3. /\ server' \in [Servers -> ServerRec]
      /\ server'[s].life = "live" /\ server'[s].running /\ server'[s].sock = "listening"
      /\ \A t \in Servers \ {s} : server'[t] = server[t]
  BY <1>1, <1>2 DEF ServerRec
<1>4. main' \in MainRec /\ main'.pc = "launch" /\ main'.srv = s /\ main'.then = main.then
  BY <1>1, <1>2 DEF MainRec
<1>5. MainKnows'
  BY <1>1, <1>2, <1>3, <1>4 DEF MainKnows, Live
<1>6. RunningIsServed'
  BY <1>1, <1>2, <1>3, <1>4 DEF RunningIsServed, MainKnows, Live
<1>7. \A t \in Servers : server'[t].life = "gone" => server[t].life = "gone"
  BY <1>3
<1> QED  BY <1>1, <1>2, <1>3, <1>4, <1>5, <1>6, <1>7, ConnsStay, MainFrame

\* start lets go of the thread, which is in the loop.
LEMMA StartDetachesKeeps ==
  ASSUME IInv, StartDetaches
  PROVE  IInv'
<1> DEFINE s == main.srv
<1>1. /\ fate = "running" /\ main.pc = "detach"
      /\ server' = [server EXCEPT ![s].running = TRUE, ![s].thread = "detached"]
      /\ main' = [main EXCEPT !.pc = "idle"]
      /\ UNCHANGED <<poll, conn, provoked, fate>>
  BY DEF StartDetaches, AtMain, Detached
<1>2. /\ server \in [Servers -> ServerRec] /\ main \in MainRec /\ provoked \in BOOLEAN
      /\ MainKnows /\ RunningIsServed /\ s \in Servers
  BY <1>1 DEF IInv, TypeOK, MainRec
<1>3. main' \in MainRec /\ main'.pc = "idle" /\ main'.srv = main.srv /\ main'.then = main.then
  BY <1>1, <1>2 DEF MainRec
<1>4. server[s].running /\ server[s].life = "live"
  BY <1>1, <1>2 DEF MainKnows, Live
<1> HIDE DEF s
<1>5. /\ server' \in [Servers -> ServerRec]
      /\ server'[s].life = server[s].life /\ server'[s].sock = server[s].sock
      /\ \A t \in Servers \ {s} : server'[t] = server[t]
  BY <1>1, <1>2 DEF ServerRec
<1>6. MainKnows'
  BY <1>1, <1>2, <1>3 DEF MainKnows
<1>7. RunningIsServed'
  BY <1>1, <1>2, <1>3, <1>4, <1>5 DEF RunningIsServed, Live
<1>8. \A t \in Servers : server'[t].life = "gone" => server[t].life = "gone"
  BY <1>5
<1> QED  BY <1>1, <1>2, <1>3, <1>5, <1>6, <1>7, <1>8, ConnsStay, MainFrame

\* stop, whoever calls it, makes the server one that does not run.
LEMMA StopsForKeeps ==
  ASSUME IInv, fate = "running", UNCHANGED <<poll, conn, provoked, fate>>,
         NEW s \in Servers, NEW then \in {"return", "destroy", "exit"},
         Live(s), StopsFor(s, then),
         main.pc = "idle" \/ then = "exit"
  PROVE  IInv'
<1>1. /\ server' = [server EXCEPT ![s].running = FALSE]
      /\ main' = [pc |-> "close", srv |-> s, then |-> then]
  BY DEF StopsFor
<1>2. /\ server \in [Servers -> ServerRec] /\ main \in MainRec /\ provoked \in BOOLEAN
      /\ MainKnows /\ RunningIsServed
  BY DEF IInv, TypeOK
<1>3. /\ server' \in [Servers -> ServerRec]
      /\ server'[s].life = server[s].life /\ ~server'[s].running
      /\ \A t \in Servers \ {s} : server'[t] = server[t]
  BY <1>1, <1>2 DEF ServerRec
<1>4. main' \in MainRec /\ main'.pc = "close" /\ main'.srv = s /\ main'.then = then
  BY <1>1 DEF MainRec
<1>5. MainKnows'
  BY <1>3, <1>4 DEF MainKnows, Live
<1>6. RunningIsServed'
  BY <1>2, <1>3, <1>4 DEF RunningIsServed, MainKnows, Live
<1>7. \A t \in Servers : server'[t].life = "gone" => server[t].life = "gone"
  BY <1>3
<1> QED  BY <1>2, <1>3, <1>4, <1>5, <1>6, <1>7, ConnsStay, MainFrame

\* The handler of SIGINT begins to stop the static server, wherever main was.
LEMMA SignalKeeps ==
  ASSUME IInv, Signal
  PROVE  IInv'
<1>1. Static \in Servers
  BY LifeAssumption DEF Static, Servers
<1> QED  BY <1>1, StopsForKeeps DEF Signal

\* stop clears is_local_server_running before anything else.
LEMMA StopBeginsKeeps ==
  ASSUME IInv, NEW s \in Servers, StopBegins(s)
  PROVE  IInv'
BY StopsForKeeps DEF StopBegins, AtMain

\* A server that is destroyed does not run.
LEMMA GoneFacts ==
  ASSUME IInv, fate = "running", NEW s \in Servers, Gone(s)
  PROVE  /\ server' \in [Servers -> ServerRec] /\ provoked' \in BOOLEAN
         /\ server'[s].running = server[s].running
         /\ \A t \in Servers \ {s} : server'[t] = server[t]
         /\ provoked => provoked'
         /\ ~provoked' => Asleep(s)
         /\ conn' \in [Conns -> ConnRec] /\ Placed'
         /\ \A t \in Servers : Pending(t)' => Pending(t)
<1>1. /\ server' = [server EXCEPT ![s].life = "gone", ![s].sock = "closed"]
      /\ provoked' = (provoked \/ ~Asleep(s))
  BY DEF Gone
<1>2. server \in [Servers -> ServerRec] /\ provoked \in BOOLEAN
  BY DEF IInv, TypeOK
<1>3. /\ server' \in [Servers -> ServerRec]
      /\ server'[s].running = server[s].running
      /\ \A t \in Servers \ {s} : server'[t] = server[t]
  BY <1>1, <1>2 DEF ServerRec
<1>4. /\ provoked' \in BOOLEAN
      /\ provoked => provoked'
      /\ ~provoked' => Asleep(s)
  BY <1>1
<1>5. /\ conn' \in [Conns -> ConnRec] /\ Placed'
      /\ \A t \in Servers : Pending(t)' => Pending(t)
  <2>1. Of(s) \in SUBSET Conns /\ (conn' = Dropped(Of(s)) \/ conn' = conn)
    BY DEF Of, Gone
  <2> QED  BY <2>1, DropFrame DEF IInv
<1> QED  BY <1>3, <1>4, <1>5

\* The destructor: the thread sleeps, or the server's end has provoked it.
LEMMA DestroyKeeps ==
  ASSUME IInv, NEW s \in Servers, Destroy(s)
  PROVE  IInv'
<1>1. /\ fate = "running" /\ main.pc = "idle" /\ Live(s)
      /\ UNCHANGED <<poll, fate>>
  BY DEF Destroy, AtMain
<1>2. CASE server[s].running
  BY <1>1, <1>2, StopsForKeeps DEF Destroy
<1>3. CASE ~server[s].running
  <2>1. Gone(s) /\ main' = main
    BY <1>3 DEF Destroy
  <2>2. /\ server' \in [Servers -> ServerRec] /\ provoked' \in BOOLEAN
        /\ server'[s].running = server[s].running
        /\ \A t \in Servers \ {s} : server'[t] = server[t]
        /\ provoked => provoked'
        /\ ~provoked' => Asleep(s)
        /\ conn' \in [Conns -> ConnRec] /\ Placed'
        /\ \A t \in Servers : Pending(t)' => Pending(t)
    BY <1>1, <2>1, GoneFacts
  <2>3. main \in MainRec /\ MainKnows /\ RunningIsServed
    BY <1>1 DEF IInv, TypeOK
  <2>4. MainKnows'
    BY <1>1, <2>1, <2>3 DEF MainKnows
  <2>5. RunningIsServed'
    BY <1>1, <1>3, <2>1, <2>2, <2>3 DEF RunningIsServed, Live
  <2>6. ~provoked' => \A t \in Servers :
          server'[t].life = "gone" => server[t].life = "gone" \/ Asleep(t)
    BY <2>2
  <2> QED  BY <1>1, <2>1, <2>2, <2>3, <2>4, <2>5, <2>6, MainFrame
<1> QED  BY <1>2, <1>3

\* stop joins a thread that is not detached, and returns or goes on to exit.
LEMMA StopJoinsKeeps ==
  ASSUME IInv, StopJoins
  PROVE  IInv'
<1> DEFINE s == main.srv
           pc == IF main.then = "exit" THEN "exit" ELSE "idle"
<1>1. /\ fate = "running" /\ main.pc = "join"
      /\ IF main.then = "return" THEN UNCHANGED <<server, conn, provoked>> ELSE Gone(s)
      /\ main' = [main EXCEPT !.pc = pc, !.then = "return"]
      /\ UNCHANGED <<poll, fate>>
  BY DEF StopJoins, AtMain
<1>2. /\ server \in [Servers -> ServerRec] /\ main \in MainRec /\ provoked \in BOOLEAN
      /\ MainKnows /\ RunningIsServed /\ s \in Servers
  BY <1>1 DEF IInv, TypeOK, MainRec
<1>3. pc \in {"idle", "exit"} /\ (main.then = "exit" => pc = "exit")
  OBVIOUS
<1>4. ~server[s].running
  BY <1>1, <1>2 DEF MainKnows
<1> HIDE DEF s, pc
<1>5. main' \in MainRec /\ main'.pc = pc /\ main'.then = "return"
  BY <1>1, <1>2, <1>3 DEF MainRec
<1>6. /\ server' \in [Servers -> ServerRec] /\ provoked' \in BOOLEAN
      /\ server'[s].running = server[s].running
      /\ \A t \in Servers \ {s} : server'[t] = server[t]
      /\ provoked => provoked'
      /\ ~provoked' /\ server'[s].life = "gone" => server[s].life = "gone" \/ Asleep(s)
      /\ conn' \in [Conns -> ConnRec] /\ Placed'
      /\ \A t \in Servers : Pending(t)' => Pending(t)
  <2>1. CASE main.then = "return"
    BY <1>1, <1>2, <2>1, ConnsStay
  <2>2. CASE main.then # "return"
    BY <1>1, <1>2, <2>2, GoneFacts
  <2> QED  BY <2>1, <2>2
<1>7. MainKnows'
  BY <1>3, <1>5 DEF MainKnows
<1>8. RunningIsServed'
  BY <1>1, <1>2, <1>3, <1>4, <1>5, <1>6 DEF RunningIsServed, Live
<1>9. ~provoked' => \A t \in Servers :
        server'[t].life = "gone" => server[t].life = "gone" \/ Asleep(t)
  BY <1>6
<1> QED  BY <1>1, <1>2, <1>5, <1>6, <1>7, <1>8, <1>9, MainFrame

\* start launches the thread of the poll loop.
LEMMA StartLaunchesKeeps ==
  ASSUME IInv, StartLaunches
  PROVE  IInv'
<1> DEFINE s == main.srv
<1>1. /\ fate = "running" /\ main.pc = "launch"
      /\ poll' = [poll EXCEPT ![s] = "top"]
      /\ server' = [server EXCEPT ![s].thread = "joinable"]
      /\ main' = [main EXCEPT !.pc = "detach"]
      /\ UNCHANGED <<conn, provoked, fate>>
  BY DEF StartLaunches, AtMain
<1>2. /\ TypeOK /\ MainKnows /\ RunningIsServed /\ GoneSleeps /\ Placed /\ s \in Servers
  BY <1>1 DEF IInv, TypeOK, MainRec
<1>3. main' \in MainRec /\ main'.pc = "detach" /\ main'.srv = main.srv /\ main'.then = main.then
  BY <1>1, <1>2 DEF TypeOK, MainRec
<1>4. server[s].running /\ server[s].life = "live"
  BY <1>1, <1>2 DEF MainKnows, Live
<1> HIDE DEF s
<1>5. /\ server' \in [Servers -> ServerRec]
      /\ server'[s].life = server[s].life /\ server'[s].sock = server[s].sock
      /\ server'[s].running = server[s].running
      /\ \A t \in Servers \ {s} : server'[t] = server[t]
  BY <1>1, <1>2 DEF TypeOK, ServerRec
<1>6. poll'[s] = "top" /\ \A t \in Servers \ {s} : poll'[t] = poll[t]
  BY <1>1, <1>2 DEF TypeOK
<1>7. TypeOK'
  BY <1>1, <1>2, <1>3, <1>5, <1>6 DEF TypeOK
<1>8. MainKnows'
  <2>1. main'.srv = s
    BY <1>3 DEF s
  <2> QED  BY <1>1, <1>2, <1>3, <1>4, <1>5, <2>1 DEF MainKnows, Live
<1>9. RunningIsServed'
  <2> SUFFICES ASSUME NEW t \in Servers, server'[t].running
               PROVE  /\ server'[t].life = "live" /\ server'[t].sock = "listening"
                      /\ \/ poll'[t] \in Serving
                         \/ main'.then = "exit"
    BY DEF RunningIsServed, Live
  <2>1. CASE t = s
    BY <1>2, <1>4, <1>5, <1>6, <2>1 DEF RunningIsServed, Serving
  <2>2. CASE t # s
    <3>1. server[t].running /\ server'[t] = server[t] /\ poll'[t] = poll[t]
      BY <1>5, <1>6, <2>2
    <3>2. main.srv # t
      BY <2>2 DEF s
    <3> QED  BY <1>1, <1>2, <1>3, <3>1, <3>2 DEF RunningIsServed, Live
  <2> QED  BY <2>1, <2>2
<1>10. \A t \in Servers : Pending(t)' => Pending(t)
  BY <1>1 DEF Pending, Of
<1>11. GoneSleeps'
  <2> SUFFICES ASSUME ~provoked', NEW t \in Servers, server'[t].life = "gone"
               PROVE  Asleep(t)'
    BY DEF GoneSleeps
  <2>1. t # s /\ server[t].life = "gone"
    BY <1>4, <1>5
  <2>2. Asleep(t)
    BY <1>1, <1>2, <2>1 DEF GoneSleeps
  <2> QED  BY <1>6, <1>10, <2>1, <2>2, SleepFrame
<1>12. Placed'
  BY <1>1 DEF IInv, Placed
<1> QED  BY <1>1, <1>7, <1>8, <1>9, <1>11, <1>12, GoesOn

\* close_all_connections and the shutdown: the thread that may be woken is one of a
\* server that is not destroyed, and does not run.
LEMMA StopShutsKeeps ==
  ASSUME IInv, StopShuts
  PROVE  IInv'
<1> DEFINE s == main.srv
           pc == IF server[s].sock = "listening" /\ poll[s] = "wait" THEN "recheck" ELSE poll[s]
<1>1. /\ fate = "running" /\ main.pc = "close"
      /\ server' = [server EXCEPT ![s].sock = "shut"] \/ server' = server
      /\ poll' = [poll EXCEPT ![s] = pc]
      /\ conn' = conn \/ conn' = Dropped(Accepted(s))
      /\ main' = [main EXCEPT !.pc = "release"]
      /\ UNCHANGED <<provoked, fate>>
  BY DEF StopShuts, AtMain, IInv, TypeOK
<1>2. /\ TypeOK /\ MainKnows /\ RunningIsServed /\ GoneSleeps /\ Placed /\ s \in Servers
  BY <1>1 DEF IInv, TypeOK, MainRec
<1>3. main' \in MainRec /\ main'.pc = "release" /\ main'.srv = main.srv /\ main'.then = main.then
  BY <1>1, <1>2 DEF TypeOK, MainRec
<1>4. ~server[s].running /\ server[s].life = "live"
  BY <1>1, <1>2 DEF MainKnows, Live
<1>5. conn' \in [Conns -> ConnRec] /\ Placed' /\ \A t \in Servers : Pending(t)' => Pending(t)
  <2>1. Accepted(s) \in SUBSET Conns
    BY DEF Accepted, Of
  <2> QED  BY <1>1, <1>2, <2>1, DropFrame
<1>6. /\ server' \in [Servers -> ServerRec]
      /\ server'[s].life = server[s].life /\ server'[s].running = server[s].running
      /\ \A t \in Servers \ {s} : server'[t] = server[t]
  BY <1>1, <1>2 DEF TypeOK, ServerRec
<1>7. /\ pc = poll[s] \/ pc = "recheck"
      /\ \A t \in Servers \ {s} : poll'[t] = poll[t]
  BY <1>1, <1>2 DEF TypeOK
<1> HIDE DEF pc
<1>8. TypeOK'
  <2>1. poll' \in [Servers -> {"none", "top", "enter", "wait", "recheck", "stuck", "scan",
                              "accept", "read", "ended"}]
    BY <1>1, <1>2, <1>7 DEF TypeOK
  <2> QED  BY <1>1, <1>2, <1>3, <1>5, <1>6, <2>1 DEF TypeOK
<1>9. MainKnows'
  BY <1>1, <1>2, <1>3, <1>6 DEF MainKnows, Live
<1> HIDE DEF s
<1>10. RunningIsServed'
  BY <1>1, <1>2, <1>3, <1>4, <1>6, <1>7 DEF RunningIsServed, Live
<1>11. GoneSleeps'
  <2> SUFFICES ASSUME ~provoked', NEW t \in Servers, server'[t].life = "gone"
               PROVE  Asleep(t)'
    BY DEF GoneSleeps
  <2>1. t # s /\ Asleep(t)
    BY <1>1, <1>2, <1>4, <1>6 DEF GoneSleeps
  <2> QED  BY <1>5, <1>7, <2>1, SleepFrame
<1> QED  BY <1>1, <1>5, <1>8, <1>9, <1>10, <1>11, GoesOn

\* The close: the server does not run, and the connections that wait at it go.
LEMMA StopClosesKeeps ==
  ASSUME IInv, StopCloses
  PROVE  IInv'
<1> DEFINE s == main.srv
<1>1. /\ fate = "running" /\ main.pc = "release"
      /\ server' = [server EXCEPT ![s].sock = "closed"]
      /\ conn' = conn \/ conn' = Dropped(Queued(s))
      /\ main' = [main EXCEPT !.pc = "join"]
      /\ UNCHANGED <<poll, provoked, fate>>
  BY DEF StopCloses, AtMain
<1>2. /\ TypeOK /\ MainKnows /\ RunningIsServed /\ GoneSleeps /\ Placed /\ s \in Servers
  BY <1>1 DEF IInv, TypeOK, MainRec
<1>3. main' \in MainRec /\ main'.pc = "join" /\ main'.srv = main.srv /\ main'.then = main.then
  BY <1>1, <1>2 DEF TypeOK, MainRec
<1>4. ~server[s].running
  BY <1>1, <1>2 DEF MainKnows
<1>5. conn' \in [Conns -> ConnRec] /\ Placed' /\ \A t \in Servers : Pending(t)' => Pending(t)
  <2>1. Queued(s) \in SUBSET Conns
    BY DEF Queued, Of
  <2> QED  BY <1>1, <1>2, <2>1, DropFrame
<1>6. /\ server' \in [Servers -> ServerRec]
      /\ server'[s].life = server[s].life /\ server'[s].running = server[s].running
      /\ \A t \in Servers \ {s} : server'[t] = server[t]
  BY <1>1, <1>2 DEF TypeOK, ServerRec
<1>7. TypeOK'
  BY <1>1, <1>2, <1>3, <1>5, <1>6 DEF TypeOK
<1>8. MainKnows'
  BY <1>1, <1>2, <1>3, <1>6 DEF MainKnows, Live
<1> HIDE DEF s
<1>9. RunningIsServed'
  BY <1>1, <1>2, <1>3, <1>4, <1>6 DEF RunningIsServed, Live
<1>10. GoneSleeps'
  <2> SUFFICES ASSUME ~provoked', NEW t \in Servers, server'[t].life = "gone"
               PROVE  Asleep(t)'
    BY DEF GoneSleeps
  <2>1. Asleep(t)
    BY <1>1, <1>2, <1>6 DEF GoneSleeps
  <2> QED  BY <1>1, <1>5, <2>1, SleepFrame
<1> QED  BY <1>1, <1>5, <1>7, <1>8, <1>9, <1>10, GoesOn

(***************************************************************************)
(* The steps of the poll threads, and what reaches their sockets           *)
(***************************************************************************)

\* A step of the poll thread of a live server, which concerns its connections only.
LEMMA PollFrame ==
  ASSUME IInv, fate = "running", UNCHANGED <<server, main, provoked, fate>>,
         NEW s \in Servers, Live(s),
         NEW pc \in {"top", "enter", "wait", "stuck", "scan", "accept", "read", "ended"},
         poll' = [poll EXCEPT ![s] = pc],
         server[s].running => pc \in Serving,
         conn' \in [Conns -> ConnRec], Placed',
         \A t \in Servers \ {s} : Pending(t)' => Pending(t)
  PROVE  IInv'
<1>1. TypeOK /\ MainKnows /\ RunningIsServed /\ GoneSleeps
  BY DEF IInv
<1>2. poll'[s] = pc /\ \A t \in Servers \ {s} : poll'[t] = poll[t]
  BY <1>1 DEF TypeOK
<1>3. TypeOK'
  BY <1>1 DEF TypeOK
<1>4. MainKnows'
  BY <1>1 DEF MainKnows, Live
<1>5. RunningIsServed'
  BY <1>1, <1>2 DEF RunningIsServed, Live
<1>6. GoneSleeps'
  <2> SUFFICES ASSUME ~provoked', NEW t \in Servers, server'[t].life = "gone"
               PROVE  Asleep(t)'
    BY DEF GoneSleeps
  <2>1. t # s /\ Asleep(t)
    BY <1>1 DEF GoneSleeps, Live
  <2> QED  BY <1>2, <2>1, SleepFrame
<1> QED  BY <1>3, <1>4, <1>5, <1>6, GoesOn

\* The thread tests is_local_server_running.
LEMMA PollTestsKeeps ==
  ASSUME IInv, NEW s \in Servers, PollTests(s)
  PROVE  IInv'
<1> DEFINE pc == IF server[s].running THEN "enter" ELSE "ended"
<1>1. /\ fate = "running" /\ Live(s) /\ poll' = [poll EXCEPT ![s] = pc]
      /\ UNCHANGED <<server, main, conn, provoked, fate>>
  BY DEF PollTests, AtPoll
<1>2. pc \in {"enter", "ended"} /\ (server[s].running => pc = "enter")
  OBVIOUS
<1>3. conn' \in [Conns -> ConnRec] /\ Placed' /\ \A t \in Servers : Pending(t)' => Pending(t)
  BY <1>1 DEF IInv, TypeOK, Placed, Pending, Of
<1> HIDE DEF pc
<1> QED  BY <1>1, <1>2, <1>3, PollFrame DEF Serving

\* A running server is listening, so that its thread does not get stuck.
LEMMA PollEntersKeeps ==
  ASSUME IInv, NEW s \in Servers, PollEnters(s)
  PROVE  IInv'
<1> DEFINE pc == IF server[s].sock = "listening" THEN "wait" ELSE "stuck"
<1>1. /\ fate = "running" /\ Live(s) /\ poll' = [poll EXCEPT ![s] = pc]
      /\ UNCHANGED <<server, main, conn, provoked, fate>>
  BY DEF PollEnters, AtPoll
<1>2. pc \in {"wait", "stuck"} /\ (server[s].running => pc = "wait")
  BY <1>1 DEF IInv, RunningIsServed
<1>3. conn' \in [Conns -> ConnRec] /\ Placed' /\ \A t \in Servers : Pending(t)' => Pending(t)
  BY <1>1 DEF IInv, TypeOK, Placed, Pending, Of
<1> HIDE DEF pc
<1> QED  BY <1>1, <1>2, <1>3, PollFrame DEF Serving

\* poll returns, and the thread scans.
LEMMA PollReturnsKeeps ==
  ASSUME IInv, NEW s \in Servers, PollReturns(s)
  PROVE  IInv'
<1>1. /\ fate = "running" /\ Live(s) /\ poll' = [poll EXCEPT ![s] = Behind(s)]
      /\ conn' = Dropped(Of(s)) \/ conn' = conn
      /\ UNCHANGED <<server, main, provoked, fate>>
  BY DEF PollReturns, AtPoll
<1>2. Of(s) \in SUBSET Conns /\ TypeOK /\ Placed /\ Behind(s) \in {"scan", "read"}
  BY <1>1 DEF Of, IInv, Behind
<1>3. conn' \in [Conns -> ConnRec] /\ Placed' /\ \A t \in Servers : Pending(t)' => Pending(t)
  BY <1>1, <1>2, DropFrame
<1> QED  BY <1>1, <1>2, <1>3, PollFrame DEF Serving

\* Woken by stop, poll returns or goes to sleep again; the server does not run.
LEMMA PollRechecksKeeps ==
  ASSUME IInv, NEW s \in Servers, PollRechecks(s)
  PROVE  IInv'
<1>1. /\ fate = "running" /\ Live(s) /\ poll[s] = "recheck"
      /\ \E pc \in {Behind(s), "wait"} : poll' = [poll EXCEPT ![s] = pc]
      /\ conn' = Dropped(Of(s)) \/ conn' = Dropped(Accepted(s))
      /\ UNCHANGED <<server, main, provoked, fate>>
  BY DEF PollRechecks, AtPoll
<1>2. /\ Of(s) \in SUBSET Conns /\ Accepted(s) \in SUBSET Conns
      /\ TypeOK /\ Placed /\ Behind(s) \in {"scan", "read"}
  BY <1>1 DEF Of, Accepted, IInv, Behind
<1>3. conn' \in [Conns -> ConnRec] /\ Placed' /\ \A t \in Servers : Pending(t)' => Pending(t)
  BY <1>1, <1>2, DropFrame
<1> QED  BY <1>1, <1>2, <1>3, PollFrame DEF Serving

\* The thread tests is_local_server_running again, at the server's entry.
LEMMA PollSeesKeeps ==
  ASSUME IInv, NEW s \in Servers, PollSees(s)
  PROVE  IInv'
<1>1. /\ fate = "running" /\ Live(s)
      /\ \E pc \in {"accept", "top"} : poll' = [poll EXCEPT ![s] = pc]
      /\ UNCHANGED <<server, main, conn, provoked, fate>>
  BY DEF PollSees, AtPoll
<1> QED  BY <1>1, ConnsStay, PollFrame DEF Serving

\* A connection is accepted.
LEMMA PollAcceptsKeeps ==
  ASSUME IInv, NEW s \in Servers, NEW c \in Conns, PollAccepts(s, c)
  PROVE  IInv'
<1>1. /\ fate = "running" /\ Live(s) /\ poll' = [poll EXCEPT ![s] = "read"]
      /\ c \in Of(s) /\ conn' = [conn EXCEPT ![c].st = "served"]
      /\ UNCHANGED <<server, main, provoked, fate>>
  BY DEF PollAccepts, AtPoll, Queued
<1>2. conn \in [Conns -> ConnRec] /\ conn[c].at = s
  BY <1>1 DEF IInv, TypeOK, Of
<1>3. /\ conn' \in [Conns -> ConnRec] /\ conn'[c].at = s
      /\ \A d \in Conns \ {c} : conn'[d] = conn[d]
  BY <1>1, <1>2 DEF ConnRec
<1>4. Placed'
  BY <1>1, <1>3 DEF IInv, Placed
<1>5. \A t \in Servers \ {s} : Pending(t)' => Pending(t)
  BY <1>3 DEF Pending, Of
<1> QED  BY <1>1, <1>3, <1>4, <1>5, PollFrame DEF Serving

\* The scan ends, and what peers have sent is read.
LEMMA PollReadsKeeps ==
  ASSUME IInv, NEW s \in Servers, PollReads(s)
  PROVE  IInv'
<1>1. /\ fate = "running" /\ Live(s) /\ poll' = [poll EXCEPT ![s] = "top"]
      /\ conn' = [c \in Conns |->
                IF c \in Accepted(s) /\ server[s].running THEN [conn[c] EXCEPT !.news = FALSE]
                ELSE conn[c]]
      /\ UNCHANGED <<server, main, provoked, fate>>
  BY DEF PollReads, AtPoll
<1>2. conn \in [Conns -> ConnRec] /\ Accepted(s) \subseteq Of(s)
  BY DEF IInv, TypeOK, Accepted
<1>3. \A c \in Conns : /\ conn'[c] \in ConnRec /\ conn'[c].at = conn[c].at
                       /\ conn'[c].st = conn[c].st
                       /\ c \notin Of(s) => conn'[c] = conn[c]
  BY <1>1, <1>2 DEF ConnRec
<1>4. conn' \in [Conns -> ConnRec] /\ Placed'
  BY <1>1, <1>3 DEF IInv, Placed
<1>5. \A t \in Servers \ {s} : Pending(t)' => Pending(t)
  BY <1>3 DEF Pending, Of
<1> QED  BY <1>1, <1>4, <1>5, PollFrame DEF Serving

\* A thread that works on a destroyed server was not asleep.
LEMMA PollTouchesKeeps ==
  ASSUME IInv, NEW s \in Servers, PollTouches(s)
  PROVE  IInv'
<1>1. /\ fate = "running" /\ server[s].life = "gone" /\ Ends("undefined")
      /\ ~Asleep(s)
  BY DEF PollTouches, Asleep, Wakes, TimesOut
<1>2. provoked
  BY <1>1 DEF IInv, GoneSleeps
<1> QED  BY <1>1, <1>2, EndKeeps

\* What reaches a socket concerns the thread of its server only, and provokes it
\* if that server is destroyed.
LEMMA RemoteFrame ==
  ASSUME IInv, fate = "running", UNCHANGED <<server, poll, main, fate>>,
         NEW s \in Servers, provoked' = (provoked \/ ~Live(s)),
         conn' \in [Conns -> ConnRec], Placed',
         \A t \in Servers \ {s} : Pending(t)' => Pending(t)
  PROVE  IInv'
<1>1. TypeOK /\ MainKnows /\ RunningIsServed /\ GoneSleeps
  BY DEF IInv
<1>2. provoked' \in BOOLEAN /\ (~provoked' => ~provoked /\ Live(s))
  BY <1>1 DEF TypeOK
<1>3. TypeOK'
  BY <1>1, <1>2 DEF TypeOK
<1>4. MainKnows' /\ RunningIsServed'
  BY <1>1 DEF MainKnows, RunningIsServed, Live
<1>5. GoneSleeps'
  <2> SUFFICES ASSUME ~provoked', NEW t \in Servers, server[t].life = "gone"
               PROVE  Asleep(t)'
    BY DEF GoneSleeps
  <2>1. t # s /\ Asleep(t)
    BY <1>1, <1>2 DEF GoneSleeps, Live
  <2> QED  BY <2>1, SleepFrame
<1> QED  BY <1>3, <1>4, <1>5, GoesOn

\* Somebody connects to a server.
LEMMA RemoteConnectsKeeps ==
  ASSUME IInv, NEW c \in Conns, NEW s \in Servers, RemoteConnects(c, s)
  PROVE  IInv'
<1>1. /\ fate = "running"
      /\ conn' = [conn EXCEPT ![c] = [at |-> s, st |-> "queued", news |-> FALSE]]
      /\ provoked' = (provoked \/ ~Live(s))
      /\ UNCHANGED <<server, poll, main, fate>>
  BY DEF RemoteConnects
<1>2. conn \in [Conns -> ConnRec]
  BY DEF IInv, TypeOK
<1>3. [at |-> s, st |-> "queued", news |-> FALSE] \in ConnRec
  BY DEF ConnRec
<1>4. conn' \in [Conns -> ConnRec] /\ Placed'
  BY <1>1, <1>2, <1>3 DEF IInv, Placed
<1>5. \A t \in Servers \ {s} : Pending(t)' => Pending(t)
  BY <1>1, <1>2 DEF Pending, Of
<1> QED  BY <1>1, <1>4, <1>5, RemoteFrame

\* Somebody sends on a connection, or closes it.
LEMMA RemoteActsKeeps ==
  ASSUME IInv, NEW c \in Conns, RemoteActs(c)
  PROVE  IInv'
<1>1. /\ fate = "running" /\ conn[c].st = "served" /\ conn' = [conn EXCEPT ![c].news = TRUE]
      /\ provoked' = (provoked \/ ~Live(conn[c].at))
      /\ UNCHANGED <<server, poll, main, fate>>
  BY DEF RemoteActs
<1>2. conn \in [Conns -> ConnRec]
  BY DEF IInv, TypeOK
<1>3. /\ conn' \in [Conns -> ConnRec] /\ conn'[c].at = conn[c].at
      /\ \A d \in Conns \ {c} : conn'[d] = conn[d]
  BY <1>1, <1>2 DEF ConnRec
<1>4. \A t \in Servers \ {conn[c].at} : Pending(t)' => Pending(t)
  BY <1>3 DEF Pending, Of
<1>5. Placed' /\ conn[c].at \in Servers
  BY <1>1, <1>3 DEF IInv, Placed
<1> QED  BY <1>1, <1>3, <1>4, <1>5, RemoteFrame

(***************************************************************************)
(* The theorems                                                            *)
(***************************************************************************)

\* No server exists at first.
LEMMA Start == Init => IInv
<1> SUFFICES ASSUME Init  PROVE IInv
  OBVIOUS
<1>1. NoServer \in ServerRec /\ NoConn \in ConnRec /\ AtRest \in MainRec
  BY LifeAssumption DEF NoServer, ServerRec, NoConn, ConnRec, AtRest, MainRec, Static, Servers
<1>2. TypeOK
  BY <1>1 DEF Init, TypeOK
<1>3. MainKnows /\ RunningIsServed /\ GoneSleeps /\ Placed
  BY DEF Init, MainKnows, RunningIsServed, GoneSleeps, Placed, AtRest, NoServer, NoConn
<1> QED  BY <1>2, <1>3 DEF IInv, Init, HarmlessUnlessProvoked

\* Every step keeps the invariant.
LEMMA Step == IInv /\ [Next]_vars => IInv'
<1> SUFFICES ASSUME IInv, [Next]_vars  PROVE IInv'
  OBVIOUS
<1>1. CASE MainGoesOn
  <2>1. CASE Exits
    BY <2>1, EndKeeps DEF Exits
  <2> QED  BY <1>1, <2>1, StartLaunchesKeeps, StartDetachesKeeps, StopShutsKeeps, StopClosesKeeps,
              StopJoinsKeeps DEF MainGoesOn
<1>2. CASE MainCalls
  <2>1. ASSUME NEW s \in Servers, StartExits(s)  PROVE IInv'
    BY <2>1, EndKeeps DEF StartExits
  <2> QED  BY <1>2, <2>1, ConstructKeeps, StartBindsKeeps, StopBeginsKeeps, DestroyKeeps, SignalKeeps
           DEF MainCalls
<1>3. CASE Others
  BY <1>3, RemoteActsKeeps, RemoteConnectsKeeps DEF Others
<1>4. ASSUME NEW s \in Servers, PollThread(s)  PROVE IInv'
  <2>1. CASE PollThrows(s)
    BY <2>1, EndKeeps DEF PollThrows
  <2> QED  BY <1>4, <2>1, PollTestsKeeps, PollEntersKeeps, PollReturnsKeeps, PollRechecksKeeps,
              PollSeesKeeps, PollAcceptsKeeps, PollReadsKeeps, PollTouchesKeeps
           DEF PollThread, PollWaits
<1>5. CASE UNCHANGED vars
  <2>1. UNCHANGED <<server, poll, main, conn, provoked, fate>>
    BY <1>5 DEF vars
  <2>2. TypeOK' /\ HarmlessUnlessProvoked'
    BY <2>1 DEF IInv, TypeOK, HarmlessUnlessProvoked
  <2>3. fate' = "running" => MainKnows' /\ RunningIsServed' /\ Placed'
    BY <2>1 DEF IInv, MainKnows, RunningIsServed, Placed, Live
  <2>4. fate' = "running" => GoneSleeps'
    BY <2>1 DEF IInv, GoneSleeps, Asleep, Pending, Of
  <2> QED  BY <2>2, <2>3, <2>4 DEF IInv
<1> QED  BY <1>1, <1>2, <1>3, <1>4, <1>5 DEF Next

\* The invariant holds in every state that is reached: what the main thread knows of
\* the server it starts or stops, who serves a running one, and which threads sleep.
THEOREM Inductive == Spec => []IInv
  BY Start, Step, PTL DEF Spec

\* The type invariant.
THEOREM TypeCorrect == Spec => []TypeOK
<1>1. IInv => TypeOK
  BY DEF IInv
<1> QED  BY <1>1, Inductive, PTL

\* A server that says it is running between two calls listens, and its thread is
\* in the poll loop, however start, stop, the destructor, the handler of SIGINT
\* and the threads interleave (start, stop).
THEOREM RunningIsTrue == Spec => []RunningMeansServed
<1>1. IInv => RunningMeansServed
  BY DEF IInv, RunningMeansServed, RunningIsServed, MainKnows, AtMain, Serving
<1> QED  BY <1>1, Inductive, PTL

\* The thread that start detaches touches its server after the destructor only if
\* it was at work then, or woken by stop's own shutdown and not asleep again, or if
\* something reaches a socket that it keeps open (stop, close_sock).
THEOREM LeftoversAreHarmless == Spec => []HarmlessUnlessProvoked
<1>1. IInv => HarmlessUnlessProvoked
  BY DEF IInv
<1> QED  BY <1>1, Inductive, PTL
=============================================================================
