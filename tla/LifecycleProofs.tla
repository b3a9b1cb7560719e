---------------------------- MODULE LifecycleProofs ----------------------------
(***************************************************************************)
(* For every number of signals, connections and calls: main() destroys     *)
(* nothing that is in use, what must come together for the process to be   *)
(* terminated, that its threads do not wait for each other but for four    *)
(* reasons, and that it comes to rest.  LifeInv is proved conjunct by      *)
(* conjunct; one lemma (Traffic...) covers the steps of the front ends,    *)
(* which touch no stopper.                                                 *)
(***************************************************************************)
EXTENDS LifecycleProperties, FiniteSetTheorems, SequenceTheorems,
        WellFoundedInduction, TLAPS

Stages == {"new", "sent", "handled", "queued", "given", "over"}

\* What the life cycle's own steps leave alone.
StopSteps(s) ==
  \/ ClearRunning(s) \/ NotifyAll(s) \/ TestJoinable(s) \/ Join(s) \/ Joined(s)
  \/ ShutdownGrpc(s) \/ GrpcIsDown(s) \/ StopHttp(s)

TrafficOnly ==
  \/ Serve
  \/ \E c \in Calls : CallStep(c)
  \/ \E k \in Conns : WorkerStep(k)
  \/ WorkerStarts
  \/ ClientsStep

LEMMA Split ==
  ASSUME [LifeNext]_allVars
  PROVE  \/ Up /\ \E h \in Signals : \E t \in Threads : Deliver(h, t)
         \/ Up /\ \E s \in Stoppers : CanRun(s) /\ StopSteps(s) /\ UNCHANGED host
         \/ Up /\ MainStep /\ UNCHANGED host
         \/ Up /\ (EngineThreadStep \/ SpuriousWake)
         \/ Up /\ TrafficOnly
         \/ UNCHANGED allVars
  BY DEF LifeNext, StopperStep, StopSteps, TrafficOnly

LEMMA Parts ==
  LifeInv => /\ LifeTypeOK /\ TrafficOK /\ ServersEnd /\ EngineEnds /\ SocketEnds
             /\ OneSignalIsSafe /\ StoppersOrdered /\ MainOrdered
  BY DEF LifeInv

LEMMA AtTyped ==
  ASSUME LifeTypeOK
  PROVE  /\ at \in [Stoppers -> HandlerPlaces \cup MainPlaces]
         /\ MainThread \in Stoppers /\ at[MainThread] \in MainPlaces
         /\ \A h \in Signals : /\ h \in Stoppers /\ h # MainThread
                               /\ at[h] \in HandlerPlaces
         /\ \A s \in Stoppers : s \in Signals \/ s = MainThread
  BY MainAssumption DEF LifeTypeOK, Stoppers

-----------------------------------------------------------------------------
(* Types. *)

\* Where a stopper goes, it may be.
StopperTo(s, p) ==
  /\ at' = [at EXCEPT ![s] = p]
  /\ s = MainThread => p \in MainPlaces \ {"bind", "listen", "accept", "close",
                                           "drain", "exited"}
  /\ s # MainThread => p \in HandlerPlaces \ {"none"}
  /\ s = MainThread => at[s] \notin {"bind", "listen", "accept", "close",
                                     "drain", "destroy", "exited", "none"}
  /\ at[s] \notin {"none", "done"}

LEMMA StopperGoes ==
  ASSUME LifeTypeOK, NEW s \in Stoppers, StopSteps(s)
  PROVE  \E p \in HandlerPlaces \cup MainPlaces : StopperTo(s, p)
<1> USE AtTyped DEF StopperTo, After, MainOrder, HandlerOrder, HandlerPlaces, MainPlaces
<1>1. CASE Join(s)
  <2>1. at[s] = "join"
    BY <1>1 DEF Join
  <2>2. CASE at' = at
    <3>1. at' = [at EXCEPT ![s] = "join"]
      BY <2>1, <2>2
    <3> QED
      BY <2>1, <3>1
  <2>3. CASE at' = [at EXCEPT ![s] = "joining"]
    BY <2>1, <2>3
  <2> QED
    BY <1>1, <2>2, <2>3 DEF Join
<1>2. CASE StopHttp(s)
  <2>1. at[s] = "http" /\ s # MainThread
    BY <1>2 DEF StopHttp
  <2>2. CASE at' = at
    <3>1. at' = [at EXCEPT ![s] = "http"]
      BY <2>1, <2>2
    <3> QED
      BY <2>1, <3>1
  <2>3. CASE at' = [at EXCEPT ![s] = After(s, "http")]
    BY <2>1, <2>3
  <2> QED
    BY <1>2, <2>2, <2>3 DEF StopHttp
<1>3. CASE ClearRunning(s)
  BY <1>3 DEF ClearRunning
<1>4. CASE NotifyAll(s)
  BY <1>4 DEF NotifyAll
<1>5. CASE TestJoinable(s)
  <2>1. CASE joinable
    BY <1>5, <2>1 DEF TestJoinable
  <2>2. CASE ~joinable
    BY <1>5, <2>2 DEF TestJoinable
  <2> QED
    BY <2>1, <2>2
<1>6. CASE Joined(s)
  BY <1>6 DEF Joined
<1>7. CASE ShutdownGrpc(s)
  <2>1. CASE grpc = "serving"
    BY <1>7, <2>1 DEF ShutdownGrpc
  <2>2. CASE grpc # "serving"
    BY <1>7, <2>2 DEF ShutdownGrpc
  <2> QED
    BY <2>1, <2>2
<1>8. CASE GrpcIsDown(s)
  BY <1>8 DEF GrpcIsDown
<1> QED
  BY <1>1, <1>2, <1>3, <1>4, <1>5, <1>6, <1>7, <1>8 DEF StopSteps

\* Where the main thread goes by itself.
MainMove(p) ==
  /\ at' = [at EXCEPT ![MainThread] = p]
  /\ p \in {"accept", "close", "drain"} <=> is_running'
  /\ at[MainThread] = "bind" => p \in {"listen", "grpc"}
  /\ at[MainThread] = "listen" => p = "accept"
  /\ at[MainThread] = "accept" => p = "close"
  /\ at[MainThread] = "close" => p = "drain"
  /\ at[MainThread] = "drain" => p = "grpc"
  /\ at[MainThread] = "join_grpc" => p = "clear"
  /\ at[MainThread] = "destroy" => p = "exited"
  /\ at[MainThread] \in {"bind", "listen", "accept", "close", "drain",
                         "join_grpc", "destroy"}

LEMMA MainGoes ==
  ASSUME LifeTypeOK, MainStep
  PROVE  \E p \in MainPlaces : MainMove(p)
<1> USE AtTyped DEF MainMove, MainPlaces, HandlerPlaces
<1>0. is_running <=> at[MainThread] \in {"accept", "close", "drain"}
  BY DEF LifeTypeOK
<1>1. CASE Bind
  BY <1>0, <1>1 DEF Bind
<1>2. CASE Listen
  BY <1>0, <1>2 DEF Listen
<1>3. CASE EndAccepting \/ AcceptFails
  BY <1>0, <1>3 DEF EndAccepting, AcceptFails, httpVars
<1>4. CASE CloseQueue
  BY <1>0, <1>4 DEF CloseQueue, httpVars
<1>5. CASE ListenReturns
  BY <1>0, <1>5 DEF ListenReturns, RunningAfter, After, MainOrder
<1>6. CASE JoinGrpcThread
  BY <1>0, <1>6 DEF JoinGrpcThread, httpVars
<1>7. CASE Return
  BY <1>0, <1>7 DEF Return, httpVars
<1> QED
  BY <1>1, <1>2, <1>3, <1>4, <1>5, <1>6, <1>7 DEF MainStep

\* A step of the front ends touches no stopper and no server; it may wake the
\* engine thread.
LEMMA TrafficLeaves ==
  ASSUME LifeTypeOK, TrafficOnly
  PROVE  /\ UNCHANGED <<at, host, running, joinable, grpc, svr_sock, is_running, crashed>>
         /\ engine' \in {"running", "parking", "asleep", "exited"}
         /\ engine = "exited" => engine' = "exited"
<1> USE DEF lifeVars, stopVars, httpVars, LifeTypeOK, Woken
<1>1. CASE Serve \/ WorkerStarts \/ ClientsStep
  BY <1>1 DEF Serve, WorkerStarts, ClientsStep
<1>2. ASSUME NEW c \in Calls, CallStep(c)
      PROVE  /\ UNCHANGED <<at, host, running, joinable, grpc, svr_sock, is_running, crashed>>
             /\ engine' \in {"running", "parking", "asleep", "exited"}
             /\ engine = "exited" => engine' = "exited"
  BY <1>2 DEF CallStep, Push
<1>3. ASSUME NEW k \in Conns, WorkerStep(k) PROVE UNCHANGED lifeVars
  BY <1>3 DEF WorkerStep
<1> QED
  BY <1>1, <1>2, <1>3 DEF TrafficOnly

LEMMA EngineLeaves ==
  ASSUME LifeTypeOK, EngineThreadStep \/ SpuriousWake
  PROVE  /\ UNCHANGED <<vars, at, host, running, joinable, grpc, svr_sock, is_running,
                        crashed>>
         /\ engine' \in {"running", "parking", "asleep", "exited"}
         /\ engine = "exited" => engine' = "exited"
  BY DEF EngineThreadStep, SpuriousWake, httpVars, LifeTypeOK

LEMMA TypesNext == ASSUME LifeInv, [LifeNext]_allVars PROVE LifeTypeOK'
<1>0. LifeTypeOK
  BY Parts
<1>1. CASE UNCHANGED allVars
  BY <1>0, <1>1 DEF LifeTypeOK, allVars, lifeVars, stopVars, httpVars
<1>2. CASE TrafficOnly
  BY <1>0, <1>2, TrafficLeaves DEF LifeTypeOK
<1>3. CASE EngineThreadStep \/ SpuriousWake
  BY <1>0, <1>3, EngineLeaves DEF LifeTypeOK
<1>4. ASSUME NEW h \in Signals, NEW t \in Threads, Deliver(h, t) PROVE LifeTypeOK'
  <2>1. /\ at' = [at EXCEPT ![h] = "clear"] /\ host' = [host EXCEPT ![h] = t]
        /\ UNCHANGED <<running, engine, joinable, grpc, svr_sock, is_running, crashed>>
    BY <1>4 DEF Deliver, HandlerOrder, stopVars, httpVars
  <2>2. t \in {MainThread, EngineThread, OtherThread} \cup Calls
    BY DEF Threads
  <2> QED
    BY <1>0, <2>1, <2>2, AtTyped DEF LifeTypeOK, HandlerPlaces, MainPlaces
<1>5. ASSUME NEW s \in Stoppers, StopSteps(s), UNCHANGED host PROVE LifeTypeOK'
  <2>1. PICK p \in HandlerPlaces \cup MainPlaces : StopperTo(s, p)
    BY <1>0, <1>5, StopperGoes
  <2>2. /\ at' \in [Stoppers -> HandlerPlaces \cup MainPlaces]
        /\ at'[MainThread] \in MainPlaces
        /\ \A h \in Signals : at'[h] \in HandlerPlaces
        /\ (at'[MainThread] \in {"accept", "close", "drain"})
             <=> (at[MainThread] \in {"accept", "close", "drain"})
    BY <1>0, <2>1, AtTyped DEF StopperTo
  <2>3. /\ {running', joinable', crashed'} \subseteq BOOLEAN
        /\ is_running' = is_running
        /\ engine' \in {"running", "parking", "asleep", "exited"}
        /\ grpc' \in {"serving", "stopping", "stopped", "none"}
        /\ svr_sock' \in {"never", "open", "stale", "none"}
    BY <1>0, <1>5 DEF StopSteps, ClearRunning, NotifyAll, Woken, TestJoinable, Join,
                      Joined, ShutdownGrpc, GrpcIsDown, StopHttp, stopVars, httpVars,
                      LifeTypeOK
  <2> QED
    BY <1>0, <1>5, <2>2, <2>3 DEF LifeTypeOK
<1>6. ASSUME MainStep, UNCHANGED host PROVE LifeTypeOK'
  <2>1. PICK p \in MainPlaces :
          at' = [at EXCEPT ![MainThread] = p] /\ (p \in {"accept", "close", "drain"} <=> is_running')
    BY <1>0, <1>6, MainGoes DEF MainMove
  <2>2. /\ at' \in [Stoppers -> HandlerPlaces \cup MainPlaces]
        /\ at'[MainThread] = p
        /\ \A h \in Signals : at'[h] \in HandlerPlaces
    BY <1>0, <2>1, AtTyped
  <2>3. /\ {running', joinable', is_running', crashed'} \subseteq BOOLEAN
        /\ engine' \in {"running", "parking", "asleep", "exited"}
        /\ grpc' \in {"serving", "stopping", "stopped", "none"}
        /\ svr_sock' \in {"never", "open", "stale", "none"}
    BY <1>0, <1>6 DEF MainStep, Bind, Listen, EndAccepting, AcceptFails, CloseQueue,
                      ListenReturns, RunningAfter, JoinGrpcThread, Return, stopVars, httpVars, LifeTypeOK
  <2> QED
    BY <1>0, <1>6, <2>1, <2>2, <2>3 DEF LifeTypeOK
<1> QED
  BY <1>1, <1>2, <1>3, <1>4, <1>5, <1>6, Split
-----------------------------------------------------------------------------
(* The traffic. *)

LEMMA CallOf ==
  /\ \A c \in HttpCalls : /\ c[1] \in Conns /\ c[2] \in 1 .. KeepAliveMax
                          /\ c = <<c[1], c[2]>> /\ c \in Calls /\ c \notin Rpcs
  /\ \A k \in Conns, i \in 1 .. KeepAliveMax :
       <<k, i>> \in HttpCalls /\ <<k, i>> \in CallsOf(k)
  BY RequestsAssumption DEF HttpCalls, Calls, CallsOf

\* The requests of a connection, one after the other.
InOrder ==
  \A k \in Conns : \A i, j \in 1 .. KeepAliveMax :
    j < i /\ stage[<<k, i>>] # "new" => stage[<<k, j>>] = "over"

\* No step but Send makes a request, none reopens one.
LEMMA OrderKept ==
  ASSUME InOrder,
         \A c \in HttpCalls : \/ stage'[c] = stage[c]
                              \/ stage[c] \notin {"new", "over"}
  PROVE  InOrder'
<1> SUFFICES ASSUME NEW k \in Conns, NEW i \in 1 .. KeepAliveMax,
                    NEW j \in 1 .. KeepAliveMax, j < i, stage'[<<k, i>>] # "new"
             PROVE  stage'[<<k, j>>] = "over"
  BY DEF InOrder
<1>1. <<k, i>> \in HttpCalls /\ <<k, j>> \in HttpCalls
  BY CallOf
<1>2. stage[<<k, i>>] # "new"
  BY <1>1
<1>3. stage[<<k, j>>] = "over"
  BY <1>2 DEF InOrder
<1> QED
  BY <1>1, <1>3

LEMMA SendKeepsOrder ==
  ASSUME InOrder, stage \in [Calls -> Stages], NEW k \in Conns,
         NEW i \in 1 .. KeepAliveMax, Send(k, i)
  PROVE  InOrder'
<1> SUFFICES ASSUME NEW m \in Conns, NEW a \in 1 .. KeepAliveMax,
                    NEW b \in 1 .. KeepAliveMax, b < a, stage'[<<m, a>>] # "new"
             PROVE  stage'[<<m, b>>] = "over"
  BY DEF InOrder
<1>1. /\ <<m, a>> \in Calls /\ <<m, b>> \in Calls /\ <<k, i>> \in Calls
      /\ <<m, b>> # <<m, a>>
  BY CallOf
<1>2. /\ stage[<<k, i>>] = "new" /\ stage' = [stage EXCEPT ![<<k, i>>] = "sent"]
      /\ i > 1 => stage[<<k, i - 1>>] = "over"
  BY DEF Send
<1>3. CASE <<m, a>> = <<k, i>>
  <2>1. m = k /\ a = i /\ i > 1 /\ i - 1 \in 1 .. KeepAliveMax /\ b <= i - 1
    BY <1>3, RequestsAssumption
  <2>2. stage[<<k, i - 1>>] = "over"
    BY <1>2, <2>1
  <2>3. stage[<<m, b>>] = "over"
    <3>1. CASE b = i - 1
      BY <2>1, <2>2, <3>1
    <3>2. CASE b < i - 1
      BY <2>1, <2>2, <3>2 DEF InOrder
    <3> QED
      BY <2>1, <3>1, <3>2
  <2> QED
    BY <1>1, <1>2, <1>3, <2>3
<1>4. CASE <<m, a>> # <<k, i>>
  <2>1. stage[<<m, a>>] # "new"
    BY <1>1, <1>2, <1>4
  <2>2. stage[<<m, b>>] = "over"
    BY <2>1 DEF InOrder
  <2> QED
    BY <1>1, <1>2, <2>2
<1> QED
  BY <1>3, <1>4

\* Of the requests of a connection at most one is in progress.
LEMMA OneInProgress ==
  ASSUME InOrder, NEW c \in HttpCalls, NEW d \in HttpCalls, InProgress(c), InProgress(d),
         c[1] = d[1]
  PROVE  c = d
<1>1. /\ c[1] \in Conns /\ c = <<c[1], c[2]>> /\ d = <<c[1], d[2]>>
      /\ c[2] \in 1 .. KeepAliveMax /\ d[2] \in 1 .. KeepAliveMax
  BY CallOf
<1>2. ~(c[2] < d[2]) /\ ~(d[2] < c[2])
  BY <1>1 DEF InOrder, InProgress
<1>3. c[2] \in Int /\ d[2] \in Int
  BY <1>1
<1>4. c[2] = d[2]
  BY <1>2, <1>3
<1> QED
  BY <1>1, <1>4

LEMMA TrafficParts ==
  TrafficOK <=> /\ backlog \in Seq(Conns) /\ busy \subseteq Conns
                /\ stage \in [Calls -> Stages] /\ InOrder
                /\ \A c \in HttpCalls : InProgress(c) => c[1] \in busy
  BY DEF TrafficOK, InOrder, Stages

\* What a step of one of the calls' threads does to the calls.
LEMMA CallMoves ==
  ASSUME TrafficOK, NEW c \in Calls, Decide(c) \/ Submit(c) \/ Reply(c)
  PROVE  /\ InProgress(c)
         /\ \E p \in {"given", "queued", "over"} : stage' = [stage EXCEPT ![c] = p]
         /\ backlog' = backlog
         /\ \/ busy' = busy
            \/ c \notin Rpcs /\ busy' = busy \ {c[1]} /\ stage'[c] = "over"
<1>0. stage \in [Calls -> Stages]
  BY TrafficParts
<1>1. CASE Decide(c)
  BY <1>1 DEF Decide, InProgress, poolVars
<1>2. CASE Submit(c)
  BY <1>2 DEF Submit, InProgress, poolVars
<1>3. CASE Reply(c)
  BY <1>0, <1>3 DEF Reply, InProgress, poolVars, Pool!Finish
<1> QED
  BY <1>1, <1>2, <1>3

LEMMA TrafficNext == ASSUME LifeInv, [LifeNext]_allVars PROVE TrafficOK'
<1>0. TrafficOK
  BY Parts
<1>a. /\ backlog \in Seq(Conns) /\ busy \subseteq Conns
      /\ stage \in [Calls -> Stages] /\ InOrder
      /\ \A c \in HttpCalls : InProgress(c) => c[1] \in busy
  BY <1>0, TrafficParts
<1> DEFINE Goal == /\ (backlog \in Seq(Conns))' /\ busy' \subseteq Conns
                   /\ stage' \in [Calls -> Stages] /\ InOrder'
                   /\ \A c \in HttpCalls : InProgress(c)' => c[1] \in busy'
<1> SUFFICES Goal
  BY TrafficParts DEF TrafficOK, InOrder, Stages
<1>1. ASSUME UNCHANGED <<backlog, busy, stage>> PROVE Goal
  BY <1>a, <1>1 DEF InOrder, InProgress
<1>2. CASE UNCHANGED allVars
  BY <1>1, <1>2 DEF allVars, vars, poolVars
<1>3. ASSUME NEW h \in Signals, NEW t \in Threads, Deliver(h, t) PROVE Goal
  BY <1>1, <1>3 DEF Deliver, vars, poolVars
<1>4. ASSUME NEW s \in Stoppers, StopSteps(s) PROVE Goal
  <2>1. UNCHANGED vars
    BY <1>4 DEF StopSteps, ClearRunning, NotifyAll, TestJoinable, Join, Joined,
                ShutdownGrpc, GrpcIsDown, StopHttp
  <2> QED
    BY <1>1, <2>1 DEF vars, poolVars
<1>5. CASE MainStep
  <2>1. UNCHANGED <<backlog, busy, stage>>
    BY <1>5 DEF MainStep, Bind, Listen, EndAccepting, AcceptFails, CloseQueue,
                ListenReturns, Drained, Pool!Close, Pool!Closed, JoinGrpcThread, Return, vars, poolVars
  <2> QED
    BY <1>1, <2>1
<1>6. CASE EngineThreadStep \/ SpuriousWake
  BY <1>1, <1>6 DEF EngineThreadStep, SpuriousWake, vars, poolVars
<1>7. CASE Serve
  <2>1. PICK S \in SUBSET Queued : Answer(S)
    BY <1>7 DEF Serve
  <2>2. /\ UNCHANGED poolVars
        /\ \A c \in Calls : stage'[c] = IF c \in S THEN "given" ELSE stage[c]
        /\ stage' \in [Calls -> Stages]
        /\ \A c \in S : c \in Calls /\ stage[c] = "queued"
    BY <1>a, <2>1 DEF Answer, Stages, Queued
  <2>3. InOrder'
    BY <1>a, <2>2, OrderKept, CallOf
  <2> QED
    BY <1>a, <2>2, <2>3, CallOf DEF InProgress, poolVars
<1>8. ASSUME NEW c \in Calls, CallStep(c) PROVE Goal
  <2>1. Decide(c) \/ Submit(c) \/ Reply(c)
    BY <1>8 DEF CallStep, Push
  <2>2. PICK p \in {"given", "queued", "over"} : stage' = [stage EXCEPT ![c] = p]
    BY <1>0, <2>1, CallMoves
  <2>3. /\ InProgress(c) /\ backlog' = backlog
        /\ \/ busy' = busy
           \/ c \notin Rpcs /\ busy' = busy \ {c[1]} /\ stage'[c] = "over"
    BY <1>0, <2>1, CallMoves
  <2>4. stage' \in [Calls -> Stages]
    BY <1>a, <2>2 DEF Stages
  <2>5. InOrder'
    <3>1. stage[c] \notin {"new", "over"}
      BY <2>3 DEF InProgress
    <3>2. \A d \in HttpCalls : stage'[d] = stage[d] \/ stage[d] \notin {"new", "over"}
      BY <1>a, <2>2, <3>1, CallOf
    <3> QED
      BY <1>a, <3>2, OrderKept
  <2>6. \A d \in HttpCalls : InProgress(d)' => d[1] \in busy'
    <3> SUFFICES ASSUME NEW d \in HttpCalls, InProgress(d)' PROVE d[1] \in busy'
      OBVIOUS
    <3>1. d \in Calls /\ InProgress(d)
      BY <1>a, <2>2, <2>3, CallOf DEF InProgress
    <3>2. d[1] \in busy
      BY <1>a, <3>1
    <3>3. CASE busy' = busy
      BY <3>2, <3>3
    <3>4. CASE c \notin Rpcs /\ busy' = busy \ {c[1]} /\ stage'[c] = "over"
      <4>1. c \in HttpCalls
        BY <3>4 DEF Calls
      <4>2. d # c
        BY <3>4 DEF InProgress
      <4>3. d[1] # c[1]
        BY <1>a, <2>3, <3>1, <4>1, <4>2, OneInProgress
      <4> QED
        BY <3>2, <3>4, <4>3
    <3> QED
      BY <2>3, <3>3, <3>4
  <2> QED
    BY <1>a, <2>3, <2>4, <2>5, <2>6
<1>9. ASSUME NEW k \in Conns, WorkerStep(k) PROVE Goal
  <2>1. CASE HangUp(k)
    <3>1. /\ \A c \in CallsOf(k) : ~InProgress(c)
          /\ busy' = busy \ {k} /\ backlog' = backlog
          /\ \A c \in Calls : stage'[c] = IF c \in CallsOf(k) /\ stage[c] = "sent"
                                            THEN "over" ELSE stage[c]
          /\ stage' \in [Calls -> Stages]
      BY <1>a, <2>1 DEF HangUp, Pool!Finish, Stages
    <3>2. InOrder'
      BY <1>a, <3>1, OrderKept, CallOf
    <3>3. \A d \in HttpCalls : InProgress(d)' => d[1] \in busy'
      <4> SUFFICES ASSUME NEW d \in HttpCalls, InProgress(d)' PROVE d[1] \in busy'
        OBVIOUS
      <4>1. InProgress(d)
        BY <3>1, CallOf DEF InProgress
      <4>2. d[1] # k
        BY <3>1, <4>1, CallOf
      <4> QED
        BY <1>a, <3>1, <4>1, <4>2
    <3> QED
      BY <1>a, <3>1, <3>2, <3>3
  <2>2. ASSUME NEW i \in 1 .. KeepAliveMax, Read(k, i) PROVE Goal
    <3>1. /\ k \in busy /\ stage[<<k, i>>] = "sent"
          /\ stage' = [stage EXCEPT ![<<k, i>>] = "handled"]
          /\ busy' = busy /\ backlog' = backlog
      BY <2>2 DEF Read, poolVars
    <3>2. stage' \in [Calls -> Stages]
      BY <1>a, <3>1 DEF Stages
    <3>3. InOrder'
      <4>1. \A d \in HttpCalls : stage'[d] = stage[d] \/ stage[d] \notin {"new", "over"}
        BY <1>a, <3>1, CallOf
      <4> QED
        BY <1>a, <4>1, OrderKept
    <3>4. \A d \in HttpCalls : InProgress(d)' => d[1] \in busy'
      BY <1>a, <3>1, CallOf DEF InProgress
    <3> QED
      BY <1>a, <3>1, <3>2, <3>3, <3>4
  <2> QED
    BY <1>9, <2>1, <2>2 DEF WorkerStep, ConnectionStep
<1>10. CASE WorkerStarts
  <2>1. /\ backlog # <<>> /\ busy' = busy \cup {Head(backlog)}
        /\ backlog' = Tail(backlog) /\ stage' = stage
    BY <1>10 DEF WorkerStarts, StartConnection, Pool!Start
  <2>2. Head(backlog) \in Conns /\ Tail(backlog) \in Seq(Conns)
    BY <1>a, <2>1, HeadTailProperties
  <2> QED
    BY <1>a, <2>1, <2>2 DEF InOrder, InProgress
<1>11. CASE ClientsStep
  <2>1. ASSUME NEW k \in Conns, Connect(k) PROVE Goal
    <3>1. backlog' = Append(backlog, k) /\ busy' = busy /\ stage' = stage
      BY <2>1 DEF Connect, Pool!Accept
    <3>2. backlog' \in Seq(Conns)
      BY <1>a, <3>1
    <3> QED
      BY <1>a, <3>1, <3>2 DEF InOrder, InProgress
  <2>2. ASSUME NEW k \in Conns, NEW i \in 1 .. KeepAliveMax, Send(k, i) PROVE Goal
    <3>1. InOrder'
      BY <1>a, <2>2, SendKeepsOrder
    <3>2. /\ stage' = [stage EXCEPT ![<<k, i>>] = "sent"]
          /\ busy' = busy /\ backlog' = backlog
      BY <2>2 DEF Send, poolVars
    <3> QED
      BY <1>a, <3>1, <3>2, CallOf DEF InProgress, Stages
  <2>3. ASSUME NEW r \in Rpcs, Call(r) PROVE Goal
    <3>1. /\ stage' = [stage EXCEPT ![r] = "handled"]
          /\ busy' = busy /\ backlog' = backlog
      BY <2>3 DEF Call, poolVars
    <3>2. \A d \in HttpCalls : stage'[d] = stage[d]
      BY <1>a, <3>1, CallOf
    <3>3. InOrder'
      BY <1>a, <3>2, OrderKept
    <3> QED
      BY <1>a, <3>1, <3>2, <3>3 DEF InProgress, Stages
  <2> QED
    BY <1>11, <2>1, <2>2, <2>3 DEF ClientsStep
<1> HIDE DEF Goal
<1> QED
  BY <1>2, <1>3, <1>4, <1>5, <1>6, <1>7, <1>8, <1>9, <1>10, <1>11, Split DEF TrafficOnly
-----------------------------------------------------------------------------
(* The servers. *)

\* Where main() has left the HTTP server, and where it has passed grpc_thread.
Listening == {"accept", "close", "drain"}
PastGrpc  == {"clear", "notify", "joinable", "join", "joining", "destroy", "exited"}

LEMMA ServersParts ==
  ServersEnd <=> /\ at[MainThread] \notin Listening => backlog = <<>> /\ busy = {}
                 /\ grpc \in {"stopped", "none"} => \A r \in Rpcs : ~InProgress(r)
                 /\ at[MainThread] \in PastGrpc => grpc \in {"stopped", "none"}
  BY DEF ServersEnd, Listening, PastGrpc

\* The front ends start nothing when their server has ended.
LEMMA TrafficStarts ==
  ASSUME LifeInv, TrafficOnly
  PROVE  /\ at[MainThread] \notin Listening => backlog' = <<>> /\ busy' = {}
         /\ grpc \in {"stopped", "none"} => \A r \in Rpcs : ~InProgress(r)'
<1> DEFINE Goal == /\ at[MainThread] \notin Listening => backlog' = <<>> /\ busy' = {}
                   /\ grpc \in {"stopped", "none"} => \A r \in Rpcs : ~InProgress(r)'
<1> SUFFICES Goal
  OBVIOUS
<1>0. /\ at[MainThread] \notin Listening => backlog = <<>> /\ busy = {}
      /\ grpc \in {"stopped", "none"} => \A r \in Rpcs : ~InProgress(r)
      /\ stage \in [Calls -> Stages] /\ TrafficOK
      /\ \A r \in Rpcs : r \in Calls
  BY Parts, ServersParts, TrafficParts DEF Calls
<1>1. CASE Serve
  <2>1. PICK S \in SUBSET Queued : Answer(S)
    BY <1>1 DEF Serve
  <2>2. /\ busy' = busy /\ backlog' = backlog
        /\ \A c \in Calls : stage'[c] = IF c \in S THEN "given" ELSE stage[c]
        /\ \A c \in S : InProgress(c)
    BY <2>1 DEF Answer, Queued, poolVars, InProgress
  <2> QED
    BY <1>0, <2>2 DEF InProgress
<1>2. ASSUME NEW c \in Calls, CallStep(c) PROVE Goal
  <2>1. Decide(c) \/ Submit(c) \/ Reply(c)
    BY <1>2 DEF CallStep, Push
  <2>2. PICK p \in {"given", "queued", "over"} : stage' = [stage EXCEPT ![c] = p]
    BY <1>0, <2>1, CallMoves
  <2>3. InProgress(c) /\ backlog' = backlog /\ (busy' = busy \/ busy' = busy \ {c[1]})
    BY <1>0, <2>1, CallMoves
  <2>4. \A r \in Rpcs : ~InProgress(r) => ~InProgress(r)'
    BY <1>0, <2>2, <2>3 DEF InProgress
  <2> QED
    BY <1>0, <2>3, <2>4
<1>3. ASSUME NEW k \in Conns, WorkerStep(k) PROVE Goal
  <2>1. CASE HangUp(k)
    <3>1. /\ busy' = busy \ {k} /\ backlog' = backlog
          /\ \A c \in Calls : stage'[c] = stage[c] \/ stage'[c] = "over"
      BY <2>1 DEF HangUp, Pool!Finish
    <3> QED
      BY <1>0, <3>1 DEF InProgress
  <2>2. ASSUME NEW i \in 1 .. KeepAliveMax, Read(k, i) PROVE Goal
    <3>1. /\ stage' = [stage EXCEPT ![<<k, i>>] = "handled"]
          /\ busy' = busy /\ backlog' = backlog
      BY <2>2 DEF Read, poolVars
    <3>2. \A r \in Rpcs : stage'[r] = stage[r]
      BY <1>0, <3>1, CallOf
    <3> QED
      BY <1>0, <3>1, <3>2 DEF InProgress
  <2> QED
    BY <1>3, <2>1, <2>2 DEF WorkerStep, ConnectionStep
<1>4. CASE WorkerStarts
  BY <1>0, <1>4 DEF WorkerStarts, StartConnection, Pool!Start, InProgress
<1>5. CASE ClientsStep
  <2>1. ASSUME NEW k \in Conns, at[MainThread] = "accept", Connect(k) PROVE Goal
    BY <1>0, <2>1 DEF Connect, InProgress, Listening
  <2>2. ASSUME NEW k \in Conns, NEW i \in 1 .. KeepAliveMax, Send(k, i) PROVE Goal
    <3>1. /\ stage' = [stage EXCEPT ![<<k, i>>] = "sent"]
          /\ busy' = busy /\ backlog' = backlog
      BY <2>2 DEF Send, poolVars
    <3>2. \A r \in Rpcs : stage'[r] = stage[r]
      BY <1>0, <3>1, CallOf
    <3> QED
      BY <1>0, <3>1, <3>2 DEF InProgress
  <2>3. ASSUME NEW r \in Rpcs, grpc = "serving", Call(r) PROVE Goal
    BY <1>0, <2>3 DEF Call, poolVars
  <2> QED
    BY <1>5, <2>1, <2>2, <2>3 DEF ClientsStep
<1> QED
  BY <1>1, <1>2, <1>3, <1>4, <1>5 DEF TrafficOnly

LEMMA ServersNext == ASSUME LifeInv, [LifeNext]_allVars PROVE ServersEnd'
<1>0. LifeTypeOK /\ ServersEnd
  BY Parts
<1>a. /\ at[MainThread] \notin Listening => backlog = <<>> /\ busy = {}
      /\ grpc \in {"stopped", "none"} => \A r \in Rpcs : ~InProgress(r)
      /\ at[MainThread] \in PastGrpc => grpc \in {"stopped", "none"}
  BY <1>0, ServersParts
<1> DEFINE Goal == /\ at'[MainThread] \notin Listening => backlog' = <<>> /\ busy' = {}
                   /\ grpc' \in {"stopped", "none"} => \A r \in Rpcs : ~InProgress(r)'
                   /\ at'[MainThread] \in PastGrpc => grpc' \in {"stopped", "none"}
<1> SUFFICES Goal
  BY DEF ServersEnd, Listening, PastGrpc
<1>1. ASSUME UNCHANGED vars, at'[MainThread] = at[MainThread], grpc' = grpc PROVE Goal
  BY <1>a, <1>1 DEF vars, poolVars, InProgress
<1>2. CASE UNCHANGED allVars
  BY <1>1, <1>2 DEF allVars, lifeVars, stopVars
<1>3. ASSUME NEW h \in Signals, NEW t \in Threads, Deliver(h, t) PROVE Goal
  BY <1>0, <1>1, <1>3, AtTyped DEF Deliver, stopVars
<1>4. ASSUME NEW s \in Stoppers, StopSteps(s) PROVE Goal
  <2>1. PICK p \in HandlerPlaces \cup MainPlaces : StopperTo(s, p)
    BY <1>0, <1>4, StopperGoes
  <2>2. (at'[MainThread] \in Listening) <=> (at[MainThread] \in Listening)
    BY <1>0, <2>1, AtTyped DEF Listening, StopperTo
  <2>3. UNCHANGED vars
    BY <1>4 DEF StopSteps, ClearRunning, NotifyAll, TestJoinable, Join, Joined,
                ShutdownGrpc, GrpcIsDown, StopHttp
  <2>4. \A r \in Rpcs : InProgress(r)' <=> InProgress(r)
    BY <2>3 DEF vars, InProgress
  <2>5. \/ grpc' = grpc
        \/ grpc' = "stopping" /\ grpc = "serving"
        \/ grpc' = "stopped" /\ \A r \in Rpcs : ~InProgress(r)
    BY <1>4 DEF StopSteps, ClearRunning, NotifyAll, TestJoinable, Join, Joined,
                ShutdownGrpc, GrpcIsDown, StopHttp, stopVars
  <2>6. at'[MainThread] \in PastGrpc => at[MainThread] \in PastGrpc
    <3>1. CASE s # MainThread
      BY <1>0, <2>1, <3>1, AtTyped DEF StopperTo
    <3>2. CASE s = MainThread
      <4> USE <3>2, AtTyped, <1>0 DEF PastGrpc, After, MainOrder
      <4>1. CASE at[MainThread] \in {"clear", "notify", "joinable", "join", "joining"}
        BY <4>1
      <4>2. CASE ShutdownGrpc(s)
        BY <4>2 DEF ShutdownGrpc
      <4>3. CASE GrpcIsDown(s)
        BY <4>3 DEF GrpcIsDown
      <4>4. CASE StopHttp(s)
        BY <4>4 DEF StopHttp, MainPlaces, HandlerPlaces
      <4> QED
        BY <1>4, <4>1, <4>2, <4>3, <4>4 DEF StopSteps, ClearRunning, NotifyAll,
           TestJoinable, Join, Joined
    <3> QED
      BY <3>1, <3>2
  <2> QED
    BY <1>a, <2>2, <2>3, <2>4, <2>5, <2>6 DEF vars, poolVars
<1>5. CASE MainStep
  <2>1. PICK p \in MainPlaces : MainMove(p)
    BY <1>0, <1>5, MainGoes
  <2>2. at'[MainThread] = p
    BY <1>0, <2>1, AtTyped DEF MainMove
  <2>3. /\ UNCHANGED <<backlog, busy, stage, grpc>>
        /\ at[MainThread] = "drain" => backlog = <<>> /\ busy = {}
        /\ at[MainThread] = "join_grpc" => grpc \in {"stopped", "none"}
    BY <1>5 DEF MainStep, Bind, Listen, EndAccepting, AcceptFails, CloseQueue,
                ListenReturns, Drained, Pool!Close, Pool!Closed, JoinGrpcThread, Return, vars, poolVars, stopVars
  <2> QED
    BY <1>a, <2>1, <2>2, <2>3 DEF Listening, PastGrpc, InProgress, MainMove
<1>6. CASE EngineThreadStep \/ SpuriousWake
  BY <1>0, <1>1, <1>6, EngineLeaves
<1>7. CASE TrafficOnly
  <2>1. UNCHANGED <<at, grpc>>
    BY <1>0, <1>7, TrafficLeaves
  <2> QED
    BY <1>a, <1>7, <2>1, TrafficStarts
<1> QED
  BY <1>2, <1>3, <1>4, <1>5, <1>6, <1>7, Split

-----------------------------------------------------------------------------
(* The socket and the engine thread. *)

\* A step of a stopper, as far as the socket and the engine thread go.
StopperMove(s) ==
  /\ \A u \in Stoppers \ {s} : at'[u] = at[u]
  /\ at[s] \notin {"none", "done"}
  /\ engine = "exited" => engine' = "exited"
  /\ s = MainThread =>
       at[s] \notin {"bind", "listen", "accept", "destroy", "exited"}
         /\ at'[s] \notin {"bind", "listen", "accept", "exited"}
  /\ s = MainThread /\ at'[s] \in {"join", "joining"} =>
       at[s] = "join" \/ (at[s] = "joinable" /\ joinable)
  /\ s = MainThread /\ at'[s] = "destroy" => ~joinable'
  /\ s # MainThread /\ at[s] \in {"grpc", "grpc_wait", "http"} =>
       at'[s] \in {"grpc", "grpc_wait", "http", "done"}
  /\ s # MainThread /\ at'[s] \in {"grpc", "grpc_wait", "http", "done"} =>
       at[s] \in {"grpc", "grpc_wait", "http"} \/ ~joinable'
  /\ \/ joinable' = joinable
     \/ /\ ~joinable' /\ engine' = "exited" /\ at[s] = "joining"
        /\ s = MainThread => at'[s] = "destroy"
        /\ s # MainThread => at'[s] = "grpc"
  /\ \/ svr_sock' = svr_sock
     \/ is_running /\ svr_sock' = "none" /\ s # MainThread /\ at'[s] = "done"

LEMMA StopperMoves ==
  ASSUME LifeTypeOK, NEW s \in Stoppers, StopSteps(s)
  PROVE  StopperMove(s)
<1> USE AtTyped DEF After, MainOrder, HandlerOrder, HandlerPlaces, MainPlaces, StopperMove
<1>1. CASE ClearRunning(s)
  BY <1>1 DEF ClearRunning, httpVars
<1>2. CASE NotifyAll(s)
  BY <1>2 DEF NotifyAll, Woken, httpVars
<1>3. CASE TestJoinable(s)
  <2>1. CASE joinable
    BY <1>3, <2>1 DEF TestJoinable, stopVars, httpVars
  <2>2. CASE ~joinable
    BY <1>3, <2>2 DEF TestJoinable, stopVars, httpVars
  <2> QED
    BY <2>1, <2>2
<1>4. CASE Join(s)
  BY <1>4 DEF Join, stopVars, httpVars
<1>5. CASE Joined(s)
  BY <1>5 DEF Joined, httpVars
<1>6. CASE ShutdownGrpc(s)
  <2>1. CASE grpc = "serving"
    BY <1>6, <2>1 DEF ShutdownGrpc, httpVars
  <2>2. CASE grpc # "serving"
    BY <1>6, <2>2 DEF ShutdownGrpc, httpVars
  <2> QED
    BY <2>1, <2>2
<1>7. CASE GrpcIsDown(s)
  BY <1>7 DEF GrpcIsDown, httpVars
<1>8. CASE StopHttp(s)
  BY <1>8 DEF StopHttp, stopVars
<1> QED
  BY <1>1, <1>2, <1>3, <1>4, <1>5, <1>6, <1>7, <1>8 DEF StopSteps

LEMMA SocketNext == ASSUME LifeInv, [LifeNext]_allVars PROVE SocketEnds'
<1>0. LifeTypeOK /\ SocketEnds
  BY Parts
<1>1. CASE UNCHANGED <<at, svr_sock>>
  BY <1>0, <1>1 DEF SocketEnds
<1>2. CASE UNCHANGED allVars
  BY <1>1, <1>2 DEF allVars, lifeVars, httpVars
<1>3. ASSUME NEW h \in Signals, NEW t \in Threads, Deliver(h, t) PROVE SocketEnds'
  BY <1>0, <1>3, AtTyped DEF Deliver, SocketEnds, httpVars
<1>4. ASSUME NEW s \in Stoppers, StopSteps(s) PROVE SocketEnds'
  <2>1. is_running <=> at[MainThread] \in {"accept", "close", "drain"}
    BY <1>0 DEF LifeTypeOK
  <2>2. /\ \A u \in Stoppers \ {s} : at'[u] = at[u]
        /\ at[s] \notin {"none", "done"}
        /\ s = MainThread =>
             at[s] \notin {"bind", "listen", "accept", "destroy", "exited"}
               /\ at'[s] \notin {"bind", "listen", "accept", "exited"}
        /\ \/ svr_sock' = svr_sock
           \/ is_running /\ svr_sock' = "none" /\ s # MainThread /\ at'[s] = "done"
    BY <1>0, <1>4, StopperMoves DEF StopperMove
  <2>3. CASE svr_sock' = svr_sock
    <3>1. \A h \in Signals : at[h] = "done" => at'[h] = "done"
      BY <1>0, <2>2, AtTyped
    <3> QED
      BY <1>0, <2>2, <2>3, <3>1, AtTyped DEF SocketEnds
  <2>4. CASE is_running /\ svr_sock' = "none" /\ s # MainThread /\ at'[s] = "done"
    BY <1>0, <2>1, <2>2, <2>4, AtTyped DEF SocketEnds
  <2> QED
    BY <2>2, <2>3, <2>4
<1>5. CASE MainStep
  <2>1. \A h \in Signals : at'[h] = at[h]
    BY <1>0, <1>5, MainGoes, AtTyped DEF MainMove
  <2> USE <1>0, AtTyped DEF SocketEnds
  <2>2. CASE Bind
    BY <2>1, <2>2 DEF Bind
  <2>3. CASE Listen
    BY <2>1, <2>3 DEF Listen
  <2>4. CASE EndAccepting \/ AcceptFails
    BY <2>1, <2>4 DEF EndAccepting, AcceptFails, SocketGone, httpVars
  <2>5. CASE CloseQueue
    BY <2>1, <2>5 DEF CloseQueue, httpVars
  <2>6. CASE ListenReturns
    BY <2>1, <2>6 DEF ListenReturns, After, MainOrder
  <2>7. CASE JoinGrpcThread
    BY <2>1, <2>7 DEF JoinGrpcThread, httpVars
  <2>8. CASE Return
    BY <2>1, <2>8 DEF Return, httpVars
  <2> QED
    BY <1>5, <2>2, <2>3, <2>4, <2>5, <2>6, <2>7, <2>8 DEF MainStep
<1>6. CASE EngineThreadStep \/ SpuriousWake
  BY <1>0, <1>1, <1>6, EngineLeaves
<1>7. CASE TrafficOnly
  BY <1>0, <1>1, <1>7, TrafficLeaves
<1> QED
  BY <1>2, <1>3, <1>4, <1>5, <1>6, <1>7, Split

LEMMA EngineNext == ASSUME LifeInv, [LifeNext]_allVars PROVE EngineEnds'
<1>0. LifeTypeOK /\ SocketEnds /\ EngineEnds
  BY Parts
<1>a. /\ ~joinable => engine = "exited"
      /\ at[MainThread] \in {"destroy", "exited"} => ~joinable
      /\ Past # {} => ~joinable
      /\ at[MainThread] \in {"join", "joining"} => svr_sock \in {"never", "stale"}
      /\ ~joinable =>
           Past # {} \/ (svr_sock \in {"never", "stale"} /\ at[MainThread] # "bind")
  BY <1>0 DEF EngineEnds
<1>1. ASSUME UNCHANGED <<joinable, svr_sock>>, engine = "exited" => engine' = "exited",
             at'[MainThread] = at[MainThread], Past' = Past
      PROVE  EngineEnds'
  BY <1>a, <1>1 DEF EngineEnds
<1>b. at' = at => Past' = Past
  BY DEF Past
<1>2. CASE UNCHANGED allVars
  BY <1>1, <1>b, <1>2 DEF allVars, lifeVars, httpVars, stopVars
<1>3. ASSUME NEW h \in Signals, NEW t \in Threads, Deliver(h, t) PROVE EngineEnds'
  <2>1. /\ at[h] = "none" /\ at' = [at EXCEPT ![h] = "clear"]
        /\ UNCHANGED <<joinable, svr_sock, engine>>
    BY <1>3 DEF Deliver, HandlerOrder, stopVars, httpVars
  <2>2. Past' = Past
    BY <1>0, <2>1, AtTyped DEF Past
  <2>3. at'[MainThread] = at[MainThread]
    BY <1>0, <2>1, AtTyped
  <2> QED
    BY <1>1, <2>1, <2>2, <2>3
<1>4. ASSUME NEW s \in Stoppers, StopSteps(s) PROVE EngineEnds'
  <2>1. StopperMove(s)
    BY <1>0, <1>4, StopperMoves
  <2>2. Past \subseteq Past'
    BY <1>0, <2>1, AtTyped DEF Past, StopperMove
  <2>3. ~joinable => ~joinable'
    BY <2>1 DEF StopperMove
  <2>4. ~joinable' => engine' = "exited"
    BY <1>a, <2>1 DEF StopperMove
  <2>5. at'[MainThread] \in {"destroy", "exited"} => ~joinable'
    BY <1>0, <1>a, <2>1, <2>3, AtTyped DEF StopperMove
  <2>6. Past' # {} => ~joinable'
    <3> SUFFICES ASSUME NEW h \in Signals,
                        at'[h] \in {"grpc", "grpc_wait", "http", "done"}
                 PROVE  ~joinable'
      BY DEF Past
    <3>1. CASE h \in Past
      BY <1>a, <2>3, <3>1
    <3>2. CASE h \notin Past
      <4>1. h = s
        BY <1>0, <2>1, <3>2, AtTyped DEF Past, StopperMove
      <4> QED
        BY <1>0, <2>1, <3>2, <4>1, AtTyped DEF Past, StopperMove
    <3> QED
      BY <3>1, <3>2
  <2>7. at'[MainThread] \in {"join", "joining"} => svr_sock' \in {"never", "stale"}
    <3> SUFFICES ASSUME at'[MainThread] \in {"join", "joining"}
                 PROVE  svr_sock' \in {"never", "stale"}
      OBVIOUS
    <3>1. CASE s = MainThread
      <4>1. svr_sock' = svr_sock
        BY <2>1, <3>1 DEF StopperMove
      <4>2. CASE at[MainThread] = "join"
        BY <1>a, <4>1, <4>2
      <4>3. CASE at[MainThread] = "joinable" /\ joinable
        <5>1. svr_sock # "open"
          BY <1>0, <4>3 DEF SocketEnds
        <5>2. svr_sock # "none"
          BY <1>0, <1>a, <4>3 DEF SocketEnds, Past
        <5> QED
          BY <1>0, <4>1, <5>1, <5>2 DEF LifeTypeOK
      <4> QED
        BY <2>1, <3>1, <4>2, <4>3 DEF StopperMove
    <3>2. CASE s # MainThread
      <4>1. at[MainThread] \in {"join", "joining"}
        BY <1>0, <2>1, <3>2, AtTyped DEF StopperMove
      <4>2. ~is_running
        BY <1>0, <4>1 DEF LifeTypeOK
      <4> QED
        BY <1>a, <2>1, <4>1, <4>2 DEF StopperMove
    <3> QED
      BY <3>1, <3>2
  <2>8. ~joinable' =>
          Past' # {} \/ (svr_sock' \in {"never", "stale"} /\ at'[MainThread] # "bind")
    <3> SUFFICES ASSUME ~joinable', Past' = {}
                 PROVE  svr_sock' \in {"never", "stale"} /\ at'[MainThread] # "bind"
      OBVIOUS
    <3>1. s # MainThread => at'[s] \notin {"grpc", "grpc_wait", "http", "done"}
      BY <1>0, AtTyped DEF Past
    <3>2. svr_sock' = svr_sock
      BY <2>1, <3>1 DEF StopperMove
    <3>3. CASE joinable' = joinable
      <4>1. svr_sock \in {"never", "stale"} /\ at[MainThread] # "bind"
        BY <1>a, <2>2, <3>3
      <4> QED
        BY <1>0, <2>1, <3>2, <4>1, AtTyped DEF StopperMove
    <3>4. CASE at[s] = "joining" /\ s = MainThread
      BY <1>a, <2>1, <3>2, <3>4 DEF StopperMove
    <3> QED
      BY <2>1, <3>1, <3>3, <3>4 DEF StopperMove
  <2> QED
    BY <2>4, <2>5, <2>6, <2>7, <2>8 DEF EngineEnds
<1>5. CASE MainStep
  <2>1. PICK p \in MainPlaces : MainMove(p)
    BY <1>0, <1>5, MainGoes
  <2>2. at'[MainThread] = p /\ Past' = Past
    BY <1>0, <2>1, AtTyped DEF Past, MainMove
  <2>3. /\ UNCHANGED <<joinable, engine>>
        /\ svr_sock' = svr_sock \/ svr_sock' = "stale" \/ at[MainThread] = "bind"
    BY <1>5 DEF MainStep, Bind, Listen, EndAccepting, AcceptFails, CloseQueue,
                ListenReturns, JoinGrpcThread, Return, stopVars, httpVars
  <2> QED
    BY <1>a, <2>1, <2>2, <2>3 DEF EngineEnds, MainMove
<1>6. CASE EngineThreadStep \/ SpuriousWake
  BY <1>0, <1>1, <1>b, <1>6, EngineLeaves
<1>7. CASE TrafficOnly
  BY <1>0, <1>1, <1>b, <1>7, TrafficLeaves
<1> QED
  BY <1>2, <1>3, <1>4, <1>5, <1>6, <1>7, Split

-----------------------------------------------------------------------------
(* One signal. *)

LEMMA TwoDelivered ==
  ASSUME NEW g \in Signals, NEW h \in Signals, g # h, at[g] # "none", at[h] # "none"
  PROVE  Cardinality(Delivered) > 1
<1>1. IsFiniteSet(Delivered)
  <2>1. IsFiniteSet(Signals)
    BY MaxSignalsAssumption, FS_Interval DEF Signals
  <2>2. Delivered \in SUBSET Signals
    BY DEF Delivered
  <2> QED
    BY <2>1, <2>2, FS_Subset
<1>2. {g, h} \in SUBSET Delivered
  BY DEF Delivered
<1>3. IsFiniteSet({h}) /\ Cardinality({h}) = 1
  BY FS_Singleton
<1>4. Cardinality({h} \cup {g}) = 2
  BY <1>3, FS_AddElement
<1>5. {h} \cup {g} = {g, h}
  OBVIOUS
<1>6. Cardinality({g, h}) <= Cardinality(Delivered)
  BY <1>1, <1>2, FS_Subset
<1>7. Cardinality(Delivered) \in Nat
  BY <1>1, FS_CardinalityType
<1> QED
  BY <1>4, <1>5, <1>6, <1>7

\* Without a second signal, and without a handler on the engine thread, join()
\* throws only in main(), after its server has ended by itself.
LEMMA JoinIsSafe ==
  ASSUME LifeInv, NEW s \in Stoppers, at[s] = "join", JoinThrows(s)
  PROVE  \/ Cardinality(Delivered) > 1
         \/ HandlersOn(EngineThread) # {}
         \/ svr_sock \in {"never", "stale"}
<1>0. LifeTypeOK /\ EngineEnds
  BY Parts
<1>1. CASE s = MainThread
  BY <1>0, <1>1 DEF EngineEnds
<1>2. CASE s # MainThread
  <2>0. s \in Signals /\ at[s] # "none"
    BY <1>0, <1>2, AtTyped
  <2>1. CASE ThreadOf(s) = EngineThread
    <3>1. s \in HandlersOn(EngineThread)
      BY <1>2, <2>0, <2>1 DEF ThreadOf, HandlersOn, Active
    <3> QED
      BY <3>1
  <2>2. CASE ~joinable
    <3>1. CASE svr_sock \in {"never", "stale"}
      BY <3>1
    <3>2. CASE Past # {}
      <4>1. PICK h \in Signals : at[h] \in {"grpc", "grpc_wait", "http", "done"}
        BY <3>2 DEF Past
      <4> QED
        BY <2>0, <4>1, TwoDelivered
    <3> QED
      BY <1>0, <2>2, <3>1, <3>2 DEF EngineEnds
  <2>3. ASSUME NEW u \in Stoppers, at[u] = "joining"
        PROVE  \/ Cardinality(Delivered) > 1
               \/ svr_sock \in {"never", "stale"}
    <3>1. CASE u = MainThread
      BY <1>0, <2>3, <3>1 DEF EngineEnds
    <3>2. CASE u # MainThread
      <4>1. u \in Signals
        BY <1>0, <3>2, AtTyped
      <4> QED
        BY <2>0, <2>3, <4>1, TwoDelivered
    <3> QED
      BY <3>1, <3>2
  <2> QED
    BY <2>1, <2>2, <2>3 DEF JoinThrows
<1> QED
  BY <1>1, <1>2

\* A handler fails the assertion of stop() only after another has closed the
\* socket.
LEMMA StopIsSafe ==
  ASSUME LifeInv, NEW s \in Stoppers, at[s] = "http", svr_sock = "none"
  PROVE  Cardinality(Delivered) > 1
<1>0. LifeTypeOK /\ SocketEnds
  BY Parts
<1>1. s \in Signals
  BY <1>0, AtTyped DEF MainPlaces, HandlerPlaces
<1>2. PICK h \in Signals : at[h] = "done"
  BY <1>0 DEF SocketEnds
<1> QED
  BY <1>1, <1>2, TwoDelivered

\* main() returns while a handler runs only after a second signal, or after its
\* server has ended by itself.
LEMMA ReturnIsSafe ==
  ASSUME LifeInv, at[MainThread] = "destroy", NEW h \in Signals, Active(h)
  PROVE  Cardinality(Delivered) > 1 \/ svr_sock \in {"never", "stale"}
<1>0. LifeTypeOK /\ SocketEnds
  BY Parts
<1>1. svr_sock # "open"
  BY <1>0 DEF SocketEnds
<1>2. CASE svr_sock = "none"
  <2>1. PICK g \in Signals : at[g] = "done"
    BY <1>0, <1>2 DEF SocketEnds
  <2> QED
    BY <2>1, TwoDelivered DEF Active
<1> QED
  BY <1>0, <1>1, <1>2 DEF LifeTypeOK

LEMMA SafeNext == ASSUME LifeInv, [LifeNext]_allVars PROVE OneSignalIsSafe'
<1>0. LifeTypeOK /\ OneSignalIsSafe
  BY Parts
<1>1. CASE UNCHANGED allVars
  BY <1>0, <1>1 DEF allVars, lifeVars, httpVars, OneSignalIsSafe, Delivered, HandlersOn,
                    Active
<1>2. CASE ~crashed'
  BY <1>2 DEF OneSignalIsSafe
<1>3. CASE Up /\ crashed'
  <2>0. ~crashed
    BY <1>3 DEF Up
  <2>1. ASSUME NEW s \in Stoppers, StopSteps(s), UNCHANGED host PROVE OneSignalIsSafe'
    <3>1. CASE Join(s)
      <4>1. at[s] = "join" /\ JoinThrows(s) /\ UNCHANGED <<at, svr_sock>>
        BY <1>3, <2>0, <3>1 DEF Join, httpVars
      <4> QED
        BY <2>1, <4>1, JoinIsSafe DEF OneSignalIsSafe, Delivered, HandlersOn, Active
    <3>2. CASE StopHttp(s)
      <4>1. at[s] = "http" /\ svr_sock = "none" /\ UNCHANGED at
        BY <1>3, <2>0, <3>2 DEF StopHttp
      <4> QED
        BY <4>1, StopIsSafe DEF OneSignalIsSafe, Delivered
    <3>3. crashed' # crashed
      BY <1>3, <2>0
    <3> QED
      BY <2>1, <3>1, <3>2, <3>3 DEF StopSteps, ClearRunning, NotifyAll, TestJoinable,
                                    Joined, ShutdownGrpc, GrpcIsDown
  <2>2. CASE MainStep
    <3>1. Return
      BY <1>3, <2>0, <2>2 DEF MainStep, Bind, Listen, EndAccepting, AcceptFails,
                              CloseQueue, ListenReturns, JoinGrpcThread
    <3>2. /\ at[MainThread] = "destroy" /\ at' = [at EXCEPT ![MainThread] = "exited"]
          /\ svr_sock' = svr_sock /\ \E h \in Signals : Active(h)
      BY <1>3, <3>1 DEF Return, httpVars
    <3>3. Delivered' = Delivered
      BY <1>0, <3>2, AtTyped DEF Delivered
    <3>4. Cardinality(Delivered) > 1 \/ svr_sock \in {"never", "stale"}
      BY <3>2, ReturnIsSafe
    <3> QED
      BY <3>2, <3>3, <3>4 DEF OneSignalIsSafe
  <2>3. \A h \in Signals : \A t \in Threads : ~Deliver(h, t)
    BY <1>3, <2>0 DEF Deliver
  <2>4. ~TrafficOnly
    BY <1>0, <1>3, <2>0, TrafficLeaves
  <2>5. ~(EngineThreadStep \/ SpuriousWake)
    BY <1>0, <1>3, <2>0, EngineLeaves
  <2> QED
    BY <1>1, <2>1, <2>2, <2>3, <2>4, <2>5, Split
<1>4. Up \/ UNCHANGED allVars
  BY DEF LifeNext
<1> QED
  BY <1>1, <1>2, <1>3, <1>4

-----------------------------------------------------------------------------
(* The stoppers in order. *)

\* Who waits in Shutdown() holds its mutex alone.
GrpcAlone ==
  /\ grpc = "stopping" <=> \E s \in Stoppers : at[s] = "grpc_wait"
  /\ \A s, u \in Stoppers : at[s] = "grpc_wait" /\ at[u] = "grpc_wait" => s = u

\* What a stopper has done before it joins, and where it can run.
JoinsOther ==
  /\ \A s \in Stoppers :
       at[s] \in {"notify", "joinable", "join", "joining"} => ~running
  /\ \A h \in Signals : at[h] = "joining" => host[h] # EngineThread
  /\ HandlersOn(EngineThread) # {} => engine # "exited"

LEMMA OrderedParts == StoppersOrdered <=> JoinsOther /\ GrpcAlone
  BY DEF StoppersOrdered, JoinsOther, GrpcAlone

LEMMA GrpcAloneNext == ASSUME LifeInv, [LifeNext]_allVars PROVE GrpcAlone'
<1>0. LifeTypeOK /\ GrpcAlone
  BY Parts, OrderedParts
<1>1. ASSUME grpc' = grpc,
             \A s \in Stoppers : at'[s] = "grpc_wait" <=> at[s] = "grpc_wait"
      PROVE  GrpcAlone'
  BY <1>0, <1>1 DEF GrpcAlone
<1>2. CASE UNCHANGED allVars
  BY <1>1, <1>2 DEF allVars, lifeVars, stopVars
<1>3. ASSUME NEW h \in Signals, NEW t \in Threads, Deliver(h, t) PROVE GrpcAlone'
  BY <1>0, <1>1, <1>3, AtTyped DEF Deliver, HandlerOrder, stopVars
<1>4. ASSUME NEW s \in Stoppers, StopSteps(s) PROVE GrpcAlone'
  <2> USE <1>0, AtTyped
  <2>1. CASE ShutdownGrpc(s) /\ grpc = "serving"
    <3>1. /\ grpc' = "stopping" /\ at' = [at EXCEPT ![s] = "grpc_wait"]
          /\ \A u \in Stoppers : at[u] # "grpc_wait"
      BY <2>1 DEF ShutdownGrpc, GrpcAlone
    <3> QED
      BY <3>1 DEF GrpcAlone
  <2>2. CASE GrpcIsDown(s)
    <3>1. at[s] = "grpc_wait" /\ \A u \in Stoppers : at[u] = "grpc_wait" => u = s
      BY <2>2 DEF GrpcIsDown, GrpcAlone
    <3>2. After(s, "grpc") # "grpc_wait"
      BY DEF After, MainOrder, HandlerOrder
    <3>3. grpc' = "stopped" /\ at' = [at EXCEPT ![s] = After(s, "grpc")]
      BY <2>2 DEF GrpcIsDown
    <3> QED
      BY <3>1, <3>2, <3>3 DEF GrpcAlone
  <2>3. CASE ~GrpcIsDown(s) /\ ~(ShutdownGrpc(s) /\ grpc = "serving")
    <3>1. /\ grpc' = grpc /\ at[s] # "grpc_wait"
          /\ at' = at \/ \E p \in HandlerPlaces \cup MainPlaces :
                            p # "grpc_wait" /\ at' = [at EXCEPT ![s] = p]
      <4> USE <1>4, <2>3 DEF StopSteps, After, MainOrder, HandlerOrder, HandlerPlaces,
                             MainPlaces, stopVars
      <4>1. CASE ClearRunning(s) \/ NotifyAll(s) \/ Joined(s) \/ StopHttp(s)
        BY <4>1 DEF ClearRunning, NotifyAll, Joined, StopHttp
      <4>2. CASE TestJoinable(s)
        <5>1. CASE joinable
          BY <4>2, <5>1 DEF TestJoinable
        <5>2. CASE ~joinable
          BY <4>2, <5>2 DEF TestJoinable
        <5> QED
          BY <5>1, <5>2
      <4>3. CASE Join(s) \/ ShutdownGrpc(s)
        BY <4>3 DEF Join, ShutdownGrpc
      <4> QED
        BY <4>1, <4>2, <4>3
    <3> QED
      BY <1>1, <3>1
  <2> QED
    BY <2>1, <2>2, <2>3
<1>5. CASE MainStep
  <2>1. PICK p \in MainPlaces : MainMove(p)
    BY <1>0, <1>5, MainGoes
  <2>2. p # "grpc_wait" /\ at[MainThread] # "grpc_wait"
    BY <2>1 DEF MainMove
  <2>3. grpc' = grpc
    BY <1>5 DEF MainStep, Bind, Listen, EndAccepting, AcceptFails, CloseQueue,
                ListenReturns, JoinGrpcThread, Return, stopVars
  <2> QED
    BY <1>0, <1>1, <2>1, <2>2, <2>3, AtTyped DEF MainMove
<1>6. CASE EngineThreadStep \/ SpuriousWake
  BY <1>0, <1>1, <1>6, EngineLeaves
<1>7. CASE TrafficOnly
  BY <1>0, <1>1, <1>7, TrafficLeaves
<1> QED
  BY <1>2, <1>3, <1>4, <1>5, <1>6, <1>7, Split

LEMMA JoinsOtherNext == ASSUME LifeInv, [LifeNext]_allVars PROVE JoinsOther'
<1>0. LifeTypeOK /\ JoinsOther
  BY Parts, OrderedParts
<1>a. /\ \A s \in Stoppers :
            at[s] \in {"notify", "joinable", "join", "joining"} => ~running
      /\ \A h \in Signals : at[h] = "joining" => host[h] # EngineThread
      /\ \A h \in Signals : Active(h) /\ host[h] = EngineThread => engine # "exited"
  BY <1>0 DEF JoinsOther, HandlersOn
<1> DEFINE Goal ==
      /\ \A s \in Stoppers :
           at'[s] \in {"notify", "joinable", "join", "joining"} => ~running'
      /\ \A h \in Signals : at'[h] = "joining" => host'[h] # EngineThread
      /\ \A h \in Signals : at'[h] \notin {"none", "done"} /\ host'[h] = EngineThread
                             => engine' # "exited"
<1> SUFFICES Goal
  BY DEF JoinsOther, HandlersOn, Active
<1>1. CASE UNCHANGED allVars
  BY <1>a, <1>1 DEF allVars, lifeVars, stopVars, Active
<1>2. ASSUME NEW h \in Signals, NEW t \in Threads, Deliver(h, t) PROVE Goal
  <2>1. /\ at' = [at EXCEPT ![h] = "clear"] /\ host' = [host EXCEPT ![h] = t]
        /\ UNCHANGED <<running, engine>>
    BY <1>2 DEF Deliver, HandlerOrder, stopVars
  <2>2. t = EngineThread => engine # "exited"
    BY MainAssumption, EngineAssumption DEF Threads
  <2>3. host \in [Signals -> {MainThread, EngineThread, OtherThread} \cup Calls]
    BY <1>0 DEF LifeTypeOK
  <2> QED
    BY <1>0, <1>a, <2>1, <2>2, <2>3, AtTyped DEF Active
<1>3. ASSUME NEW s \in Stoppers, StopSteps(s), UNCHANGED host PROVE Goal
  <2> USE <1>0, <1>a, AtTyped DEF Active
  <2>1. PICK p \in HandlerPlaces \cup MainPlaces : StopperTo(s, p)
    BY <1>3, StopperGoes
  <2>2. /\ at' = [at EXCEPT ![s] = p] /\ at[s] \notin {"none", "done"}
        /\ at'[s] = p /\ \A u \in Stoppers : u # s => at'[u] = at[u]
    BY <2>1 DEF StopperTo
  <2>3. ~running => ~running'
    BY <1>3 DEF StopSteps, ClearRunning, NotifyAll, TestJoinable, Join, Joined,
                ShutdownGrpc, GrpcIsDown, StopHttp, stopVars, LifeTypeOK
  <2>4. engine' = "exited" => engine = "exited"
    BY <1>3 DEF StopSteps, ClearRunning, NotifyAll, TestJoinable, Join, Joined,
                ShutdownGrpc, GrpcIsDown, StopHttp, stopVars, Woken
  <2>5. p \in {"notify", "joinable", "join", "joining"} => ~running'
    <3> USE DEF After, MainOrder, HandlerOrder
    <3>1. CASE ClearRunning(s)
      BY <3>1 DEF ClearRunning
    <3>2. CASE at[s] \in {"notify", "joinable", "join", "joining"}
      BY <2>3, <3>2
    <3>3. CASE ShutdownGrpc(s)
      <4>1. p = "grpc_wait" \/ p = After(s, "grpc")
        BY <2>2, <3>3 DEF ShutdownGrpc
      <4> QED
        BY <4>1
    <3>4. CASE GrpcIsDown(s)
      <4>1. p = After(s, "grpc")
        BY <2>2, <3>4 DEF GrpcIsDown
      <4> QED
        BY <4>1
    <3>5. CASE StopHttp(s)
      <4>1. at[s] = "http" /\ s # MainThread
        BY <3>5 DEF StopHttp, MainPlaces, HandlerPlaces
      <4>2. p = "http" \/ p = "done"
        BY <2>2, <3>5, <4>1 DEF StopHttp
      <4> QED
        BY <4>2
    <3> QED
      BY <1>3, <3>1, <3>2, <3>3, <3>4, <3>5 DEF StopSteps, NotifyAll, TestJoinable, Join,
                                                Joined
  <2>6. s \in Signals /\ p = "joining" => host[s] # EngineThread
    <3>1. CASE Join(s)
      BY <2>2, <3>1 DEF Join, JoinThrows, ThreadOf
    <3>2. CASE ~Join(s)
      <4> USE DEF After, MainOrder, HandlerOrder
      <4>1. CASE TestJoinable(s)
        <5>1. CASE joinable
          BY <2>2, <4>1, <5>1 DEF TestJoinable
        <5>2. CASE ~joinable
          BY <2>2, <4>1, <5>2 DEF TestJoinable
        <5> QED
          BY <5>1, <5>2
      <4>2. CASE StopHttp(s)
        BY <2>2, <4>2 DEF StopHttp
      <4>3. CASE ~TestJoinable(s) /\ ~StopHttp(s)
        BY <1>3, <2>2, <3>2, <4>3 DEF StopSteps, ClearRunning, NotifyAll, Joined,
                                      ShutdownGrpc, GrpcIsDown
      <4> QED
        BY <4>1, <4>2, <4>3
    <3> QED
      BY <3>1, <3>2
  <2> QED
    BY <1>3, <2>2, <2>3, <2>4, <2>5, <2>6
<1>4. ASSUME MainStep, UNCHANGED host PROVE Goal
  <2>1. PICK p \in MainPlaces : MainMove(p)
    BY <1>0, <1>4, MainGoes
  <2>2. /\ p \notin {"notify", "joinable", "join", "joining"}
        /\ at'[MainThread] = p /\ \A h \in Signals : at'[h] = at[h]
    BY <1>0, <2>1, AtTyped DEF MainMove
  <2>3. UNCHANGED <<running, engine>>
    BY <1>4 DEF MainStep, Bind, Listen, EndAccepting, AcceptFails, CloseQueue,
                ListenReturns, JoinGrpcThread, Return, stopVars
  <2> QED
    BY <1>0, <1>a, <1>4, <2>2, <2>3, AtTyped DEF Active
<1>5. CASE EngineThreadStep \/ SpuriousWake
  <2>1. UNCHANGED <<at, host, running>>
    BY <1>0, <1>5, EngineLeaves
  <2>2. engine' = "exited" => HandlersOn(EngineThread) = {}
    BY <1>5 DEF EngineThreadStep, SpuriousWake
  <2>3. engine' = "exited" =>
          \A h \in Signals : at[h] \notin {"none", "done"} => host[h] # EngineThread
    BY <2>2 DEF HandlersOn, Active
  <2> QED
    BY <1>a, <2>1, <2>3
<1>6. CASE TrafficOnly
  <2>1. UNCHANGED <<at, host, running>>
    BY <1>0, <1>6, TrafficLeaves
  <2>2. engine' = engine \/ engine' = Woken
    BY <1>6 DEF TrafficOnly, Serve, CallStep, Push, WorkerStep, WorkerStarts, ClientsStep,
                lifeVars, stopVars
  <2> QED
    BY <1>a, <2>1, <2>2 DEF Active, Woken
<1> QED
  BY <1>1, <1>2, <1>3, <1>4, <1>5, <1>6, Split

LEMMA StoppersOrderedNext == ASSUME LifeInv, [LifeNext]_allVars PROVE StoppersOrdered'
  BY GrpcAloneNext, JoinsOtherNext DEF StoppersOrdered, JoinsOther, GrpcAlone

-----------------------------------------------------------------------------
(* main(). *)

\* The front ends do not close the thread pool.
LEMMA TrafficKeepsGate == ASSUME TrafficOnly PROVE gate' = gate
<1>1. CASE Serve
  BY <1>1 DEF Serve, Answer, poolVars
<1>2. ASSUME NEW c \in Calls, CallStep(c) PROVE gate' = gate
  BY <1>2 DEF CallStep, Push, Decide, Submit, Reply, Pool!Finish, poolVars
<1>3. ASSUME NEW k \in Conns, WorkerStep(k) PROVE gate' = gate
  BY <1>3 DEF WorkerStep, ConnectionStep, HangUp, Read, Pool!Finish, poolVars
<1>4. CASE WorkerStarts
  BY <1>4 DEF WorkerStarts, StartConnection, Pool!Start
<1>5. CASE ClientsStep
  BY <1>5 DEF ClientsStep, Connect, Pool!Accept, Send, Call, poolVars
<1> QED
  BY <1>1, <1>2, <1>3, <1>4, <1>5 DEF TrafficOnly

LEMMA MainOrderedNext == ASSUME LifeInv, [LifeNext]_allVars PROVE MainOrdered'
<1>0. LifeTypeOK /\ MainOrdered /\ ServersEnd /\ SocketEnds
  BY Parts
<1>1. ASSUME gate' = gate, at'[MainThread] = at[MainThread],
             svr_sock' = svr_sock \/ (svr_sock' = "none" /\ at[MainThread] # "listen"),
             grpc \in {"stopped", "none"} => grpc' \in {"stopped", "none"}
      PROVE  MainOrdered'
  BY <1>0, <1>1 DEF MainOrdered
<1>2. CASE UNCHANGED allVars
  BY <1>1, <1>2 DEF allVars, lifeVars, httpVars, stopVars, vars, poolVars
<1>3. ASSUME NEW h \in Signals, NEW t \in Threads, Deliver(h, t) PROVE MainOrdered'
  BY <1>0, <1>1, <1>3, AtTyped DEF Deliver, HandlerOrder, stopVars, httpVars, vars, poolVars
<1>4. ASSUME NEW s \in Stoppers, StopSteps(s) PROVE MainOrdered'
  <2>1. PICK p \in HandlerPlaces \cup MainPlaces : StopperTo(s, p)
    BY <1>0, <1>4, StopperGoes
  <2>2. /\ gate' = gate
        /\ svr_sock' = svr_sock \/ (svr_sock' = "none" /\ is_running)
        /\ grpc \in {"stopped", "none"} => grpc' \in {"stopped", "none"}
    BY <1>4 DEF StopSteps, ClearRunning, NotifyAll, TestJoinable, Join, Joined,
                ShutdownGrpc, GrpcIsDown, StopHttp, stopVars, httpVars, vars, poolVars
  <2>3. CASE s # MainThread
    <3>1. is_running => at[MainThread] # "listen"
      BY <1>0 DEF LifeTypeOK
    <3> QED
      BY <1>0, <1>1, <2>1, <2>2, <2>3, <3>1, AtTyped DEF StopperTo
  <2>4. CASE s = MainThread
    <3>1. at'[MainThread] = p /\ p \notin {"bind", "listen", "accept", "close", "drain"}
      BY <1>0, <2>1, <2>4, AtTyped DEF StopperTo
    <3>2. p = "join_grpc" => grpc' \in {"stopped", "none"}
      <4> USE <1>0, <2>4, AtTyped DEF After, MainOrder
      <4>1. CASE ShutdownGrpc(s)
        <5>1. CASE grpc = "serving"
          BY <2>1, <3>1, <4>1, <5>1 DEF ShutdownGrpc, StopperTo
        <5>2. CASE grpc # "serving"
          BY <4>1, <5>2 DEF ShutdownGrpc, LifeTypeOK
        <5> QED
          BY <5>1, <5>2
      <4>2. CASE GrpcIsDown(s)
        BY <4>2 DEF GrpcIsDown
      <4>3. CASE ClearRunning(s) \/ NotifyAll(s) \/ Joined(s)
        BY <2>1, <3>1, <4>3 DEF ClearRunning, NotifyAll, Joined, StopperTo
      <4>4. CASE TestJoinable(s)
        BY <2>1, <3>1, <4>4 DEF TestJoinable, StopperTo
      <4>5. CASE Join(s)
        BY <2>1, <3>1, <4>5 DEF Join, StopperTo
      <4>6. CASE StopHttp(s)
        BY <4>6 DEF StopHttp, MainPlaces, HandlerPlaces
      <4> QED
        BY <1>4, <4>1, <4>2, <4>3, <4>4, <4>5, <4>6 DEF StopSteps
    <3> QED
      BY <3>1, <3>2 DEF MainOrdered
  <2> QED
    BY <2>3, <2>4
<1>5. CASE MainStep
  <2> USE <1>0, AtTyped DEF MainOrdered
  <2>1. CASE Bind
    BY <2>1 DEF Bind, vars, poolVars
  <2>2. CASE Listen
    BY <2>2 DEF Listen, vars, poolVars
  <2>3. CASE EndAccepting \/ AcceptFails
    BY <2>3 DEF EndAccepting, AcceptFails, vars, poolVars
  <2>4. CASE CloseQueue
    BY <2>4 DEF CloseQueue, Pool!Close
  <2>5. CASE ListenReturns
    BY <2>5 DEF ListenReturns, After, MainOrder
  <2>6. CASE JoinGrpcThread
    BY <2>6 DEF JoinGrpcThread
  <2>7. CASE Return
    BY <2>7 DEF Return
  <2> QED
    BY <1>5, <2>1, <2>2, <2>3, <2>4, <2>5, <2>6, <2>7 DEF MainStep
<1>6. CASE EngineThreadStep \/ SpuriousWake
  <2>1. UNCHANGED <<vars, at, svr_sock, grpc>>
    BY <1>0, <1>6, EngineLeaves
  <2> QED
    BY <1>1, <2>1 DEF vars, poolVars
<1>7. CASE TrafficOnly
  <2>1. UNCHANGED <<at, svr_sock, grpc>>
    BY <1>0, <1>7, TrafficLeaves
  <2> QED
    BY <1>1, <1>7, <2>1, TrafficKeepsGate
<1> QED
  BY <1>2, <1>3, <1>4, <1>5, <1>6, <1>7, Split

-----------------------------------------------------------------------------
(* Nobody waits for ever. *)

\* The handler that runs on a thread is the last one that interrupted it.
LEMMA TopHandler ==
  ASSUME NEW t, HandlersOn(t) # {}
  PROVE  \E h \in HandlersOn(t) : Active(h) /\ host[h] = t /\ CanRun(h)
<1> DEFINE T    == {MaxSignals - h : h \in HandlersOn(t)}
           Less == {p \in Nat \X Nat : p[1] < p[2]}
<1>1. IsWellFoundedOn(Less, Nat)
  <2>1. OpToRel(<, Nat) = Less
    BY Zenon DEF OpToRel
  <2> QED
    BY <2>1, NatLessThanWellFounded
<1>2. T \subseteq Nat /\ T # {}
  BY MaxSignalsAssumption DEF HandlersOn, Signals
<1>3. PICK m \in T : \A n \in T : <<n, m>> \notin Less
  <2> HIDE DEF T, Less
  <2> QED
    BY <1>1, <1>2, WFMin
<1>4. PICK h \in HandlersOn(t) : m = MaxSignals - h
  OBVIOUS
<1>5. h \in Signals /\ Active(h) /\ host[h] = t /\ h # MainThread
  BY MainAssumption DEF HandlersOn
<1>6. ASSUME NEW g \in HandlersOn(t), g > h PROVE FALSE
  <2>1. g \in Nat /\ h \in Nat /\ MaxSignals - g < MaxSignals - h
    BY <1>5, <1>6, MaxSignalsAssumption DEF HandlersOn, Signals
  <2>2. <<MaxSignals - g, MaxSignals - h>> \in Less
    BY <1>2, <1>4, <1>6, <2>1
  <2> QED
    BY <1>3, <1>4, <1>6, <2>2
<1> QED
  BY <1>5, <1>6 DEF CanRun, Above

\* Nobody can go on, although the process does not hang for a known reason.
Stuck ==
  /\ Up /\ Delivered # {}
  /\ \A s \in Stoppers : ~CanStep(s)
  /\ ~EngineCanStep
  /\ \A c \in Calls : ~CallCanStep(c)
  /\ ~WorkerCanStep
  /\ ~Hung

\* A handler that runs waits for the engine thread, or in Shutdown().
LEMMA HandlerWaits ==
  ASSUME LifeInv, Stuck, NEW h \in Signals, Active(h), CanRun(h)
  PROVE  \/ at[h] = "joining" /\ engine # "exited"
         \/ at[h] = "grpc" /\ grpc = "stopping"
         \/ at[h] = "grpc_wait"
<1>1. at[h] \in HandlerPlaces /\ h \in Stoppers
  BY Parts, AtTyped
<1>2. ~CanStep(h)
  BY <1>1 DEF Stuck
<1> QED
  BY <1>1, <1>2 DEF CanStep, HandlerPlaces, Active

\* Past the engine, the engine thread has ended.
LEMMA PastEngine ==
  ASSUME LifeInv, NEW h \in Signals, at[h] \in {"grpc", "grpc_wait", "http", "done"}
  PROVE  engine = "exited"
<1>1. EngineEnds
  BY Parts
<1>2. Past # {}
  BY DEF Past
<1> QED
  BY <1>1, <1>2 DEF EngineEnds

\* Who waits for the engine thread does not wait for ever: it is awake, and no
\* handler on it waits for it.
LEMMA EngineIsJoined ==
  ASSUME LifeInv, Stuck, NEW s \in Stoppers, at[s] = "joining"
  PROVE  engine = "exited"
<1>0. LifeTypeOK /\ JoinsOther
  BY Parts, OrderedParts
<1> SUFFICES ASSUME engine # "exited" PROVE FALSE
  OBVIOUS
<1>1. ~running
  BY <1>0 DEF JoinsOther
<1>2. engine \in {"running", "parking"}
  BY <1>0, <1>1 DEF LifeTypeOK, Stuck, Hung, Overslept
<1>3. HandlersOn(EngineThread) # {}
  BY <1>1, <1>2 DEF Stuck, EngineCanStep
<1>4. PICK g \in HandlersOn(EngineThread) :
        Active(g) /\ host[g] = EngineThread /\ CanRun(g)
  BY <1>3, TopHandler
<1>5. g \in Signals
  BY DEF HandlersOn
<1>6. at[g] # "joining"
  BY <1>0, <1>4, <1>5 DEF JoinsOther
<1> QED
  BY <1>4, <1>5, <1>6, HandlerWaits, PastEngine

\* So a handler that runs waits for the gRPC server ...
LEMMA HandlerWaitsForGrpc ==
  ASSUME LifeInv, Stuck, NEW h \in Signals, Active(h), CanRun(h)
  PROVE  /\ grpc = "stopping" /\ engine = "exited"
         /\ at[h] \in {"grpc", "grpc_wait"}
<1>0. GrpcAlone /\ h \in Stoppers
  BY Parts, OrderedParts, AtTyped
<1>1. at[h] # "joining"
  BY <1>0, HandlerWaits, EngineIsJoined
<1> QED
  BY <1>0, <1>1, HandlerWaits, PastEngine DEF GrpcAlone

\* ... and the engine thread has ended once a signal was delivered.
LEMMA EngineHasEnded ==
  ASSUME LifeInv, Stuck
  PROVE  engine = "exited"
<1>1. PICK h \in Signals : at[h] # "none"
  BY DEF Stuck, Delivered
<1>2. CASE at[h] = "done"
  BY <1>2, PastEngine
<1>3. CASE Active(h)
  <2>1. HandlersOn(host[h]) # {}
    BY <1>3 DEF HandlersOn
  <2>2. PICK g \in HandlersOn(host[h]) : Active(g) /\ CanRun(g)
    BY <2>1, TopHandler
  <2> QED
    BY <2>2, HandlerWaitsForGrpc DEF HandlersOn
<1> QED
  BY <1>1, <1>2, <1>3 DEF Active

\* A call in progress is kept by a handler on its thread.
LEMMA CallIsKept ==
  ASSUME LifeInv, Stuck, NEW c \in Calls, InProgress(c)
  PROVE  HandlersOn(c) # {}
<1>1. stage[c] # "queued"
  BY EngineHasEnded DEF Stuck, Hung, Abandoned
<1>2. stage[c] \in {"handled", "given"}
  BY <1>1 DEF InProgress
<1> QED
  BY <1>2 DEF Stuck, CallCanStep

\* Nobody waits in Shutdown(): neither is the waiter suspended, nor is there a
\* call for it to wait for.
LEMMA NobodyInShutdown ==
  ASSUME LifeInv, Stuck
  PROVE  grpc # "stopping"
<1> SUFFICES ASSUME grpc = "stopping" PROVE FALSE
  OBVIOUS
<1>0. LifeTypeOK /\ GrpcAlone
  BY Parts, OrderedParts
<1>1. PICK u \in Stoppers : at[u] = "grpc_wait"
  BY <1>0 DEF GrpcAlone
<1>2. ~WaitsForItself
  BY DEF Stuck, Hung
<1>3. CASE CanRun(u)
  <2>1. PICK r \in Rpcs : InProgress(r)
    BY <1>1, <1>3 DEF Stuck, CanStep
  <2>2. HandlersOn(r) # {}
    BY <2>1, CallIsKept DEF Calls
  <2>3. PICK g \in HandlersOn(r) : Active(g) /\ host[g] = r /\ CanRun(g)
    BY <2>2, TopHandler
  <2>4. g \in Signals
    BY DEF HandlersOn
  <2>5. at[g] \in {"grpc", "grpc_wait"}
    BY <2>3, <2>4, HandlerWaitsForGrpc
  <2> QED
    BY <1>2, <2>3, <2>4, <2>5 DEF WaitsForItself
<1>4. CASE ~CanRun(u)
  <2>1. HandlersOn(ThreadOf(u)) # {}
    BY <1>4 DEF CanRun, Above, ThreadOf
  <2>2. PICK g \in HandlersOn(ThreadOf(u)) : Active(g) /\ CanRun(g)
    BY <2>1, TopHandler
  <2>3. g \in Signals
    BY DEF HandlersOn
  <2>4. at[g] \in {"grpc", "grpc_wait"}
    BY <2>2, <2>3, HandlerWaitsForGrpc
  <2>5. at[g] # "grpc_wait"
    BY <1>0, <1>1, <1>4, <2>2, <2>3, AtTyped DEF GrpcAlone
  <2> QED
    BY <1>1, <1>2, <1>4, <2>3, <2>4, <2>5 DEF WaitsForItself
<1> QED
  BY <1>3, <1>4

LEMMA NoHandlerLeft ==
  ASSUME LifeInv, Stuck
  PROVE  /\ \A h \in Signals : ~Active(h)
         /\ \A t : HandlersOn(t) = {}
<1>1. ASSUME NEW h \in Signals, Active(h) PROVE FALSE
  <2>1. HandlersOn(host[h]) # {}
    BY <1>1 DEF HandlersOn
  <2>2. PICK g \in HandlersOn(host[h]) : Active(g) /\ CanRun(g)
    BY <2>1, TopHandler
  <2> QED
    BY <2>2, HandlerWaitsForGrpc, NobodyInShutdown DEF HandlersOn
<1> QED
  BY <1>1 DEF HandlersOn

\* The workers do not keep listen_internal().
LEMMA PoolIsDrained ==
  ASSUME LifeInv, Stuck
  PROVE  backlog = <<>> /\ busy = {}
<1>0. TrafficOK
  BY Parts
<1>1. busy = {}
  <2> SUFFICES ASSUME NEW k \in busy PROVE FALSE
    OBVIOUS
  <2>1. PICK c \in CallsOf(k) : InProgress(c)
    BY DEF Stuck, WorkerCanStep
  <2>2. k \in Conns
    BY <1>0 DEF TrafficOK
  <2>3. c \in Calls
    BY <2>2 DEF CallsOf, Calls, HttpCalls
  <2> QED
    BY <2>1, <2>3, CallIsKept, NoHandlerLeft
<1>2. Cardinality(busy) < BaseWorkers
  BY <1>1, FS_EmptySet, WorkersAssumption
<1> QED
  BY <1>1, <1>2 DEF Stuck, WorkerCanStep

LEMMA MainGoesOn == ASSUME LifeInv, Stuck PROVE FALSE
<1>0. LifeTypeOK /\ MainOrdered /\ GrpcAlone
  BY Parts, OrderedParts
<1>1. at[MainThread] \in MainPlaces /\ MainThread \in Stoppers
  BY <1>0, AtTyped
<1>2. CanRun(MainThread) /\ ~CanStep(MainThread)
  BY <1>1, NoHandlerLeft DEF CanRun, Stuck
<1>3. at[MainThread] \notin {"grpc", "grpc_wait"}
  BY <1>0, <1>1, <1>2, NobodyInShutdown DEF CanStep, GrpcAlone
<1>4. at[MainThread] # "joining"
  BY <1>2, EngineHasEnded DEF CanStep
<1>5. at[MainThread] # "accept"
  <2> SUFFICES ASSUME at[MainThread] = "accept" PROVE FALSE
    OBVIOUS
  <2>1. svr_sock = "open"
    BY <1>0, <1>2 DEF MainOrdered, CanStep, SocketGone
  <2>2. \A h \in Signals : at[h] \in {"none", "done"}
    BY NoHandlerLeft DEF Active
  <2> QED
    BY <2>1, <2>2 DEF Stuck, Hung, MissedStop
<1>6. at[MainThread] \notin {"close", "drain", "join_grpc"}
  BY <1>0, <1>2, PoolIsDrained DEF MainOrdered, CanStep
<1>7. at[MainThread] # "exited"
  BY DEF Stuck, Up
<1> QED
  BY <1>1, <1>2, <1>3, <1>4, <1>5, <1>6, <1>7 DEF MainPlaces, HandlerPlaces, CanStep

-----------------------------------------------------------------------------
(* The theorems. *)

LEMMA LifeInitially == LifeInit => LifeInv
<1> SUFFICES ASSUME LifeInit PROVE LifeInv
  OBVIOUS
<1>1. /\ at = [s \in Stoppers |-> IF s = MainThread THEN "bind" ELSE "none"]
      /\ host = [h \in Signals |-> OtherThread]
      /\ running = TRUE /\ engine = "running" /\ joinable = TRUE
      /\ grpc \in {"serving", "none"} /\ svr_sock = "never"
      /\ is_running = FALSE /\ crashed = FALSE
  BY DEF LifeInit
<1>2. /\ backlog = <<>> /\ busy = {} /\ stage = [c \in Calls |-> "new"]
  BY DEF LifeInit, Init, Pool!Init
<1>3. /\ MainThread \in Stoppers /\ at[MainThread] = "bind"
      /\ \A h \in Signals : at[h] = "none"
  BY <1>1, MainAssumption DEF Stoppers
<1>4. LifeTypeOK
  BY <1>1, <1>3 DEF LifeTypeOK, HandlerPlaces, MainPlaces
<1>5. TrafficOK
  <2>1. InOrder
    <3>1. \A k \in Conns, i \in 1 .. KeepAliveMax : stage[<<k, i>>] = "new"
      BY <1>2, CallOf
    <3> QED
      BY <3>1 DEF InOrder
  <2>2. \A c \in HttpCalls : ~InProgress(c)
    BY <1>2, CallOf DEF InProgress
  <2> QED
    BY <1>2, <2>1, <2>2, TrafficParts, EmptySeq DEF Stages
<1>6. ServersEnd
  <2>1. \A r \in Rpcs : ~InProgress(r)
    BY <1>2 DEF InProgress, Calls
  <2> QED
    BY <1>2, <1>3, <2>1 DEF ServersEnd
<1>7. EngineEnds /\ SocketEnds /\ OneSignalIsSafe
  BY <1>1, <1>3 DEF EngineEnds, Past, SocketEnds, OneSignalIsSafe
<1>8. \A s \in Stoppers : at[s] \in {"bind", "none"}
  BY <1>1
<1>9. StoppersOrdered
  BY <1>1, <1>3, <1>8 DEF StoppersOrdered, HandlersOn, Active
<1>10. MainOrdered
  BY <1>3 DEF MainOrdered, LifeInit, Init, Pool!Init
<1> QED
  BY <1>4, <1>5, <1>6, <1>7, <1>9, <1>10 DEF LifeInv

\* LifeInv is inductive (18-22, 64-70).
THEOREM LifeInvHolds == LifeSpec => []LifeInv
<1>1. LifeInv /\ [LifeNext]_allVars => LifeInv'
  BY TypesNext, TrafficNext, ServersNext, EngineNext, SocketNext, SafeNext,
     StoppersOrderedNext, MainOrderedNext DEF LifeInv
<1> QED
  BY <1>1, LifeInitially, PTL DEF LifeSpec

LEMMA TeardownFollows == LifeInv => SafeTeardown
<1> SUFFICES ASSUME LifeInv, at[MainThread] \in {"destroy", "exited"}
             PROVE  /\ engine = "exited" /\ ~joinable
                    /\ backlog = <<>> /\ busy = {}
                    /\ \A c \in Calls : ~InProgress(c)
  BY DEF SafeTeardown
<1>1. engine = "exited" /\ ~joinable
  BY Parts DEF EngineEnds
<1>2. backlog = <<>> /\ busy = {} /\ \A r \in Rpcs : ~InProgress(r)
  BY Parts DEF ServersEnd
<1>3. \A c \in HttpCalls : ~InProgress(c)
  BY <1>2, Parts DEF TrafficOK
<1> QED
  BY <1>1, <1>2, <1>3 DEF Calls

\* main() destroys nothing that is in use, however many signals arrive, when they
\* do and whatever the clients do (65-70).
THEOREM TeardownIsSafe == LifeSpec => []SafeTeardown
  BY TeardownFollows, LifeInvHolds, PTL

\* One signal on a thread other than the engine's never terminates the process
\* by accident (18-22, 65-69).
THEOREM OneSignalNeverCrashes == LifeSpec => []OneSignalIsSafe
<1>1. LifeInv => OneSignalIsSafe
  BY Parts
<1> QED
  BY <1>1, LifeInvHolds, PTL

\* However many signals arrive, and on whatever threads: once one was delivered
\* some thread can go on until the process has ended, unless it hangs for one of
\* the four reasons (18-22, 64-70).
THEOREM AlwaysGoesOn == LifeSpec => []NeverStuck
<1>1. LifeInv => NeverStuck
  BY MainGoesOn DEF NeverStuck, Stuck
<1> QED
  BY <1>1, LifeInvHolds, PTL

\* A call that main() would have to wait for, and that nobody will answer.
LostCall(c) == Abandoned(c) /\ at[MainThread] \notin {"destroy", "exited"}

\* The engine thread does not come back, and no other thread touches the call.
LEMMA LostStaysLost ==
  ASSUME LifeInv, SafeTeardown', [LifeNext]_allVars, NEW c \in Calls, LostCall(c)
  PROVE  LostCall(c)'
<1>0. /\ LifeTypeOK /\ TrafficOK /\ stage \in [Calls -> Stages]
      /\ stage[c] = "queued" /\ engine = "exited"
  BY Parts, TrafficParts DEF LostCall, Abandoned
<1>1. stage'[c] = "queued" /\ engine' = "exited"
  <2>1. CASE UNCHANGED <<stage, engine>>
    BY <1>0, <2>1
  <2>2. CASE UNCHANGED allVars
    BY <2>1, <2>2 DEF allVars, vars, lifeVars, stopVars
  <2>3. ASSUME NEW h \in Signals, NEW t \in Threads, Deliver(h, t)
        PROVE  stage'[c] = "queued" /\ engine' = "exited"
    BY <2>1, <2>3 DEF Deliver, vars, stopVars
  <2>4. ASSUME NEW s \in Stoppers, StopSteps(s)
        PROVE  stage'[c] = "queued" /\ engine' = "exited"
    <3>1. UNCHANGED vars
      BY <2>4 DEF StopSteps, ClearRunning, NotifyAll, TestJoinable, Join, Joined,
                  ShutdownGrpc, GrpcIsDown, StopHttp
    <3>2. engine' = "exited"
      BY <1>0, <2>4, StopperMoves DEF StopperMove
    <3> QED
      BY <1>0, <3>1, <3>2 DEF vars
  <2>5. CASE MainStep
    <3>1. UNCHANGED <<stage, engine>>
      BY <2>5 DEF MainStep, Bind, Listen, EndAccepting, AcceptFails, CloseQueue,
                  ListenReturns, JoinGrpcThread, Return, vars, stopVars
    <3> QED
      BY <2>1, <3>1
  <2>6. CASE EngineThreadStep \/ SpuriousWake
    BY <1>0, <2>6, EngineLeaves DEF vars
  <2>7. CASE TrafficOnly
    <3>1. engine' = "exited"
      BY <1>0, <2>7, TrafficLeaves
    <3>2. ~Serve
      BY <1>0 DEF Serve
    <3>3. ASSUME NEW d \in Calls, CallStep(d) PROVE stage'[c] = "queued"
      <4>1. Decide(d) \/ Submit(d) \/ Reply(d)
        BY <3>3 DEF CallStep, Push
      <4>2. stage[d] # "queued" /\ \E q \in Stages : stage' = [stage EXCEPT ![d] = q]
        BY <4>1 DEF Decide, Submit, Reply, Stages
      <4> QED
        BY <1>0, <4>2
    <3>4. ASSUME NEW k \in Conns, WorkerStep(k) PROVE stage'[c] = "queued"
      <4>1. CASE HangUp(k)
        BY <1>0, <4>1 DEF HangUp
      <4>2. ASSUME NEW j \in 1 .. KeepAliveMax, Read(k, j) PROVE stage'[c] = "queued"
        BY <1>0, <4>2 DEF Read
      <4> QED
        BY <3>4, <4>1, <4>2 DEF WorkerStep, ConnectionStep
    <3>5. CASE WorkerStarts
      BY <1>0, <3>1, <3>5 DEF WorkerStarts, StartConnection
    <3>6. CASE ClientsStep
      BY <1>0, <3>1, <3>6 DEF ClientsStep, Connect, Send, Call
    <3> QED
      BY <2>7, <3>1, <3>2, <3>3, <3>4, <3>5, <3>6 DEF TrafficOnly
  <2> QED
    BY <2>2, <2>3, <2>4, <2>5, <2>6, <2>7, Split
<1> QED
  BY <1>1 DEF LostCall, Abandoned, SafeTeardown, InProgress

\* Once the engine thread has ended with a call unanswered main() never comes to
\* its end, whatever clients and signals do: the process hangs for good, unless it
\* is terminated (18-22, 65-70; continuous_batch_engine.cpp:163).
THEOREM LostCallHangs ==
  ASSUME NEW c \in Calls
  PROVE  LifeSpec => [](LostCall(c) => []LostCall(c))
<1>1. LifeInv /\ SafeTeardown' /\ [LifeNext]_allVars /\ LostCall(c) => LostCall(c)'
  BY LostStaysLost
<1> QED
  BY <1>1, LifeInvHolds, TeardownIsSafe, PTL DEF LifeSpec

\* What a step does to the thread pool of the HTTP server, it may do.
LEMMA PoolSteps ==
  ASSUME LifeInv, [LifeNext]_allVars
  PROVE  [Pool!Next]_(Pool!vars)
<1> SUFFICES ASSUME ~UNCHANGED poolVars PROVE Pool!Next
  BY DEF poolVars, Pool!vars
<1>0. LifeTypeOK /\ TrafficOK
  BY Parts
<1>1. ~UNCHANGED vars
  BY DEF vars
<1>2. ~(EngineThreadStep \/ SpuriousWake) /\ ~UNCHANGED allVars
  BY <1>1 DEF EngineThreadStep, SpuriousWake, allVars
<1>3. \A h \in Signals : \A t \in Threads : ~Deliver(h, t)
  BY <1>1 DEF Deliver
<1>4. \A s \in Stoppers : ~StopSteps(s)
  BY <1>1 DEF StopSteps, ClearRunning, NotifyAll, TestJoinable, Join, Joined,
              ShutdownGrpc, GrpcIsDown, StopHttp
<1>5. CASE MainStep
  <2>1. Pool!Close \/ Pool!Closed
    BY <1>1, <1>5 DEF MainStep, Bind, Listen, EndAccepting, AcceptFails, CloseQueue,
                      ListenReturns, Drained, JoinGrpcThread, Return
  <2> QED
    BY <2>1 DEF Pool!Next
<1>6. CASE TrafficOnly
  <2>1. ~Serve
    BY DEF Serve, Answer
  <2>2. ASSUME NEW c \in Calls, CallStep(c) PROVE Pool!Next
    <3>1. Reply(c) /\ c \notin Rpcs /\ Pool!Finish(c[1])
      BY <2>2 DEF CallStep, Push, Decide, Submit, Reply
    <3>2. c[1] \in Conns
      BY <3>1, CallOf DEF Calls
    <3> QED
      BY <3>1, <3>2 DEF Pool!Next
  <2>3. ASSUME NEW k \in Conns, WorkerStep(k) PROVE Pool!Next
    BY <2>3 DEF WorkerStep, ConnectionStep, HangUp, Read, Pool!Next
  <2>4. CASE WorkerStarts
    BY <2>4 DEF WorkerStarts, StartConnection, Pool!Next
  <2>5. CASE ClientsStep
    BY <2>5 DEF ClientsStep, Connect, Send, Call, Pool!Next
  <2> QED
    BY <1>6, <2>1, <2>2, <2>3, <2>4, <2>5 DEF TrafficOnly
<1> QED
  BY <1>2, <1>3, <1>4, <1>5, <1>6, Split

\* The process drives the thread pool of the HTTP server as its contract wants:
\* a connection is handed over while the pool is open, and is closed by the
\* thread that serves it, and shutdown() is called once (65, httplib.h:11634-11641).
THEOREM LifeDrivesPool == LifeSpec => Pool!Spec
<1>1. LifeInit => Pool!Init
  BY DEF LifeInit, Init
<1>2. LifeInv /\ [LifeNext]_allVars => [Pool!Next]_(Pool!vars)
  BY PoolSteps
<1> QED
  BY <1>1, <1>2, LifeInvHolds, PTL DEF LifeSpec, Pool!Spec

-----------------------------------------------------------------------------
(* What is left to do. *)

LEMMA ActorsFinite == IsFiniteSet(Actors)
<1>1. IsFiniteSet(1 .. KeepAliveMax) /\ IsFiniteSet(Signals)
  BY FS_Interval, RequestsAssumption, MaxSignalsAssumption DEF Signals
<1>2. IsFiniteSet(Calls)
  <2>1. IsFiniteSet(HttpCalls)
    BY <1>1, FS_Product, CallersAssumption DEF HttpCalls
  <2> QED
    BY <2>1, FS_Union, CallersAssumption DEF Calls
<1>3. IsFiniteSet({"signal"}) /\ IsFiniteSet({"call"}) /\ IsFiniteSet({"conn"})
  BY FS_Singleton
<1>4. IsFiniteSet({"signal"} \X Signals)
  BY <1>1, <1>3, FS_Product
<1>5. IsFiniteSet({"call"} \X Calls)
  BY <1>2, <1>3, FS_Product
<1>6. IsFiniteSet({"conn"} \X Conns)
  BY <1>3, CallersAssumption, FS_Product
<1>7. IsFiniteSet({<<"main", MainThread>>, <<"engine", EngineThread>>, <<"crash", MainThread>>})
  <2>1. \A x, y, z : IsFiniteSet({x, y, z})
    <3>1. ASSUME NEW x, NEW y, NEW z PROVE IsFiniteSet({x, y, z})
      <4>1. IsFiniteSet({x} \cup {y})
        BY FS_Singleton, FS_Union
      <4>2. IsFiniteSet(({x} \cup {y}) \cup {z})
        BY <4>1, FS_Singleton, FS_Union
      <4>3. ({x} \cup {y}) \cup {z} = {x, y, z}
        OBVIOUS
      <4> QED
        BY <4>2, <4>3
    <3> QED
      BY <3>1
  <2> QED
    BY <2>1
<1>8. IsFiniteSet(({"signal"} \X Signals) \cup ({"call"} \X Calls))
  BY <1>4, <1>5, FS_Union
<1>9. IsFiniteSet((({"signal"} \X Signals) \cup ({"call"} \X Calls)) \cup ({"conn"} \X Conns))
  BY <1>6, <1>8, FS_Union
<1> QED
  BY <1>7, <1>9, FS_Union DEF Actors

LEMMA AllStepsFinite ==
  /\ IsFiniteSet(Actors \X (1 .. 14)) /\ StepsLeft \subseteq Actors \X (1 .. 14)
  /\ Cardinality(StepsLeft) \in 0 .. Cardinality(Actors) * 14
<1>1. IsFiniteSet(1 .. 14) /\ Cardinality(1 .. 14) = 14
  <2>1. \A n \in Nat : IsFiniteSet(1 .. n) /\ Cardinality(1 .. n) = n
    BY FS_Interval
  <2> QED
    BY <2>1
<1>2. /\ IsFiniteSet(Actors \X (1 .. 14))
      /\ Cardinality(Actors \X (1 .. 14)) = Cardinality(Actors) * 14
  BY <1>1, ActorsFinite, FS_Product
<1>3. StepsLeft \subseteq Actors \X (1 .. 14)
  BY DEF StepsLeft
<1>4. IsFiniteSet(StepsLeft) /\ Cardinality(StepsLeft) <= Cardinality(Actors \X (1 .. 14))
  BY <1>2, <1>3, FS_Subset
<1>5. Cardinality(StepsLeft) \in Nat /\ Cardinality(Actors) \in Nat
  BY <1>4, ActorsFinite, FS_CardinalityType
<1> QED
  BY <1>2, <1>3, <1>4, <1>5

\* The kinds of actors.
LEMMA ActorsAre ==
  /\ \A h \in Signals : <<"signal", h>> \in Actors
  /\ \A c \in Calls : <<"call", c>> \in Actors
  /\ \A k \in Conns : <<"conn", k>> \in Actors
  /\ {<<"main", MainThread>>, <<"engine", EngineThread>>, <<"crash", MainThread>>} \subseteq Actors
  /\ \A a \in Actors :
       \/ \E h \in Signals : a = <<"signal", h>>
       \/ \E c \in Calls : a = <<"call", c>>
       \/ \E k \in Conns : a = <<"conn", k>>
       \/ a \in {<<"main", MainThread>>, <<"engine", EngineThread>>, <<"crash", MainThread>>}
BY DEF Actors

LEMMA AheadIs ==
  /\ \A h \in Signals : StepsAhead(<<"signal", h>>) = HandlerSteps[at[h]]
  /\ \A c \in Calls : StepsAhead(<<"call", c>>) = CallSteps[stage[c]]
  /\ \A k \in Conns : StepsAhead(<<"conn", k>>) = ConnSteps(k)
  /\ StepsAhead(<<"main", MainThread>>) = MainSteps[at[MainThread]]
  /\ StepsAhead(<<"engine", EngineThread>>) = EngineSteps[engine]
  /\ StepsAhead(<<"crash", MainThread>>) = IF crashed THEN 0 ELSE 1
BY DEF StepsAhead

LEMMA ConnStepsTyped == \A k \in Conns : ConnSteps(k) \in 0 .. 3
  BY DEF ConnSteps

\* Every number of steps is one.
LEMMA AheadTyped ==
  ASSUME LifeTypeOK, TrafficOK
  PROVE  \A a \in Actors : StepsAhead(a) \in 0 .. 14
<1>1. \A h \in Signals : HandlerSteps[at[h]] \in 0 .. 14
  BY DEF LifeTypeOK, HandlerPlaces, HandlerSteps
<1>2. MainSteps[at[MainThread]] \in 0 .. 14
  BY DEF LifeTypeOK, MainPlaces, HandlerPlaces, MainSteps
<1>3. EngineSteps[engine] \in 0 .. 14
  BY DEF LifeTypeOK, EngineSteps
<1>4. \A c \in Calls : CallSteps[stage[c]] \in 0 .. 14
  BY TrafficParts DEF Stages, CallSteps
<1> QED
  BY <1>1, <1>2, <1>3, <1>4, ActorsAre, AheadIs, ConnStepsTyped

LEMMA AheadTypedNext ==
  LifeTypeOK' /\ TrafficOK' => \A a \in Actors : StepsAhead(a)' \in 0 .. 14
<1>1. LifeTypeOK /\ TrafficOK => \A a \in Actors : StepsAhead(a) \in 0 .. 14
  BY AheadTyped
<1>2. LifeTypeOK' /\ TrafficOK' => (\A a \in Actors : StepsAhead(a) \in 0 .. 14)'
  BY <1>1, PTL
<1> QED
  BY <1>2

\* No actor gains a step and one loses one: fewer are left.
LEMMA StepsFall ==
  ASSUME \A a \in Actors : /\ StepsAhead(a) \in 0 .. 14 /\ StepsAhead(a)' \in 0 .. 14
                           /\ StepsAhead(a)' <= StepsAhead(a),
         NEW b \in Actors, StepsAhead(b)' < StepsAhead(b)
  PROVE  Cardinality(StepsLeft') < Cardinality(StepsLeft)
<1>1. StepsLeft' \subseteq StepsLeft
  BY DEF StepsLeft
<1>2. <<b, StepsAhead(b)>> \in StepsLeft /\ <<b, StepsAhead(b)>> \notin StepsLeft'
  <2>1. StepsAhead(b) \in 1 .. 14
    OBVIOUS
  <2> QED
    BY <2>1 DEF StepsLeft
<1>3. IsFiniteSet(StepsLeft) /\ IsFiniteSet(StepsLeft')
  BY <1>1, AllStepsFinite, FS_Subset
<1>4. /\ Cardinality(StepsLeft') <= Cardinality(StepsLeft)
      /\ Cardinality(StepsLeft) # Cardinality(StepsLeft')
  BY <1>1, <1>2, <1>3, FS_Subset
<1>5. Cardinality(StepsLeft') \in Nat /\ Cardinality(StepsLeft) \in Nat
  BY <1>3, FS_CardinalityType
<1> QED
  BY <1>4, <1>5

-----------------------------------------------------------------------------
(* Every step lowers it. *)

\* A connection is in one place of the pool, once.
ConnsOnce ==
  /\ \A i, j \in DOMAIN backlog : backlog[i] = backlog[j] => i = j
  /\ \A i \in DOMAIN backlog : backlog[i] \notin busy \cup closed
  /\ busy \cap closed = {}

\* What a step of the pool leaves of its queue.
LEMMA BacklogMoves ==
  ASSUME TrafficOK
  PROVE  /\ \A k \in Conns : Pool!Accept(k) =>
              /\ DOMAIN backlog' = DOMAIN backlog \cup {Len(backlog) + 1}
              /\ Len(backlog) + 1 \notin DOMAIN backlog
              /\ backlog'[Len(backlog) + 1] = k
              /\ \A i \in DOMAIN backlog : backlog'[i] = backlog[i]
              /\ UNCHANGED <<busy, closed>>
         /\ Pool!Start =>
              /\ 1 \in DOMAIN backlog /\ busy' = busy \cup {backlog[1]}
              /\ \A i \in DOMAIN backlog' : /\ i \in Nat /\ i + 1 \in DOMAIN backlog
                                            /\ backlog'[i] = backlog[i + 1]
              /\ \A i \in DOMAIN backlog : i = 1 \/ i - 1 \in DOMAIN backlog'
              /\ closed' = closed
<1>0. backlog \in Seq(Conns)
  BY TrafficParts
<1>1. ASSUME NEW k \in Conns, Pool!Accept(k)
      PROVE  /\ DOMAIN backlog' = DOMAIN backlog \cup {Len(backlog) + 1}
             /\ Len(backlog) + 1 \notin DOMAIN backlog
             /\ backlog'[Len(backlog) + 1] = k
             /\ \A i \in DOMAIN backlog : backlog'[i] = backlog[i]
             /\ UNCHANGED <<busy, closed>>
  <2>1. backlog' = Append(backlog, k) /\ UNCHANGED <<busy, closed>>
    BY <1>1 DEF Pool!Accept
  <2>2. /\ DOMAIN backlog = 1 .. Len(backlog) /\ Len(backlog) \in Nat
        /\ DOMAIN backlog' = 1 .. Len(backlog) + 1
    BY <1>0, <2>1
  <2> QED
    BY <1>0, <2>1, <2>2
<1>2. ASSUME Pool!Start
      PROVE  /\ 1 \in DOMAIN backlog /\ busy' = busy \cup {backlog[1]}
             /\ \A i \in DOMAIN backlog' : /\ i \in Nat /\ i + 1 \in DOMAIN backlog
                                           /\ backlog'[i] = backlog[i + 1]
             /\ \A i \in DOMAIN backlog : i = 1 \/ i - 1 \in DOMAIN backlog'
             /\ closed' = closed
  <2>1. /\ backlog # <<>> /\ backlog' = Tail(backlog) /\ closed' = closed
        /\ busy' = busy \cup {Head(backlog)}
    BY <1>2 DEF Pool!Start
  <2>2. /\ DOMAIN backlog = 1 .. Len(backlog) /\ Len(backlog) \in Nat \ {0}
        /\ DOMAIN backlog' = 1 .. Len(backlog) - 1
        /\ Head(backlog) = backlog[1]
        /\ \A i \in 1 .. Len(backlog) - 1 : backlog'[i] = backlog[i + 1]
    BY <1>0, <2>1
  <2> QED
    BY <2>1, <2>2
<1> QED
  BY <1>1, <1>2

LEMMA ConnsOnceNext ==
  ASSUME TrafficOK, ConnsOnce, [Pool!Next]_(Pool!vars)
  PROVE  ConnsOnce'
<1>1. ASSUME NEW k \in Conns, Pool!Accept(k) PROVE ConnsOnce'
  <2>1. k \notin busy \cup closed /\ \A i \in DOMAIN backlog : backlog[i] # k
    BY <1>1 DEF Pool!Accept, Pool!New
  <2> DEFINE n == Len(backlog) + 1
  <2>2. /\ DOMAIN backlog' = DOMAIN backlog \cup {n} /\ n \notin DOMAIN backlog
        /\ backlog'[n] = k /\ UNCHANGED <<busy, closed>>
        /\ \A i \in DOMAIN backlog : backlog'[i] = backlog[i]
    BY <1>1, BacklogMoves
  <2> HIDE DEF n
  <2> QED
    BY <2>1, <2>2 DEF ConnsOnce
<1>2. CASE Pool!Start
  <2>1. /\ 1 \in DOMAIN backlog /\ busy' = busy \cup {backlog[1]} /\ closed' = closed
        /\ \A i \in DOMAIN backlog' : /\ i \in Nat /\ i + 1 \in DOMAIN backlog
                                      /\ backlog'[i] = backlog[i + 1]
    BY <1>2, BacklogMoves
  <2>2. \A i \in DOMAIN backlog' : i + 1 # 1
    <3>1. \A i \in DOMAIN backlog' : i \in DOMAIN Tail(backlog)
      BY <1>2 DEF Pool!Start
    <3>2. \A i \in DOMAIN Tail(backlog) : i >= 1
      BY <1>2, TrafficParts DEF Pool!Start
    <3> QED
      BY <2>1, <3>1, <3>2
  <2>3. \A i, j \in DOMAIN backlog' : backlog'[i] = backlog'[j] => i = j
    BY <2>1 DEF ConnsOnce
  <2>4. \A i \in DOMAIN backlog' : backlog'[i] \notin busy' \cup closed'
    BY <2>1, <2>2 DEF ConnsOnce
  <2>5. busy' \cap closed' = {}
    BY <2>1 DEF ConnsOnce
  <2> QED
    BY <2>3, <2>4, <2>5 DEF ConnsOnce
<1>3. ASSUME NEW k \in Conns, Pool!Finish(k) PROVE ConnsOnce'
  BY <1>3 DEF Pool!Finish, ConnsOnce
<1>4. CASE UNCHANGED <<backlog, busy, closed>>
  BY <1>4 DEF ConnsOnce
<1> QED
  BY <1>1, <1>2, <1>3, <1>4 DEF Pool!Next, Pool!vars, Pool!Close, Pool!Closed

LEMMA ConnsOnceHolds == LifeSpec => []ConnsOnce
<1>1. LifeInit => ConnsOnce
  BY DEF LifeInit, Init, Pool!Init, ConnsOnce
<1>2. LifeInv /\ ConnsOnce /\ [LifeNext]_allVars => ConnsOnce'
  BY PoolSteps, ConnsOnceNext, Parts
<1> QED
  BY <1>1, <1>2, LifeInvHolds, PTL DEF LifeSpec

LEMMA ConnsStay ==
  ASSUME UNCHANGED <<backlog, busy, closed>>
  PROVE  \A k \in Conns : ConnSteps(k)' = ConnSteps(k)
BY DEF ConnSteps

\* What a step of the pool does to the connections.
LEMMA ConnMoves ==
  ASSUME TrafficOK, ConnsOnce
  PROVE  /\ \A k \in Conns : Pool!Accept(k) \/ Pool!Finish(k) =>
              /\ ConnSteps(k)' < ConnSteps(k)
              /\ \A l \in Conns \ {k} : ConnSteps(l)' = ConnSteps(l)
         /\ Pool!Start =>
              \E k \in Conns : /\ ConnSteps(k)' < ConnSteps(k)
                               /\ \A l \in Conns \ {k} : ConnSteps(l)' = ConnSteps(l)
<1>1. ASSUME NEW k \in Conns, Pool!Accept(k)
      PROVE  /\ ConnSteps(k)' < ConnSteps(k)
             /\ \A l \in Conns \ {k} : ConnSteps(l)' = ConnSteps(l)
  <2>1. k \notin busy \cup closed /\ \A i \in DOMAIN backlog : backlog[i] # k
    BY <1>1 DEF Pool!Accept, Pool!New
  <2> DEFINE n == Len(backlog) + 1
  <2>2. /\ DOMAIN backlog' = DOMAIN backlog \cup {n} /\ n \notin DOMAIN backlog
        /\ backlog'[n] = k /\ UNCHANGED <<busy, closed>>
        /\ \A i \in DOMAIN backlog : backlog'[i] = backlog[i]
    BY <1>1, BacklogMoves
  <2> HIDE DEF n
  <2>3. ConnSteps(k) = 3
    BY <2>1 DEF ConnSteps
  <2>4. ConnSteps(k)' = 2
    BY <2>1, <2>2 DEF ConnSteps
  <2>5. \A l \in Conns \ {k} : ConnSteps(l)' = ConnSteps(l)
    BY <2>2 DEF ConnSteps
  <2> QED
    BY <2>3, <2>4, <2>5
<1>2. ASSUME NEW k \in Conns, Pool!Finish(k)
      PROVE  /\ ConnSteps(k)' < ConnSteps(k)
             /\ \A l \in Conns \ {k} : ConnSteps(l)' = ConnSteps(l)
  <2>1. /\ k \in busy /\ k \notin closed
        /\ busy' = busy \ {k} /\ closed' = closed \cup {k} /\ backlog' = backlog
    BY <1>2 DEF Pool!Finish, ConnsOnce
  <2>2. ConnSteps(k) = 1 /\ ConnSteps(k)' = 0
    BY <2>1 DEF ConnSteps
  <2>3. \A l \in Conns \ {k} : ConnSteps(l)' = ConnSteps(l)
    BY <2>1 DEF ConnSteps
  <2> QED
    BY <2>2, <2>3
<1>3. ASSUME Pool!Start
      PROVE  \E k \in Conns : /\ ConnSteps(k)' < ConnSteps(k)
                              /\ \A l \in Conns \ {k} : ConnSteps(l)' = ConnSteps(l)
  <2>1. /\ 1 \in DOMAIN backlog /\ busy' = busy \cup {backlog[1]} /\ closed' = closed
        /\ \A i \in DOMAIN backlog' : /\ i \in Nat /\ i + 1 \in DOMAIN backlog
                                      /\ backlog'[i] = backlog[i + 1]
        /\ \A i \in DOMAIN backlog : i = 1 \/ i - 1 \in DOMAIN backlog'
    BY <1>3, BacklogMoves
  <2>2. PICK k \in Conns : backlog[1] = k /\ k \notin busy \cup closed
    BY <2>1, TrafficParts DEF ConnsOnce
  <2>3. ConnSteps(k) = 2 /\ ConnSteps(k)' = 1
    <3>1. \E i \in DOMAIN backlog : backlog[i] = k
      BY <2>1, <2>2
    <3> QED
      BY <2>1, <2>2, <3>1 DEF ConnSteps
  <2>4. ASSUME NEW l \in Conns \ {k} PROVE ConnSteps(l)' = ConnSteps(l)
    <3>1. (\E i \in DOMAIN backlog : backlog[i] = l)
            <=> (\E i \in DOMAIN backlog' : backlog'[i] = l)
      <4>0. backlog[1] # l
        BY <2>2
      <4>1. ASSUME NEW i \in DOMAIN backlog, backlog[i] = l
            PROVE  \E j \in DOMAIN backlog' : backlog'[j] = l
        <5>1. i - 1 \in DOMAIN backlog' /\ i - 1 + 1 = i
          BY <2>1, <4>0, <4>1, TrafficParts
        <5> QED
          BY <2>1, <4>1, <5>1
      <4> QED
        BY <2>1, <4>1
    <3> QED
      BY <2>1, <2>2, <3>1 DEF ConnSteps
  <2> QED
    BY <2>2, <2>3, <2>4
<1> QED
  BY <1>1, <1>2, <1>3

\* Nobody has more steps ahead, and somebody has fewer.
NobodyRises ==
  /\ \A h \in Signals : HandlerSteps[at'[h]] <= HandlerSteps[at[h]]
  /\ MainSteps[at'[MainThread]] <= MainSteps[at[MainThread]]
  /\ EngineSteps[engine'] <= EngineSteps[engine]
  /\ \A c \in Calls : CallSteps[stage'[c]] <= CallSteps[stage[c]]
  /\ \A k \in Conns : ConnSteps(k)' <= ConnSteps(k)
  /\ crashed => crashed'
SomebodyFalls ==
  \/ \E h \in Signals : HandlerSteps[at'[h]] < HandlerSteps[at[h]]
  \/ MainSteps[at'[MainThread]] < MainSteps[at[MainThread]]
  \/ EngineSteps[engine'] < EngineSteps[engine]
  \/ \E c \in Calls : CallSteps[stage'[c]] < CallSteps[stage[c]]
  \/ \E k \in Conns : ConnSteps(k)' < ConnSteps(k)
  \/ crashed' /\ ~crashed

LEMMA FewerLeft ==
  ASSUME LifeTypeOK, TrafficOK, LifeTypeOK', TrafficOK', NobodyRises, SomebodyFalls
  PROVE  Cardinality(StepsLeft') < Cardinality(StepsLeft)
<1>1. /\ \A h \in Signals : StepsAhead(<<"signal", h>>)' = HandlerSteps[at'[h]]
      /\ \A c \in Calls : StepsAhead(<<"call", c>>)' = CallSteps[stage'[c]]
      /\ \A k \in Conns : StepsAhead(<<"conn", k>>)' = ConnSteps(k)'
      /\ StepsAhead(<<"main", MainThread>>)' = MainSteps[at'[MainThread]]
      /\ StepsAhead(<<"engine", EngineThread>>)' = EngineSteps[engine']
      /\ StepsAhead(<<"crash", MainThread>>)' = IF crashed' THEN 0 ELSE 1
  BY DEF StepsAhead
<1>2. \A a \in Actors : StepsAhead(a) \in 0 .. 14 /\ StepsAhead(a)' \in 0 .. 14
  BY AheadTyped, AheadTypedNext
<1>3. \A a \in Actors : StepsAhead(a)' <= StepsAhead(a)
  <2>1. /\ \A h \in Signals : StepsAhead(<<"signal", h>>)' <= StepsAhead(<<"signal", h>>)
        /\ \A c \in Calls : StepsAhead(<<"call", c>>)' <= StepsAhead(<<"call", c>>)
        /\ \A k \in Conns : StepsAhead(<<"conn", k>>)' <= StepsAhead(<<"conn", k>>)
    BY <1>1, AheadIs DEF NobodyRises
  <2>2. /\ StepsAhead(<<"main", MainThread>>)' <= StepsAhead(<<"main", MainThread>>)
        /\ StepsAhead(<<"engine", EngineThread>>)' <= StepsAhead(<<"engine", EngineThread>>)
        /\ StepsAhead(<<"crash", MainThread>>)' <= StepsAhead(<<"crash", MainThread>>)
    BY <1>1, AheadIs DEF NobodyRises
  <2> QED
    BY <2>1, <2>2, ActorsAre
<1>4. \E b \in Actors : StepsAhead(b)' < StepsAhead(b)
  <2>1. ASSUME NEW h \in Signals, HandlerSteps[at'[h]] < HandlerSteps[at[h]]
        PROVE  \E b \in Actors : StepsAhead(b)' < StepsAhead(b)
    BY <1>1, <2>1, ActorsAre, AheadIs
  <2>2. ASSUME NEW c \in Calls, CallSteps[stage'[c]] < CallSteps[stage[c]]
        PROVE  \E b \in Actors : StepsAhead(b)' < StepsAhead(b)
    BY <1>1, <2>2, ActorsAre, AheadIs
  <2>3. ASSUME NEW k \in Conns, ConnSteps(k)' < ConnSteps(k)
        PROVE  \E b \in Actors : StepsAhead(b)' < StepsAhead(b)
    BY <1>1, <2>3, ActorsAre, AheadIs
  <2>4. CASE MainSteps[at'[MainThread]] < MainSteps[at[MainThread]]
    <3>1. StepsAhead(<<"main", MainThread>>)' < StepsAhead(<<"main", MainThread>>)
      BY <1>1, <2>4, AheadIs
    <3> QED
      BY <3>1, ActorsAre
  <2>5. CASE EngineSteps[engine'] < EngineSteps[engine]
    <3>1. StepsAhead(<<"engine", EngineThread>>)' < StepsAhead(<<"engine", EngineThread>>)
      BY <1>1, <2>5, AheadIs
    <3> QED
      BY <3>1, ActorsAre
  <2>6. CASE crashed' /\ ~crashed
    <3>1. StepsAhead(<<"crash", MainThread>>)' < StepsAhead(<<"crash", MainThread>>)
      BY <1>1, <2>6, AheadIs
    <3> QED
      BY <3>1, ActorsAre
  <2> QED
    BY <2>1, <2>2, <2>3, <2>4, <2>5, <2>6 DEF SomebodyFalls
<1> QED
  BY <1>2, <1>3, <1>4, StepsFall

Nearer == NobodyRises /\ SomebodyFalls

\* The ways of a handler, and of main() behind the end of server.run().
HandlerWays ==
  {<<"clear", "notify">>, <<"notify", "joinable">>, <<"joinable", "join">>,
   <<"join", "joining">>, <<"joinable", "grpc">>, <<"joining", "grpc">>,
   <<"grpc", "grpc_wait">>, <<"grpc", "http">>, <<"grpc_wait", "http">>,
   <<"http", "done">>}
MainWays ==
  {<<"clear", "notify">>, <<"notify", "joinable">>, <<"joinable", "join">>,
   <<"join", "joining">>, <<"joinable", "destroy">>, <<"joining", "destroy">>,
   <<"grpc", "grpc_wait">>, <<"grpc", "join_grpc">>, <<"grpc_wait", "join_grpc">>}

LEMMA WaysFall ==
  /\ \A w \in HandlerWays : HandlerSteps[w[2]] \in Nat /\ HandlerSteps[w[2]] < HandlerSteps[w[1]]
  /\ \A w \in MainWays : MainSteps[w[2]] \in Nat /\ MainSteps[w[2]] < MainSteps[w[1]]
BY DEF HandlerWays, MainWays, HandlerSteps, MainSteps

StopperWay(s, p) ==
  /\ at' = [at EXCEPT ![s] = p]
  /\ s # MainThread => <<at[s], p>> \in HandlerWays
  /\ s = MainThread => <<at[s], p>> \in MainWays

LEMMA StopperWays ==
  ASSUME LifeTypeOK, NEW s \in Stoppers, StopSteps(s)
  PROVE  \/ at' = at /\ crashed'
         \/ \E p \in HandlerPlaces \cup MainPlaces : StopperWay(s, p)
<1> USE AtTyped DEF StopperWay, HandlerWays, MainWays, After, MainOrder, HandlerOrder,
                    HandlerPlaces, MainPlaces
<1>1. CASE ClearRunning(s)
  BY <1>1 DEF ClearRunning
<1>2. CASE NotifyAll(s)
  BY <1>2 DEF NotifyAll
<1>3. CASE TestJoinable(s)
  <2>1. CASE joinable
    BY <1>3, <2>1 DEF TestJoinable
  <2>2. CASE ~joinable
    BY <1>3, <2>2 DEF TestJoinable
  <2> QED
    BY <2>1, <2>2
<1>4. CASE Join(s)
  BY <1>4 DEF Join
<1>5. CASE Joined(s)
  BY <1>5 DEF Joined
<1>6. CASE ShutdownGrpc(s)
  <2>1. CASE grpc = "serving"
    BY <1>6, <2>1 DEF ShutdownGrpc
  <2>2. CASE grpc # "serving"
    BY <1>6, <2>2 DEF ShutdownGrpc
  <2> QED
    BY <2>1, <2>2
<1>7. CASE GrpcIsDown(s)
  BY <1>7 DEF GrpcIsDown
<1>8. CASE StopHttp(s)
  <2>1. at[s] = "http" /\ s # MainThread
    BY <1>8 DEF StopHttp
  <2>2. CASE at' = [at EXCEPT ![s] = After(s, "http")]
    BY <2>1, <2>2
  <2> QED
    BY <1>8, <2>2 DEF StopHttp
<1> QED
  BY <1>1, <1>2, <1>3, <1>4, <1>5, <1>6, <1>7, <1>8 DEF StopSteps

\* A stopper goes forward.
LEMMA StopperNearer ==
  ASSUME LifeTypeOK, TrafficOK, ~crashed, NEW s \in Stoppers, StopSteps(s)
  PROVE  Nearer
<1>1. /\ \A k \in Conns : ConnSteps(k)' = ConnSteps(k)
      /\ stage' = stage
  <2>1. UNCHANGED vars
    BY DEF StopSteps, ClearRunning, NotifyAll, TestJoinable, Join, Joined,
           ShutdownGrpc, GrpcIsDown, StopHttp
  <2> QED
    BY <2>1, ConnsStay DEF vars, poolVars
<1>2. engine' = engine \/ (engine = "asleep" /\ engine' = "running")
  BY DEF StopSteps, ClearRunning, NotifyAll, Woken, TestJoinable, Join, Joined,
         ShutdownGrpc, GrpcIsDown, StopHttp, stopVars
<1>3. EngineSteps[engine'] <= EngineSteps[engine]
  BY <1>2 DEF LifeTypeOK, EngineSteps
<1>4. /\ \A h \in Signals : HandlerSteps[at[h]] \in Nat
      /\ MainSteps[at[MainThread]] \in Nat
  BY AtTyped DEF HandlerPlaces, MainPlaces, HandlerSteps, MainSteps
<1>5. \A c \in Calls : CallSteps[stage'[c]] <= CallSteps[stage[c]]
  BY <1>1, TrafficParts DEF CallSteps, Stages
<1>6. \A k \in Conns : ConnSteps(k)' <= ConnSteps(k)
  BY <1>1, ConnStepsTyped
<1>7. CASE at' = at /\ crashed'
  BY <1>3, <1>4, <1>5, <1>7, <1>6 DEF Nearer, NobodyRises, SomebodyFalls
<1>8. ASSUME NEW p \in HandlerPlaces \cup MainPlaces, StopperWay(s, p)
      PROVE  Nearer
  <2>1. /\ at' = [at EXCEPT ![s] = p] /\ at \in [Stoppers -> HandlerPlaces \cup MainPlaces]
        /\ MainThread \in Stoppers /\ \A h \in Signals : h \in Stoppers /\ h # MainThread
    BY <1>8, AtTyped DEF StopperWay
  <2>2. CASE s = MainThread
    <3>1. MainSteps[p] \in Nat /\ MainSteps[p] < MainSteps[at[MainThread]]
      BY <1>8, <2>2, WaysFall DEF StopperWay
    <3>2. at'[MainThread] = p /\ \A h \in Signals : at'[h] = at[h]
      BY <2>1, <2>2
    <3>3. /\ \A h \in Signals : HandlerSteps[at'[h]] <= HandlerSteps[at[h]]
          /\ MainSteps[at'[MainThread]] < MainSteps[at[MainThread]]
      BY <1>4, <3>1, <3>2
    <3>4. MainSteps[at'[MainThread]] <= MainSteps[at[MainThread]]
      BY <1>4, <3>1, <3>2
    <3> QED
      BY <1>3, <1>5, <1>6, <3>3, <3>4 DEF Nearer, NobodyRises, SomebodyFalls
  <2>3. CASE s # MainThread
    <3>1. s \in Signals /\ HandlerSteps[p] \in Nat /\ HandlerSteps[p] < HandlerSteps[at[s]]
      BY <1>8, <2>3, WaysFall, AtTyped DEF StopperWay
    <3>2. /\ at'[MainThread] = at[MainThread] /\ at'[s] = p
          /\ \A h \in Signals : h # s => at'[h] = at[h]
      BY <2>1, <2>3
    <3>4. /\ \A h \in Signals : HandlerSteps[at'[h]] <= HandlerSteps[at[h]]
          /\ MainSteps[at'[MainThread]] <= MainSteps[at[MainThread]]
          /\ HandlerSteps[at'[s]] < HandlerSteps[at[s]]
      BY <1>4, <3>1, <3>2
    <3> QED
      BY <1>3, <1>5, <1>6, <3>1, <3>4 DEF Nearer, NobodyRises, SomebodyFalls
  <2> QED
    BY <2>2, <2>3
<1> QED
  BY <1>7, <1>8, StopperWays

\* What a step leaves alone rises nowhere.
LEMMA StaysTyped ==
  ASSUME LifeTypeOK, TrafficOK
  PROVE  /\ \A h \in Signals : HandlerSteps[at[h]] \in Nat
         /\ MainSteps[at[MainThread]] \in Nat /\ EngineSteps[engine] \in Nat
         /\ \A c \in Calls : CallSteps[stage[c]] \in Nat
         /\ \A k \in Conns : ConnSteps(k) \in Nat
<1>1. \A h \in Signals : HandlerSteps[at[h]] \in Nat
  BY DEF LifeTypeOK, HandlerPlaces, HandlerSteps
<1>2. MainSteps[at[MainThread]] \in Nat
  BY DEF LifeTypeOK, MainPlaces, HandlerPlaces, MainSteps
<1>3. EngineSteps[engine] \in Nat
  BY DEF LifeTypeOK, EngineSteps
<1>4. \A c \in Calls : CallSteps[stage[c]] \in Nat
  BY TrafficParts DEF Stages, CallSteps
<1> QED
  BY <1>1, <1>2, <1>3, <1>4, ConnStepsTyped

LEMMA DeliverNearer ==
  ASSUME LifeTypeOK, TrafficOK, NEW h \in Signals, NEW t \in Threads, Deliver(h, t)
  PROVE  Nearer
<1>1. /\ at[h] = "none" /\ at' = [at EXCEPT ![h] = "clear"] /\ UNCHANGED crashed
      /\ stage' = stage /\ engine' = engine
      /\ \A k \in Conns : ConnSteps(k)' = ConnSteps(k)
  BY ConnsStay DEF Deliver, HandlerOrder, vars, poolVars, stopVars
<1>2. /\ at'[h] = "clear" /\ at'[MainThread] = at[MainThread]
      /\ \A g \in Signals : g # h => at'[g] = at[g]
  BY <1>1, AtTyped
<1>3. HandlerSteps[at[h]] = 9 /\ HandlerSteps[at'[h]] = 8
  BY <1>1, <1>2 DEF HandlerSteps
<1> QED
  BY <1>1, <1>2, <1>3, StaysTyped DEF Nearer, NobodyRises, SomebodyFalls

LEMMA MainNearer ==
  ASSUME LifeTypeOK, TrafficOK, ~crashed, MainStep
  PROVE  Nearer
<1>1. /\ stage' = stage /\ engine' = engine /\ UNCHANGED <<backlog, busy, closed>>
  BY DEF MainStep, Bind, Listen, EndAccepting, AcceptFails, CloseQueue, ListenReturns,
         Drained, Pool!Close, Pool!Closed, JoinGrpcThread, Return, vars, poolVars, stopVars
<1>2. PICK p \in MainPlaces : MainMove(p)
  BY MainGoes
<1>3. /\ at'[MainThread] = p /\ \A h \in Signals : at'[h] = at[h]
  BY <1>2, AtTyped DEF MainMove
<1>4. MainSteps[p] < MainSteps[at[MainThread]]
  BY <1>2, AtTyped DEF MainMove, MainSteps
<1>5. MainSteps[p] \in Nat
  BY <1>2 DEF MainPlaces, HandlerPlaces, MainSteps
<1>6. MainSteps[at'[MainThread]] <= MainSteps[at[MainThread]]
  BY <1>3, <1>4, <1>5, StaysTyped
<1>7. \A k \in Conns : ConnSteps(k)' = ConnSteps(k)
  BY <1>1, ConnsStay
<1> QED
  BY <1>1, <1>3, <1>4, <1>6, <1>7, StaysTyped DEF Nearer, NobodyRises, SomebodyFalls

\* The engine thread does not go back to its wait.
LEMMA EngineNearer ==
  ASSUME LifeTypeOK, TrafficOK, ~running, EngineThreadStep \/ SpuriousWake
  PROVE  Nearer
<1>1. UNCHANGED <<vars, at, crashed>>
  BY DEF EngineThreadStep, SpuriousWake
<1>2. EngineSteps[engine'] < EngineSteps[engine] /\ EngineSteps[engine'] <= EngineSteps[engine]
  BY DEF EngineThreadStep, SpuriousWake, StaysAwake, EngineSteps
<1>3. \A k \in Conns : ConnSteps(k)' = ConnSteps(k)
  BY <1>1, ConnsStay DEF vars, poolVars
<1> QED
  BY <1>1, <1>2, <1>3, StaysTyped DEF Nearer, NobodyRises, SomebodyFalls, vars

\* A call that goes from one stage to a later one ...
LEMMA StageFalls ==
  ASSUME TrafficOK, NEW c \in Calls, NEW q \in Stages,
         stage' = [stage EXCEPT ![c] = q], CallSteps[q] < CallSteps[stage[c]]
  PROVE  /\ \A d \in Calls : CallSteps[stage'[d]] <= CallSteps[stage[d]]
         /\ CallSteps[stage'[c]] < CallSteps[stage[c]]
<1>1. stage'[c] = q /\ \A d \in Calls : d # c => stage'[d] = stage[d]
  BY TrafficParts
<1>2. \A d \in Calls : CallSteps[stage[d]] \in Nat
  BY TrafficParts DEF Stages, CallSteps
<1>3. CallSteps[q] \in Nat
  BY DEF Stages, CallSteps
<1> QED
  BY <1>1, <1>2, <1>3

\* ... and what is left to show of a step of the front ends.
LEMMA TrafficParting ==
  ASSUME LifeTypeOK, TrafficOK, TrafficOnly,
         EngineSteps[engine'] <= EngineSteps[engine],
         \A d \in Calls : CallSteps[stage'[d]] <= CallSteps[stage[d]],
         \A k \in Conns : ConnSteps(k)' <= ConnSteps(k),
         \/ \E d \in Calls : CallSteps[stage'[d]] < CallSteps[stage[d]]
         \/ \E k \in Conns : ConnSteps(k)' < ConnSteps(k)
  PROVE  Nearer
<1>1. UNCHANGED <<at, crashed>>
  BY TrafficLeaves
<1> QED
  BY <1>1, StaysTyped DEF Nearer, NobodyRises, SomebodyFalls

LEMMA CallNearer ==
  ASSUME LifeTypeOK, TrafficOK, ConnsOnce, TrafficOnly, NEW c \in Calls, CallStep(c)
  PROVE  Nearer
<1>1. EngineSteps[engine'] <= EngineSteps[engine]
  <2>1. engine' = engine \/ (engine = "asleep" /\ engine' = "running")
    BY DEF CallStep, Push, Woken, lifeVars, stopVars
  <2> QED
    BY <2>1 DEF LifeTypeOK, EngineSteps
<1>2. PICK q \in Stages : /\ stage' = [stage EXCEPT ![c] = q]
                          /\ CallSteps[q] < CallSteps[stage[c]]
  BY DEF CallStep, Push, Decide, Submit, Reply, Stages, CallSteps
<1>3. /\ \A d \in Calls : CallSteps[stage'[d]] <= CallSteps[stage[d]]
      /\ CallSteps[stage'[c]] < CallSteps[stage[c]]
  BY <1>2, StageFalls
<1>4. \A k \in Conns : ConnSteps(k)' <= ConnSteps(k)
  <2>1. UNCHANGED poolVars \/ (c \notin Rpcs /\ Pool!Finish(c[1]))
    BY DEF CallStep, Push, Decide, Submit, Reply
  <2>2. CASE UNCHANGED poolVars
    BY <2>2, ConnsStay, ConnStepsTyped DEF poolVars
  <2>3. CASE c \notin Rpcs /\ Pool!Finish(c[1])
    <3>1. PICK k \in Conns : k = c[1]
      BY <2>3, CallOf DEF Calls
    <3>2. ConnSteps(k)' < ConnSteps(k) /\ \A l \in Conns \ {k} : ConnSteps(l)' = ConnSteps(l)
      BY <2>3, <3>1, ConnMoves
    <3>3. ConnSteps(k)' \in Nat /\ \A l \in Conns : ConnSteps(l) \in Nat
      BY ConnStepsTyped DEF ConnSteps
    <3> QED
      BY <3>2, <3>3
  <2> QED
    BY <2>1, <2>2, <2>3
<1> QED
  BY <1>1, <1>3, <1>4, TrafficParting

LEMMA TrafficNearer ==
  ASSUME LifeTypeOK, TrafficOK, ConnsOnce, TrafficOnly
  PROVE  Nearer
<1>0. /\ \A c \in Calls : CallSteps[stage[c]] \in Nat
      /\ \A k \in Conns : ConnSteps(k) \in Nat /\ ConnSteps(k)' \in Nat
      /\ EngineSteps[engine] \in Nat
  BY StaysTyped DEF ConnSteps
<1>1. CASE Serve
  <2>1. engine' = engine /\ UNCHANGED poolVars
    BY <1>1 DEF Serve, Answer, lifeVars, stopVars
  <2>2. PICK S \in SUBSET Queued :
          S # {} /\ stage' = [c \in Calls |-> IF c \in S THEN "given" ELSE stage[c]]
    BY <1>1 DEF Serve, Answer
  <2>3. \A c \in S : c \in Calls /\ CallSteps[stage[c]] = 2 /\ CallSteps[stage'[c]] = 1
    BY <2>2 DEF Queued, CallSteps
  <2>4. \A c \in Calls : CallSteps[stage'[c]] <= CallSteps[stage[c]]
    BY <1>0, <2>2, <2>3
  <2>5. \E c \in Calls : CallSteps[stage'[c]] < CallSteps[stage[c]]
    BY <2>2, <2>3
  <2>6. \A k \in Conns : ConnSteps(k)' = ConnSteps(k)
    BY <2>1, ConnsStay DEF poolVars
  <2> QED
    BY <1>0, <2>1, <2>4, <2>5, <2>6, TrafficParting
<1>2. ASSUME NEW k \in Conns, WorkerStep(k) PROVE Nearer
  <2>1. engine' = engine
    BY <1>2 DEF WorkerStep, lifeVars, stopVars
  <2>2. CASE HangUp(k)
    <3>1. /\ ConnSteps(k)' < ConnSteps(k)
          /\ \A l \in Conns \ {k} : ConnSteps(l)' = ConnSteps(l)
      BY <2>2, ConnMoves DEF HangUp
    <3>2. \A c \in Calls : \/ stage'[c] = stage[c]
                           \/ stage[c] = "sent" /\ stage'[c] = "over"
      BY <2>2 DEF HangUp
    <3>3. \A c \in Calls : CallSteps[stage'[c]] <= CallSteps[stage[c]]
      BY <1>0, <3>2 DEF CallSteps
    <3>4. \A l \in Conns : ConnSteps(l)' <= ConnSteps(l)
      BY <1>0, <3>1
    <3> QED
      BY <1>0, <2>1, <3>1, <3>3, <3>4, TrafficParting
  <2>3. ASSUME NEW i \in 1 .. KeepAliveMax, Read(k, i) PROVE Nearer
    <3>1. /\ stage[<<k, i>>] = "sent" /\ stage' = [stage EXCEPT ![<<k, i>>] = "handled"]
          /\ UNCHANGED poolVars
      BY <2>3 DEF Read
    <3>2. <<k, i>> \in Calls
      BY DEF Calls, HttpCalls
    <3>3. /\ \A c \in Calls : CallSteps[stage'[c]] <= CallSteps[stage[c]]
          /\ CallSteps[stage'[<<k, i>>]] < CallSteps[stage[<<k, i>>]]
      <4>1. "handled" \in Stages /\ CallSteps["handled"] < CallSteps[stage[<<k, i>>]]
        BY <3>1 DEF Stages, CallSteps
      <4> QED
        BY <3>1, <3>2, <4>1, StageFalls
    <3>4. \A l \in Conns : ConnSteps(l)' = ConnSteps(l)
      BY <3>1, ConnsStay DEF poolVars
    <3> QED
      BY <1>0, <2>1, <3>2, <3>3, <3>4, TrafficParting
  <2> QED
    BY <1>2, <2>2, <2>3 DEF WorkerStep, ConnectionStep
<1>3. CASE WorkerStarts
  <2>1. engine' = engine /\ stage' = stage /\ Pool!Start
    BY <1>3 DEF WorkerStarts, StartConnection, lifeVars, stopVars
  <2>2. PICK k \in Conns : /\ ConnSteps(k)' < ConnSteps(k)
                           /\ \A l \in Conns \ {k} : ConnSteps(l)' = ConnSteps(l)
    BY <2>1, ConnMoves
  <2>3. \A l \in Conns : ConnSteps(l)' <= ConnSteps(l)
    BY <1>0, <2>2
  <2>4. \A c \in Calls : CallSteps[stage'[c]] <= CallSteps[stage[c]]
    BY <1>0, <2>1
  <2> QED
    BY <1>0, <2>1, <2>2, <2>3, <2>4, TrafficParting
<1>4. CASE ClientsStep
  <2>1. engine' = engine
    BY <1>4 DEF ClientsStep, lifeVars, stopVars
  <2>2. ASSUME NEW k \in Conns, Connect(k) PROVE Nearer
    <3>1. stage' = stage /\ Pool!Accept(k)
      BY <2>2 DEF Connect
    <3>2. ConnSteps(k)' < ConnSteps(k) /\ \A l \in Conns \ {k} : ConnSteps(l)' = ConnSteps(l)
      BY <3>1, ConnMoves
    <3>3. \A l \in Conns : ConnSteps(l)' <= ConnSteps(l)
      BY <1>0, <3>2
    <3>4. \A c \in Calls : CallSteps[stage'[c]] <= CallSteps[stage[c]]
      BY <1>0, <3>1
    <3> QED
      BY <1>0, <2>1, <3>2, <3>3, <3>4, TrafficParting
  <2>3. ASSUME NEW c \in Calls, NEW q \in {"sent", "handled"}, stage[c] = "new",
               stage' = [stage EXCEPT ![c] = q], UNCHANGED poolVars
        PROVE  Nearer
    <3>1. q \in Stages /\ CallSteps[q] < CallSteps[stage[c]]
      BY <2>3 DEF Stages, CallSteps
    <3>2. /\ \A d \in Calls : CallSteps[stage'[d]] <= CallSteps[stage[d]]
          /\ CallSteps[stage'[c]] < CallSteps[stage[c]]
      BY <2>3, <3>1, StageFalls
    <3>3. \A l \in Conns : ConnSteps(l)' = ConnSteps(l)
      BY <2>3, ConnsStay DEF poolVars
    <3> QED
      BY <1>0, <2>1, <3>2, <3>3, TrafficParting
  <2>4. ASSUME NEW k \in Conns, NEW i \in 1 .. KeepAliveMax, Send(k, i) PROVE Nearer
    <3>1. <<k, i>> \in Calls
      BY DEF Calls, HttpCalls
    <3> QED
      BY <2>3, <2>4, <3>1 DEF Send
  <2>5. ASSUME NEW r \in Rpcs, Call(r) PROVE Nearer
    BY <2>3, <2>5 DEF Call, Calls
  <2> QED
    BY <1>4, <2>2, <2>4, <2>5 DEF ClientsStep
<1> QED
  BY <1>1, <1>2, <1>3, <1>4, CallNearer DEF TrafficOnly

\* Once running_ is false, every step of whichever thread, client or signal leaves
\* fewer steps to do, of a number that clients and signals bound: nothing is tried
\* again and no thread runs in circles, and with AlwaysGoesOn the process comes to its
\* end or hangs, for one of four reasons (18-22, 64-70).
THEOREM EndIsNear ==
  LifeSpec => /\ EndDrawsNear
              /\ [](Cardinality(StepsLeft) \in 0 .. Cardinality(Actors) * 14)
<1>1. LifeInv /\ LifeInv' /\ ConnsOnce /\ [LifeNext]_allVars
        => (~UNCHANGED allVars /\ ~running => Cardinality(StepsLeft') < Cardinality(StepsLeft))
  <2> SUFFICES ASSUME LifeInv, LifeInv', ConnsOnce, [LifeNext]_allVars,
                      ~UNCHANGED allVars, ~running
               PROVE  Cardinality(StepsLeft') < Cardinality(StepsLeft)
    OBVIOUS
  <2>1. LifeTypeOK /\ TrafficOK /\ LifeTypeOK' /\ TrafficOK'
    BY Parts DEF LifeInv
  <2>2. Up => ~crashed
    BY DEF Up
  <2>3. Nearer
    BY <2>1, <2>2, Split, DeliverNearer, StopperNearer, MainNearer, EngineNearer,
       TrafficNearer
  <2> QED
    BY <2>1, <2>3, FewerLeft DEF Nearer
<1>2. Cardinality(StepsLeft) \in 0 .. Cardinality(Actors) * 14
  BY AllStepsFinite
<1>3. LifeSpec => [][~running => Cardinality(StepsLeft') < Cardinality(StepsLeft)]_allVars
  BY <1>1, LifeInvHolds, ConnsOnceHolds, PTL DEF LifeSpec
<1> QED
  BY <1>2, <1>3, PTL DEF EndDrawsNear
=============================================================================
