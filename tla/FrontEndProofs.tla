---------------------------- MODULE FrontEndProofs ----------------------------
(***************************************************************************)
(* The front ends are correct for any number of connections, calls and     *)
(* threads: FrontInv is inductive, what it says of the engine, the threads *)
(* and the metrics follows, and the front ends implement the traffic the   *)
(* life cycle is composed with.                                            *)
(***************************************************************************)
EXTENDS FrontEndProperties, FunctionTheorems, FiniteSetTheorems, TLAPS

LEMMA CallsFinite == IsFiniteSet(HttpCalls) /\ IsFiniteSet(Calls)
<1>1. IsFiniteSet(1 .. KeepAliveMax)
  BY KeepAliveMaxAssumption, FS_Interval
<1>2. IsFiniteSet(HttpCalls)
  BY <1>1, ClientsAssumption, FS_Product DEF HttpCalls
<1> QED
  BY <1>2, ClientsAssumption, FS_Union DEF Calls

LEMMA SubsetFinite ==
  ASSUME NEW S, S \subseteq Calls
  PROVE  IsFiniteSet(S) /\ Cardinality(S) \in Nat
<1>1. S \in SUBSET Calls
  OBVIOUS
<1> QED
  BY <1>1, CallsFinite, FS_Subset, FS_CardinalityType

\* The calls of a connection, and the connection of a call.
LEMMA CallOf ==
  /\ \A c \in HttpCalls : /\ c[1] \in Conns /\ c[2] \in 1 .. KeepAliveMax
                          /\ c = <<c[1], c[2]>> /\ c \in Calls
  /\ \A k \in Conns, i \in 1 .. KeepAliveMax :
       /\ <<k, i>> \in HttpCalls /\ <<k, i>> \in CallsOf(k) /\ <<k, i>> \in Calls
       /\ <<k, i>> \notin Rpcs
  /\ \A k \in Conns : \A c \in CallsOf(k) :
       c \in HttpCalls /\ c \in Calls /\ c[1] = k
  /\ \A c \in HttpCalls : c \in CallsOf(c[1]) /\ c \notin Rpcs
  BY RpcsAssumption DEF HttpCalls, Calls, CallsOf

\* The invariant taken apart.
LEMMA Parts ==
  FrontInv => /\ TypeOK /\ ConnectionsInOrder /\ EngineOnce /\ CallHistory
              /\ NobodyWaitsInVain /\ MetricsAgree
  BY DEF FrontInv

\* One step of the front ends, with what it is a step of.
LEMMA StepCases ==
  ASSUME Next, NEW P,
         \A k \in Conns : Connect(k) => P,
         \A k \in Conns, i \in 1 .. KeepAliveMax : Send(k, i) => P,
         \A r \in Rpcs : Call(r) => P,
         StartConnection => P,
         \A k \in Conns : Watch(k) => P,
         \A k \in Conns : HangUp(k) => P,
         \A k \in Conns, i \in 1 .. KeepAliveMax : Read(k, i) => P,
         \A c \in Calls : HandlerStep(c) => P,
         Admit => P,
         \A S \in SUBSET serving :
           \A v \in Service!Verdicts \ {"tokenization_failed"} :
             Complete(S, v) => P
  PROVE  P
  BY DEF Next, ClientStep, ConnectionStep, EngineStep

-----------------------------------------------------------------------------
(* Types. *)

\* The types but those of the metrics, which count calls.
Shapes ==
  /\ backlog \in Seq(Conns) /\ busy \subseteq Conns /\ closed \subseteq Conns
  /\ gate \in {"open", "closing", "closed"}
  /\ waiting \in Seq(Calls) /\ serving \subseteq Calls
  /\ verdict \in [Calls -> Service!Verdicts \cup {"none"}]
  /\ watched \subseteq busy
  /\ stage \in [Calls -> Stages]
  /\ status \in [Calls -> {"none", "ok", "limited", "failed"}]
  /\ allowed \in [Calls -> {"none", "yes", "no"}]

LEMMA ShapesInit == Init => Shapes
<1> SUFFICES ASSUME Init PROVE Shapes
  OBVIOUS
<1>1. backlog \in Seq(Conns) /\ waiting \in Seq(Calls)
  BY DEF Init, Pool!Init, Service!Init
<1> QED
  BY <1>1 DEF Init, Pool!Init, Service!Init, Shapes, Stages, Service!Verdicts

LEMMA ShapesHandler ==
  ASSUME TypeOK, ConnectionsInOrder, NEW c \in Calls, HandlerStep(c)
  PROVE  Shapes'
<1> USE DEF TypeOK, Shapes, Stages
<1>1. CASE Plain(c) \/ Malformed(c) \/ Limited(c) \/ Granted(c) \/ Unusable(c)
           \/ Begin(c) \/ Resume(c)
  BY <1>1 DEF Plain, Malformed, Limited, Granted, Unusable, Begin, Resume, Decide,
              Refused, poolVars, serviceVars
<1>2. CASE Enqueue(c)
  BY <1>2 DEF Enqueue, Service!Submit, poolVars
<1>3. CASE Reply(c) \/ ReplyFails(c)
  <2>1. c \in HttpCalls => InProgress(c) /\ c[1] \in busy \ watched
    BY <1>3, CallOf DEF Reply, ReplyFails, ConnectionsInOrder, InProgress
  <2> QED
    BY <1>3, <2>1, CallOf DEF Reply, ReplyFails, Pool!Finish, poolVars, serviceVars
<1> QED
  BY <1>1, <1>2, <1>3 DEF HandlerStep

LEMMA ShapesNext == FrontInv /\ [Next]_vars => Shapes'
<1> SUFFICES ASSUME FrontInv, [Next]_vars PROVE Shapes'
  OBVIOUS
<1>0. TypeOK /\ ConnectionsInOrder
  BY Parts
<1> USE DEF TypeOK, Shapes, Stages
<1>1. ASSUME NEW k \in Conns, Connect(k) PROVE Shapes'
  BY <1>0, <1>1 DEF Connect, Pool!Accept, serviceVars, callVars
<1>2. ASSUME NEW k \in Conns, NEW i \in 1 .. KeepAliveMax, Send(k, i) \/ Read(k, i)
      PROVE  Shapes'
  <2>1. <<k, i>> \in Calls
    BY CallOf
  <2> QED
    BY <1>0, <1>2, <2>1 DEF Send, Read, poolVars, serviceVars
<1>3. ASSUME NEW r \in Rpcs, Call(r) PROVE Shapes'
  BY <1>0, <1>3 DEF Call, Calls, poolVars, serviceVars
<1>4. CASE StartConnection
  BY <1>0, <1>4 DEF StartConnection, Pool!Start, serviceVars, callVars
<1>5. ASSUME NEW k \in Conns, Watch(k) PROVE Shapes'
  BY <1>0, <1>5 DEF Watch, poolVars, serviceVars, callVars
<1>6. ASSUME NEW k \in Conns, HangUp(k) PROVE Shapes'
  BY <1>0, <1>6 DEF HangUp, Unread, Pool!Finish, serviceVars
<1>7. CASE Admit
  <2>1. waiting # <<>> /\ Head(waiting) \in Calls /\ Tail(waiting) \in Seq(Calls)
    BY <1>0, <1>7 DEF Admit, Service!Start, Service!Reject
  <2>2. UNCHANGED <<poolVars, watched, callVars>> /\ waiting' = Tail(waiting)
    BY <1>7 DEF Admit, Service!Start, Service!Reject
  <2>3. serving' \subseteq Calls
    BY <1>0, <1>7, <2>1 DEF Admit, Service!Start, Service!Reject
  <2>4. verdict' \in [Calls -> Service!Verdicts \cup {"none"}]
    BY <1>0, <1>7, <2>1 DEF Admit, Service!Start, Service!Reject, Service!Verdicts
  <2> QED
    BY <1>0, <2>1, <2>2, <2>3, <2>4 DEF poolVars, callVars
<1>8. ASSUME NEW S \in SUBSET serving,
             NEW v \in Service!Verdicts \ {"tokenization_failed"}, Complete(S, v)
      PROVE  Shapes'
  BY <1>0, <1>8 DEF Complete, Service!Finish, poolVars, callVars
<1>9. CASE UNCHANGED vars
  BY <1>0, <1>9 DEF vars, poolVars, serviceVars, callVars
<1> QED
  BY <1>0, <1>1, <1>2, <1>3, <1>4, <1>5, <1>6, <1>7, <1>8, <1>9, ShapesHandler,
     StepCases

-----------------------------------------------------------------------------
(* Connections and their workers. *)

\* Two calls in progress on one connection are the same.
LEMMA OneAtATime ==
  ASSUME ConnectionsInOrder, NEW c \in HttpCalls, NEW d \in HttpCalls,
         InProgress(c), InProgress(d), c[1] = d[1]
  PROVE  c = d
<1>1. c[1] \in Conns /\ c = <<c[1], c[2]>> /\ d = <<c[1], d[2]>>
      /\ c[2] \in 1 .. KeepAliveMax /\ d[2] \in 1 .. KeepAliveMax
  BY CallOf
<1>2. stage[c] \notin {"new", "replied"} /\ stage[d] \notin {"new", "replied"}
  BY DEF InProgress
<1>3. ~(c[2] < d[2]) /\ ~(d[2] < c[2])
  BY <1>1, <1>2 DEF ConnectionsInOrder
<1> QED
  BY <1>1, <1>3, KeepAliveMaxAssumption

\* What a handler does to its call and its connection.
LEMMA HandlerMoves ==
  ASSUME TypeOK, NEW c \in Calls, HandlerStep(c)
  PROVE  /\ InProgress(c)
         /\ watched' = watched
         /\ stage'[c] # "new"
         /\ \A d \in Calls \ {c} : stage'[d] = stage[d]
         /\ \/ busy' = busy
            \/ c \in HttpCalls /\ busy' = busy \ {c[1]} /\ ~InProgress(c)'
<1>1. CASE Plain(c) \/ Malformed(c) \/ Limited(c) \/ Granted(c) \/ Unusable(c)
           \/ Begin(c) \/ Resume(c) \/ Enqueue(c)
  BY <1>1 DEF Plain, Malformed, Limited, Granted, Unusable, Begin, Resume, Decide,
              Enqueue, Refused, poolVars, serviceVars, InProgress, TypeOK
<1>2. CASE Reply(c) \/ ReplyFails(c)
  BY <1>2 DEF Reply, ReplyFails, Pool!Finish, poolVars, InProgress, TypeOK
<1> QED
  BY <1>1, <1>2 DEF HandlerStep

\* A step that sends nothing keeps the order of a connection's calls.
LEMMA OrderKept ==
  ASSUME ConnectionsInOrder,
         \A c \in HttpCalls : /\ stage[c] = "new" => stage'[c] = "new"
                              /\ stage[c] = "replied" => stage'[c] = "replied"
  PROVE  \A k \in Conns : \A i, j \in 1 .. KeepAliveMax :
           j < i /\ stage'[<<k, i>>] # "new" => stage'[<<k, j>>] = "replied"
  BY CallOf DEF ConnectionsInOrder

\* A step that begins no call keeps the workers of those in progress.
LEMMA HeldKept ==
  ASSUME ConnectionsInOrder, busy \subseteq busy', watched' \subseteq watched,
         \A c \in HttpCalls : InProgress(c)' => InProgress(c)
  PROVE  \A c \in HttpCalls : InProgress(c)' => c[1] \in busy' \ watched'
  BY DEF ConnectionsInOrder

LEMMA BusyFinite ==
  ASSUME busy \subseteq Conns
  PROVE  IsFiniteSet(busy) /\ Cardinality(busy) \in Nat
<1>1. busy \in SUBSET Conns
  OBVIOUS
<1> QED
  BY <1>1, ClientsAssumption, FS_Subset, FS_CardinalityType

\* A step that starts no connection keeps the number of busy workers.
LEMMA BusyKept ==
  ASSUME TypeOK, ConnectionsInOrder, busy' \subseteq busy
  PROVE  Cardinality(busy') <= MaxWorkers
<1>1. IsFiniteSet(busy) /\ Cardinality(busy) \in Nat
  BY BusyFinite DEF TypeOK
<1>2. busy' \in SUBSET busy
  OBVIOUS
<1>3. Cardinality(busy') <= Cardinality(busy) /\ Cardinality(busy') \in Nat
  BY <1>1, <1>2, FS_Subset, FS_CardinalityType
<1> QED
  BY <1>1, <1>3, WorkersAssumption DEF ConnectionsInOrder

\* The instances bring copies of Cardinality of their own.
LEMMA SameCardinality ==
  /\ Pool!Cardinality(busy) = Cardinality(busy)
  /\ Abstract!Pool!Cardinality(busy) = Cardinality(busy)
<1>1. Pool!Cardinality(busy) = Cardinality(busy)
  BY Zenon DEF Pool!Cardinality, Cardinality
<1>2. Abstract!Pool!Cardinality(busy) = Cardinality(busy)
  BY Zenon DEF Abstract!Pool!Cardinality, Cardinality
<1> QED
  BY <1>1, <1>2

LEMMA OrderNext == FrontInv /\ [Next]_vars => ConnectionsInOrder'
<1> SUFFICES ASSUME FrontInv, [Next]_vars PROVE ConnectionsInOrder'
  OBVIOUS
<1>0. TypeOK /\ ConnectionsInOrder
  BY Parts
<1>1. ASSUME UNCHANGED <<stage, watched>>, busy' = busy PROVE ConnectionsInOrder'
  <2>1. \A c \in HttpCalls : InProgress(c)' => InProgress(c)
    BY <1>1 DEF InProgress
  <2> QED
    BY <1>0, <1>1, <2>1, OrderKept, HeldKept, BusyKept DEF ConnectionsInOrder
<1>2. CASE StartConnection
  <2>1. UNCHANGED <<stage, watched>> /\ busy' = busy \cup {Head(backlog)}
        /\ Cardinality(busy) < MaxWorkers
    BY <1>2, SameCardinality DEF StartConnection, Pool!Start, callVars
  <2>2. IsFiniteSet(busy) /\ Cardinality(busy) \in Nat
    BY <1>0, BusyFinite DEF TypeOK
  <2>3. Cardinality(busy') <= MaxWorkers
    <3> DEFINE h == Head(backlog)
    <3>1. Cardinality(busy \cup {h}) =
            IF h \in busy THEN Cardinality(busy) ELSE Cardinality(busy) + 1
      BY <2>2, FS_AddElement
    <3> QED
      BY <2>1, <2>2, <3>1, WorkersAssumption
  <2>4. \A c \in HttpCalls : InProgress(c)' => InProgress(c)
    BY <2>1 DEF InProgress
  <2> QED
    BY <1>0, <2>1, <2>3, <2>4, OrderKept, HeldKept DEF ConnectionsInOrder
<1>3. ASSUME NEW k \in Conns, NEW i \in 1 .. KeepAliveMax, Send(k, i)
      PROVE  ConnectionsInOrder'
  <2>1. /\ stage[<<k, i>>] = "new" /\ stage'[<<k, i>>] = "sent"
        /\ i > 1 => stage[<<k, i - 1>>] = "replied"
        /\ \A c \in Calls : c # <<k, i>> => stage'[c] = stage[c]
        /\ busy' = busy /\ watched' = watched
    BY <1>0, <1>3, CallOf DEF Send, poolVars, TypeOK
  <2>2. \A l \in Conns : \A m, j \in 1 .. KeepAliveMax :
          j < m /\ stage'[<<l, m>>] # "new" => stage'[<<l, j>>] = "replied"
    <3> SUFFICES ASSUME NEW l \in Conns, NEW m \in 1 .. KeepAliveMax,
                        NEW j \in 1 .. KeepAliveMax, j < m,
                        stage'[<<l, m>>] # "new"
                 PROVE  stage'[<<l, j>>] = "replied"
      OBVIOUS
    <3>1. <<l, m>> \in Calls /\ <<l, j>> \in Calls
      BY CallOf
    <3>2. CASE <<l, m>> # <<k, i>>
      <4>1. stage[<<l, j>>] = "replied"
        BY <1>0, <2>1, <3>1, <3>2 DEF ConnectionsInOrder
      <4> QED
        BY <2>1, <3>1, <4>1
    <3>3. CASE <<l, m>> = <<k, i>>
      <4>1. l = k /\ m = i /\ i > 1 /\ i - 1 \in 1 .. KeepAliveMax
        BY <3>3, KeepAliveMaxAssumption
      <4>2. stage[<<k, i - 1>>] = "replied"
        BY <2>1, <4>1
      <4>3. stage[<<k, j>>] = "replied"
        <5>1. CASE j = i - 1
          BY <4>2, <5>1
        <5>2. CASE j < i - 1
          BY <1>0, <4>1, <4>2, <5>2 DEF ConnectionsInOrder
        <5> QED
          BY <4>1, <5>1, <5>2, KeepAliveMaxAssumption
      <4> QED
        BY <2>1, <3>1, <4>1, <4>3
    <3> QED
      BY <3>2, <3>3
  <2>3. \A c \in HttpCalls : InProgress(c)' => InProgress(c)
    BY <2>1, CallOf DEF InProgress
  <2> QED
    BY <1>0, <2>1, <2>2, <2>3, HeldKept, BusyKept DEF ConnectionsInOrder
<1>4. ASSUME NEW k \in Conns, NEW i \in 1 .. KeepAliveMax, Read(k, i)
      PROVE  ConnectionsInOrder'
  <2>1. /\ stage[<<k, i>>] = "sent" /\ stage'[<<k, i>>] = "read"
        /\ \A c \in Calls : c # <<k, i>> => stage'[c] = stage[c]
        /\ busy' = busy /\ watched' = watched \ {k} /\ k \in busy
    BY <1>0, <1>4, CallOf DEF Read, poolVars, TypeOK
  <2>2. \A c \in HttpCalls : InProgress(c)' => c[1] \in busy' \ watched'
    BY <1>0, <2>1, CallOf DEF InProgress, ConnectionsInOrder
  <2>3. \A c \in HttpCalls : /\ stage[c] = "new" => stage'[c] = "new"
                             /\ stage[c] = "replied" => stage'[c] = "replied"
    BY <2>1, CallOf
  <2> QED
    BY <1>0, <2>1, <2>2, <2>3, OrderKept, BusyKept DEF ConnectionsInOrder
<1>5. ASSUME NEW r \in Rpcs, Call(r) PROVE ConnectionsInOrder'
  <2>1. /\ \A c \in HttpCalls : stage'[c] = stage[c]
        /\ busy' = busy /\ watched' = watched
    BY <1>0, <1>5, CallOf DEF Call, poolVars, TypeOK
  <2>2. \A c \in HttpCalls : InProgress(c)' => InProgress(c)
    BY <2>1 DEF InProgress
  <2> QED
    BY <1>0, <2>1, <2>2, OrderKept, HeldKept, BusyKept DEF ConnectionsInOrder
<1>6. ASSUME NEW k \in Conns, Watch(k) PROVE ConnectionsInOrder'
  <2>1. /\ stage' = stage /\ busy' = busy /\ watched' = watched \cup {k}
        /\ \A c \in CallsOf(k) : ~InProgress(c)
    BY <1>6 DEF Watch, poolVars, callVars
  <2>2. \A c \in HttpCalls : InProgress(c)' => c[1] \in busy' \ watched'
    BY <1>0, <2>1, CallOf DEF InProgress, ConnectionsInOrder
  <2> QED
    BY <1>0, <2>1, <2>2, OrderKept, BusyKept DEF ConnectionsInOrder
<1>7. ASSUME NEW k \in Conns, HangUp(k) PROVE ConnectionsInOrder'
  <2>1. /\ k \in watched /\ busy' = busy \ {k} /\ watched' = watched \ {k}
        /\ \A c \in Calls :
             \/ stage'[c] = stage[c]
             \/ stage[c] = "sent" /\ stage'[c] = "lost"
    BY <1>7 DEF HangUp, Unread, MayHangUp, Pool!Finish
  <2>2. \A c \in HttpCalls : InProgress(c)' => c[1] \in busy' \ watched'
    <3>1. \A c \in HttpCalls : InProgress(c)' => InProgress(c)
      BY <2>1, CallOf DEF InProgress
    <3>2. \A c \in HttpCalls : InProgress(c) => c[1] \in busy \ watched
      BY <1>0 DEF ConnectionsInOrder
    <3> QED
      BY <2>1, <3>1, <3>2
  <2>3. \A c \in HttpCalls : /\ stage[c] = "new" => stage'[c] = "new"
                             /\ stage[c] = "replied" => stage'[c] = "replied"
    BY <2>1, CallOf
  <2> QED
    BY <1>0, <2>1, <2>2, <2>3, OrderKept, BusyKept DEF ConnectionsInOrder
<1>8. ASSUME NEW c \in Calls, HandlerStep(c) PROVE ConnectionsInOrder'
  <2>1. /\ InProgress(c) /\ watched' = watched /\ stage'[c] # "new"
        /\ \A d \in Calls \ {c} : stage'[d] = stage[d]
        /\ \/ busy' = busy
           \/ c \in HttpCalls /\ busy' = busy \ {c[1]} /\ ~InProgress(c)'
    BY <1>0, <1>8, HandlerMoves
  <2>2. \A d \in HttpCalls : InProgress(d)' => d[1] \in busy' \ watched'
    <3> SUFFICES ASSUME NEW d \in HttpCalls, InProgress(d)'
                 PROVE  d[1] \in busy' \ watched'
      OBVIOUS
    <3>1. InProgress(d)
      BY <2>1, CallOf DEF InProgress
    <3>2. d[1] \in busy \ watched
      BY <1>0, <3>1 DEF ConnectionsInOrder
    <3>3. busy' = busy \/ (c \in HttpCalls /\ busy' = busy \ {c[1]} /\ d # c)
      BY <2>1
    <3>4. c \in HttpCalls /\ d # c => d[1] # c[1]
      BY <1>0, <2>1, <3>1, OneAtATime
    <3> QED
      BY <2>1, <3>2, <3>3, <3>4
  <2>3. \A d \in HttpCalls : /\ stage[d] = "new" => stage'[d] = "new"
                             /\ stage[d] = "replied" => stage'[d] = "replied"
    BY <2>1, CallOf DEF InProgress
  <2>4. busy' \subseteq busy
    BY <2>1
  <2> QED
    BY <1>0, <2>2, <2>3, <2>4, OrderKept, BusyKept DEF ConnectionsInOrder
<1>9. ASSUME NEW k \in Conns, Connect(k) PROVE ConnectionsInOrder'
  BY <1>1, <1>9 DEF Connect, Pool!Accept, callVars
<1>10. CASE Admit
  BY <1>1, <1>10 DEF Admit, poolVars, callVars
<1>11. ASSUME NEW S \in SUBSET serving,
              NEW v \in Service!Verdicts \ {"tokenization_failed"}, Complete(S, v)
       PROVE  ConnectionsInOrder'
  BY <1>1, <1>11 DEF Complete, poolVars, callVars
<1>12. CASE UNCHANGED vars
  BY <1>1, <1>12 DEF vars, poolVars, callVars
<1> QED
  BY <1>2, <1>3, <1>4, <1>5, <1>6, <1>7, <1>8, <1>9, <1>10, <1>11, <1>12, StepCases

-----------------------------------------------------------------------------
(* The engine's queue and the history of calls. *)

InWaiting(c) == \E i \in DOMAIN waiting : waiting[i] = c

\* What is left of the queue without its head.
LEMMA Dequeued ==
  ASSUME TypeOK, EngineOnce, waiting # <<>>, waiting' = Tail(waiting)
  PROVE  /\ \A i, j \in DOMAIN waiting' : waiting'[i] = waiting'[j] => i = j
         /\ \A c : InWaiting(c)' => InWaiting(c) /\ c # Head(waiting)
         /\ InWaiting(Head(waiting)) /\ Head(waiting) \in Calls
         /\ Head(waiting) \notin serving
<1>1. /\ waiting \in Seq(Calls) /\ Len(waiting) \in Nat \ {0}
      /\ DOMAIN waiting = 1 .. Len(waiting)
      /\ DOMAIN waiting' = 1 .. (Len(waiting) - 1)
      /\ \A i \in DOMAIN waiting' : waiting'[i] = waiting[i + 1]
      /\ Head(waiting) = waiting[1]
  BY DEF TypeOK
<1> HIDE DEF TypeOK
<1>2. \A i \in DOMAIN waiting' : i + 1 \in DOMAIN waiting /\ i + 1 # 1 /\ i \in Nat
  BY <1>1
<1>3. 1 \in DOMAIN waiting /\ waiting[1] \in Calls
  BY <1>1
<1> QED
  BY <1>1, <1>2, <1>3 DEF EngineOnce, InWaiting

LEMMA Queued ==
  ASSUME TypeOK, NEW c, waiting' = Append(waiting, c)
  PROVE  /\ DOMAIN waiting' = DOMAIN waiting \cup {Len(waiting) + 1}
         /\ waiting'[Len(waiting) + 1] = c
         /\ \A i \in DOMAIN waiting : waiting'[i] = waiting[i] /\ i # Len(waiting) + 1
  BY DEF TypeOK

LEMMA OnceNext == FrontInv /\ [Next]_vars => EngineOnce'
<1> SUFFICES ASSUME FrontInv, [Next]_vars PROVE EngineOnce'
  OBVIOUS
<1>0. TypeOK /\ EngineOnce
  BY Parts
<1>1. ASSUME UNCHANGED <<waiting, serving>> PROVE EngineOnce'
  BY <1>0, <1>1 DEF EngineOnce
<1>2. ASSUME NEW c \in Calls, Enqueue(c) PROVE EngineOnce'
  <2>1. waiting' = Append(waiting, c) /\ serving' = serving /\ c \notin serving
        /\ \A i \in DOMAIN waiting : waiting[i] # c
    BY <1>2 DEF Enqueue, Service!Submit, Service!New
  <2> QED
    BY <1>0, <2>1, Queued DEF EngineOnce
<1>3. CASE Admit
  <2>1. /\ waiting # <<>> /\ waiting' = Tail(waiting)
        /\ serving' = serving \/ serving' = serving \cup {Head(waiting)}
    BY <1>3 DEF Admit, Service!Start, Service!Reject
  <2> QED
    BY <1>0, <2>1, Dequeued DEF EngineOnce, InWaiting
<1>4. ASSUME NEW S \in SUBSET serving,
             NEW v \in Service!Verdicts \ {"tokenization_failed"}, Complete(S, v)
      PROVE  EngineOnce'
  BY <1>0, <1>4 DEF Complete, Service!Finish, EngineOnce
<1>5. ASSUME NEW c \in Calls, HandlerStep(c) PROVE EngineOnce'
  BY <1>1, <1>2, <1>5
  DEF HandlerStep, Plain, Malformed, Limited, Granted, Unusable, Begin, Resume,
      Decide, Reply, ReplyFails, serviceVars
<1>6. ASSUME NEW k \in Conns, Connect(k) \/ Watch(k) \/ HangUp(k) PROVE EngineOnce'
  BY <1>1, <1>6 DEF Connect, Watch, HangUp, serviceVars
<1>7. ASSUME NEW k \in Conns, NEW i \in 1 .. KeepAliveMax, Send(k, i) \/ Read(k, i)
      PROVE  EngineOnce'
  BY <1>1, <1>7 DEF Send, Read, serviceVars
<1>8. ASSUME NEW r \in Rpcs, Call(r) PROVE EngineOnce'
  BY <1>1, <1>8 DEF Call, serviceVars
<1>9. CASE StartConnection \/ UNCHANGED vars
  BY <1>1, <1>9 DEF StartConnection, vars, serviceVars
<1> QED
  BY <1>3, <1>4, <1>5, <1>6, <1>7, <1>8, <1>9, StepCases

\* A step that concerns one call keeps the history of the others.
LEMMA OthersKept ==
  ASSUME CallHistory, NEW c \in Calls, History(c)',
         \A d \in Calls \ {c} :
           /\ stage'[d] = stage[d] /\ status'[d] = status[d]
           /\ verdict'[d] = verdict[d] /\ allowed'[d] = allowed[d]
           /\ InEngine(d)' => InEngine(d)
  PROVE  CallHistory'
<1> SUFFICES ASSUME NEW d \in Calls, d # c PROVE History(d)'
  BY DEF CallHistory
<1>1. History(d)
  BY DEF CallHistory
<1> QED
  BY <1>1 DEF History

LEMMA EngineKept ==
  ASSUME UNCHANGED serviceVars, NEW c
  PROVE  InEngine(c)' <=> InEngine(c)
  BY DEF serviceVars, InEngine

LEMMA HandlerHistory ==
  ASSUME TypeOK, CallHistory, NEW c \in Calls, HandlerStep(c)
  PROVE  CallHistory'
<1>0. History(c) /\ Endpoint[c] \in {"none", "plain", "infer", "chat"}
  BY EndpointAssumption DEF CallHistory
<1>1. CASE Plain(c) \/ Malformed(c) \/ Limited(c) \/ Granted(c) \/ Unusable(c)
           \/ Begin(c) \/ Resume(c) \/ Reply(c) \/ ReplyFails(c)
  <2>1. UNCHANGED serviceVars
    BY <1>1 DEF Plain, Malformed, Limited, Granted, Unusable, Begin, Resume, Decide,
                Reply, ReplyFails
  <2>2. \A d : InEngine(d)' <=> InEngine(d)
    BY <2>1, EngineKept
  <2>3. \A d \in Calls \ {c} :
          /\ stage'[d] = stage[d] /\ status'[d] = status[d]
          /\ verdict'[d] = verdict[d] /\ allowed'[d] = allowed[d]
    BY <1>1, <2>1
    DEF Plain, Malformed, Limited, Granted, Unusable, Begin, Resume, Decide,
        Reply, ReplyFails, serviceVars, TypeOK
  <2>4. History(c)'
    <3>1. CASE Plain(c) \/ Malformed(c) \/ Unusable(c)
      BY <1>0, <2>1, <2>2, <3>1
      DEF Plain, Malformed, Unusable, Decide, serviceVars, History, TypeOK
    <3>2. CASE Limited(c) \/ Granted(c)
      BY <1>0, <2>1, <2>2, <3>2
      DEF Limited, Granted, Refused, serviceVars, History, TypeOK
    <3>3. CASE Begin(c) \/ Reply(c) \/ ReplyFails(c)
      BY <1>0, <2>1, <2>2, <3>3
      DEF Begin, Reply, ReplyFails, serviceVars, History, TypeOK
    <3>4. CASE Resume(c)
      BY <1>0, <2>1, <2>2, <3>4
      DEF Resume, Decide, Result, serviceVars, History, TypeOK
    <3> QED
      BY <1>1, <3>1, <3>2, <3>3, <3>4
  <2> QED
    BY <2>2, <2>3, <2>4, OthersKept
<1>2. CASE Enqueue(c)
  <2>1. /\ stage[c] = "begun" /\ stage' = [stage EXCEPT ![c] = "blocked"]
        /\ waiting' = Append(waiting, c) /\ verdict[c] = "none"
        /\ UNCHANGED <<serving, verdict, status, allowed>>
    BY <1>2 DEF Enqueue, Service!Submit, Service!New
  <2>2. \A d \in Calls \ {c} : InEngine(d)' => InEngine(d)
    BY <2>1, Queued DEF InEngine
  <2>3. History(c)'
    BY <1>0, <2>1 DEF History, TypeOK
  <2> QED
    BY <2>1, <2>2, <2>3, OthersKept DEF TypeOK
<1> QED
  BY <1>1, <1>2 DEF HandlerStep

LEMMA HistoryNext == FrontInv /\ [Next]_vars => CallHistory'
<1> SUFFICES ASSUME FrontInv, [Next]_vars PROVE CallHistory'
  OBVIOUS
<1>0. TypeOK /\ EngineOnce /\ CallHistory
  BY Parts
<1>1. ASSUME UNCHANGED <<serviceVars, callVars>> PROVE CallHistory'
  <2>1. \A c : InEngine(c)' <=> InEngine(c)
    BY <1>1, EngineKept
  <2> QED
    BY <1>0, <1>1, <2>1 DEF CallHistory, History, serviceVars, callVars
<1>2. ASSUME NEW k \in Conns, NEW i \in 1 .. KeepAliveMax, Send(k, i) \/ Read(k, i)
      PROVE  CallHistory'
  <2> DEFINE c == <<k, i>>
  <2>0. c \in Calls
    BY CallOf
  <2> HIDE DEF c
  <2>1. /\ stage[c] \in {"new", "sent"} /\ UNCHANGED <<serviceVars, status, allowed>>
        /\ stage'[c] \in {"sent", "read"}
        /\ \A d \in Calls \ {c} : stage'[d] = stage[d]
    BY <1>0, <1>2, <2>0 DEF Send, Read, TypeOK, c
  <2>2. \A d : InEngine(d)' <=> InEngine(d)
    BY <2>1, EngineKept
  <2>3. History(c)'
    BY <1>0, <2>0, <2>1, <2>2 DEF CallHistory, History, serviceVars
  <2> QED
    BY <1>0, <2>0, <2>1, <2>2, <2>3, OthersKept DEF serviceVars
<1>3. ASSUME NEW r \in Rpcs, Call(r) PROVE CallHistory'
  <2>0. r \in Calls
    BY DEF Calls
  <2>1. /\ stage[r] = "new" /\ UNCHANGED <<serviceVars, status, allowed>>
        /\ stage'[r] = "read"
        /\ \A d \in Calls \ {r} : stage'[d] = stage[d]
    BY <1>0, <1>3, <2>0 DEF Call, TypeOK
  <2>2. \A d : InEngine(d)' <=> InEngine(d)
    BY <2>1, EngineKept
  <2>3. History(r)'
    BY <1>0, <2>0, <2>1, <2>2 DEF CallHistory, History, serviceVars
  <2> QED
    BY <1>0, <2>0, <2>1, <2>2, <2>3, OthersKept DEF serviceVars
<1>4. ASSUME NEW k \in Conns, HangUp(k) PROVE CallHistory'
  <2>1. /\ UNCHANGED <<serviceVars, status, allowed>>
        /\ \A d \in Calls :
             \/ stage'[d] = stage[d]
             \/ stage[d] = "sent" /\ stage'[d] = "lost"
    BY <1>4 DEF HangUp, Unread
  <2>2. \A d : InEngine(d)' <=> InEngine(d)
    BY <2>1, EngineKept
  <2> QED
    BY <1>0, <2>1, <2>2 DEF CallHistory, History, serviceVars
<1>5. CASE Admit
  <2>1. /\ waiting # <<>> /\ waiting' = Tail(waiting) /\ UNCHANGED callVars
        /\ \/ serving' = serving \cup {Head(waiting)} /\ verdict' = verdict
           \/ /\ serving' = serving
              /\ verdict' = [verdict EXCEPT ![Head(waiting)] = "tokenization_failed"]
    BY <1>5 DEF Admit, Service!Start, Service!Reject
  <2> PICK h \in Calls : h = Head(waiting)
    BY <1>0, <2>1, Dequeued
  <2>2. InEngine(h) /\ h \notin serving
        /\ \A c : InWaiting(c)' => InWaiting(c) /\ c # h
    BY <1>0, <2>1, Dequeued DEF InEngine, InWaiting
  <2>3. \A d \in Calls \ {h} : InEngine(d)' => InEngine(d)
    BY <2>1, <2>2 DEF InEngine, InWaiting
  <2>4. History(h)
    BY <1>0, <2>2 DEF CallHistory
  <2>5. History(h)'
    <3>1. stage[h] = "blocked" /\ allowed[h] = "yes" /\ status[h] = "none"
          /\ verdict[h] = "none"
      BY <2>2, <2>4 DEF History
    <3>2. stage'[h] = "blocked" /\ allowed'[h] = "yes" /\ status'[h] = "none"
      BY <2>1, <3>1 DEF callVars
    <3>3. InEngine(h)' => verdict'[h] = "none"
      BY <2>1, <2>2, <3>1 DEF InEngine, InWaiting
    <3> QED
      BY <3>2, <3>3 DEF History
  <2>6. \A d \in Calls \ {h} : verdict'[d] = verdict[d]
    BY <1>0, <2>1 DEF TypeOK
  <2> QED
    BY <1>0, <2>1, <2>2, <2>3, <2>5, <2>6, OthersKept DEF callVars
<1>6. ASSUME NEW S \in SUBSET serving,
             NEW v \in Service!Verdicts \ {"tokenization_failed"}, Complete(S, v)
      PROVE  CallHistory'
  <2>1. /\ S \subseteq serving /\ serving' = serving \ S /\ waiting' = waiting
        /\ verdict' = [c \in Calls |-> IF c \in S THEN v ELSE verdict[c]]
        /\ UNCHANGED callVars
    BY <1>6 DEF Complete, Service!Finish
  <2>2. ASSUME NEW c \in Calls PROVE History(c)'
    <3>1. History(c)
      BY <1>0 DEF CallHistory
    <3>2. CASE c \in S
      <4>1. stage[c] = "blocked" /\ allowed[c] = "yes" /\ status[c] = "none"
        BY <2>1, <3>1, <3>2 DEF History, InEngine
      <4>2. ~InEngine(c)'
        BY <1>0, <2>1, <3>2 DEF InEngine, EngineOnce
      <4> QED
        BY <2>1, <4>1, <4>2 DEF History, callVars
    <3>3. CASE c \notin S
      <4>1. verdict'[c] = verdict[c] /\ (InEngine(c)' => InEngine(c))
        BY <2>1, <3>3 DEF InEngine
      <4> QED
        BY <2>1, <3>1, <4>1 DEF History, callVars
    <3> QED
      BY <3>2, <3>3
  <2> QED
    BY <2>2 DEF CallHistory
<1>7. ASSUME NEW c \in Calls, HandlerStep(c) PROVE CallHistory'
  BY <1>0, <1>7, HandlerHistory
<1>8. ASSUME NEW k \in Conns, Connect(k) \/ Watch(k) PROVE CallHistory'
  BY <1>1, <1>8 DEF Connect, Watch
<1>9. CASE StartConnection \/ UNCHANGED vars
  BY <1>1, <1>9 DEF StartConnection, vars
<1> QED
  BY <1>2, <1>3, <1>4, <1>5, <1>6, <1>7, <1>8, <1>9, StepCases

-----------------------------------------------------------------------------
(* Nobody waits in vain. *)

InBacklog(k) == \E j \in DOMAIN backlog : backlog[j] = k

LEMMA AwaitedAre ==
  NobodyWaitsInVain <=>
    /\ \A c \in Calls : stage[c] = "blocked" => InEngine(c) \/ verdict[c] # "none"
    /\ \A c \in HttpCalls : stage[c] = "sent" => c[1] \in busy \/ InBacklog(c[1])
  BY DEF NobodyWaitsInVain, InBacklog

LEMMA AwaitedWillBe ==
  NobodyWaitsInVain' <=>
    /\ \A c \in Calls : stage'[c] = "blocked" => InEngine(c)' \/ verdict'[c] # "none"
    /\ \A c \in HttpCalls : stage'[c] = "sent" => c[1] \in busy' \/ InBacklog(c[1])'
  BY DEF NobodyWaitsInVain, InBacklog

\* A step that blocks no handler and answers no call keeps the blocked ones' hope.
LEMMA BlockedKept ==
  ASSUME NobodyWaitsInVain, UNCHANGED serviceVars,
         \A c \in Calls : stage'[c] = "blocked" => stage[c] = "blocked"
  PROVE  \A c \in Calls : stage'[c] = "blocked" => InEngine(c)' \/ verdict'[c] # "none"
  BY EngineKept DEF NobodyWaitsInVain, serviceVars

\* A step that sends nothing, and leaves the pool alone.
LEMMA SentKept ==
  ASSUME NobodyWaitsInVain, UNCHANGED poolVars,
         \A c \in HttpCalls : stage'[c] = "sent" => stage[c] = "sent"
  PROVE  \A c \in HttpCalls : stage'[c] = "sent" => c[1] \in busy' \/ InBacklog(c[1])'
  BY DEF NobodyWaitsInVain, poolVars, InBacklog

LEMMA HandlerAwaits ==
  ASSUME TypeOK, ConnectionsInOrder, NobodyWaitsInVain, NEW c \in Calls, HandlerStep(c)
  PROVE  NobodyWaitsInVain'
<1>1. CASE Plain(c) \/ Malformed(c) \/ Limited(c) \/ Granted(c) \/ Unusable(c)
           \/ Begin(c) \/ Resume(c)
  <2>1. /\ UNCHANGED <<serviceVars, poolVars>>
        /\ \A d \in Calls : stage'[d] = stage[d] \/ stage'[d] \notin {"blocked", "sent"}
    BY <1>1 DEF Plain, Malformed, Limited, Granted, Unusable, Begin, Resume, Decide,
                Refused, TypeOK
  <2> QED
    BY <2>1, BlockedKept, SentKept, AwaitedWillBe, CallOf
<1>2. CASE Enqueue(c)
  <2>1. /\ waiting' = Append(waiting, c) /\ UNCHANGED <<serving, verdict, poolVars>>
        /\ stage' = [stage EXCEPT ![c] = "blocked"]
    BY <1>2 DEF Enqueue, Service!Submit
  <2>2. InEngine(c)' /\ \A d : InEngine(d) => InEngine(d)'
    BY <2>1, Queued DEF InEngine
  <2>3. \A d \in Calls : stage'[d] = "blocked" => InEngine(d)' \/ verdict'[d] # "none"
    BY <2>1, <2>2 DEF NobodyWaitsInVain, TypeOK
  <2>4. \A d \in HttpCalls : stage'[d] = "sent" => stage[d] = "sent"
    BY <2>1, CallOf DEF TypeOK
  <2> QED
    BY <2>1, <2>3, <2>4, SentKept, AwaitedWillBe
<1>3. CASE Reply(c) \/ ReplyFails(c)
  <2>1. /\ UNCHANGED <<serviceVars, backlog>> /\ stage[c] = "answered"
        /\ \A d \in Calls : stage'[d] = stage[d] \/ stage'[d] \notin {"blocked", "sent"}
        /\ busy' = busy \/ (c \in HttpCalls /\ busy' = busy \ {c[1]})
    BY <1>3 DEF Reply, ReplyFails, Pool!Finish, poolVars, TypeOK
  <2>2. ASSUME NEW d \in HttpCalls, stage'[d] = "sent"
        PROVE  d[1] \in busy' \/ InBacklog(d[1])'
    <3>1. stage[d] = "sent" /\ (d[1] \in busy \/ InBacklog(d[1]))
      BY <2>1, <2>2, CallOf DEF NobodyWaitsInVain, InBacklog
    <3>2. InBacklog(d[1])' <=> InBacklog(d[1])
      BY <2>1 DEF InBacklog
    <3>3. c \in HttpCalls => d[1] # c[1]
      <4> SUFFICES ASSUME c \in HttpCalls, d[1] = c[1] PROVE FALSE
        OBVIOUS
      <4>1. /\ c[1] \in Conns /\ c = <<c[1], c[2]>> /\ d = <<c[1], d[2]>>
            /\ c[2] \in 1 .. KeepAliveMax /\ d[2] \in 1 .. KeepAliveMax
        BY CallOf
      <4>2. ~(c[2] < d[2]) /\ ~(d[2] < c[2])
        BY <2>1, <3>1, <4>1 DEF ConnectionsInOrder
      <4>3. c = d
        BY <4>1, <4>2, KeepAliveMaxAssumption
      <4> QED
        BY <2>1, <3>1, <4>3
    <3> QED
      BY <2>1, <3>1, <3>2, <3>3
  <2> QED
    BY <2>1, <2>2, BlockedKept, AwaitedWillBe
<1> QED
  BY <1>1, <1>2, <1>3 DEF HandlerStep

LEMMA AwaitedNext == FrontInv /\ [Next]_vars => NobodyWaitsInVain'
<1> SUFFICES ASSUME FrontInv, [Next]_vars PROVE NobodyWaitsInVain'
  OBVIOUS
<1>0. TypeOK /\ ConnectionsInOrder /\ EngineOnce /\ CallHistory /\ NobodyWaitsInVain
  BY Parts
<1>1. ASSUME UNCHANGED <<poolVars, serviceVars, stage>> PROVE NobodyWaitsInVain'
  BY <1>0, <1>1, BlockedKept, SentKept, AwaitedWillBe
<1>2. ASSUME UNCHANGED <<serviceVars, stage>>, busy \subseteq busy',
             \A k : InBacklog(k) => InBacklog(k)' \/ k \in busy'
      PROVE  NobodyWaitsInVain'
  <2>1. \A c \in HttpCalls : stage'[c] = "sent" => c[1] \in busy' \/ InBacklog(c[1])'
    BY <1>0, <1>2, AwaitedAre
  <2> QED
    BY <1>0, <1>2, <2>1, BlockedKept, AwaitedWillBe
<1>3. ASSUME NEW k \in Conns, Connect(k) PROVE NobodyWaitsInVain'
  <2>1. /\ backlog' = Append(backlog, k) /\ busy' = busy
        /\ UNCHANGED <<serviceVars, stage>> /\ backlog \in Seq(Conns)
    BY <1>0, <1>3 DEF Connect, Pool!Accept, callVars, TypeOK
  <2>2. \A l : InBacklog(l) => InBacklog(l)'
    BY <2>1 DEF InBacklog
  <2> QED
    BY <1>2, <2>1, <2>2
<1>4. CASE StartConnection
  <2>1. /\ backlog # <<>> /\ backlog' = Tail(backlog)
        /\ busy' = busy \cup {Head(backlog)}
        /\ UNCHANGED <<serviceVars, stage>> /\ backlog \in Seq(Conns)
    BY <1>0, <1>4 DEF StartConnection, Pool!Start, callVars, TypeOK
  <2>2. \A l : InBacklog(l) => InBacklog(l)' \/ l \in busy'
    <3> SUFFICES ASSUME NEW l, NEW j \in DOMAIN backlog, backlog[j] = l
                 PROVE  InBacklog(l)' \/ l \in busy'
      BY DEF InBacklog
    <3>1. /\ DOMAIN backlog = 1 .. Len(backlog) /\ Len(backlog) \in Nat
          /\ Head(backlog) = backlog[1] /\ DOMAIN backlog' = 1 .. Len(backlog) - 1
          /\ \A i \in DOMAIN backlog' : backlog'[i] = backlog[i + 1]
      BY <2>1
    <3>2. CASE j = 1
      BY <2>1, <3>1, <3>2
    <3>3. CASE j # 1
      <4>1. j - 1 \in DOMAIN backlog' /\ backlog'[j - 1] = l
        BY <3>1, <3>3
      <4> QED
        BY <4>1 DEF InBacklog
    <3> QED
      BY <3>2, <3>3
  <2> QED
    BY <1>2, <2>1, <2>2
<1>5. ASSUME NEW k \in Conns, NEW i \in 1 .. KeepAliveMax, Send(k, i)
      PROVE  NobodyWaitsInVain'
  <2> DEFINE q == <<k, i>>
  <2>0. q \in HttpCalls /\ q \in Calls /\ q[1] = k
    BY CallOf
  <2>1. /\ UNCHANGED <<poolVars, serviceVars>> /\ (k \in busy \/ InBacklog(k))
        /\ stage' = [stage EXCEPT ![q] = "sent"]
    BY <1>5 DEF Send, InBacklog
  <2> HIDE DEF q
  <2>2. \A c \in Calls : stage'[c] = "blocked" => stage[c] = "blocked"
    BY <1>0, <2>0, <2>1 DEF TypeOK
  <2>3. \A c \in HttpCalls : c # q => stage'[c] = stage[c]
    BY <1>0, <2>1, CallOf DEF TypeOK
  <2>4. \A c : (c \in busy' <=> c \in busy) /\ (InBacklog(c)' <=> InBacklog(c))
    BY <2>1 DEF poolVars, InBacklog
  <2>5. \A c \in HttpCalls : stage'[c] = "sent" => c[1] \in busy' \/ InBacklog(c[1])'
    BY <1>0, <2>0, <2>1, <2>3, <2>4, AwaitedAre
  <2> QED
    BY <1>0, <2>1, <2>2, <2>5, BlockedKept, AwaitedWillBe
<1>6. ASSUME NEW k \in Conns, NEW i \in 1 .. KeepAliveMax, Read(k, i)
      PROVE  NobodyWaitsInVain'
  <2>1. /\ UNCHANGED <<poolVars, serviceVars>>
        /\ \A c \in Calls : stage'[c] = stage[c] \/ stage'[c] = "read"
    BY <1>0, <1>6 DEF Read, TypeOK
  <2> QED
    BY <1>0, <2>1, BlockedKept, SentKept, AwaitedWillBe, CallOf
<1>7. ASSUME NEW r \in Rpcs, Call(r) PROVE NobodyWaitsInVain'
  <2>1. /\ UNCHANGED <<poolVars, serviceVars>>
        /\ \A c \in Calls : stage'[c] = stage[c] \/ stage'[c] = "read"
    BY <1>0, <1>7 DEF Call, TypeOK
  <2> QED
    BY <1>0, <2>1, BlockedKept, SentKept, AwaitedWillBe, CallOf
<1>8. ASSUME NEW k \in Conns, HangUp(k) PROVE NobodyWaitsInVain'
  <2>1. /\ UNCHANGED <<backlog, serviceVars>> /\ busy' = busy \ {k}
        /\ stage' = [c \in Calls |-> IF c \in CallsOf(k) /\ stage[c] = "sent"
                                       THEN "lost" ELSE stage[c]]
    BY <1>8 DEF HangUp, Unread, Pool!Finish
  <2>2. \A c \in Calls : stage'[c] = "blocked" => stage[c] = "blocked"
    BY <2>1
  <2>3. \A c \in HttpCalls : stage'[c] = "sent" => stage[c] = "sent" /\ c[1] # k
    BY <2>1, CallOf
  <2>4. \A c \in HttpCalls : stage'[c] = "sent" => c[1] \in busy' \/ InBacklog(c[1])'
    BY <1>0, <2>1, <2>3, AwaitedAre DEF InBacklog
  <2> QED
    BY <1>0, <2>1, <2>2, <2>4, BlockedKept, AwaitedWillBe
<1>9. CASE Admit
  <2>1. /\ waiting # <<>> /\ waiting' = Tail(waiting) /\ UNCHANGED <<poolVars, stage>>
        /\ \/ serving' = serving \cup {Head(waiting)} /\ verdict' = verdict
           \/ /\ serving' = serving
              /\ verdict' = [verdict EXCEPT ![Head(waiting)] = "tokenization_failed"]
    BY <1>9 DEF Admit, Service!Start, Service!Reject, callVars
  <2>2. \A c : InWaiting(c) => InWaiting(c)' \/ c = Head(waiting)
    <3>1. /\ Len(waiting) \in Nat /\ DOMAIN waiting = 1 .. Len(waiting)
          /\ DOMAIN waiting' = 1 .. (Len(waiting) - 1)
          /\ \A i \in DOMAIN waiting' : waiting'[i] = waiting[i + 1]
          /\ Head(waiting) = waiting[1]
      BY <1>0, <2>1 DEF TypeOK
    <3>2. ASSUME NEW j \in DOMAIN waiting, j # 1
          PROVE  j - 1 \in DOMAIN waiting' /\ waiting'[j - 1] = waiting[j]
      BY <3>1, <3>2
    <3> QED
      BY <3>1, <3>2 DEF InWaiting
  <2>3. \A c \in Calls : InEngine(c) => InEngine(c)' \/ verdict'[c] # "none"
    BY <1>0, <2>1, <2>2 DEF InEngine, InWaiting, TypeOK
  <2>4. \A c \in Calls : verdict[c] # "none" => verdict'[c] # "none"
    BY <1>0, <2>1 DEF TypeOK
  <2> QED
    BY <1>0, <2>1, <2>3, <2>4, SentKept, AwaitedAre, AwaitedWillBe
<1>10. ASSUME NEW S \in SUBSET serving,
              NEW v \in Service!Verdicts \ {"tokenization_failed"}, Complete(S, v)
       PROVE  NobodyWaitsInVain'
  <2>1. /\ serving' = serving \ S /\ waiting' = waiting /\ UNCHANGED <<poolVars, stage>>
        /\ verdict' = [c \in Calls |-> IF c \in S THEN v ELSE verdict[c]]
        /\ v # "none"
    BY <1>10 DEF Complete, Service!Finish, callVars, Service!Verdicts
  <2>2. \A c \in Calls : InEngine(c) => InEngine(c)' \/ verdict'[c] # "none"
    BY <2>1 DEF InEngine
  <2>3. \A c \in Calls : verdict[c] # "none" => verdict'[c] # "none"
    BY <2>1
  <2> QED
    BY <1>0, <2>1, <2>2, <2>3, SentKept, AwaitedAre, AwaitedWillBe
<1>11. ASSUME NEW c \in Calls, HandlerStep(c) PROVE NobodyWaitsInVain'
  BY <1>0, <1>11, HandlerAwaits
<1>12. ASSUME NEW k \in Conns, Watch(k) PROVE NobodyWaitsInVain'
  BY <1>1, <1>12 DEF Watch, callVars
<1>13. CASE UNCHANGED vars
  BY <1>1, <1>13 DEF vars, callVars
<1> QED
  BY <1>3, <1>4, <1>5, <1>6, <1>7, <1>8, <1>9, <1>10, <1>11, <1>12, <1>13, StepCases

-----------------------------------------------------------------------------
(* The metrics. *)

LimitedCalls == {c \in Calls : status[c] = "limited"}
Counted      == {c \in HttpCalls : c \in Dispatched \/ verdict[c] # "none"}
Answered     == {c \in Calls : verdict[c] \notin {"none", "tokenization_failed"}}

LEMMA MetricsAre ==
  MetricsAgree <=> /\ queue_depth = Cardinality(Dispatched)
                   /\ requests_rate_limited = Cardinality(LimitedCalls)
                   /\ requests_total = Cardinality(Counted) + Cardinality(Answered)
  BY DEF MetricsAgree, TotalsExplained, LimitedCalls, Counted, Answered

LEMMA MetricsWillBe ==
  MetricsAgree' <=> /\ queue_depth' = Cardinality(Dispatched')
                    /\ requests_rate_limited' = Cardinality(LimitedCalls')
                    /\ requests_total' = Cardinality(Counted') + Cardinality(Answered')
  BY DEF MetricsAgree, TotalsExplained, LimitedCalls, Counted, Answered

LEMMA SetsFinite ==
  /\ IsFiniteSet(Dispatched) /\ Cardinality(Dispatched) \in Nat
  /\ IsFiniteSet(LimitedCalls) /\ Cardinality(LimitedCalls) \in Nat
  /\ IsFiniteSet(Counted) /\ Cardinality(Counted) \in Nat
  /\ IsFiniteSet(Answered) /\ Cardinality(Answered) \in Nat
<1>1. Dispatched \subseteq Calls /\ LimitedCalls \subseteq Calls
      /\ Counted \subseteq Calls /\ Answered \subseteq Calls
  BY DEF Dispatched, LimitedCalls, Counted, Answered, Calls
<1> QED
  BY <1>1, SubsetFinite

SameSets == /\ Dispatched' = Dispatched /\ LimitedCalls' = LimitedCalls
            /\ Counted' = Counted /\ Answered' = Answered

LEMMA MetricsKept ==
  ASSUME MetricsAgree, SameSets, UNCHANGED metricVars
  PROVE  MetricsAgree'
  BY MetricsAre, MetricsWillBe DEF SameSets, metricVars

\* No call enters or leaves a set by a step that says nothing of its membership.
LEMMA SetsKept ==
  ASSUME \A c \in Calls :
           /\ stage'[c] \in {"begun", "blocked"} <=> stage[c] \in {"begun", "blocked"}
           /\ status'[c] = "limited" <=> status[c] = "limited",
         verdict' = verdict
  PROVE  SameSets
<1>1. Dispatched' = Dispatched /\ LimitedCalls' = LimitedCalls
  BY DEF Dispatched, LimitedCalls
<1> QED
  BY <1>1 DEF Counted, Answered, SameSets

LEMMA HandlerMetrics ==
  ASSUME FrontInv, NEW c \in Calls, HandlerStep(c)
  PROVE  MetricsAgree'
<1>0. TypeOK /\ MetricsAgree /\ History(c)
  BY Parts DEF CallHistory
<1>1. CASE Plain(c) \/ Malformed(c) \/ Granted(c) \/ Unusable(c) \/ Enqueue(c)
           \/ Reply(c) \/ ReplyFails(c)
  <2>1. UNCHANGED <<metricVars, verdict>>
    BY <1>1 DEF Plain, Malformed, Granted, Unusable, Decide, Enqueue,
                Service!Submit, Reply, ReplyFails, serviceVars
  <2>2. \A d \in Calls :
          /\ stage'[d] \in {"begun", "blocked"} <=> stage[d] \in {"begun", "blocked"}
          /\ status'[d] = "limited" <=> status[d] = "limited"
    BY <1>0, <1>1
    DEF Plain, Malformed, Granted, Unusable, Decide, Enqueue, Reply, ReplyFails,
        History, TypeOK
  <2> QED
    BY <1>0, <2>1, <2>2, SetsKept, MetricsKept
<1>2. CASE Limited(c)
  <2>1. /\ c \notin LimitedCalls /\ LimitedCalls' = LimitedCalls \cup {c}
        /\ Dispatched' = Dispatched /\ verdict' = verdict
        /\ requests_rate_limited' = requests_rate_limited + 1
        /\ UNCHANGED <<requests_total, queue_depth>>
    BY <1>0, <1>2
    DEF Limited, Refused, serviceVars, History, TypeOK, LimitedCalls, Dispatched
  <2>2. Counted' = Counted /\ Answered' = Answered
    BY <2>1 DEF Counted, Answered
  <2>3. Cardinality(LimitedCalls') = Cardinality(LimitedCalls) + 1
    BY <2>1, SetsFinite, FS_AddElement
  <2> QED
    BY <1>0, <2>1, <2>2, <2>3, MetricsAre, MetricsWillBe
<1>3. CASE Begin(c)
  <2>1. /\ c \notin Dispatched /\ Dispatched' = Dispatched \cup {c}
        /\ UNCHANGED <<status, verdict, requests_rate_limited>>
        /\ verdict[c] = "none"
        /\ requests_total' = requests_total + CountedHere(c)
        /\ queue_depth' = queue_depth + 1
    BY <1>0, <1>3
    DEF Begin, DepthBefore, serviceVars, History, TypeOK, Dispatched
  <2>2. LimitedCalls' = LimitedCalls /\ Answered' = Answered
    BY <2>1 DEF LimitedCalls, Answered
  <2>3. Cardinality(Dispatched') = Cardinality(Dispatched) + 1
    BY <2>1, SetsFinite, FS_AddElement
  <2>4. Cardinality(Counted') = Cardinality(Counted) + CountedHere(c)
    <3>1. CASE c \in HttpCalls
      <4>1. c \notin Counted /\ Counted' = Counted \cup {c}
        BY <2>1, <3>1 DEF Counted
      <4> QED
        BY <3>1, <4>1, SetsFinite, FS_AddElement DEF CountedHere
    <3>2. CASE c \notin HttpCalls
      <4>1. Counted' = Counted
        BY <2>1, <3>2 DEF Counted
      <4> QED
        BY <3>2, <4>1, SetsFinite DEF CountedHere
    <3> QED
      BY <3>1, <3>2
  <2>5. CountedHere(c) \in Nat
    BY DEF CountedHere
  <2> QED
    BY <1>0, <2>1, <2>2, <2>3, <2>4, <2>5, SetsFinite, MetricsAre, MetricsWillBe
<1>4. CASE Resume(c)
  <2>1. /\ c \in Dispatched /\ Dispatched' = Dispatched \ {c}
        /\ UNCHANGED <<verdict, requests_rate_limited, requests_total>>
        /\ verdict[c] # "none" /\ LimitedCalls' = LimitedCalls
        /\ queue_depth' = queue_depth - 1
    BY <1>0, <1>4
    DEF Resume, Result, Decide, serviceVars, History, TypeOK, Dispatched, LimitedCalls
  <2>2. Counted' = Counted /\ Answered' = Answered
    BY <2>1 DEF Counted, Answered
  <2>3. Cardinality(Dispatched') = Cardinality(Dispatched) - 1
    BY <2>1, SetsFinite, FS_RemoveElement
  <2> QED
    BY <1>0, <2>1, <2>2, <2>3, SetsFinite, MetricsAre, MetricsWillBe
<1> QED
  BY <1>1, <1>2, <1>3, <1>4 DEF HandlerStep

LEMMA MetricsNext == FrontInv /\ [Next]_vars => MetricsAgree'
<1> SUFFICES ASSUME FrontInv, [Next]_vars PROVE MetricsAgree'
  OBVIOUS
<1>0. TypeOK /\ EngineOnce /\ CallHistory /\ MetricsAgree
  BY Parts
<1>1. ASSUME UNCHANGED <<stage, status, verdict, metricVars>> PROVE MetricsAgree'
  <2>1. SameSets
    BY <1>1, SetsKept
  <2> QED
    BY <1>0, <1>1, <2>1, MetricsKept
<1>2. ASSUME NEW k \in Conns, NEW i \in 1 .. KeepAliveMax, Send(k, i) \/ Read(k, i)
      PROVE  MetricsAgree'
  <2>1. \A d \in Calls :
          stage'[d] \in {"begun", "blocked"} <=> stage[d] \in {"begun", "blocked"}
    BY <1>0, <1>2 DEF Send, Read, TypeOK
  <2>2. UNCHANGED <<status, verdict, metricVars>>
    BY <1>2 DEF Send, Read, serviceVars
  <2> QED
    BY <1>0, <2>1, <2>2, SetsKept, MetricsKept
<1>3. ASSUME NEW r \in Rpcs, Call(r) PROVE MetricsAgree'
  <2>1. \A d \in Calls :
          stage'[d] \in {"begun", "blocked"} <=> stage[d] \in {"begun", "blocked"}
    BY <1>0, <1>3 DEF Call, TypeOK
  <2>2. UNCHANGED <<status, verdict, metricVars>>
    BY <1>3 DEF Call, serviceVars
  <2> QED
    BY <1>0, <2>1, <2>2, SetsKept, MetricsKept
<1>4. ASSUME NEW k \in Conns, HangUp(k) PROVE MetricsAgree'
  <2>1. \A d \in Calls :
          stage'[d] \in {"begun", "blocked"} <=> stage[d] \in {"begun", "blocked"}
    BY <1>0, <1>4 DEF HangUp, Unread, TypeOK
  <2>2. UNCHANGED <<status, verdict, metricVars>>
    BY <1>4 DEF HangUp, serviceVars
  <2> QED
    BY <1>0, <2>1, <2>2, SetsKept, MetricsKept
<1>5. CASE Admit
  <2>1. /\ UNCHANGED <<callVars, metricVars>>
        /\ \/ verdict' = verdict
           \/ /\ waiting # <<>> /\ waiting' = Tail(waiting)
              /\ verdict' = [verdict EXCEPT ![Head(waiting)] = "tokenization_failed"]
    BY <1>5 DEF Admit, Service!Start, Service!Reject
  <2>2. CASE verdict' = verdict
    BY <1>1, <2>1, <2>2 DEF callVars
  <2>3. CASE verdict' # verdict
    <3>1. PICK h \in Calls : h = Head(waiting)
      BY <1>0, <2>1, <2>3, Dequeued
    <3>2. stage[h] = "blocked" /\ verdict[h] = "none"
      BY <1>0, <2>1, <2>3, <3>1, Dequeued DEF CallHistory, History, InEngine, InWaiting
    <3>3. \A d \in Calls \ {h} : verdict'[d] = verdict[d]
      BY <1>0, <2>1, <2>3, <3>1 DEF TypeOK
    <3>4. verdict'[h] = "tokenization_failed"
      BY <1>0, <2>1, <2>3, <3>1 DEF TypeOK
    <3>5. Dispatched' = Dispatched /\ LimitedCalls' = LimitedCalls /\ h \in Dispatched
      BY <2>1, <3>2 DEF Dispatched, LimitedCalls, callVars
    <3>6. Counted' = Counted
      BY <3>3, <3>5, CallOf DEF Counted
    <3>7. Answered' = Answered
      BY <3>2, <3>3, <3>4 DEF Answered
    <3> QED
      BY <1>0, <2>1, <3>5, <3>6, <3>7, MetricsKept DEF SameSets
  <2> QED
    BY <2>2, <2>3
<1>6. ASSUME NEW S \in SUBSET serving,
             NEW v \in Service!Verdicts \ {"tokenization_failed"}, Complete(S, v)
      PROVE  MetricsAgree'
  <2>1. /\ verdict' = [c \in Calls |-> IF c \in S THEN v ELSE verdict[c]]
        /\ UNCHANGED <<callVars, requests_rate_limited, queue_depth>>
        /\ requests_total' = requests_total + Cardinality(S)
    BY <1>6 DEF Complete, Service!Finish
  <2>2. S \subseteq Calls /\ \A c \in S : stage[c] = "blocked" /\ verdict[c] = "none"
    BY <1>0 DEF TypeOK, CallHistory, History, InEngine
  <2>3. v \notin {"none", "tokenization_failed"}
    BY DEF Service!Verdicts
  <2>4. Dispatched' = Dispatched /\ LimitedCalls' = LimitedCalls /\ S \subseteq Dispatched
    BY <2>1, <2>2 DEF Dispatched, LimitedCalls, callVars
  <2>5. Counted' = Counted
    BY <2>1, <2>3, <2>4, CallOf DEF Counted
  <2>6. Answered' = Answered \cup S /\ Answered \cap S = {}
    BY <2>1, <2>2, <2>3 DEF Answered
  <2>7. IsFiniteSet(S) /\ Cardinality(S) \in Nat
    BY <2>2, SubsetFinite
  <2>8. Cardinality(Answered') = Cardinality(Answered) + Cardinality(S)
    <3>1. Cardinality(Answered \cup S) =
            Cardinality(Answered) + Cardinality(S) - Cardinality(Answered \cap S)
      BY <2>7, SetsFinite, FS_Union
    <3>2. Cardinality(Answered \cap S) = 0
      BY <2>6, FS_EmptySet
    <3> QED
      BY <2>6, <2>7, <3>1, <3>2, SetsFinite
  <2> QED
    BY <1>0, <2>1, <2>4, <2>5, <2>7, <2>8, SetsFinite, MetricsAre, MetricsWillBe
<1>7. ASSUME NEW c \in Calls, HandlerStep(c) PROVE MetricsAgree'
  BY <1>7, HandlerMetrics
<1>8. ASSUME NEW k \in Conns, Connect(k) \/ Watch(k) PROVE MetricsAgree'
  BY <1>1, <1>8 DEF Connect, Watch, serviceVars, callVars
<1>9. CASE StartConnection \/ UNCHANGED vars
  BY <1>1, <1>9 DEF StartConnection, vars, serviceVars, callVars
<1> QED
  BY <1>2, <1>3, <1>4, <1>5, <1>6, <1>7, <1>8, <1>9, StepCases

-----------------------------------------------------------------------------
(* The invariant. *)

LEMMA InvInit == Init => FrontInv
<1> SUFFICES ASSUME Init PROVE FrontInv
  OBVIOUS
<1>1. Shapes
  BY ShapesInit
<1>2. busy = {} /\ watched = {} /\ waiting = <<>> /\ serving = {}
      /\ \A c \in Calls : /\ stage[c] = "new" /\ status[c] = "none"
                         /\ verdict[c] = "none" /\ allowed[c] = "none"
  BY DEF Init, Pool!Init, Service!Init
<1>3. ConnectionsInOrder
  <2>1. Cardinality(busy) <= MaxWorkers
    BY <1>2, FS_EmptySet, WorkersAssumption
  <2> QED
    BY <1>2, <2>1, CallOf DEF ConnectionsInOrder, InProgress
<1>4. EngineOnce
  BY <1>2 DEF EngineOnce
<1>5. CallHistory
  BY <1>2 DEF CallHistory, History, InEngine
<1>6. Dispatched = {} /\ LimitedCalls = {} /\ Counted = {} /\ Answered = {}
  BY <1>2, CallOf DEF Dispatched, LimitedCalls, Counted, Answered
<1>7. MetricsAgree
  BY <1>6, FS_EmptySet, MetricsAre DEF Init
<1>8. TypeOK
  BY <1>1 DEF Init, Shapes, TypeOK
<1>9. NobodyWaitsInVain
  BY <1>2, CallOf DEF NobodyWaitsInVain
<1> QED
  BY <1>3, <1>4, <1>5, <1>7, <1>8, <1>9 DEF FrontInv

LEMMA TypeNext == FrontInv /\ [Next]_vars => TypeOK'
<1> SUFFICES ASSUME FrontInv, [Next]_vars PROVE TypeOK'
  OBVIOUS
<1>1. Shapes' /\ MetricsAgree'
  BY ShapesNext, MetricsNext
<1>2. \A S : S \subseteq Calls => Cardinality(S) \in Nat
  BY SubsetFinite
<1>3. Dispatched' \subseteq Calls /\ LimitedCalls' \subseteq Calls
      /\ Counted' \subseteq Calls /\ Answered' \subseteq Calls
  BY CallOf DEF Dispatched, LimitedCalls, Counted, Answered
<1>4. requests_total' \in Nat /\ requests_rate_limited' \in Nat /\ queue_depth' \in Nat
  BY <1>1, <1>2, <1>3, MetricsWillBe
<1> QED
  BY <1>1, <1>4 DEF Shapes, TypeOK

\* Stages, connections, the engine's queue and the metrics agree in every
\* reachable state, however many connections, calls and threads there are
\* (server.cpp:54-157; grpc_server.cpp:24-101).
THEOREM FrontInvHolds == Spec => []FrontInv
<1>1. FrontInv /\ [Next]_vars => FrontInv'
  BY TypeNext, OrderNext, OnceNext, HistoryNext, AwaitedNext, MetricsNext DEF FrontInv
<1> QED
  BY InvInit, <1>1, PTL DEF Spec

-----------------------------------------------------------------------------
(* What follows from it. *)

LEMMA InProgressBounded ==
  ASSUME FrontInv
  PROVE  Cardinality({c \in HttpCalls : InProgress(c)}) <= MaxWorkers
<1> DEFINE P == {c \in HttpCalls : InProgress(c)}
           f == [c \in P |-> c[1]]
<1>1. TypeOK /\ ConnectionsInOrder
  BY Parts
<1>2. \A c \in P : c[1] \in busy
  BY <1>1 DEF ConnectionsInOrder
<1>3. \A c, d \in P : c[1] = d[1] => c = d
  BY <1>1, OneAtATime
<1>4. f \in Injection(P, busy)
  BY <1>2, <1>3 DEF Injection, IsInjective
<1>5. IsFiniteSet(busy) /\ Cardinality(busy) \in Nat /\ Cardinality(busy) <= MaxWorkers
  BY <1>1, BusyFinite DEF TypeOK, ConnectionsInOrder
<1> HIDE DEF P, f
<1>6. IsFiniteSet(P) /\ Cardinality(P) <= Cardinality(busy)
  BY <1>4, <1>5, FS_Injection
<1>7. Cardinality(P) \in Nat
  BY <1>6, FS_CardinalityType
<1> QED
  BY <1>5, <1>6, <1>7, WorkersAssumption DEF P

\* A call in progress on a connection has that connection's worker for itself
\* until it is over, and so httplib's thread limit bounds the HTTP requests in
\* the engine (server.cpp:34; httplib.h:5612).
THEOREM WorkersAreHeld == Spec => []CallsHoldWorkers
<1>1. FrontInv => CallsHoldWorkers
  <2> SUFFICES ASSUME FrontInv PROVE CallsHoldWorkers
    OBVIOUS
  <2>1. ConnectionsInOrder
    BY Parts
  <2>2. \A c \in HttpCalls : InProgress(c) => c[1] \in busy
    BY <2>1 DEF ConnectionsInOrder
  <2>3. \A c, d \in HttpCalls : InProgress(c) /\ InProgress(d) /\ c[1] = d[1] => c = d
    BY <2>1, OneAtATime
  <2> QED
    BY <2>2, <2>3, InProgressBounded DEF CallsHoldWorkers
<1> QED
  BY <1>1, FrontInvHolds, PTL

\* A call allow() refused never reaches the engine and keeps its 429, and what the
\* engine serves got a yes (server.cpp:62-86, 94-131; grpc_server.cpp:27-30, 45).
THEOREM RefusedAreNeverServed == Spec => []RefusedNeverServed
<1>1. FrontInv => RefusedNeverServed
  <2> SUFFICES ASSUME FrontInv, NEW c \in Calls
               PROVE  /\ allowed[c] = "no" <=> status[c] = "limited"
                      /\ InEngine(c) \/ verdict[c] # "none" => allowed[c] = "yes"
                      /\ InEngine(c) => stage[c] = "blocked" /\ verdict[c] = "none"
                      /\ status[c] = "ok" /\ Endpoint[c] # "plain" => verdict[c] # "none"
    BY DEF RefusedNeverServed
  <2>1. History(c)
    BY Parts DEF CallHistory
  <2> QED
    BY <2>1 DEF History
<1> QED
  BY <1>1, FrontInvHolds, PTL

LEMMA WaitingCounted ==
  ASSUME TypeOK, EngineOnce
  PROVE  /\ IsFiniteSet({c \in Calls : InWaiting(c)})
         /\ Cardinality({c \in Calls : InWaiting(c)}) = Len(waiting)
         /\ Len(waiting) \in Nat
<1> DEFINE W == {c \in Calls : InWaiting(c)}
<1>1. /\ Len(waiting) \in Nat /\ DOMAIN waiting = 1 .. Len(waiting)
      /\ \A i \in 1 .. Len(waiting) : waiting[i] \in Calls
      /\ waiting = [i \in 1 .. Len(waiting) |-> waiting[i]]
  BY DEF TypeOK
<1>2. waiting \in Bijection(1 .. Len(waiting), W)
  BY <1>1 DEF Bijection, Injection, IsInjective, Surjection, InWaiting, EngineOnce
<1>3. ExistsBijection(1 .. Len(waiting), W)
  BY <1>2 DEF ExistsBijection
<1> HIDE DEF W
<1>4. Cardinality(W) = Len(waiting)
  BY <1>1, <1>3, FS_CountingElements
<1>5. W \subseteq Calls
  BY DEF W
<1> QED
  BY <1>1, <1>4, <1>5, SubsetFinite DEF W

\* Each worker thread has one call in dispatch() at most, and so has each gRPC call.
LEMMA DepthBounded ==
  ASSUME FrontInv
  PROVE  queue_depth <= MaxWorkers + Cardinality({r \in Rpcs : InProgress(r)})
<1> DEFINE P == {c \in HttpCalls : InProgress(c)}
           R == {r \in Rpcs : InProgress(r)}
<1>1. /\ IsFiniteSet(P) /\ Cardinality(P) \in Nat
      /\ IsFiniteSet(R) /\ Cardinality(R) \in Nat
  <2>1. P \subseteq Calls /\ R \subseteq Calls
    BY DEF Calls
  <2> HIDE DEF P, R
  <2> QED
    BY <2>1, SubsetFinite
<1>2. Cardinality(P) <= MaxWorkers
  BY InProgressBounded
<1>3. Dispatched \subseteq P \cup R
  BY DEF Dispatched, Calls, InProgress
<1>4. queue_depth = Cardinality(Dispatched) /\ Cardinality(Dispatched) \in Nat
  BY Parts, MetricsAre, SetsFinite
<1> HIDE DEF P, R
<1>5. /\ IsFiniteSet(P \cup R)
      /\ Cardinality(P \cup R) = Cardinality(P) + Cardinality(R) - Cardinality(P \cap R)
  BY <1>1, FS_Union
<1>6. Cardinality(P \cap R) \in Nat /\ Cardinality(P \cup R) \in Nat
  <2>1. P \cap R \in SUBSET P
    OBVIOUS
  <2> QED
    BY <1>1, <1>5, <2>1, FS_Subset, FS_CardinalityType
<1>7. Dispatched \in SUBSET (P \cup R)
  BY <1>3
<1>8. Cardinality(Dispatched) <= Cardinality(P \cup R)
  BY <1>5, <1>7, FS_Subset
<1>9. queue_depth <= MaxWorkers + Cardinality(R)
  BY <1>1, <1>2, <1>4, <1>5, <1>6, <1>8, WorkersAssumption
<1> QED
  BY <1>9 DEF R

\* queue_depth counts the calls inside dispatch() and covers all that is with the
\* engine, and the threads of the HTTP server and the gRPC calls bound it
\* (server.cpp:33-36; grpc_server.cpp:98-101).
THEOREM DepthIsExact == Spec => []DepthCoversEngine
<1>1. FrontInv => DepthCoversEngine
  <2> SUFFICES ASSUME FrontInv PROVE DepthCoversEngine
    OBVIOUS
  <2>0. TypeOK /\ EngineOnce /\ CallHistory /\ MetricsAgree
    BY Parts
  <2> DEFINE W == {c \in Calls : InWaiting(c)}
  <2>1. IsFiniteSet(W) /\ Cardinality(W) = Len(waiting) /\ Len(waiting) \in Nat
    BY <2>0, WaitingCounted
  <2>2. IsFiniteSet(serving) /\ Cardinality(serving) \in Nat
    BY <2>0, SubsetFinite DEF TypeOK
  <2>3. W \cap serving = {}
    BY <2>0 DEF InWaiting, EngineOnce
  <2>4. \A c \in W \cup serving : c \in Dispatched
    BY <2>0 DEF TypeOK, CallHistory, History, InEngine, InWaiting, Dispatched
  <2> HIDE DEF W
  <2>5. Cardinality(W \cup serving) =
          Cardinality(W) + Cardinality(serving) - Cardinality(W \cap serving)
    BY <2>1, <2>2, FS_Union
  <2>6. Cardinality(W \cap serving) = 0
    BY <2>3, FS_EmptySet
  <2>7. (W \cup serving) \in SUBSET Dispatched
    BY <2>4
  <2>8. Cardinality(W \cup serving) <= Cardinality(Dispatched)
    BY <2>7, SetsFinite, FS_Subset
  <2>9. queue_depth <= MaxWorkers + Cardinality({r \in Rpcs : InProgress(r)})
    BY DepthBounded
  <2> QED
    BY <2>0, <2>1, <2>2, <2>5, <2>6, <2>8, <2>9, SetsFinite, MetricsAre
    DEF DepthCoversEngine
<1> QED
  BY <1>1, FrontInvHolds, PTL

\* requests_total counts an HTTP request at its handler and every answered one
\* at its answer (server.cpp:84; continuous_batch_engine.cpp:142, 238, 269).
THEOREM TotalsAreExplained == Spec => []TotalsExplained
<1>1. FrontInv => TotalsExplained
  BY DEF FrontInv, MetricsAgree
<1> QED
  BY <1>1, FrontInvHolds, PTL

\* A handler blocked on its future has its request with the engine or its result,
\* and a request on the wire has a worker, or a place in the backlog (server.cpp:34;
\* httplib.h:10152, 12219).
THEOREM NobodyAwaitsInVain == Spec => []NobodyWaitsInVain
<1>1. FrontInv => NobodyWaitsInVain
  BY Parts
<1> QED
  BY <1>1, FrontInvHolds, PTL

-----------------------------------------------------------------------------
(* The front ends implement the traffic. *)

LEMMA SeenIs ==
  ASSUME TypeOK, NEW c \in Calls
  PROVE  /\ SeenStages[c] = Seen(c)
         /\ stage[c] = "new" => Seen(c) = "new"
         /\ stage[c] = "sent" => Seen(c) = "sent"
         /\ stage[c] \in {"read", "granted", "begun"} => Seen(c) = "handled"
         /\ stage[c] = "blocked" /\ verdict[c] = "none" => Seen(c) = "queued"
         /\ stage[c] = "blocked" /\ verdict[c] # "none" => Seen(c) = "given"
         /\ stage[c] = "answered" => Seen(c) = "given"
         /\ stage[c] \in {"replied", "lost"} => Seen(c) = "over"
<1>1. stage[c] \in Stages
  BY DEF TypeOK
<1> QED
  BY <1>1 DEF Seen, SeenStages, Stages

LEMMA WillBeSeen ==
  ASSUME TypeOK', NEW c \in Calls
  PROVE  /\ SeenStages'[c] = Seen(c)'
         /\ stage'[c] = "sent" => Seen(c)' = "sent"
         /\ stage'[c] \in {"read", "granted", "begun"} => Seen(c)' = "handled"
         /\ stage'[c] = "blocked" /\ verdict'[c] = "none" => Seen(c)' = "queued"
         /\ stage'[c] = "blocked" /\ verdict'[c] # "none" => Seen(c)' = "given"
         /\ stage'[c] = "answered" => Seen(c)' = "given"
         /\ stage'[c] \in {"replied", "lost"} => Seen(c)' = "over"
<1>1. stage'[c] \in Stages
  BY DEF TypeOK
<1> QED
  BY <1>1 DEF Seen, SeenStages, Stages

LEMMA SeenSame ==
  ASSUME NEW c, stage'[c] = stage[c], verdict'[c] = verdict[c]
  PROVE  Seen(c)' = Seen(c)
  BY DEF Seen

LEMMA SeenStutters ==
  ASSUME \A c \in Calls : Seen(c)' = Seen(c)
  PROVE  SeenStages' = SeenStages
  BY DEF SeenStages

LEMMA SeenMoves ==
  ASSUME NEW c \in Calls, NEW w, Seen(c)' = w,
         \A d \in Calls \ {c} : stage'[d] = stage[d] /\ verdict'[d] = verdict[d]
  PROVE  SeenStages' = [SeenStages EXCEPT ![c] = w]
<1>1. \A d \in Calls \ {c} : Seen(d)' = Seen(d)
  BY SeenSame
<1> QED
  BY <1>1 DEF SeenStages

\* The thread pool is the same in both.
LEMMA SamePool ==
  /\ \A k : Pool!Accept(k) => Abstract!Pool!Accept(k)
  /\ Pool!Start => Abstract!Pool!Start
  /\ \A k : Pool!Finish(k) => Abstract!Pool!Finish(k)
  /\ UNCHANGED poolVars => UNCHANGED Abstract!poolVars
<1>1. \A k : Pool!Accept(k) => Abstract!Pool!Accept(k)
  BY DEF Pool!Accept, Pool!New, Abstract!Pool!Accept, Abstract!Pool!New
<1>2. Pool!Start => Abstract!Pool!Start
  BY SameCardinality DEF Pool!Start, Abstract!Pool!Start
<1>3. \A k : Pool!Finish(k) => Abstract!Pool!Finish(k)
  BY DEF Pool!Finish, Abstract!Pool!Finish
<1>4. UNCHANGED poolVars => UNCHANGED Abstract!poolVars
  BY DEF poolVars, Abstract!poolVars
<1> QED
  BY <1>1, <1>2, <1>3, <1>4

LEMMA SameCalls ==
  /\ Abstract!Calls = Calls
  /\ \A k : Abstract!CallsOf(k) = CallsOf(k)
  BY DEF Abstract!Calls, Abstract!HttpCalls, Calls, HttpCalls, Abstract!CallsOf, CallsOf

LEMMA TrafficInit == Init => Abstract!Init
<1> SUFFICES ASSUME Init PROVE Abstract!Init
  OBVIOUS
<1>1. Abstract!Pool!Init
  BY DEF Init, Pool!Init, Abstract!Pool!Init
<1>2. \A c \in Calls : Seen(c) = "new"
  BY DEF Init, Seen
<1>3. SeenStages = [c \in Abstract!Calls |-> "new"]
  BY <1>2, SameCalls DEF SeenStages
<1> QED
  BY <1>1, <1>3 DEF Abstract!Init

\* What a handler does, the rest of the process sees as a decision, a request for
\* the engine, a response, or not at all.
LEMMA HandlerTraffic ==
  ASSUME FrontInv, TypeOK', NEW c \in Calls, HandlerStep(c)
  PROVE  \/ Abstract!Decide(c) \/ Abstract!Submit(c) \/ Abstract!Reply(c)
         \/ UNCHANGED Abstract!vars
<1>0. TypeOK /\ CallHistory /\ MetricsAgree
  BY Parts
<1>1. \A d \in Calls \ {c} : stage'[d] = stage[d] /\ verdict'[d] = verdict[d]
  BY <1>0 DEF HandlerStep, Plain, Malformed, Limited, Granted, Unusable, Begin,
              Enqueue, Service!Submit, Resume, Decide, Reply, ReplyFails,
              serviceVars, TypeOK
<1>2. CASE Plain(c) \/ Malformed(c) \/ Limited(c) \/ Unusable(c)
  <2>1. stage[c] \in {"read", "granted"} /\ stage'[c] = "answered"
        /\ UNCHANGED poolVars
    BY <1>0, <1>2 DEF Plain, Malformed, Limited, Refused, Unusable, Decide, TypeOK
  <2>2. Seen(c) = "handled" /\ Seen(c)' = "given" /\ SeenStages[c] = "handled"
    BY <1>0, <2>1, SeenIs, WillBeSeen
  <2>3. SeenStages' = [SeenStages EXCEPT ![c] = "given"]
    BY <1>1, <2>2, SeenMoves
  <2> QED
    BY <2>1, <2>2, <2>3, SamePool DEF Abstract!Decide
<1>3. CASE Granted(c) \/ Begin(c)
  <2>1. stage[c] \in {"read", "granted"} /\ stage'[c] \in {"granted", "begun"}
        /\ UNCHANGED poolVars
    BY <1>0, <1>3 DEF Granted, Begin, TypeOK
  <2>2. Seen(c)' = Seen(c)
    BY <1>0, <2>1, SeenIs, WillBeSeen
  <2>3. SeenStages' = SeenStages
    BY <1>1, <2>2, SeenSame, SeenStutters
  <2> QED
    BY <2>1, <2>3, SamePool DEF Abstract!vars
<1>4. CASE Enqueue(c)
  <2>1. stage[c] = "begun" /\ stage'[c] = "blocked" /\ verdict'[c] = "none"
        /\ UNCHANGED poolVars
    BY <1>0, <1>4 DEF Enqueue, Service!Submit, Service!New, TypeOK
  <2>2. Seen(c)' = "queued" /\ SeenStages[c] = "handled"
    BY <1>0, <2>1, SeenIs, WillBeSeen
  <2>3. SeenStages' = [SeenStages EXCEPT ![c] = "queued"]
    BY <1>1, <2>2, SeenMoves
  <2> QED
    BY <2>1, <2>2, <2>3, SamePool DEF Abstract!Submit
<1>5. CASE Resume(c)
  <2>1. stage[c] = "blocked" /\ verdict[c] # "none" /\ stage'[c] = "answered"
        /\ UNCHANGED poolVars
    BY <1>0, <1>5 DEF Resume, Result, Decide, TypeOK
  <2>2. Seen(c)' = Seen(c)
    BY <1>0, <2>1, SeenIs, WillBeSeen
  <2>3. SeenStages' = SeenStages
    BY <1>1, <2>2, SeenSame, SeenStutters
  <2> QED
    BY <2>1, <2>3, SamePool DEF Abstract!vars
<1>6. CASE Reply(c) \/ ReplyFails(c)
  <2>1. stage[c] = "answered" /\ stage'[c] \in {"replied", "lost"}
    BY <1>0, <1>6 DEF Reply, ReplyFails, TypeOK
  <2>2. Seen(c)' = "over" /\ SeenStages[c] = "given"
    BY <1>0, <2>1, SeenIs, WillBeSeen
  <2>3. SeenStages' = [SeenStages EXCEPT ![c] = "over"]
    BY <1>1, <2>2, SeenMoves
  <2>4. \/ c \in Rpcs /\ UNCHANGED poolVars
        \/ c \in HttpCalls /\ c[2] < KeepAliveMax /\ UNCHANGED poolVars
        \/ c \in HttpCalls /\ Pool!Finish(c[1])
    BY <1>6 DEF Reply, ReplyFails, Calls
  <2>5. c \in HttpCalls => c \notin Rpcs
    BY CallOf
  <2> QED
    BY <2>2, <2>3, <2>4, <2>5, SamePool DEF Abstract!Reply
<1> QED
  BY <1>2, <1>3, <1>4, <1>5, <1>6 DEF HandlerStep

\* The calls the engine answers together.
LEMMA EngineTraffic ==
  ASSUME FrontInv, TypeOK', UNCHANGED <<poolVars, stage>>,
         NEW S, S # {}, S \subseteq Calls,
         \A c \in S : stage[c] = "blocked" /\ verdict[c] = "none"
                        /\ verdict'[c] # "none",
         \A c \in Calls \ S : verdict'[c] = verdict[c]
  PROVE  S \in SUBSET Abstract!Queued /\ Abstract!Answer(S)
<1>0. TypeOK
  BY Parts
<1>1. \A c \in S : SeenStages[c] = "queued" /\ Seen(c)' = "given"
  BY <1>0, SeenIs, WillBeSeen
<1>2. \A c \in Calls \ S : Seen(c)' = Seen(c)
  BY SeenSame
<1>3. SeenStages' = [c \in Calls |-> IF c \in S THEN "given" ELSE SeenStages[c]]
  BY <1>1, <1>2 DEF SeenStages
<1>4. S \subseteq Abstract!Queued
  BY <1>1, SameCalls DEF Abstract!Queued
<1> QED
  BY <1>3, <1>4, SameCalls, SamePool DEF Abstract!Answer

LEMMA TrafficStep == FrontInv /\ [Next]_vars => [Abstract!Next]_(Abstract!vars)
<1> SUFFICES ASSUME FrontInv, [Next]_vars
             PROVE  Abstract!Next \/ UNCHANGED Abstract!vars
  OBVIOUS
<1>0. TypeOK /\ ConnectionsInOrder /\ EngineOnce /\ CallHistory /\ TypeOK'
  BY Parts, TypeNext
<1>1. ASSUME UNCHANGED <<stage, verdict>> PROVE SeenStages' = SeenStages
  BY <1>1, SeenSame, SeenStutters
<1>2. ASSUME NEW k \in Conns, Connect(k) PROVE Abstract!Next
  BY <1>1, <1>2, SamePool
  DEF Connect, serviceVars, callVars, Abstract!Connect, Abstract!Next
<1>3. CASE StartConnection
  BY <1>1, <1>3, SamePool
  DEF StartConnection, serviceVars, callVars, Abstract!StartConnection, Abstract!Next
<1>4. ASSUME NEW k \in Conns, NEW i \in 1 .. KeepAliveMax, Send(k, i)
      PROVE  Abstract!Next
  <2> DEFINE c == <<k, i>>
  <2>1. /\ c \in Calls /\ stage[c] = "new" /\ stage'[c] = "sent"
        /\ \A d \in Calls \ {c} : stage'[d] = stage[d] /\ verdict'[d] = verdict[d]
        /\ UNCHANGED poolVars
        /\ k \in busy \/ \E j \in DOMAIN backlog : backlog[j] = k
    BY <1>0, <1>4, CallOf DEF Send, serviceVars, TypeOK
  <2>2. i > 1 => SeenStages[<<k, i - 1>>] = "over"
    <3> SUFFICES ASSUME i > 1 PROVE SeenStages[<<k, i - 1>>] = "over"
      OBVIOUS
    <3>1. i - 1 \in 1 .. KeepAliveMax
      BY KeepAliveMaxAssumption
    <3>2. <<k, i - 1>> \in Calls /\ stage[<<k, i - 1>>] = "replied"
      BY <1>4, <3>1, CallOf DEF Send
    <3> QED
      BY <1>0, <3>2, SeenIs
  <2> HIDE DEF c
  <2>3. Seen(c)' = "sent" /\ SeenStages[c] = "new"
    BY <1>0, <2>1, SeenIs, WillBeSeen
  <2>4. SeenStages' = [SeenStages EXCEPT ![c] = "sent"]
    BY <2>1, <2>3, SeenMoves
  <2>5. Abstract!Send(k, i)
    BY <2>1, <2>2, <2>3, <2>4, SamePool DEF Abstract!Send, c
  <2> QED
    BY <2>5 DEF Abstract!Next
<1>5. ASSUME NEW k \in Conns, NEW i \in 1 .. KeepAliveMax, Read(k, i)
      PROVE  Abstract!Next
  <2> DEFINE c == <<k, i>>
  <2>1. /\ c \in Calls /\ stage[c] = "sent" /\ stage'[c] = "read"
        /\ \A d \in Calls \ {c} : stage'[d] = stage[d] /\ verdict'[d] = verdict[d]
        /\ UNCHANGED poolVars /\ k \in busy
    BY <1>0, <1>5, CallOf DEF Read, serviceVars, TypeOK
  <2> HIDE DEF c
  <2>2. Seen(c)' = "handled" /\ SeenStages[c] = "sent"
    BY <1>0, <2>1, SeenIs, WillBeSeen
  <2>3. SeenStages' = [SeenStages EXCEPT ![c] = "handled"]
    BY <2>1, <2>2, SeenMoves
  <2>4. Abstract!Read(k, i)
    BY <2>1, <2>2, <2>3, SamePool DEF Abstract!Read, c
  <2> QED
    BY <2>4 DEF Abstract!Next, Abstract!ConnectionStep
<1>6. ASSUME NEW r \in Rpcs, Call(r) PROVE Abstract!Next
  <2>1. /\ r \in Calls /\ stage[r] = "new" /\ stage'[r] = "read"
        /\ \A d \in Calls \ {r} : stage'[d] = stage[d] /\ verdict'[d] = verdict[d]
        /\ UNCHANGED poolVars
    BY <1>0, <1>6 DEF Call, Calls, serviceVars, TypeOK
  <2>2. Seen(r)' = "handled" /\ SeenStages[r] = "new"
    BY <1>0, <2>1, SeenIs, WillBeSeen
  <2>3. SeenStages' = [SeenStages EXCEPT ![r] = "handled"]
    BY <2>1, <2>2, SeenMoves
  <2> QED
    BY <2>1, <2>2, <2>3, SamePool DEF Abstract!Call, Abstract!Next
<1>7. ASSUME NEW k \in Conns, Watch(k) PROVE UNCHANGED Abstract!vars
  BY <1>1, <1>7, SamePool DEF Watch, serviceVars, callVars, Abstract!vars
<1>8. ASSUME NEW k \in Conns, HangUp(k) PROVE Abstract!Next
  <2>1. /\ k \in watched /\ Pool!Finish(k) /\ verdict' = verdict
        /\ \A c \in Calls :
             stage'[c] = IF c \in CallsOf(k) /\ stage[c] = "sent"
                           THEN "lost" ELSE stage[c]
    BY <1>8 DEF HangUp, Unread, MayHangUp, serviceVars
  <2>2. ASSUME NEW c \in CallsOf(k)
        PROVE  SeenStages[c] \notin {"handled", "queued", "given"}
    <3>1. c \in HttpCalls /\ c \in Calls /\ c[1] = k
      BY CallOf
    <3>2. ~InProgress(c)
      BY <1>0, <2>1, <3>1 DEF ConnectionsInOrder
    <3>3. stage[c] \in {"new", "sent", "replied", "lost"}
      BY <1>0, <3>1, <3>2 DEF InProgress, TypeOK, Stages
    <3> QED
      BY <1>0, <3>1, <3>3, SeenIs
  <2>3. ASSUME NEW c \in Calls
        PROVE  Seen(c)' = IF c \in CallsOf(k) /\ SeenStages[c] = "sent"
                            THEN "over" ELSE SeenStages[c]
    <3>1. CASE c \in CallsOf(k) /\ stage[c] = "sent"
      BY <1>0, <2>1, <3>1, SeenIs, WillBeSeen
    <3>2. CASE ~(c \in CallsOf(k) /\ stage[c] = "sent")
      <4>1. Seen(c)' = SeenStages[c]
        BY <1>0, <2>1, <3>2, SeenIs, SeenSame
      <4>2. SeenStages[c] = "sent" => stage[c] = "sent"
        BY <1>0, SeenIs DEF TypeOK, Stages
      <4> QED
        BY <3>2, <4>1, <4>2
    <3> QED
      BY <3>1, <3>2
  <2>4. SeenStages' = [c \in Calls |-> IF c \in CallsOf(k) /\ SeenStages[c] = "sent"
                                         THEN "over" ELSE SeenStages[c]]
    BY <2>3 DEF SeenStages
  <2>5. Abstract!HangUp(k)
    BY <2>1, <2>2, <2>4, SamePool, SameCalls DEF Abstract!HangUp, Abstract!InProgress
  <2> QED
    BY <2>5 DEF Abstract!Next, Abstract!ConnectionStep
<1>9. ASSUME NEW c \in Calls, HandlerStep(c)
      PROVE  Abstract!Next \/ UNCHANGED Abstract!vars
  BY <1>0, <1>9, HandlerTraffic, SameCalls DEF Abstract!Next
<1>10. CASE Admit
  <2>1. /\ UNCHANGED <<poolVars, stage>>
        /\ \/ verdict' = verdict
           \/ /\ waiting # <<>> /\ waiting' = Tail(waiting)
              /\ verdict' = [verdict EXCEPT ![Head(waiting)] = "tokenization_failed"]
    BY <1>10 DEF Admit, Service!Start, Service!Reject, callVars
  <2>2. CASE verdict' = verdict
    BY <1>1, <2>1, <2>2, SamePool DEF Abstract!vars
  <2>3. CASE verdict' # verdict
    <3>1. PICK h \in Calls : h = Head(waiting)
      BY <1>0, <2>1, <2>3, Dequeued
    <3>2. stage[h] = "blocked" /\ verdict[h] = "none"
      BY <1>0, <2>1, <2>3, <3>1, Dequeued DEF CallHistory, History, InEngine, InWaiting
    <3>3. verdict'[h] # "none" /\ \A d \in Calls \ {h} : verdict'[d] = verdict[d]
      BY <1>0, <2>1, <2>3, <3>1 DEF TypeOK
    <3>4. {h} \in SUBSET Abstract!Queued /\ Abstract!Answer({h})
      BY <1>0, <2>1, <3>2, <3>3, EngineTraffic
    <3> QED
      BY <3>4 DEF Abstract!Next
  <2> QED
    BY <2>2, <2>3
<1>11. ASSUME NEW S \in SUBSET serving,
              NEW v \in Service!Verdicts \ {"tokenization_failed"}, Complete(S, v)
       PROVE  Abstract!Next
  <2>1. /\ verdict' = [c \in Calls |-> IF c \in S THEN v ELSE verdict[c]]
        /\ UNCHANGED <<poolVars, stage>> /\ S # {}
    BY <1>11 DEF Complete, Service!Finish, callVars
  <2>2. S \subseteq Calls /\ \A c \in S : stage[c] = "blocked" /\ verdict[c] = "none"
    BY <1>0 DEF TypeOK, CallHistory, History, InEngine
  <2>3. v # "none"
    BY DEF Service!Verdicts
  <2>4. S \in SUBSET Abstract!Queued /\ Abstract!Answer(S)
    BY <1>0, <2>1, <2>2, <2>3, EngineTraffic
  <2> QED
    BY <2>4 DEF Abstract!Next
<1>12. CASE UNCHANGED vars
  BY <1>1, <1>12, SamePool DEF vars, serviceVars, callVars, Abstract!vars
<1> QED
  BY <1>2, <1>3, <1>4, <1>5, <1>6, <1>7, <1>8, <1>9, <1>10, <1>11, <1>12, StepCases

\* Each call is handled by one thread until it is answered or refused, goes
\* through the engine at most once, and keeps its connection open meanwhile
\* (server.cpp:26-157; httplib.h:5605-5625).
THEOREM FrontEndImplementsTraffic == Spec => TrafficSpec
<1>1. FrontInv /\ [Next]_vars => [Abstract!Next]_(Abstract!vars)
  BY TrafficStep
<1> QED
  BY TrafficInit, <1>1, FrontInvHolds, PTL DEF Spec, TrafficSpec, Abstract!Spec

\* No handler hands a request to the engine twice or closes a connection it does
\* not serve: the contracts of engine and thread pool hold without their guards
\* (33; httplib.h:12198-12222).
THEOREM ContractsAreKept == Spec => []ContractsKept
<1>1. FrontInv => ContractsKept
  <2> SUFFICES ASSUME FrontInv PROVE ContractsKept
    OBVIOUS
  <2>0. TypeOK /\ ConnectionsInOrder /\ CallHistory
    BY Parts
  <2>1. ASSUME NEW c \in Calls, stage[c] = "begun" PROVE Service!New(c)
    <3>1. ~InEngine(c) /\ verdict[c] = "none"
      BY <2>0, <2>1 DEF CallHistory, History
    <3> QED
      BY <3>1 DEF Service!New, InEngine
  <2>2. \A c \in HttpCalls : stage[c] = "answered" => c[1] \in busy
    BY <2>0 DEF ConnectionsInOrder, InProgress
  <2>3. \A k \in Conns : MayHangUp(k) => k \in busy
    BY <2>0 DEF TypeOK, MayHangUp
  <2> QED
    BY <2>1, <2>2, <2>3 DEF ContractsKept
<1> QED
  BY <1>1, FrontInvHolds, PTL

\* A step of the front ends, as the engine and the thread pool see it.
Allowed == [Service!Next]_serviceVars /\ [Pool!Next]_poolVars

LEMMA StepIsAllowed == ASSUME [Next]_vars PROVE Allowed
<1>1. CASE UNCHANGED vars
  BY <1>1 DEF vars, Allowed
<1>2. ASSUME NEW k \in Conns, Connect(k) PROVE Allowed
  BY <1>2 DEF Connect, Pool!Next, Allowed
<1>3. ASSUME NEW k \in Conns, NEW i \in 1 .. KeepAliveMax, Send(k, i) PROVE Allowed
  BY <1>3 DEF Send, Allowed
<1>4. ASSUME NEW k \in Conns, NEW i \in 1 .. KeepAliveMax, Read(k, i) PROVE Allowed
  BY <1>4 DEF Read, Allowed
<1>5. ASSUME NEW r \in Rpcs, Call(r) PROVE Allowed
  BY <1>5 DEF Call, Allowed
<1>6. CASE StartConnection
  BY <1>6 DEF StartConnection, Pool!Next, Allowed
<1>7. ASSUME NEW k \in Conns, Watch(k) PROVE Allowed
  BY <1>7 DEF Watch, Allowed
<1>8. ASSUME NEW k \in Conns, HangUp(k) PROVE Allowed
  BY <1>8 DEF HangUp, Pool!Next, Allowed
<1>9. ASSUME NEW c \in Calls, HandlerStep(c) PROVE Allowed
  <2>1. CASE Enqueue(c)
    BY <2>1 DEF Enqueue, Service!Next, Allowed
  <2>2. CASE Reply(c) \/ ReplyFails(c)
    <3>1. UNCHANGED serviceVars
      BY <2>2 DEF Reply, ReplyFails
    <3>2. UNCHANGED poolVars \/ (c[1] \in Conns /\ Pool!Finish(c[1]))
      BY <2>2, CallOf DEF Reply, ReplyFails
    <3> QED
      BY <3>1, <3>2 DEF Pool!Next, Allowed
  <2>3. CASE ~Enqueue(c) /\ ~Reply(c) /\ ~ReplyFails(c)
    BY <1>9, <2>3 DEF HandlerStep, Plain, Malformed, Limited, Granted, Unusable, Begin,
                      Resume, Decide, Allowed
  <2> QED
    BY <2>1, <2>2, <2>3
<1>10. CASE Admit
  BY <1>10 DEF Admit, Service!Next, Allowed
<1>11. ASSUME NEW S \in SUBSET serving,
              NEW v \in Service!Verdicts \ {"tokenization_failed"}, Complete(S, v)
       PROVE  Allowed
  BY <1>11 DEF Complete, Service!Next, Allowed
<1> QED
  BY <1>1, <1>2, <1>3, <1>4, <1>5, <1>6, <1>7, <1>8, <1>9, <1>10, <1>11, StepCases

\* What the front ends do to the engine and to the thread pool is what the
\* specifications of these two allow, which ContinuousBatchEngine and ThreadPool
\* implement (26-37; httplib.h:11628-11634, 12198-12222).
THEOREM FrontEndDrives == Spec => Service!Spec /\ Pool!Spec
<1>1. Init => Service!Init /\ Pool!Init
  BY DEF Init
<1>2. [Next]_vars => [Service!Next]_(Service!vars) /\ [Pool!Next]_(Pool!vars)
  BY StepIsAllowed DEF Allowed, Service!vars, Pool!vars, serviceVars, poolVars
<1> QED
  BY <1>1, <1>2, PTL DEF Spec, Service!Spec, Pool!Spec
=============================================================================
