----------------------- MODULE ServerConnectionProofs -----------------------
(***************************************************************************)
(* Proofs about the three parts of the server that a connection's frames   *)
(* pass, each for every value of its constants: the admission gate         *)
(* (ServerAdmission), the stream lane (StreamLane) and the outbound queue  *)
(* (OutboundQueue).  The parts share no state, and no proof uses another   *)
(* part's.                                                                 *)
(***************************************************************************)
EXTENDS StreamLane, ServerAdmission, OutboundQueue, FiniteSetTheorems, TLAPS

-----------------------------------------------------------------------------
(* StreamLane, for any number of calls, callbacks and Sessions.  MapInv and *)
(* CountInv follow the lane objects: a Session's calls all use the lane in *)
(* the map, because a lane leaves the map only with its last user.  RunInv, *)
(* QueueInv and ExecInv follow one lane: one runner, a queue of calls that *)
(* are still waiting, and an operation that is executing only while the    *)
(* runner is inside it.                                                    *)

Busy == {"enter", "wait", "drain", "execute", "leave"}

UsersOf(l) == {c \in Calls : call[c].pc \in Busy /\ call[c].lane = l}

Running(c) == call[c].pc \in {"drain", "execute"}

Executing(o) == op[o].at \in {"body", "callback"}

MapInv ==
    /\ \A c \in Calls : call[c].pc \in Busy =>
          lanes[call[c].session] = call[c].lane
    /\ \A s \in Streams : lanes[s] # NoCall =>
          /\ call[lanes[s]].pc # "unused"
          /\ \E c \in Calls : /\ call[c].pc \in Busy
                              /\ call[c].lane = lanes[s]
                              /\ call[c].session = s
    /\ \A s, t \in Streams : lanes[s] # NoCall /\ lanes[s] = lanes[t] => s = t

CountInv == \A l \in Calls : lane[l].users = Cardinality(UsersOf(l))

RunInv ==
    /\ \A c \in Calls : Running(c) => lane[call[c].lane].running
    /\ \A l \in Calls : lane[l].running =>
          \E c \in Calls : Running(c) /\ call[c].lane = l
    /\ \A c, d \in Calls :
          Running(c) /\ Running(d) /\ call[c].lane = call[d].lane => c = d

\* Call c is in the queue of lane l.
Waiting(c, l) ==
    /\ call[c].pc \in {"wait", "drain", "execute"}
    /\ call[c].lane = l
    /\ op[c].at = "new"

Distinct(q) == \A m, n \in 1..Len(q) : q[m] = q[n] => m = n

NewInv ==
    \A c \in Calls : call[c].pc \in {"unused", "enter"} => op[c].at = "new"

QueueInv ==
    /\ NewInv
    /\ \A l \in Calls :
          /\ \A n \in 1..Len(lane[l].queue) : Waiting(lane[l].queue[n], l)
          /\ Distinct(lane[l].queue)

ExecInv ==
    /\ \A o \in Calls : Executing(o) =>
          /\ call[o].pc \in {"wait", "execute"}
          /\ \E c \in Calls : call[c].pc = "execute"
                              /\ call[c].lane = call[o].lane
    /\ \A o, p \in Calls :
          Executing(o) /\ Executing(p) /\ call[o].lane = call[p].lane => o = p
    /\ \A l \in Calls : lane[l].callbackActive =>
          \E o \in Calls : op[o].at = "callback" /\ call[o].lane = l

LaneInv ==
    LaneTypeOK /\ MapInv /\ CountInv /\ RunInv /\ QueueInv /\ ExecInv

-----------------------------------------------------------------------------
(* Facts about one state.                                                  *)

\* A call is in progress exactly at the labels of runStream and run, and then
\* has a Session and a lane.
LEMMA BusyCalls ==
    ASSUME LaneTypeOK, NEW c \in Calls
    PROVE  /\ InProgress(c) <=> call[c].pc \in Busy
           /\ call[c].pc \in Busy =>
                 call[c].session \in Streams /\ call[c].lane \in Calls
           /\ call[c].pc \in Busy \cup {"unused", "returned"}
           /\ call[c] = Unused <=> call[c].pc = "unused"
  BY DEF LaneTypeOK, InProgress, Unused, Returned, Busy

\* The users of a lane are a finite set.
LEMMA UsersFinite ==
    ASSUME NEW l
    PROVE  IsFiniteSet(UsersOf(l)) /\ Cardinality(UsersOf(l)) \in Nat
<1>1. IsFiniteSet(Calls)
  BY FS_Interval, LaneAssumption DEF Calls
<1>2. UsersOf(l) \subseteq Calls
  BY Zenon DEF UsersOf
<1> QED
  BY <1>1, <1>2, FS_Subset, FS_CardinalityType, Zenon

\* A lane somebody uses counts at least one user, and exactly one if and only
\* if there is no other.
LEMMA LastUserIsAlone ==
    ASSUME LaneTypeOK, CountInv, NEW c \in Calls, call[c].pc \in Busy
    PROVE  /\ lane[call[c].lane].users >= 1
           /\ LastUser(call[c].lane) <=> UsersOf(call[c].lane) = {c}
<1> DEFINE l == call[c].lane
<1>1. l \in Calls /\ c \in UsersOf(l)
  BY BusyCalls, Zenon DEF UsersOf
<1>2. lane[l].users = Cardinality(UsersOf(l))
  BY <1>1, Zenon DEF CountInv
<1>3. IsFiniteSet(UsersOf(l)) /\ Cardinality(UsersOf(l)) \in Nat
  BY UsersFinite, Zenon
<1>4. Cardinality(UsersOf(l)) # 0
  BY <1>1, <1>3, FS_EmptySet, Zenon
<1>5. Cardinality(UsersOf(l)) = 1 <=> UsersOf(l) = {c}
  BY <1>1, <1>3, FS_Singleton
<1> QED
  BY <1>2, <1>3, <1>4, <1>5 DEF LastUser

\* The lane the map has for a Session, or the one a call makes for it.
LaneFor(c, s) == IF lanes[s] = NoCall THEN c ELSE lanes[s]

\* A call about to run has a lane that is used by calls of its Session only,
\* and a lane it makes is unused.
LEMMA LaneForSession ==
    ASSUME LaneTypeOK, MapInv, NEW c \in Calls, NEW s \in Streams,
           call[c] = Unused
    PROVE  /\ LaneFor(c, s) \in Calls
           /\ lanes[s] = NoCall => UsersOf(c) = {}
           /\ \A t \in Streams : t # s => lanes[t] # LaneFor(c, s)
<1>1. \A t \in Streams : lanes[t] # c
  BY DEF MapInv, LaneTypeOK, NoCall, Calls, Unused
<1>2. \A d \in Calls : call[d].pc \in Busy => call[d].lane # c
  BY <1>1, BusyCalls DEF MapInv
<1> QED
  BY <1>1, <1>2 DEF LaneFor, UsersOf, MapInv, LaneTypeOK

LaneType == [users : Nat, queue : Seq(Calls), running : BOOLEAN,
             callbackActive : BOOLEAN]

CallType == {Unused, Returned} \cup
            [pc : Busy, session : Streams, lane : Calls,
             parent : Calls \cup {NoCall}]

OpType == [at : {"new", "body", "callback", "done"},
           callbacks : 0..MaxCallbacks]

\* The type invariant, one variable at a time.
LEMMA TypeParts ==
    LaneTypeOK <=> /\ lanes \in [Streams -> Calls \cup {NoCall}]
               /\ lane \in [Calls -> LaneType]
               /\ call \in [Calls -> CallType]
               /\ op \in [Calls -> OpType]
  BY Zenon DEF LaneTypeOK, LaneType, CallType, OpType, Busy

\* The same for the next state.
LEMMA TypePartsNext ==
    LaneTypeOK' <=> /\ lanes' \in [Streams -> Calls \cup {NoCall}]
                /\ lane' \in [Calls -> LaneType]
                /\ call' \in [Calls -> CallType]
                /\ op' \in [Calls -> OpType]
  BY Zenon DEF LaneTypeOK, LaneType, CallType, OpType, Busy

\* A call moves to another label.
LEMMA Relabel ==
    ASSUME NEW f \in [Calls -> CallType], NEW c \in Calls, f[c].pc \in Busy,
           NEW pc \in Busy
    PROVE  [f EXCEPT ![c].pc = pc] \in [Calls -> CallType]
<1>1. f[c] \in [pc : Busy, session : Streams, lane : Calls,
                parent : Calls \cup {NoCall}]
  BY DEF CallType, Unused, Returned, Busy
<1>2. [f[c] EXCEPT !.pc = pc] \in CallType
  BY <1>1, Zenon DEF CallType
<1> QED
  BY <1>2, Zenon

-----------------------------------------------------------------------------
(* What each step does to the fields of the records.                       *)

\* Call c moves to the label pc.
Moved(c, pc) ==
    /\ call'[c].pc = pc
    /\ call'[c].session = call[c].session
    /\ call'[c].lane = call[c].lane
    /\ \A d \in Calls : d # c => call'[d] = call[d]

\* Operation o moves to at.
OpMoved(o, at) ==
    /\ op'[o].at = at
    /\ \A p \in Calls : p # o => op'[p] = op[p]

\* The fields of lane l are set, and no other lane changes.
LaneSet(l, users, queue, running, active) ==
    /\ lane'[l].users = users
    /\ lane'[l].queue = queue
    /\ lane'[l].running = running
    /\ lane'[l].callbackActive = active
    /\ \A k \in Calls : k # l => lane'[k] = lane[k]

\* What moving a call to another label changes.
LEMMA RelabelFields ==
    ASSUME call \in [Calls -> CallType], NEW c \in Calls, call[c].pc \in Busy,
           NEW pc \in Busy, call' = [call EXCEPT ![c].pc = pc]
    PROVE  Moved(c, pc) /\ call' \in [Calls -> CallType]
<1>1. call[c] \in [pc : Busy, session : Streams, lane : Calls,
                   parent : Calls \cup {NoCall}]
  BY DEF CallType, Unused, Returned, Busy
<1>2. Moved(c, pc)
  BY <1>1, Zenon DEF Moved
<1> QED
  BY <1>2, Relabel, Zenon

\* What setting a lane's queue and running flag changes.
LEMMA QueueRunningFields ==
    ASSUME lane \in [Calls -> LaneType], NEW l \in Calls,
           NEW q \in Seq(Calls), NEW b \in BOOLEAN,
           lane' = [lane EXCEPT ![l].queue = q, ![l].running = b]
    PROVE  /\ LaneSet(l, lane[l].users, q, b, lane[l].callbackActive)
           /\ lane' \in [Calls -> LaneType]
  BY Zenon DEF LaneType, LaneSet

\* What setting a lane's running flag changes.
LEMMA RunningFields ==
    ASSUME lane \in [Calls -> LaneType], NEW l \in Calls, NEW b \in BOOLEAN,
           lane' = [lane EXCEPT ![l].running = b]
    PROVE  /\ LaneSet(l, lane[l].users, lane[l].queue, b,
                      lane[l].callbackActive)
           /\ lane' \in [Calls -> LaneType]
  BY Zenon DEF LaneType, LaneSet

\* What setting a lane's queue changes.
LEMMA QueueFields ==
    ASSUME lane \in [Calls -> LaneType], NEW l \in Calls,
           NEW q \in Seq(Calls), lane' = [lane EXCEPT ![l].queue = q]
    PROVE  /\ LaneSet(l, lane[l].users, q, lane[l].running,
                      lane[l].callbackActive)
           /\ lane' \in [Calls -> LaneType]
  BY Zenon DEF LaneType, LaneSet

\* What setting a lane's callbackActive changes.
LEMMA ActiveFields ==
    ASSUME lane \in [Calls -> LaneType], NEW l \in Calls, NEW b \in BOOLEAN,
           lane' = [lane EXCEPT ![l].callbackActive = b]
    PROVE  /\ LaneSet(l, lane[l].users, lane[l].queue, lane[l].running, b)
           /\ lane' \in [Calls -> LaneType]
  BY Zenon DEF LaneType, LaneSet

\* What setting a lane's user count changes.
LEMMA UsersFields ==
    ASSUME lane \in [Calls -> LaneType], NEW l \in Calls, NEW n \in Nat,
           lane' = [lane EXCEPT ![l].users = n]
    PROVE  /\ LaneSet(l, n, lane[l].queue, lane[l].running,
                      lane[l].callbackActive)
           /\ lane' \in [Calls -> LaneType]
  BY Zenon DEF LaneType, LaneSet

\* What moving an operation changes.
LEMMA OpFields ==
    ASSUME op \in [Calls -> OpType], NEW o \in Calls,
           NEW at \in {"new", "body", "callback", "done"},
           op' = [op EXCEPT ![o].at = at]
    PROVE  OpMoved(o, at) /\ op' \in [Calls -> OpType]
  BY Zenon DEF OpType, OpMoved

EnterEffect(c) ==
    LET l == call[c].lane
    IN  /\ call[c].pc = "enter"
        /\ lanes' = lanes /\ op' = op
        /\ \/ Moved(c, "leave") /\ lane' = lane
           \/ /\ Moved(c, IF lane[l].running THEN "wait" ELSE "drain")
              /\ LaneSet(l, lane[l].users, Append(lane[l].queue, c), TRUE,
                         lane[l].callbackActive)

\* streamLane.run's first critical section.
LEMMA EnterStep ==
    ASSUME LaneTypeOK, NEW c \in Calls, Enter(c)
    PROVE  LaneTypeOK' /\ EnterEffect(c)
<1> DEFINE l == call[c].lane
<1>1. call[c].pc = "enter" /\ lanes' = lanes /\ op' = op
  BY Zenon DEF Enter
<1>2. l \in Calls /\ call[c].pc \in Busy
  BY <1>1, BusyCalls, Zenon DEF Busy
<1>3. lane \in [Calls -> LaneType] /\ call \in [Calls -> CallType]
  BY TypeParts, Zenon
<1>4. CASE Refuses(l)
  <2>1. lane' = lane /\ call' = [call EXCEPT ![c].pc = "leave"]
    BY <1>4, Zenon DEF Enter
  <2>2. Moved(c, "leave") /\ call' \in [Calls -> CallType]
    BY <1>2, <1>3, <2>1, RelabelFields, Zenon DEF Busy
  <2> QED
    BY <1>1, <1>3, <2>1, <2>2, TypeParts, TypePartsNext, Zenon DEF EnterEffect
<1>5. CASE ~Refuses(l)
  <2> DEFINE pc == IF lane[l].running THEN "wait" ELSE "drain"
             q == Append(lane[l].queue, c)
  <2>1. call' = [call EXCEPT ![c].pc = pc]
    BY <1>5, Zenon DEF Enter
  <2>2. lane' = [lane EXCEPT ![l].queue = q, ![l].running = TRUE]
    BY <1>5, <1>2, <1>3, Zenon DEF Enter, LaneType
  <2>3. q \in Seq(Calls)
    <3>1. lane[l].queue \in Seq(Calls)
      BY <1>2, <1>3, Zenon DEF LaneType
    <3> QED
      BY <3>1
  <2>4. /\ LaneSet(l, lane[l].users, q, TRUE, lane[l].callbackActive)
        /\ lane' \in [Calls -> LaneType]
    <3> HIDE DEF q
    <3> QED BY <1>2, <1>3, <2>2, <2>3, QueueRunningFields, Zenon
  <2>5. Moved(c, pc) /\ call' \in [Calls -> CallType]
    <3>1. pc \in Busy
      BY Zenon DEF Busy
    <3> HIDE DEF pc
    <3> QED
      BY <1>2, <1>3, <2>1, <3>1, RelabelFields, Zenon
  <2> QED
    BY <1>1, <1>3, <2>4, <2>5, TypeParts, TypePartsNext, Zenon DEF EnterEffect
<1> QED
  BY <1>4, <1>5, Zenon

DrainEffect(c) ==
    LET l == call[c].lane
    IN  /\ call[c].pc = "drain"
        /\ lanes' = lanes
        /\ \/ /\ lane[l].queue = <<>>
              /\ Moved(c, "leave") /\ op' = op
              /\ LaneSet(l, lane[l].users, lane[l].queue, FALSE,
                         lane[l].callbackActive)
           \/ /\ lane[l].queue # <<>>
              /\ Moved(c, "execute") /\ OpMoved(Head(lane[l].queue), "body")
              /\ LaneSet(l, lane[l].users, Tail(lane[l].queue),
                         lane[l].running, lane[l].callbackActive)

\* One turn of the runner's loop.
LEMMA DrainStep ==
    ASSUME LaneTypeOK, NEW c \in Calls, Drain(c)
    PROVE  LaneTypeOK' /\ DrainEffect(c)
<1> DEFINE l == call[c].lane
<1>1. call[c].pc = "drain" /\ lanes' = lanes
  BY Zenon DEF Drain
<1>2. l \in Calls /\ call[c].pc \in Busy
  BY <1>1, BusyCalls, Zenon DEF Busy
<1>3. /\ lane \in [Calls -> LaneType] /\ call \in [Calls -> CallType]
      /\ op \in [Calls -> OpType]
  BY TypeParts, Zenon
<1>4. lane[l].queue \in Seq(Calls)
  BY <1>2, <1>3, Zenon DEF LaneType
<1>5. CASE lane[l].queue = <<>>
  <2>1. /\ call' = [call EXCEPT ![c].pc = "leave"] /\ op' = op
        /\ lane' = [lane EXCEPT ![l].running = FALSE]
    BY <1>5, Zenon DEF Drain
  <2>2. Moved(c, "leave") /\ call' \in [Calls -> CallType]
    BY <1>2, <1>3, <2>1, RelabelFields, Zenon DEF Busy
  <2>3. /\ LaneSet(l, lane[l].users, lane[l].queue, FALSE,
                   lane[l].callbackActive)
        /\ lane' \in [Calls -> LaneType]
    BY <1>2, <1>3, <2>1, RunningFields, Zenon
  <2> QED
    BY <1>1, <1>3, <1>5, <2>1, <2>2, <2>3, TypeParts, TypePartsNext, Zenon DEF DrainEffect
<1>6. CASE lane[l].queue # <<>>
  <2> DEFINE o == Head(lane[l].queue)
             q == Tail(lane[l].queue)
  <2>1. /\ call' = [call EXCEPT ![c].pc = "execute"]
        /\ lane' = [lane EXCEPT ![l].queue = q]
        /\ op' = [op EXCEPT ![o].at = "body"]
    BY <1>6, <1>2, <1>3, Zenon DEF Drain, LaneType
  <2>2. Moved(c, "execute") /\ call' \in [Calls -> CallType]
    BY <1>2, <1>3, <2>1, RelabelFields, Zenon DEF Busy
  <2>3. o \in Calls /\ q \in Seq(Calls)
    BY <1>4, <1>6
  <2>4. /\ LaneSet(l, lane[l].users, q, lane[l].running,
                   lane[l].callbackActive)
        /\ lane' \in [Calls -> LaneType]
    <3> HIDE DEF q
    <3> QED
      BY <1>2, <1>3, <2>1, <2>3, QueueFields, Zenon
  <2>5. OpMoved(o, "body") /\ op' \in [Calls -> OpType]
    <3> HIDE DEF o
    <3> QED
      BY <1>3, <2>1, <2>3, OpFields, Zenon
  <2> QED
    BY <1>1, <1>3, <1>6, <2>2, <2>4, <2>5, TypeParts, TypePartsNext, Zenon DEF DrainEffect
<1> QED
  BY <1>5, <1>6, Zenon

\* An operation that executes belongs to a call in progress.
LEMMA ExecutingCalls ==
    ASSUME LaneTypeOK, ExecInv, NEW o \in Calls, Executing(o)
    PROVE  call[o].pc \in Busy /\ call[o].lane \in Calls
  BY BusyCalls, Zenon DEF ExecInv, Busy

StartEffect(o) ==
    LET l == call[o].lane
    IN  /\ op[o].at = "body"
        /\ lanes' = lanes /\ call' = call
        /\ OpMoved(o, "callback")
        /\ LaneSet(l, lane[l].users, lane[l].queue, lane[l].running, TRUE)

\* invokeCallback up to the callback.
LEMMA StartStep ==
    ASSUME LaneTypeOK, ExecInv, NEW o \in Calls, StartCallback(o)
    PROVE  LaneTypeOK' /\ StartEffect(o)
<1>1. op[o].at = "body" /\ lanes' = lanes /\ call' = call
  BY Zenon DEF StartCallback
<1>2. call[o].lane \in Calls
  BY <1>1, ExecutingCalls, Zenon DEF Executing
<1>3. /\ lanes \in [Streams -> Calls \cup {NoCall}]
      /\ lane \in [Calls -> LaneType] /\ call \in [Calls -> CallType]
      /\ op \in [Calls -> OpType]
  BY TypeParts, Zenon
<1>4. /\ LaneSet(call[o].lane, lane[call[o].lane].users,
                 lane[call[o].lane].queue, lane[call[o].lane].running, TRUE)
      /\ lane' \in [Calls -> LaneType]
  BY <1>2, <1>3, ActiveFields, Zenon DEF StartCallback
<1>5. OpMoved(o, "callback") /\ op' \in [Calls -> OpType]
  <2>1. /\ op[o].callbacks < MaxCallbacks
        /\ op' = [op EXCEPT ![o].at = "callback", ![o].callbacks = @ + 1]
    BY Zenon DEF StartCallback
  <2> QED
    BY <1>3, <2>1, LaneAssumption DEF OpType, OpMoved
<1> QED
  BY <1>1, <1>3, <1>4, <1>5, TypePartsNext, Zenon DEF StartEffect

EndEffect(o) ==
    LET l == call[o].lane
    IN  /\ op[o].at = "callback"
        /\ lanes' = lanes /\ call' = call
        /\ OpMoved(o, "body")
        /\ LaneSet(l, lane[l].users, lane[l].queue, lane[l].running, FALSE)

\* invokeCallback after the callback.
LEMMA EndStep ==
    ASSUME LaneTypeOK, ExecInv, NEW o \in Calls, EndCallback(o)
    PROVE  LaneTypeOK' /\ EndEffect(o)
<1>1. op[o].at = "callback" /\ lanes' = lanes /\ call' = call
  BY Zenon DEF EndCallback
<1>2. call[o].lane \in Calls
  BY <1>1, ExecutingCalls, Zenon DEF Executing
<1>3. /\ lanes \in [Streams -> Calls \cup {NoCall}]
      /\ lane \in [Calls -> LaneType] /\ call \in [Calls -> CallType]
      /\ op \in [Calls -> OpType]
  BY TypeParts, Zenon
<1>4. /\ LaneSet(call[o].lane, lane[call[o].lane].users,
                 lane[call[o].lane].queue, lane[call[o].lane].running, FALSE)
      /\ lane' \in [Calls -> LaneType]
  BY <1>2, <1>3, ActiveFields, Zenon DEF EndCallback
<1>5. OpMoved(o, "body") /\ op' \in [Calls -> OpType]
  BY <1>3, OpFields, Zenon DEF EndCallback
<1> QED
  BY <1>1, <1>3, <1>4, <1>5, TypePartsNext, Zenon DEF EndEffect

\* The runner inside operation o.
RunnerOf(o, c) == call[c].pc = "execute" /\ call[c].lane = call[o].lane

OperationEffect(o) ==
    /\ op[o].at = "body"
    /\ lanes' = lanes /\ lane' = lane
    /\ OpMoved(o, "done")
    /\ \A c \in Calls :
          /\ ~RunnerOf(o, c) => call'[c] = call[c]
          /\ RunnerOf(o, c) =>
                /\ call'[c].pc = "drain"
                /\ call'[c].session = call[c].session
                /\ call'[c].lane = call[c].lane

\* The end of an operation.
LEMMA OperationStep ==
    ASSUME LaneTypeOK, NEW o \in Calls, EndOperation(o)
    PROVE  LaneTypeOK' /\ OperationEffect(o)
<1>1. op[o].at = "body" /\ lanes' = lanes /\ lane' = lane
  BY Zenon DEF EndOperation
<1>2. /\ lanes \in [Streams -> Calls \cup {NoCall}]
      /\ lane \in [Calls -> LaneType] /\ call \in [Calls -> CallType]
      /\ op \in [Calls -> OpType]
  BY TypeParts, Zenon
<1>3. OpMoved(o, "done") /\ op' \in [Calls -> OpType]
  BY <1>2, OpFields, Zenon DEF EndOperation
<1>4. \A c \in Calls : call'[c] =
         IF RunnerOf(o, c) THEN [call[c] EXCEPT !.pc = "drain"] ELSE call[c]
  BY Zenon DEF EndOperation, RunnerOf
<1>5. ASSUME NEW c \in Calls, RunnerOf(o, c)
      PROVE  /\ [call[c] EXCEPT !.pc = "drain"] \in CallType
             /\ [call[c] EXCEPT !.pc = "drain"].pc = "drain"
             /\ [call[c] EXCEPT !.pc = "drain"].session = call[c].session
             /\ [call[c] EXCEPT !.pc = "drain"].lane = call[c].lane
  <2>1. call[c] \in [pc : Busy, session : Streams, lane : Calls,
                     parent : Calls \cup {NoCall}]
    BY <1>2, <1>5 DEF RunnerOf, CallType, Unused, Returned, Busy
  <2> QED
    BY <2>1, Zenon DEF CallType, Busy
<1>6. call' \in [Calls -> CallType]
  <2>1. \A c \in Calls : call'[c] \in CallType
    BY <1>2, <1>4, <1>5, Zenon
  <2>2. call' = [c \in Calls |-> call'[c]]
    BY Zenon DEF EndOperation
  <2> QED
    BY <2>1, <2>2, Zenon
<1>7. OperationEffect(o)
  BY <1>1, <1>3, <1>4, <1>5, Zenon DEF OperationEffect
<1> QED
  BY <1>1, <1>2, <1>3, <1>6, <1>7, TypePartsNext, Zenon

ReceiveEffect(c) ==
    /\ call[c].pc = "wait" /\ op[c].at = "done"
    /\ lanes' = lanes /\ lane' = lane /\ op' = op
    /\ Moved(c, "leave")

\* A queued call receives its operation's result.
LEMMA ReceiveStep ==
    ASSUME LaneTypeOK, NEW c \in Calls, Receive(c)
    PROVE  LaneTypeOK' /\ ReceiveEffect(c)
<1>1. call[c].pc = "wait" /\ lanes' = lanes /\ lane' = lane /\ op' = op
  BY Zenon DEF Receive
<1>2. /\ lanes \in [Streams -> Calls \cup {NoCall}]
      /\ lane \in [Calls -> LaneType] /\ call \in [Calls -> CallType]
      /\ op \in [Calls -> OpType]
  BY TypeParts, Zenon
<1>3. Moved(c, "leave") /\ call' \in [Calls -> CallType]
  BY <1>1, <1>2, RelabelFields, Zenon DEF Receive, Busy
<1>4. op[c].at = "done"
  BY Zenon DEF Receive
<1> QED
  BY <1>1, <1>2, <1>3, <1>4, TypePartsNext, Zenon DEF ReceiveEffect

RunEffect(c, s) ==
    LET l == LaneFor(c, s)
    IN  /\ call[c] = Unused
        /\ op' = op
        /\ lanes'[s] = l
        /\ \A t \in Streams : t # s => lanes'[t] = lanes[t]
        /\ LaneSet(l, lane[l].users + 1, lane[l].queue, lane[l].running,
                   lane[l].callbackActive)
        /\ call'[c].pc = "enter" /\ call'[c].session = s /\ call'[c].lane = l
        /\ \A d \in Calls : d # c => call'[d] = call[d]

\* runStream finds or makes the lane of its Session.
LEMMA RunStep ==
    ASSUME LaneTypeOK, MapInv, NEW c \in Calls, NEW s \in Streams,
           NEW parent \in Calls \cup {NoCall}, RunStream(c, s, parent)
    PROVE  LaneTypeOK' /\ RunEffect(c, s)
<1> DEFINE l == LaneFor(c, s)
<1>1. call[c] = Unused /\ op' = op
  BY Zenon DEF RunStream
<1>2. l \in Calls
  BY <1>1, LaneForSession, Zenon
<1>3. /\ lanes \in [Streams -> Calls \cup {NoCall}]
      /\ lane \in [Calls -> LaneType] /\ call \in [Calls -> CallType]
      /\ op \in [Calls -> OpType]
  BY TypeParts, Zenon
<1>4. /\ lanes' = [lanes EXCEPT ![s] = l]
      /\ lane' = [lane EXCEPT ![l].users = lane[l].users + 1]
      /\ call' = [call EXCEPT ![c] = Calling("enter", s, l, parent)]
  BY Zenon DEF RunStream, LaneFor, Users
<1> HIDE DEF l
<1>5. /\ lanes' \in [Streams -> Calls \cup {NoCall}]
      /\ lanes'[s] = l
      /\ \A t \in Streams : t # s => lanes'[t] = lanes[t]
  BY <1>2, <1>3, <1>4, Zenon
<1>6. /\ LaneSet(l, lane[l].users + 1, lane[l].queue, lane[l].running,
                 lane[l].callbackActive)
      /\ lane' \in [Calls -> LaneType]
  <2>1. lane[l].users + 1 \in Nat
    BY <1>2, <1>3 DEF LaneType
  <2> QED
    BY <1>2, <1>3, <1>4, <2>1, UsersFields, Zenon
<1>7. /\ call' \in [Calls -> CallType]
      /\ call'[c].pc = "enter" /\ call'[c].session = s /\ call'[c].lane = l
      /\ \A d \in Calls : d # c => call'[d] = call[d]
  <2>1. Calling("enter", s, l, parent) \in CallType
    BY <1>2, Zenon DEF Calling, CallType, Busy
  <2> QED
    BY <1>3, <1>4, <2>1, Zenon DEF Calling
<1> QED
  BY <1>1, <1>3, <1>5, <1>6, <1>7, TypePartsNext, Zenon DEF RunEffect, l

LeaveEffect(c) ==
    LET l == call[c].lane
        s == call[c].session
    IN  /\ call[c].pc = "leave"
        /\ op' = op
        /\ lanes'[s] = IF UsersOf(l) = {c} THEN NoCall ELSE l
        /\ \A t \in Streams : t # s => lanes'[t] = lanes[t]
        /\ LaneSet(l, lane[l].users - 1, lane[l].queue, lane[l].running,
                   lane[l].callbackActive)
        /\ call'[c] = Returned
        /\ \A d \in Calls : d # c => call'[d] = call[d]

\* runStream gives the lane up, the last user deletes it.
LEMMA LeaveStep ==
    ASSUME LaneTypeOK, MapInv, CountInv, NEW c \in Calls, Leave(c)
    PROVE  LaneTypeOK' /\ LeaveEffect(c)
<1> DEFINE l == call[c].lane
           s == call[c].session
<1>1. call[c].pc = "leave" /\ op' = op
  BY Zenon DEF Leave
<1>2. l \in Calls /\ s \in Streams /\ call[c].pc \in Busy /\ lanes[s] = l
  BY <1>1, BusyCalls, Zenon DEF Busy, MapInv
<1>3. /\ lanes \in [Streams -> Calls \cup {NoCall}]
      /\ lane \in [Calls -> LaneType] /\ call \in [Calls -> CallType]
      /\ op \in [Calls -> OpType]
  BY TypeParts, Zenon
<1>4. lane[l].users >= 1 /\ (LastUser(l) <=> UsersOf(l) = {c})
  BY <1>2, LastUserIsAlone, Zenon
<1>5. /\ lanes' = [lanes EXCEPT
             ![s] = IF LastUser(l) /\ lanes[s] = l THEN NoCall ELSE lanes[s]]
      /\ lane' = [lane EXCEPT ![l].users = lane[l].users - 1]
      /\ call' = [call EXCEPT ![c] = Returned]
  BY <1>2, <1>3, Zenon DEF Leave, LaneType
<1>6. /\ lanes' \in [Streams -> Calls \cup {NoCall}]
      /\ lanes'[s] = IF UsersOf(l) = {c} THEN NoCall ELSE l
      /\ \A t \in Streams : t # s => lanes'[t] = lanes[t]
  BY <1>2, <1>3, <1>4, <1>5, Zenon
<1>7. /\ LaneSet(l, lane[l].users - 1, lane[l].queue, lane[l].running,
                 lane[l].callbackActive)
      /\ lane' \in [Calls -> LaneType]
  <2>1. lane[l].users - 1 \in Nat
    BY <1>2, <1>3, <1>4 DEF LaneType
  <2> QED
    BY <1>2, <1>3, <1>5, <2>1, UsersFields, Zenon
<1>8. /\ call' \in [Calls -> CallType]
      /\ call'[c] = Returned
      /\ \A d \in Calls : d # c => call'[d] = call[d]
  BY <1>3, <1>5, Zenon DEF CallType
<1> QED
  BY <1>1, <1>3, <1>6, <1>7, <1>8, TypePartsNext, Zenon DEF LeaveEffect

-----------------------------------------------------------------------------
(* The lanes in the map and their users.                                   *)

\* The steps of a call that is neither new nor leaving.
Inner(c) ==
    \/ Enter(c) \/ Drain(c) \/ StartCallback(c) \/ EndCallback(c)
    \/ EndOperation(c) \/ Receive(c)

\* Nobody starts or stops using a lane.
SameUsers ==
    /\ lanes' = lanes
    /\ \A c \in Calls :
          /\ call'[c].pc \in Busy <=> call[c].pc \in Busy
          /\ call'[c].pc = "unused" <=> call[c].pc = "unused"
          /\ call'[c].session = call[c].session
          /\ call'[c].lane = call[c].lane
    /\ \A l \in Calls : lane'[l].users = lane[l].users

\* The steps inside a lane leave its users alone.
LEMMA InnerKeepsUsers ==
    ASSUME LaneTypeOK, ExecInv, NEW c \in Calls, Inner(c)
    PROVE  LaneTypeOK' /\ SameUsers
<1>1. CASE Enter(c)
  <2>1. LaneTypeOK' /\ EnterEffect(c)
    BY <1>1, EnterStep, Zenon
  <2> QED
    BY <2>1, Zenon DEF EnterEffect, SameUsers, Moved, LaneSet, Busy
<1>2. CASE Drain(c)
  <2>1. LaneTypeOK' /\ DrainEffect(c)
    BY <1>2, DrainStep, Zenon
  <2> QED
    BY <2>1, Zenon DEF DrainEffect, SameUsers, Moved, LaneSet, Busy
<1>3. CASE StartCallback(c)
  <2>1. LaneTypeOK' /\ StartEffect(c)
    BY <1>3, StartStep, Zenon
  <2> QED
    BY <2>1, Zenon DEF StartEffect, SameUsers, LaneSet
<1>4. CASE EndCallback(c)
  <2>1. LaneTypeOK' /\ EndEffect(c)
    BY <1>4, EndStep, Zenon
  <2> QED
    BY <2>1, Zenon DEF EndEffect, SameUsers, LaneSet
<1>5. CASE EndOperation(c)
  <2>1. LaneTypeOK' /\ OperationEffect(c)
    BY <1>5, OperationStep, Zenon
  <2> QED
    BY <2>1, Zenon DEF OperationEffect, RunnerOf, SameUsers, Busy
<1>6. CASE Receive(c)
  <2>1. LaneTypeOK' /\ ReceiveEffect(c)
    BY <1>6, ReceiveStep, Zenon
  <2> QED
    BY <2>1, Zenon DEF ReceiveEffect, Moved, SameUsers, Busy
<1> QED
  BY <1>1, <1>2, <1>3, <1>4, <1>5, <1>6, Zenon DEF Inner

\* They keep the map and the counts.
LEMMA InnerMapCount ==
    ASSUME LaneInv, NEW c \in Calls, Inner(c)
    PROVE  LaneTypeOK' /\ MapInv' /\ CountInv'
<1>1. LaneTypeOK' /\ SameUsers
  BY InnerKeepsUsers, Zenon DEF LaneInv
<1>2. \A l \in Calls : UsersOf(l)' = UsersOf(l)
  BY <1>1, Zenon DEF UsersOf, SameUsers
<1>3. CountInv'
  BY <1>1, <1>2, Zenon DEF CountInv, LaneInv, SameUsers
<1>4. MapInv'
  <2>1. \A s \in Streams : lanes[s] \in Calls \cup {NoCall}
    BY Zenon DEF LaneInv, LaneTypeOK
  <2> QED
    BY <1>1, <2>1 DEF LaneInv, MapInv, SameUsers
<1> QED
  BY <1>1, <1>3, <1>4, Zenon

\* A new user keeps the map and the counts.
LEMMA RunMapCount ==
    ASSUME LaneInv, NEW c \in Calls, NEW s \in Streams, RunEffect(c, s)
    PROVE  MapInv' /\ CountInv'
<1> USE DEF LaneInv
<1>0. PICK l \in Calls : l = LaneFor(c, s)
  BY LaneForSession, Zenon DEF RunEffect
<1>1. /\ l \in Calls
      /\ lanes[s] = NoCall => UsersOf(c) = {}
      /\ \A t \in Streams : t # s => lanes[t] # l
  BY <1>0, LaneForSession, Zenon DEF RunEffect
<1>2. call[c].pc = "unused" /\ call'[c].pc = "enter"
  BY DEF RunEffect, Unused
<1>3. MapInv'
  <2>1. \A t \in Streams : lanes[t] \in Calls \cup {NoCall}
    BY Zenon DEF LaneTypeOK
  <2>2. \A d \in Calls : call[d].pc \in Busy => call[d].session \in Streams
    BY BusyCalls, Zenon
  <2>3. \A d \in Calls : call[d].pc \in Busy /\ call[d].session = s =>
           call[d].lane = l
    BY <1>0, BusyCalls DEF MapInv, LaneFor, NoCall, Calls
  <2>4. \A d \in Calls : call'[d].pc \in Busy =>
           lanes'[call'[d].session] = call'[d].lane
    BY <1>0, <1>2, <2>2, <2>3 DEF MapInv, RunEffect, Busy
  <2>5. ASSUME NEW t \in Streams, lanes'[t] # NoCall
        PROVE  /\ call'[lanes'[t]].pc # "unused"
               /\ \E d \in Calls : /\ call'[d].pc \in Busy
                                   /\ call'[d].lane = lanes'[t]
                                   /\ call'[d].session = t
    <3>1. CASE t = s
      <4>1. lanes'[t] = l /\ call'[c].lane = l /\ call'[c].session = s
        BY <1>0, <3>1, Zenon DEF RunEffect
      <4>2. call'[l].pc # "unused"
        BY <1>0, <1>1, <1>2 DEF LaneFor, MapInv, RunEffect
      <4> QED
        BY <1>2, <3>1, <4>1, <4>2, Zenon DEF Busy
    <3>2. CASE t # s
      BY <1>2, <2>1, <2>5, <3>2 DEF MapInv, RunEffect, Busy
    <3> QED
      BY <3>1, <3>2, Zenon
  <2>6. \A t, u \in Streams : lanes'[t] # NoCall /\ lanes'[t] = lanes'[u]
           => t = u
    BY <1>0, <1>1 DEF MapInv, RunEffect
  <2> QED
    BY <2>4, <2>5, <2>6, Zenon DEF MapInv
<1>4. CountInv'
  <2>1. UsersOf(l)' = UsersOf(l) \cup {c} /\ c \notin UsersOf(l)
    BY <1>0, <1>2, Zenon DEF UsersOf, RunEffect, Busy
  <2>2. Cardinality(UsersOf(l)') = Cardinality(UsersOf(l)) + 1
    BY <2>1, UsersFinite, FS_AddElement, Zenon
  <2>3. lane'[l].users = lane[l].users + 1
    BY <1>0, Zenon DEF RunEffect, LaneSet
  <2>4. ASSUME NEW k \in Calls, k # l
        PROVE  lane'[k].users = lane[k].users /\ UsersOf(k)' = UsersOf(k)
    BY <1>0, <1>2, <2>4, Zenon DEF UsersOf, RunEffect, LaneSet, Busy
  <2> QED
    BY <1>1, <2>2, <2>3, <2>4, Zenon DEF CountInv
<1> QED
  BY <1>3, <1>4, Zenon

\* A leaving user keeps the map and the counts.
LEMMA LeaveMapCount ==
    ASSUME LaneInv, NEW c \in Calls, LeaveEffect(c)
    PROVE  MapInv' /\ CountInv'
<1> DEFINE s == call[c].session
<1> USE DEF LaneInv
<1>0. PICK l \in Calls : l = call[c].lane
  BY BusyCalls, Zenon DEF LeaveEffect, Busy
<1>1. /\ s \in Streams /\ call[c].pc \in Busy
      /\ lanes[s] = l /\ c \in UsersOf(l)
  BY <1>0, BusyCalls, Zenon DEF LeaveEffect, MapInv, UsersOf, Busy
<1>2. call'[c].pc = "returned"
  BY DEF LeaveEffect, Returned
<1>3. UsersOf(l)' = UsersOf(l) \ {c}
  BY <1>0, <1>2, Zenon DEF UsersOf, LeaveEffect, Busy
<1>4. MapInv'
  <2>1. \A t \in Streams : lanes[t] \in Calls \cup {NoCall}
    BY Zenon DEF LaneTypeOK
  <2>2. \A d \in Calls : call[d].pc \in Busy => call[d].session \in Streams
    BY BusyCalls, Zenon
  <2>3. \A d \in Calls : call'[d].pc \in Busy =>
           lanes'[call'[d].session] = call'[d].lane
    <3> SUFFICES ASSUME NEW d \in Calls, call'[d].pc \in Busy
                 PROVE  lanes'[call'[d].session] = call'[d].lane
      BY Zenon
    <3>1. d # c /\ call'[d] = call[d]
      BY <1>2, Zenon DEF LeaveEffect, Busy
    <3>2. lanes[call[d].session] = call[d].lane
      BY <3>1, Zenon DEF MapInv
    <3>3. CASE call[d].session = s
      <4>1. d \in UsersOf(l)
        BY <1>1, <3>1, <3>2, <3>3, Zenon DEF UsersOf
      <4>2. lanes'[s] = l
        BY <1>0, <3>1, <4>1, Zenon DEF LeaveEffect
      <4> QED
        BY <1>1, <3>1, <3>2, <3>3, <4>2, Zenon
    <3>4. CASE call[d].session # s
      BY <2>2, <3>1, <3>2, <3>4, Zenon DEF LeaveEffect
    <3> QED
      BY <3>3, <3>4, Zenon
  <2>4. ASSUME NEW t \in Streams, lanes'[t] # NoCall
        PROVE  /\ lanes'[t] = lanes[t]
               /\ call'[lanes'[t]].pc # "unused"
               /\ \E d \in Calls : /\ call'[d].pc \in Busy
                                   /\ call'[d].lane = lanes'[t]
                                   /\ call'[d].session = t
    <3>1. lanes'[t] = lanes[t]
      BY <1>0, <1>1, <2>4, Zenon DEF LeaveEffect
    <3>2. call'[lanes[t]].pc # "unused"
      BY <1>2, <2>1, <2>4, <3>1, Zenon DEF MapInv, LeaveEffect
    <3>3. CASE t = s
      <4>1. PICK d \in UsersOf(l) : d # c
        BY <1>0, <1>1, <2>4, <3>3, Zenon DEF LeaveEffect
      <4>2. call'[d] = call[d] /\ call[d].pc \in Busy /\ call[d].lane = l
            /\ d \in Calls
        BY <4>1, Zenon DEF UsersOf, LeaveEffect
      <4>3. call[d].session = s
        BY <1>1, <2>2, <2>4, <3>1, <3>3, <4>2 DEF MapInv
      <4> QED
        BY <1>1, <3>1, <3>2, <3>3, <4>2, <4>3, Zenon
    <3>4. CASE t # s
      <4>1. PICK d \in Calls : /\ call[d].pc \in Busy
                               /\ call[d].lane = lanes[t]
                               /\ call[d].session = t
        BY <2>4, <3>1, Zenon DEF MapInv
      <4>2. call'[d] = call[d]
        BY <3>4, <4>1, Zenon DEF LeaveEffect
      <4> QED
        BY <3>1, <3>2, <4>1, <4>2, Zenon
    <3> QED
      BY <3>3, <3>4, Zenon
  <2>5. \A t, u \in Streams : lanes'[t] # NoCall /\ lanes'[t] = lanes'[u]
           => t = u
    BY <2>4 DEF MapInv
  <2> QED
    BY <2>3, <2>4, <2>5, Zenon DEF MapInv
<1>5. CountInv'
  <2>1. Cardinality(UsersOf(l)') = Cardinality(UsersOf(l)) - 1
    <3>1. IsFiniteSet(UsersOf(l)) /\ c \in UsersOf(l)
      BY <1>1, UsersFinite, Zenon
    <3>2. Cardinality(UsersOf(l) \ {c}) = Cardinality(UsersOf(l)) - 1
      BY <3>1, FS_RemoveElement, Zenon
    <3> QED
      BY <1>3, <3>2, Zenon
  <2>2. lane'[l].users = lane[l].users - 1
    BY <1>0, Zenon DEF LeaveEffect, LaneSet
  <2>3. ASSUME NEW k \in Calls, k # l
        PROVE  lane'[k].users = lane[k].users /\ UsersOf(k)' = UsersOf(k)
    BY <1>0, <1>2, <2>3, Zenon DEF UsersOf, LeaveEffect, LaneSet, Busy
  <2> QED
    BY <1>1, <2>1, <2>2, <2>3, Zenon DEF CountInv
<1> QED
  BY <1>4, <1>5, Zenon

-----------------------------------------------------------------------------
(* One lane: its runner, its queue and the operation that executes.        *)

\* What the proofs below use of the types.
LEMMA LaneTypes ==
    ASSUME LaneTypeOK
    PROVE  /\ \A l \in Calls : lane[l].queue \in Seq(Calls)
           /\ \A c \in Calls : call[c].pc \in Busy => call[c].lane \in Calls
  BY BusyCalls, Zenon DEF LaneTypeOK

\* QueueInv is kept when no queue changes.
LEMMA SameQueues ==
    ASSUME LaneInv, NewInv',
           \A l \in Calls : lane'[l].queue = lane[l].queue,
           \A d \in Calls : \A l \in Calls : Waiting(d, l) => Waiting(d, l)'
    PROVE  QueueInv'
<1> SUFFICES ASSUME NEW l \in Calls
             PROVE  /\ \A n \in 1..Len(lane'[l].queue) :
                          Waiting(lane[l].queue[n], l)'
                    /\ Distinct(lane'[l].queue)
  BY Zenon DEF QueueInv
<1>1. PICK q \in Seq(Calls) : q = lane[l].queue
  BY LaneTypes, Zenon DEF LaneInv
<1>2. lane'[l].queue = q
  BY <1>1, Zenon
<1>3. ASSUME NEW n \in 1..Len(q)
      PROVE  Waiting(q[n], l)'
  <2>1. Waiting(q[n], l) /\ q[n] \in Calls
    BY <1>1 DEF LaneInv, QueueInv
  <2> QED
    BY <2>1, Zenon
<1>4. Distinct(q)
  BY <1>1, Zenon DEF LaneInv, QueueInv
<1>5. \A n \in 1..Len(lane'[l].queue) : Waiting(lane[l].queue[n], l)'
  BY <1>2, <1>3, Zenon DEF Waiting
<1> QED
  BY <1>2, <1>4, <1>5, Zenon

\* One queue changes.
LEMMA OneQueue ==
    ASSUME LaneInv, NewInv', NEW l \in Calls, NEW q \in Seq(Calls),
           lane'[l].queue = q,
           Distinct(q),
           \A n \in 1..Len(q) : Waiting(q[n], l)',
           \A k \in Calls : k # l => lane'[k].queue = lane[k].queue,
           \A d \in Calls : \A k \in Calls :
              k # l /\ Waiting(d, k) => Waiting(d, k)'
    PROVE  QueueInv'
<1> SUFFICES ASSUME NEW k \in Calls
             PROVE  /\ \A n \in 1..Len(lane'[k].queue) :
                          Waiting(lane[k].queue[n], k)'
                    /\ Distinct(lane'[k].queue)
  BY Zenon DEF QueueInv
<1>1. CASE k = l
  BY <1>1, Zenon DEF Waiting
<1>2. CASE k # l
  <2>1. PICK r \in Seq(Calls) : r = lane[k].queue
    BY LaneTypes, Zenon DEF LaneInv
  <2>2. lane'[k].queue = r
    BY <1>2, <2>1, Zenon
  <2>3. ASSUME NEW n \in 1..Len(r)
        PROVE  Waiting(r[n], k)'
    <3>1. Waiting(r[n], k) /\ r[n] \in Calls
      BY <2>1 DEF LaneInv, QueueInv
    <3> QED
      BY <1>2, <3>1, Zenon
  <2>4. Distinct(r)
    BY <2>1, Zenon DEF LaneInv, QueueInv
  <2>5. \A n \in 1..Len(lane'[k].queue) : Waiting(lane[k].queue[n], k)'
    BY <2>2, <2>3, Zenon DEF Waiting
  <2> QED
    BY <2>2, <2>4, <2>5, Zenon
<1> QED
  BY <1>1, <1>2, Zenon

\* A new member keeps a queue without repetition.
LEMMA AppendDistinct ==
    ASSUME NEW q \in Seq(Calls), NEW c \in Calls, Distinct(q),
           \A n \in 1..Len(q) : q[n] # c
    PROVE  Distinct(Append(q, c))
  BY DEF Distinct

\* The head of a queue without repetition is not in its tail.
LEMMA TailDistinct ==
    ASSUME NEW q \in Seq(Calls), q # <<>>, Distinct(q)
    PROVE  /\ Distinct(Tail(q))
           /\ \A n \in 1..Len(Tail(q)) :
                 Tail(q)[n] # Head(q) /\ \E m \in 1..Len(q) : Tail(q)[n] = q[m]
<1>1. /\ Len(Tail(q)) = Len(q) - 1 /\ Len(q) \in Nat /\ Head(q) = q[1]
      /\ \A n \in 1..Len(Tail(q)) : Tail(q)[n] = q[n + 1]
  OBVIOUS
<1> HIDE <1>1
<1> QED
  BY <1>1 DEF Distinct

\* A call that starts or leaves is neither queued nor running.
Outer(c) ==
    /\ op' = op
    /\ call[c].pc \in {"unused", "leave"}
    /\ call'[c].pc \in {"enter", "returned"}
    /\ call[c].pc = "leave" => call'[c].pc = "returned"
    /\ \A d \in Calls : d # c => call'[d] = call[d]
    /\ \A l \in Calls :
          /\ lane'[l].queue = lane[l].queue
          /\ lane'[l].running = lane[l].running
          /\ lane'[l].callbackActive = lane[l].callbackActive

\* Entering and leaving keep what is inside the lanes.
LEMMA OuterKeepsLanes ==
    ASSUME LaneInv, NEW c \in Calls, Outer(c)
    PROVE  RunInv' /\ QueueInv' /\ ExecInv'
<1> USE DEF LaneInv
<1>0. \A d \in Calls : Running(d) => call[d].lane \in Calls
  BY LaneTypes, Zenon DEF Running, Busy
<1>1. RunInv'
  BY <1>0 DEF RunInv, Outer, Running
<1>2. QueueInv'
  <2>1. NewInv'
    BY Zenon DEF QueueInv, NewInv, Outer
  <2>2. \A d \in Calls : \A l \in Calls : Waiting(d, l) => Waiting(d, l)'
    BY Zenon DEF Waiting, Outer
  <2> QED
    BY <2>1, <2>2, SameQueues, Zenon DEF Outer
<1>3. ExecInv'
  <2>1. \A o \in Calls : Executing(o) => o # c
    BY Zenon DEF ExecInv, Outer
  <2> QED
    BY <2>1 DEF ExecInv, Executing, Outer
<1> QED
  BY <1>1, <1>2, <1>3, Zenon

\* runStream's entry is such a step.
LEMMA RunStreamOuter ==
    ASSUME LaneInv, NEW c \in Calls, NEW s \in Streams, RunEffect(c, s)
    PROVE  Outer(c)
  BY DEF RunEffect, Outer, LaneSet, Unused

\* So is its exit.
LEMMA LeaveOuter ==
    ASSUME LaneInv, NEW c \in Calls, LeaveEffect(c)
    PROVE  Outer(c)
  BY DEF LeaveEffect, Outer, LaneSet, Returned

\* The steps inside a lane keep its one runner.
LEMMA InnerRun ==
    ASSUME LaneInv, NEW c \in Calls, Inner(c)
    PROVE  RunInv'
<1> USE DEF LaneInv
<1>0. \A d \in Calls : Running(d) => call[d].lane \in Calls
  BY LaneTypes, Zenon DEF Running, Busy
<1>1. CASE Enter(c)
  <2> DEFINE l == call[c].lane
  <2>1. EnterEffect(c) /\ l \in Calls
    BY <1>1, EnterStep, LaneTypes, Zenon DEF EnterEffect, Busy
  <2>2. CASE lane' = lane /\ Moved(c, "leave")
    BY <1>0, <2>1, <2>2 DEF EnterEffect, Moved, RunInv, Running
  <2>3. CASE lane' # lane \/ ~Moved(c, "leave")
    <3>1. /\ lane'[l].running = TRUE
          /\ \A k \in Calls : k # l => lane'[k].running = lane[k].running
          /\ \A d \in Calls : d # c => call'[d] = call[d]
          /\ ~Running(c) /\ call'[c].lane = l
      BY <2>1, <2>3, Zenon DEF EnterEffect, LaneSet, Moved, Running
    <3>2. CASE lane[l].running
      <4>1. call'[c].pc = "wait"
        BY <2>1, <2>3, <3>2, Zenon DEF EnterEffect, Moved
      <4> QED
        BY <1>0, <2>1, <3>1, <3>2, <4>1 DEF RunInv, Running
    <3>3. CASE ~lane[l].running
      <4>1. call'[c].pc = "drain"
        BY <2>1, <2>3, <3>3, Zenon DEF EnterEffect, Moved
      <4> QED
        BY <1>0, <2>1, <3>1, <3>3, <4>1 DEF RunInv, Running
    <3> QED
      BY <3>2, <3>3, Zenon
  <2> QED
    BY <2>2, <2>3, Zenon
<1>2. CASE Drain(c)
  <2> DEFINE l == call[c].lane
  <2>1. DrainEffect(c) /\ l \in Calls
    BY <1>2, DrainStep, LaneTypes, Zenon DEF DrainEffect, Busy
  <2>2. CASE lane[l].queue = <<>>
    <3>1. /\ lane'[l].running = FALSE
          /\ \A k \in Calls : k # l => lane'[k].running = lane[k].running
          /\ \A d \in Calls : d # c => call'[d] = call[d]
          /\ Running(c) /\ call'[c].pc = "leave"
      BY <2>1, <2>2, Zenon DEF DrainEffect, LaneSet, Moved, Running
    <3> QED
      BY <1>0, <2>1, <3>1 DEF RunInv, Running
  <2>3. CASE lane[l].queue # <<>>
    <3>1. /\ \A k \in Calls : lane'[k].running = lane[k].running
          /\ \A d \in Calls : d # c => call'[d] = call[d]
          /\ Running(c) /\ call'[c].pc = "execute" /\ call'[c].lane = l
      BY <2>1, <2>3, Zenon DEF DrainEffect, LaneSet, Moved, Running
    <3> QED
      BY <1>0, <2>1, <3>1 DEF RunInv, Running
  <2> QED
    BY <2>2, <2>3, Zenon
<1>3. CASE StartCallback(c)
  <2>1. call' = call /\ \A l \in Calls : lane'[l].running = lane[l].running
    BY <1>3, StartStep, Zenon DEF StartEffect, LaneSet
  <2> QED
    BY <1>0, <2>1 DEF RunInv, Running
<1>4. CASE EndCallback(c)
  <2>1. call' = call /\ \A l \in Calls : lane'[l].running = lane[l].running
    BY <1>4, EndStep, Zenon DEF EndEffect, LaneSet
  <2> QED
    BY <1>0, <2>1, Zenon DEF RunInv, Running
<1>5. CASE EndOperation(c)
  BY <1>5, OperationStep DEF OperationEffect, RunnerOf, RunInv, Running
<1>6. CASE Receive(c)
  BY <1>6, ReceiveStep DEF ReceiveEffect, Moved, RunInv, Running
<1> QED
  BY <1>1, <1>2, <1>3, <1>4, <1>5, <1>6, Zenon DEF Inner

\* They keep its queue.
LEMMA InnerQueue ==
    ASSUME LaneInv, NEW c \in Calls, Inner(c)
    PROVE  QueueInv'
<1> USE DEF LaneInv
<1>1. CASE Enter(c)
  <2>0. PICK l \in Calls : l = call[c].lane
    BY <1>1, LaneTypes, Zenon DEF Enter, Busy
  <2>1. EnterEffect(c) /\ call[c].pc = "enter" /\ op' = op /\ op[c].at = "new"
    BY <1>1, EnterStep, Zenon DEF EnterEffect, QueueInv, NewInv
  <2>2. NewInv'
    BY <2>1, Zenon DEF EnterEffect, Moved, QueueInv, NewInv
  <2>3. \A d \in Calls : \A k \in Calls : Waiting(d, k) => Waiting(d, k)'
    BY <2>1, Zenon DEF EnterEffect, Moved, Waiting
  <2>4. CASE lane' = lane
    BY <2>2, <2>3, <2>4, SameQueues, Zenon
  <2>5. CASE lane' # lane
    <3>1. PICK q \in Seq(Calls) : q = lane[l].queue
      BY LaneTypes, Zenon
    <3>2. /\ lane'[l].queue = Append(q, c)
          /\ \A k \in Calls : k # l => lane'[k].queue = lane[k].queue
          /\ call'[c].pc \in {"wait", "drain"} /\ call'[c].lane = l
      BY <2>0, <2>1, <2>5, <3>1, Zenon DEF EnterEffect, LaneSet, Moved
    <3>3. \A n \in 1..Len(q) : Waiting(q[n], l) /\ q[n] \in Calls
      BY <3>1 DEF QueueInv
    <3>4. Distinct(Append(q, c))
      <4>1. \A n \in 1..Len(q) : q[n] # c
        BY <2>1, <3>3, Zenon DEF Waiting
      <4>2. Distinct(q)
        BY <3>1, Zenon DEF QueueInv
      <4> QED
        BY <4>1, <4>2, AppendDistinct, Zenon
    <3>5. Waiting(c, l)'
      BY <2>1, <3>2, Zenon DEF Waiting
    <3>6. \A n \in 1..Len(Append(q, c)) : Waiting(Append(q, c)[n], l)'
      <4>1. \A n \in 1..Len(q) : Waiting(q[n], l)'
        BY <2>3, <3>3, Zenon
      <4>2. ASSUME NEW n \in 1..Len(Append(q, c))
            PROVE  \/ Append(q, c)[n] = c
                   \/ n \in 1..Len(q) /\ Append(q, c)[n] = q[n]
        OBVIOUS
      <4>3. ASSUME NEW n \in 1..Len(Append(q, c))
            PROVE  Waiting(Append(q, c)[n], l)'
        <5>1. CASE Append(q, c)[n] = c
          BY <3>5, <5>1, Zenon
        <5>2. CASE n \in 1..Len(q) /\ Append(q, c)[n] = q[n]
          BY <4>1, <5>2, Zenon
        <5> QED
          BY <4>2, <5>1, <5>2, Zenon
      <4> QED
        BY <4>3, Zenon
    <3>7. Append(q, c) \in Seq(Calls)
      OBVIOUS
    <3> QED
      BY <2>2, <2>3, <3>2, <3>4, <3>6, <3>7, OneQueue, Zenon
  <2> QED
    BY <2>4, <2>5, Zenon
<1>2. CASE Drain(c)
  <2>0. PICK l \in Calls : l = call[c].lane
    BY <1>2, LaneTypes, Zenon DEF Drain, Busy
  <2>1. DrainEffect(c) /\ call[c].pc = "drain"
    BY <1>2, DrainStep, Zenon DEF DrainEffect
  <2>2. PICK q \in Seq(Calls) : q = lane[l].queue
    BY LaneTypes, Zenon
  <2>3. CASE q = <<>>
    <3>1. /\ \A k \in Calls : lane'[k].queue = lane[k].queue
          /\ op' = op /\ Moved(c, "leave")
      BY <2>0, <2>1, <2>2, <2>3, Zenon DEF DrainEffect, LaneSet
    <3>2. NewInv'
      BY <3>1, Zenon DEF Moved, QueueInv, NewInv
    <3>3. ~\E k \in Calls : Waiting(c, k) /\ k # l
      BY <2>0, Zenon DEF Waiting
    <3>4. /\ lane'[l].queue = q /\ Distinct(q)
          /\ \A n \in 1..Len(q) : Waiting(q[n], l)'
      <4>1. lane'[l].queue = q /\ Distinct(q)
        BY <2>2, <3>1, Zenon DEF QueueInv
      <4>2. \A n : n \notin 1..Len(q)
        BY <2>3
      <4> QED
        BY <4>1, <4>2, Zenon
    <3>5. \A d \in Calls : \A k \in Calls :
             k # l /\ Waiting(d, k) => Waiting(d, k)'
      BY <3>1, <3>3, Zenon DEF Moved, Waiting
    <3> QED
      BY <3>1, <3>2, <3>4, <3>5, OneQueue, Zenon
  <2>4. CASE q # <<>>
    <3>1. PICK o \in Calls : o = Head(q)
      BY <2>4
    <3>2. /\ lane'[l].queue = Tail(q)
          /\ \A k \in Calls : k # l => lane'[k].queue = lane[k].queue
          /\ Moved(c, "execute") /\ OpMoved(o, "body")
      BY <2>0, <2>1, <2>2, <2>4, <3>1, Zenon DEF DrainEffect, LaneSet
    <3>3. \A n \in 1..Len(q) : Waiting(q[n], l) /\ q[n] \in Calls
      BY <2>2 DEF QueueInv
    <3>4. Waiting(o, l)
      BY <2>4, <3>1, <3>3
    <3>5. NewInv'
      BY <3>2, <3>4 DEF Moved, OpMoved, QueueInv, NewInv, Waiting
    <3>6. \A d \in Calls : \A k \in Calls :
             d # o /\ Waiting(d, k) => Waiting(d, k)'
      BY <2>1, <3>2, Zenon DEF Moved, OpMoved, Waiting
    <3>7. \A d \in Calls : \A k \in Calls :
             k # l /\ Waiting(d, k) => Waiting(d, k)'
      BY <3>4, <3>6, Zenon DEF Waiting
    <3>8. /\ Distinct(Tail(q)) /\ Tail(q) \in Seq(Calls)
          /\ \A n \in 1..Len(Tail(q)) : Waiting(Tail(q)[n], l)'
      <4>1. /\ Distinct(Tail(q))
            /\ \A n \in 1..Len(Tail(q)) :
                  Tail(q)[n] # o /\ \E m \in 1..Len(q) : Tail(q)[n] = q[m]
        BY <2>2, <2>4, <3>1, TailDistinct, Zenon DEF QueueInv
      <4>2. Tail(q) \in Seq(Calls)
        BY <2>4
      <4>3. ASSUME NEW n \in 1..Len(Tail(q)) PROVE Waiting(Tail(q)[n], l)'
        <5>1. PICK m \in 1..Len(q) : Tail(q)[n] = q[m]
          BY <4>1, Zenon
        <5>2. q[m] # o
          BY <4>1, <5>1, Zenon
        <5>3. Waiting(q[m], l)'
          BY <3>3, <3>6, <5>2, Zenon
        <5> QED
          BY <5>1, <5>3, Zenon
      <4> QED
        BY <4>1, <4>2, <4>3, Zenon
    <3> QED
      BY <3>2, <3>5, <3>7, <3>8, OneQueue, Zenon
  <2> QED
    BY <2>3, <2>4, Zenon
<1>3. CASE StartCallback(c)
  <2>1. StartEffect(c)
    BY <1>3, StartStep, Zenon
  <2>2. NewInv'
    BY <2>1, Zenon DEF StartEffect, OpMoved, QueueInv, NewInv
  <2>3. \A d \in Calls : \A k \in Calls : Waiting(d, k) => Waiting(d, k)'
    BY <2>1, Zenon DEF StartEffect, OpMoved, Waiting
  <2> QED
    BY <2>1, <2>2, <2>3, SameQueues, Zenon DEF StartEffect, LaneSet
<1>4. CASE EndCallback(c)
  <2>1. EndEffect(c)
    BY <1>4, EndStep, Zenon
  <2>2. NewInv'
    BY <2>1, Zenon DEF EndEffect, OpMoved, QueueInv, NewInv
  <2>3. \A d \in Calls : \A k \in Calls : Waiting(d, k) => Waiting(d, k)'
    BY <2>1, Zenon DEF EndEffect, OpMoved, Waiting
  <2> QED
    BY <2>1, <2>2, <2>3, SameQueues, Zenon DEF EndEffect, LaneSet
<1>5. CASE EndOperation(c)
  <2>1. OperationEffect(c)
    BY <1>5, OperationStep, Zenon
  <2>2. NewInv'
    BY <2>1, Zenon DEF OperationEffect, OpMoved, RunnerOf, QueueInv, NewInv
  <2>3. \A d \in Calls : \A k \in Calls : Waiting(d, k) => Waiting(d, k)'
    BY <2>1, Zenon DEF OperationEffect, OpMoved, RunnerOf, Waiting
  <2> QED
    BY <2>1, <2>2, <2>3, SameQueues, Zenon DEF OperationEffect
<1>6. CASE Receive(c)
  <2>1. ReceiveEffect(c)
    BY <1>6, ReceiveStep, Zenon
  <2>2. NewInv'
    BY <2>1, Zenon DEF ReceiveEffect, Moved, QueueInv, NewInv
  <2>3. \A d \in Calls : \A k \in Calls : Waiting(d, k) => Waiting(d, k)'
    BY <2>1, Zenon DEF ReceiveEffect, Moved, Waiting
  <2> QED
    BY <2>1, <2>2, <2>3, SameQueues, Zenon DEF ReceiveEffect
<1> QED
  BY <1>1, <1>2, <1>3, <1>4, <1>5, <1>6, Zenon DEF Inner

\* They execute one operation at a time.
LEMMA InnerExec ==
    ASSUME LaneInv, NEW c \in Calls, Inner(c)
    PROVE  ExecInv'
<1> USE DEF LaneInv
<1>1. CASE Enter(c)
  <2>1. /\ call[c].pc = "enter" /\ op' = op
        /\ call'[c].lane = call[c].lane
        /\ \A d \in Calls : d # c => call'[d] = call[d]
        /\ \A l \in Calls : lane'[l].callbackActive = lane[l].callbackActive
    BY <1>1, EnterStep, Zenon DEF EnterEffect, Moved, LaneSet
  <2>2. \A o \in Calls : Executing(o) => o # c
    BY <2>1, Zenon DEF ExecInv
  <2> QED
    BY <2>1, <2>2 DEF ExecInv, Executing
<1>2. CASE Drain(c)
  <2>0. PICK l \in Calls : l = call[c].lane
    BY <1>2, LaneTypes, Zenon DEF Drain, Busy
  <2>1. /\ DrainEffect(c) /\ call[c].pc = "drain" /\ Running(c)
        /\ call'[c].lane = call[c].lane
        /\ \A d \in Calls : d # c => call'[d] = call[d]
        /\ \A k \in Calls : lane'[k].callbackActive = lane[k].callbackActive
    BY <1>2, DrainStep, Zenon DEF DrainEffect, Moved, LaneSet, Running
  <2>2. \A o \in Calls : Executing(o) => o # c /\ call[o].lane # l
    <3> SUFFICES ASSUME NEW o \in Calls, Executing(o)
                 PROVE  o # c /\ call[o].lane # l
      BY Zenon
    <3>1. o # c
      BY <2>1, Zenon DEF ExecInv
    <3>2. PICK d \in Calls : call[d].pc = "execute"
                             /\ call[d].lane = call[o].lane
      BY Zenon DEF ExecInv
    <3>3. Running(d) /\ d # c
      BY <2>1, <3>2, Zenon DEF Running
    <3> QED
      BY <2>0, <2>1, <3>1, <3>2, <3>3, Zenon DEF RunInv
  <2>3. PICK q \in Seq(Calls) : q = lane[l].queue
    BY LaneTypes, Zenon
  <2>4. CASE q = <<>>
    <3>1. op' = op
      BY <2>0, <2>1, <2>3, <2>4, Zenon DEF DrainEffect
    <3> QED
      BY <2>0, <2>1, <2>2, <3>1 DEF ExecInv, Executing
  <2>5. CASE q # <<>>
    <3>1. PICK o \in Calls : o = Head(q)
      BY <2>5
    <3>2. call'[c].pc = "execute" /\ OpMoved(o, "body")
      BY <2>0, <2>1, <2>3, <2>5, <3>1, Zenon DEF DrainEffect, Moved
    <3>3. Waiting(o, l)
      BY <2>3, <2>5, <3>1 DEF QueueInv
    <3>4. o = c \/ call[o].pc = "wait"
      BY <2>0, <2>1, <3>3, Zenon DEF Waiting, RunInv, Running
    <3>5. \A p \in Calls : Executing(p)' => p = o \/ Executing(p)
      BY <3>2, Zenon DEF OpMoved, Executing
    <3>6. call'[o].pc \in {"wait", "execute"} /\ call'[o].lane = l
      BY <2>0, <2>1, <3>2, <3>3, <3>4, Zenon DEF Waiting
    <3>7. \A p \in Calls : Executing(p)' =>
             /\ call'[p].pc \in {"wait", "execute"}
             /\ \E d \in Calls : call'[d].pc = "execute"
                                 /\ call'[d].lane = call'[p].lane
      <4>1. ASSUME NEW p \in Calls, Executing(p), p # o
            PROVE  /\ call'[p].pc \in {"wait", "execute"}
                   /\ \E d \in Calls : call'[d].pc = "execute"
                                       /\ call'[d].lane = call'[p].lane
        <5>1. PICK d \in Calls : call[d].pc = "execute"
                                 /\ call[d].lane = call[p].lane
          BY <4>1, Zenon DEF ExecInv
        <5>2. call'[p] = call[p] /\ call'[d] = call[d]
          BY <2>1, <2>2, <4>1, <5>1, Zenon
        <5> QED
          BY <4>1, <5>1, <5>2, Zenon DEF ExecInv
      <4>2. call'[c].pc = "execute" /\ call'[c].lane = call'[o].lane
        BY <2>0, <2>1, <3>2, <3>6, Zenon
      <4> QED
        BY <3>5, <3>6, <4>1, <4>2, Zenon
    <3>8. \A p, r \in Calls :
             Executing(p)' /\ Executing(r)' /\ call'[p].lane = call'[r].lane
             => p = r
      BY <2>0, <2>1, <2>2, <3>5, <3>6 DEF ExecInv
    <3>9. \A k \in Calls : lane'[k].callbackActive =>
             \E p \in Calls : op'[p].at = "callback" /\ call'[p].lane = k
      <4>1. \A p \in Calls : op[p].at = "callback" =>
               op'[p].at = "callback" /\ call'[p].lane = call[p].lane
        BY <2>1, <3>2, <3>3, Zenon DEF OpMoved, Waiting
      <4> QED
        BY <2>1, <4>1 DEF ExecInv
    <3> QED
      BY <3>7, <3>8, <3>9, Zenon DEF ExecInv
  <2> QED
    BY <2>4, <2>5, Zenon
<1>3. CASE StartCallback(c)
  <2>1. /\ StartEffect(c) /\ call' = call /\ Executing(c)
        /\ op'[c].at = "callback"
        /\ \A k \in Calls : k # call[c].lane =>
              lane'[k].callbackActive = lane[k].callbackActive
    BY <1>3, StartStep, Zenon DEF StartEffect, LaneSet, OpMoved, Executing
  <2>2. \A p \in Calls : Executing(p)' <=> Executing(p)
    BY <2>1, Zenon DEF StartEffect, OpMoved, Executing
  <2>3. \A p \in Calls : op[p].at = "callback" => op'[p].at = "callback"
    BY <2>1, Zenon DEF StartEffect, OpMoved
  <2> QED
    BY <2>1, <2>2, <2>3, Zenon DEF ExecInv
<1>4. CASE EndCallback(c)
  <2>1. /\ EndEffect(c) /\ call' = call /\ Executing(c)
        /\ lane'[call[c].lane].callbackActive = FALSE
        /\ \A k \in Calls : k # call[c].lane =>
              lane'[k].callbackActive = lane[k].callbackActive
    BY <1>4, EndStep, Zenon DEF EndEffect, LaneSet, OpMoved, Executing
  <2>2. \A p \in Calls : Executing(p)' <=> Executing(p)
    BY <2>1, Zenon DEF EndEffect, OpMoved, Executing
  <2>3. \A p \in Calls : p # c => op'[p] = op[p]
    BY <2>1, Zenon DEF EndEffect, OpMoved
  <2> QED
    BY <2>1, <2>2, <2>3 DEF ExecInv
<1>5. CASE EndOperation(c)
  <2>1. /\ OperationEffect(c) /\ Executing(c) /\ lane' = lane
        /\ op[c].at = "body"
        /\ \A d \in Calls : call'[d].lane = call[d].lane
        /\ \A d \in Calls : call[d].lane # call[c].lane => call'[d] = call[d]
    BY <1>5, OperationStep, Zenon DEF OperationEffect, RunnerOf, Executing
  <2>2. \A p \in Calls : Executing(p)' => Executing(p) /\ p # c
    BY <2>1, Zenon DEF OperationEffect, OpMoved, Executing
  <2>3. \A p \in Calls : Executing(p)' => call[p].lane # call[c].lane
    BY <2>1, <2>2, Zenon DEF ExecInv
  <2>4. \A p \in Calls : op[p].at = "callback" => op'[p].at = "callback"
    BY <2>1, Zenon DEF OperationEffect, OpMoved
  <2> QED
    BY <2>1, <2>2, <2>3, <2>4 DEF ExecInv
<1>6. CASE Receive(c)
  <2>1. /\ ReceiveEffect(c) /\ ~Executing(c)
        /\ call[c].pc = "wait" /\ op' = op /\ lane' = lane
        /\ call'[c].lane = call[c].lane
        /\ \A d \in Calls : d # c => call'[d] = call[d]
    BY <1>6, ReceiveStep, Zenon DEF ReceiveEffect, Moved, Executing
  <2> QED
    BY <2>1 DEF ExecInv, Executing
<1> QED
  BY <1>1, <1>2, <1>3, <1>4, <1>5, <1>6, Zenon DEF Inner

-----------------------------------------------------------------------------
(* The theorems.                                                           *)

\* Before the first call no lane exists.
LEMMA LaneInvInit ==
    ASSUME LaneInit
    PROVE  LaneInv
<1>1. \A c \in Calls : call[c].pc = "unused" /\ op[c].at = "new"
  BY Zenon DEF LaneInit, Unused
<1>2. \A l \in Calls : /\ lane[l].users = 0 /\ lane[l].queue = <<>>
                       /\ lane[l].running = FALSE
                       /\ lane[l].callbackActive = FALSE
  BY Zenon DEF LaneInit, NewLane
<1>3. LaneTypeOK
  <2>1. NewLane \in LaneType
    BY DEF NewLane, LaneType
  <2>2. [at |-> "new", callbacks |-> 0] \in OpType
    BY LaneAssumption DEF OpType
  <2> QED
    BY <2>1, <2>2, TypeParts, Zenon DEF LaneInit, CallType
<1>4. MapInv
  BY <1>1, Zenon DEF MapInv, LaneInit, Busy
<1>5. CountInv
  <2>1. \A l \in Calls : UsersOf(l) = {}
    BY <1>1, Zenon DEF UsersOf, Busy
  <2> QED
    BY <1>2, <2>1, FS_EmptySet, Zenon DEF CountInv
<1>6. RunInv
  BY <1>1, <1>2, Zenon DEF RunInv, Running
<1>7. QueueInv
  BY <1>1, <1>2 DEF QueueInv, NewInv, Distinct
<1>8. ExecInv
  BY <1>1, <1>2, Zenon DEF ExecInv, Executing
<1> QED
  BY <1>3, <1>4, <1>5, <1>6, <1>7, <1>8, Zenon DEF LaneInv

\* Every step of every call keeps the invariant.
LEMMA LaneInvStep ==
    ASSUME LaneInv, [LaneNext]_laneVars
    PROVE  LaneInv'
<1>1. ASSUME NEW c \in Calls, NEW s \in Streams,
             NEW parent \in Calls \cup {NoCall}, RunStream(c, s, parent)
      PROVE  LaneInv'
  <2>1. LaneTypeOK' /\ RunEffect(c, s)
    BY <1>1, RunStep, Zenon DEF LaneInv
  <2> QED
    BY <2>1, RunMapCount, RunStreamOuter, OuterKeepsLanes, Zenon DEF LaneInv
<1>2. ASSUME NEW c \in Calls, Inner(c)
      PROVE  LaneInv'
  BY <1>2, InnerMapCount, InnerRun, InnerQueue, InnerExec, Zenon DEF LaneInv
<1>3. ASSUME NEW c \in Calls, Leave(c)
      PROVE  LaneInv'
  <2>1. LaneTypeOK' /\ LeaveEffect(c)
    BY <1>3, LeaveStep, Zenon DEF LaneInv
  <2> QED
    BY <2>1, LeaveMapCount, LeaveOuter, OuterKeepsLanes, Zenon DEF LaneInv
<1>4. CASE UNCHANGED laneVars
  <2>1. LaneTypeOK' /\ MapInv' /\ CountInv'
    BY <1>4 DEF laneVars, LaneInv, LaneTypeOK, MapInv, CountInv, UsersOf
  <2>2. RunInv' /\ ExecInv'
    BY <1>4 DEF laneVars, LaneInv, RunInv, Running, ExecInv, Executing
  <2>3. QueueInv'
    BY <1>4 DEF laneVars, LaneInv, QueueInv, NewInv, Waiting
  <2> QED
    BY <2>1, <2>2, <2>3, Zenon DEF LaneInv
<1> QED
  BY <1>1, <1>2, <1>3, <1>4, Zenon DEF LaneNext, Progress, Inner

\* The lane map, the user counts, the runners, the queues and the operations
\* of ServerProtocol.runStream and streamLane.run agree with each other after
\* any number of calls.
THEOREM LaneInvariant == LaneSpec => []LaneInv
  BY LaneInvInit, LaneInvStep, PTL DEF LaneSpec

\* The fields of the lanes keep their types: in particular the user count
\* runStream decrements never goes below zero.
THEOREM LaneTypeCorrect == LaneSpec => []LaneTypeOK
<1>1. LaneInv => LaneTypeOK
  BY Zenon DEF LaneInv
<1> QED
  BY <1>1, LaneInvariant, PTL

\* Two operations of one Session never execute together, for any number of
\* calls of runStream, callbacks and Sessions, and across the deletion and
\* re-creation of the Session's lane.
THEOREM OperationsAreSerial == LaneSpec => []OneOperationPerSession
<1>1. ASSUME LaneInv
      PROVE  OneOperationPerSession
  <2> USE <1>1 DEF LaneInv
  <2> SUFFICES ASSUME NEW a \in Calls, NEW b \in Calls,
                      Executing(a), Executing(b),
                      call[a].session = call[b].session
               PROVE  a = b
    BY Zenon DEF OneOperationPerSession, Executing
  <2>1. call[a].pc \in Busy /\ call[b].pc \in Busy
    BY ExecutingCalls, Zenon
  <2>2. call[a].lane = call[b].lane
    BY <2>1 DEF MapInv
  <2> QED
    BY <2>2, Zenon DEF ExecInv
<1> QED
  BY <1>1, LaneInvariant, PTL

\* A lane is in the map of ServerProtocol exactly while calls use it, counts
\* exactly these calls, and is idle and empty when the last one has left.
THEOREM LanesAreReleased == LaneSpec => []LaneLivesWithItsUsers
<1>1. ASSUME LaneInv
      PROVE  LaneLivesWithItsUsers
  <2> USE <1>1 DEF LaneInv
  <2> SUFFICES ASSUME NEW l \in Calls
               PROVE  /\ lane[l].users = Cardinality(UsersOf(l))
                      /\ UsersOf(l) # {} <=> \E s \in Streams : lanes[s] = l
                      /\ UsersOf(l) = {} => lane[l] = NewLane
    <3>1. \A l \in Calls :
             UsersOf(l) = {c \in Calls : InProgress(c) /\ call[c].lane = l}
      BY BusyCalls, Zenon DEF UsersOf
    <3> QED
      BY <3>1, Zenon DEF LaneLivesWithItsUsers
  <2>1. lane[l].users = Cardinality(UsersOf(l))
    BY Zenon DEF CountInv
  <2>2. UsersOf(l) # {} <=> \E s \in Streams : lanes[s] = l
    <3>1. ASSUME NEW c \in UsersOf(l)
          PROVE  \E s \in Streams : lanes[s] = l
      BY BusyCalls DEF UsersOf, MapInv
    <3>2. ASSUME NEW s \in Streams, lanes[s] = l
          PROVE  UsersOf(l) # {}
      BY <3>2 DEF UsersOf, MapInv, NoCall, Calls
    <3> QED
      BY <3>1, <3>2, Zenon
  <2>3. ASSUME UsersOf(l) = {}
        PROVE  lane[l] = NewLane
    <3>1. \A c \in Calls : call[c].pc \in Busy => call[c].lane # l
      BY <2>3, Zenon DEF UsersOf
    <3>2. lane[l].users = 0
      BY <2>1, <2>3, FS_EmptySet, Zenon
    <3>3. lane[l].queue = <<>>
      <4>1. PICK q \in Seq(Calls) : q = lane[l].queue
        BY LaneTypes, Zenon
      <4>2. \A n \in 1..Len(q) : q[n] \in Calls /\ Waiting(q[n], l)
        BY <4>1 DEF QueueInv
      <4>3. Len(q) = 0
        BY <3>1, <4>2 DEF Waiting, Busy
      <4> QED
        BY <4>1, <4>3
    <3>4. ~lane[l].running
      BY <3>1, Zenon DEF RunInv, Running, Busy
    <3>5. ~lane[l].callbackActive
      <4>1. \A o \in Calls : op[o].at = "callback" => call[o].lane # l
        BY <3>1, ExecutingCalls, Zenon DEF Executing
      <4> QED
        BY <4>1, Zenon DEF ExecInv
    <3>6. lane[l] \in LaneType
      BY TypeParts, Zenon
    <3> QED
      BY <3>2, <3>3, <3>4, <3>5, <3>6, Zenon DEF LaneType, NewLane
  <2> QED
    BY <2>1, <2>2, <2>3, Zenon
<1> QED
  BY <1>1, LaneInvariant, PTL

-----------------------------------------------------------------------------
(* ServerAdmission, for any number of concurrent Handle calls, Sessions and *)
(* connections.  GateInv ties the gate to the history of its own connection: *)
(* what is READY or RESUMING was made READY by a handshake of this         *)
(* generation, which is what admitting traffic relies on and what the      *)
(* generation test of applyResult protects from late handlers.             *)

GateInv ==
    /\ state # "CLOSED" => generation \in Generations
    /\ state \in {"READY", "RESUMING"} => sessionID \in established[generation]
    /\ TrafficNeedsHandshake
    /\ CapabilitiesMatchSession

\* What Process and ApplyResult read of a call has its type.
LEMMA CallFields ==
    ASSUME TypeOK, NEW h \in Handlers, calls[h].phase \in {"process", "apply"}
    PROVE  /\ calls[h].gen \in Generations /\ calls[h].frame \in Frames
           /\ calls[h] # Idle
           /\ calls[h].phase = "apply" => calls[h].result \in Results
  BY DEF TypeOK, HandleCalls, Idle

\* Handle, processFrame and applyResult keep the gate and its calls well typed
\* however they interleave.
THEOREM AdmissionTypeCorrect == Spec => []TypeOK
<1>1. Init => TypeOK
  <2> SUFFICES ASSUME Init
               PROVE  TypeOK
    BY Zenon
  <2>1. generation \in 0..MaxGeneration /\ open \subseteq Generations
    BY AdmissionAssumption DEF Init
  <2>2. handshake \in BOOLEAN
    BY Zenon DEF Init
  <2>3. established \in [Generations -> SUBSET Sessions]
    BY Zenon DEF Init
  <2>4. calls \in [Handlers -> HandleCalls \cup {Idle}]
    BY Zenon DEF Init
  <2> QED
    BY <2>1, <2>2, <2>3, <2>4, Zenon DEF Init, TypeOK
<1>2. TypeOK /\ [Next]_admissionVars => TypeOK'
  <2> SUFFICES ASSUME TypeOK, [Next]_admissionVars
               PROVE  TypeOK'
    BY Zenon
  <2>1. CASE Replace
    <3>1. generation' \in 0..MaxGeneration /\ open' \subseteq Generations
      BY <2>1, AdmissionAssumption DEF Replace, TypeOK, Generations
    <3> QED
      BY <2>1, <3>1, Zenon DEF Replace, TypeOK
  <2>2. ASSUME NEW h \in Handlers, NEW g \in Generations, NEW f \in Frames,
               Refuse(h, g, f)
        PROVE  TypeOK'
    BY <2>2, Zenon DEF Refuse, TypeOK
  <2>3. ASSUME NEW h \in Handlers, NEW g \in Generations, NEW f \in Frames,
               Admit(h, g, f)
        PROVE  TypeOK'
    <3>1. calls' \in [Handlers -> HandleCalls \cup {Idle}]
      BY <2>3, Zenon DEF Admit, Start, TypeOK, HandleCalls
    <3>2. state' \in {"CLOSED", "AWAITING_HANDSHAKE", "READY", "RESUMING"}
      BY <2>3, Zenon DEF Admit, TypeOK
    <3>3. handshake' \in BOOLEAN
      BY <2>3, Zenon DEF Admit, TypeOK
    <3> QED
      BY <2>3, <3>1, <3>2, <3>3, Zenon DEF Admit, TypeOK
  <2>4. ASSUME NEW h \in Handlers, NEW r \in Results, Process(h, r)
        PROVE  TypeOK'
    <3>1. calls[h].gen \in Generations /\ calls[h].frame \in Frames
      BY <2>4, CallFields, Zenon DEF Process
    <3>2. calls' \in [Handlers -> HandleCalls \cup {Idle}]
      BY <2>4, <3>1, Zenon DEF Process, TypeOK, HandleCalls
    <3>3. open' \subseteq Generations
      BY <2>4, Zenon DEF Process, TypeOK
    <3> QED
      BY <2>4, <3>2, <3>3, Zenon DEF Process, TypeOK
  <2>5. ASSUME NEW h \in Handlers, ApplyResult(h)
        PROVE  TypeOK'
    <3>1. calls[h].gen \in Generations /\ calls[h].result \in Results
      BY <2>5, CallFields, Zenon DEF ApplyResult
    <3>2. calls' \in [Handlers -> HandleCalls \cup {Idle}]
      BY <2>5, Zenon DEF ApplyResult, TypeOK
    <3>3. calls[h].result.kind = "ready" => calls[h].result.session \in Sessions
      BY <3>1, Zenon DEF Results
    <3>4. established' \in [Generations -> SUBSET Sessions]
      BY <2>5, <3>1, <3>3, Zenon DEF ApplyResult, TypeOK
    <3>5. handshake' \in BOOLEAN
      BY <2>5, Zenon DEF ApplyResult
    <3>6. /\ state' \in {"CLOSED", "AWAITING_HANDSHAKE", "READY", "RESUMING"}
          /\ sessionID' \in Sessions \cup {NoSession}
          /\ capabilities' \in Sessions \cup {NoSession}
      BY <2>5, <3>3, Zenon DEF ApplyResult, Install, TypeOK
    <3> QED
      BY <2>5, <3>2, <3>4, <3>5, <3>6, Zenon DEF ApplyResult, TypeOK
  <2>6. CASE UNCHANGED admissionVars
    BY <2>6, Zenon DEF admissionVars, TypeOK
  <2> QED
    BY <2>1, <2>2, <2>3, <2>4, <2>5, <2>6, Zenon DEF Next
<1> QED
  BY <1>1, <1>2, PTL DEF Spec

\* Late results of a replaced connection and concurrent handlers of the same
\* one leave GateInv true.
THEOREM GateInvariant == Spec => [](TypeOK /\ GateInv)
<1>1. Init => GateInv
  <2> SUFFICES ASSUME Init
               PROVE  GateInv
    BY Zenon
  <2>1. TrafficNeedsHandshake
    BY Zenon DEF Init, TrafficNeedsHandshake
  <2>2. CapabilitiesMatchSession
    BY Zenon DEF Init, CapabilitiesMatchSession
  <2> QED
    BY <2>1, <2>2, Zenon DEF Init, GateInv
<1>2. TypeOK /\ TypeOK' /\ GateInv /\ [Next]_admissionVars => GateInv'
  <2> SUFFICES ASSUME TypeOK, TypeOK', GateInv, [Next]_admissionVars
               PROVE  GateInv'
    BY Zenon
  <2>1. CASE Replace
    <3>1. generation' \in Generations
      BY <2>1, AdmissionAssumption, Zenon DEF Replace, TypeOK, Generations
    <3>2. TrafficNeedsHandshake'
      BY <2>1, Zenon DEF Replace, GateInv, TrafficNeedsHandshake
    <3>3. CapabilitiesMatchSession'
      BY <2>1, Zenon DEF Replace, CapabilitiesMatchSession
    <3> QED
      BY <2>1, <3>1, <3>2, <3>3, Zenon DEF Replace, GateInv
  <2>2. ASSUME NEW h \in Handlers, NEW g \in Generations, NEW f \in Frames,
               Refuse(h, g, f)
        PROVE  GateInv'
    <3>1. TrafficNeedsHandshake'
      BY <2>2, Zenon DEF Refuse, GateInv, TrafficNeedsHandshake
    <3>2. CapabilitiesMatchSession'
      BY <2>2, Zenon DEF Refuse, CapabilitiesMatchSession
    <3> QED
      BY <2>2, <3>1, <3>2, Zenon DEF Refuse, GateInv
  <2>3. ASSUME NEW h \in Handlers, NEW g \in Generations, NEW f \in Frames,
               Admit(h, g, f)
        PROVE  GateInv'
    <3>1. /\ g = generation /\ state # "CLOSED"
          /\ calls' = [calls EXCEPT ![h] = [phase |-> "process", gen |-> g,
                                            frame |-> f]]
          /\ UNCHANGED <<generation, sessionID, capabilities, established>>
      BY <2>3, Zenon DEF Admit, Start
    <3>2. f.type \in Traffic => f.session \in established[g]
      BY <2>3, Zenon DEF Admit, Allowed, Traffic, GateInv
    <3>3. TrafficNeedsHandshake'
      BY <3>1, <3>2, Zenon DEF TypeOK, GateInv, TrafficNeedsHandshake
    <3>4. \/ state' = state
          \/ state = "READY" /\ state' = "RESUMING"
      BY <2>3, Zenon DEF Admit
    <3>5. CapabilitiesMatchSession'
      BY <3>1, <3>4, Zenon DEF GateInv, CapabilitiesMatchSession
    <3> QED
      BY <3>1, <3>3, <3>4, <3>5, Zenon DEF GateInv
  <2>4. ASSUME NEW h \in Handlers, NEW r \in Results, Process(h, r)
        PROVE  GateInv'
    <3>1. /\ calls[h] # Idle
          /\ calls' = [calls EXCEPT ![h] =
                          [phase |-> "apply", gen |-> calls[h].gen,
                           frame |-> calls[h].frame, result |-> r]]
          /\ UNCHANGED <<generation, state, sessionID, capabilities,
                         established>>
      BY <2>4, CallFields, Zenon DEF Process, TypeOK
    <3>2. TrafficNeedsHandshake'
      BY <3>1, Zenon DEF TypeOK, GateInv, TrafficNeedsHandshake
    <3>3. CapabilitiesMatchSession'
      BY <3>1, Zenon DEF GateInv, CapabilitiesMatchSession
    <3> QED
      BY <3>1, <3>2, <3>3, Zenon DEF GateInv
  <2>5. ASSUME NEW h \in Handlers, ApplyResult(h)
        PROVE  GateInv'
    <3> DEFINE r == calls[h].result
    <3>1. /\ calls[h].gen \in Generations
          /\ r \in Results
      BY <2>5, CallFields, Zenon DEF ApplyResult
    <3>2. /\ \A g \in Generations : established[g] \subseteq established'[g]
          /\ r.kind = "ready" => r.session \in established'[calls[h].gen]
      BY <2>5, <3>1, Zenon DEF ApplyResult, TypeOK
    <3>3. \A i \in Handlers : calls'[i] # Idle =>
             calls'[i] = calls[i] /\ calls[i].gen \in Generations
      BY <2>5, Zenon DEF ApplyResult, TypeOK, HandleCalls, Idle
    <3>4. TrafficNeedsHandshake'
      BY <3>2, <3>3, Zenon DEF GateInv, TrafficNeedsHandshake
    <3>5. CapabilitiesMatchSession'
      <4>1. r.kind = "ready" => r.session # NoSession
        BY <3>1, AdmissionAssumption, Zenon DEF Results
      <4> QED
        BY <2>5, <4>1, Zenon
           DEF ApplyResult, Install, GateInv, CapabilitiesMatchSession
    <3>6. state' # "CLOSED" => generation' \in Generations
      BY <2>5, Zenon DEF ApplyResult, Accepts, Install, GateInv
    <3>7. state' \in {"READY", "RESUMING"}
             => sessionID' \in established'[generation']
      <4>1. CASE Accepts(h) /\ r.kind = "ready"
        BY <2>5, <3>2, <4>1, Zenon DEF ApplyResult, Accepts, Current, Install
      <4>2. CASE ~(Accepts(h) /\ r.kind = "ready")
        BY <2>5, <3>2, <4>2, Zenon DEF ApplyResult, Accepts, Install, GateInv
      <4> QED
        BY <4>1, <4>2, Zenon
    <3> QED
      BY <3>4, <3>5, <3>6, <3>7, Zenon DEF GateInv
  <2>6. CASE UNCHANGED admissionVars
    BY <2>6, Zenon DEF admissionVars, GateInv, TrafficNeedsHandshake,
                CapabilitiesMatchSession
  <2> QED
    BY <2>1, <2>2, <2>3, <2>4, <2>5, <2>6, Zenon DEF Next
<1> QED
  BY <1>1, <1>2, AdmissionTypeCorrect, PTL DEF Spec

\* PING, SEND and STATE_QUERY are processed only for a Session that a HELLO or
\* RESUME of the same connection made READY.
THEOREM HandshakeFirst == Spec => []TrafficNeedsHandshake
<1>1. GateInv => TrafficNeedsHandshake
  BY Zenon DEF GateInv
<1> QED
  BY <1>1, GateInvariant, PTL

\* A gate with a Session has that Session's own capabilities, others none.
THEOREM CapabilitiesFollowSession == Spec => []CapabilitiesMatchSession
<1>1. GateInv => CapabilitiesMatchSession
  BY Zenon DEF GateInv
<1> QED
  BY <1>1, GateInvariant, PTL

\* Only Replace, with a new generation, leaves CLOSED.
THEOREM ClosedStaysClosed == Spec => ClosedIsFinal
<1>1. [Next]_admissionVars =>
         [state = "CLOSED" /\ state' # "CLOSED"
             => generation' = generation + 1]_admissionVars
  <2> SUFFICES ASSUME Next, state = "CLOSED", state' # "CLOSED"
               PROVE  generation' = generation + 1
    BY Zenon
  <2>1. CASE Replace
    BY <2>1, Zenon DEF Replace
  <2>2. ASSUME NEW h \in Handlers, NEW g \in Generations, NEW f \in Frames,
               Refuse(h, g, f) \/ Admit(h, g, f)
        PROVE  FALSE
    BY <2>2, Zenon DEF Refuse, Admit
  <2>3. ASSUME NEW h \in Handlers, NEW r \in Results, Process(h, r)
        PROVE  FALSE
    BY <2>3, Zenon DEF Process
  <2>4. ASSUME NEW h \in Handlers, ApplyResult(h)
        PROVE  FALSE
    BY <2>4, Zenon DEF ApplyResult, Accepts
  <2> QED
    BY <2>1, <2>2, <2>3, <2>4, Zenon DEF Next
<1> QED
  BY <1>1, PTL DEF Spec, ClosedIsFinal

-----------------------------------------------------------------------------
(* OutboundQueue, for any producers, batches and bound.  The refinement    *)
(* needs no invariant: every step under the mutex is a step of the FIFO and *)
(* every other step stutters.  WakePending is inductive: the writer goes to *)
(* sleep only from an empty open queue, and a producer that changes that   *)
(* holds the duty to signal until the token is in place.                   *)

\* Frames queued and frames sent stay sequences of frames that some producer
\* enqueued, and the writer in one of its six places.
THEOREM QueueTypeCorrect == QueueSpec => []QueueTypeOK
<1>1. QueueInit => QueueTypeOK
  <2>1. <<>> \in Seq(QueueFrames)
    OBVIOUS
  <2>2. {} \subseteq Producers
    BY Zenon
  <2> QED
    BY <2>1, <2>2, Zenon DEF QueueInit, QueueTypeOK
<1>2. QueueTypeOK /\ [QueueNext]_queueVars => QueueTypeOK'
  <2> SUFFICES ASSUME QueueTypeOK, [QueueNext]_queueVars
               PROVE  QueueTypeOK'
    BY Zenon
  <2> USE DEF QueueTypeOK
  <2>1. ASSUME NEW p \in Producers, NEW b \in Batches, EnqueueBatch(p, b)
        PROVE  QueueTypeOK'
    <3>1. b \in Seq(QueueFrames)
      BY QueueAssumption, Zenon
    <3>2. frames' \in Seq(QueueFrames)
      BY <2>1, <3>1 DEF EnqueueBatch, AppendBatch
    <3> QED
      BY <2>1, <3>2, Zenon DEF EnqueueBatch
  <2>2. ASSUME NEW p \in Producers, Close(p)
        PROVE  QueueTypeOK'
    BY <2>2, Zenon DEF Close
  <2>3. ASSUME NEW p \in Producers, Wake(p)
        PROVE  QueueTypeOK'
    BY <2>3, Zenon DEF Wake, Token
  <2>4. CASE NextFrame
    <3>1. frames # <<>>
      BY <2>4, Zenon DEF NextFrame, Drained
    <3>2. Head(frames) \in QueueFrames /\ Tail(frames) \in Seq(QueueFrames)
      BY <3>1
    <3> QED
      BY <2>4, <3>2 DEF NextFrame, HeadFrame
  <2>5. CASE NextEmpty \/ Wait \/ Awake \/ Send \/ WriterFails
    BY <2>5, Zenon DEF NextEmpty, Wait, Awake, Send, WriterFails
  <2>6. CASE UNCHANGED queueVars
    BY <2>6, Zenon DEF queueVars
  <2> QED
    BY <2>1, <2>2, <2>3, <2>4, <2>5, <2>6, Zenon DEF QueueNext, Writer
<1> QED
  BY <1>1, <1>2, PTL DEF QueueSpec

\* OutboundQueue with its unlocked signals and its waiting writer implements
\* the FIFO of whole batches.
THEOREM QueueImplementsFifo == QueueSpec => ImplementsFifo
<1>1. QueueInit => Fifo!FifoInit
  BY Zenon DEF QueueInit, Fifo!FifoInit
<1>2. [QueueNext]_queueVars => [Fifo!FifoNext]_(Fifo!fifoVars)
  <2> SUFFICES ASSUME [QueueNext]_queueVars
               PROVE  Fifo!FifoNext \/ UNCHANGED Fifo!fifoVars
    BY Zenon
  <2> USE DEF Fifo!FifoNext, Fifo!fifoVars
  <2>1. ASSUME NEW p \in Producers, NEW b \in Batches, EnqueueBatch(p, b)
        PROVE  Fifo!Put(b)
    BY <2>1, Zenon DEF EnqueueBatch, AppendBatch, Fifo!Put
  <2>2. ASSUME NEW p \in Producers, Close(p)
        PROVE  Fifo!Shut
    BY <2>2, Zenon DEF Close, Fifo!Shut
  <2>3. ASSUME NEW p \in Producers, Wake(p)
        PROVE  UNCHANGED Fifo!fifoVars
    BY <2>3, Zenon DEF Wake
  <2>4. CASE NextFrame
    BY <2>4, Zenon DEF NextFrame, Drained, HeadFrame, Fifo!Take
  <2>5. CASE NextEmpty \/ Wait \/ Awake \/ Send \/ WriterFails
    BY <2>5, Zenon DEF NextEmpty, Wait, Awake, Send, WriterFails
  <2>6. CASE UNCHANGED queueVars
    BY <2>6, Zenon DEF queueVars
  <2> QED
    BY <2>1, <2>2, <2>3, <2>4, <2>5, <2>6, Zenon DEF QueueNext, Writer
<1> QED
  BY <1>1, <1>2, PTL DEF QueueSpec, ImplementsFifo, Fifo!FifoSpec

\* A writer about to wait, or waiting, beside frames or a closed queue has a
\* token or a producer on its way to give it one.
THEOREM WriterIsWoken == QueueSpec => []WakePending
<1>1. QueueInit => WakePending
  BY Zenon DEF QueueInit, WakePending
<1>2. WakePending /\ [QueueNext]_queueVars => WakePending'
  <2> SUFFICES ASSUME WakePending, [QueueNext]_queueVars
               PROVE  WakePending'
    BY Zenon
  <2> USE DEF WakePending
  <2>1. ASSUME NEW p \in Producers, NEW b \in Batches, EnqueueBatch(p, b)
        PROVE  WakePending'
    BY <2>1, Zenon DEF EnqueueBatch
  <2>2. ASSUME NEW p \in Producers, Close(p)
        PROVE  WakePending'
    BY <2>2, Zenon DEF Close
  <2>3. ASSUME NEW p \in Producers, Wake(p)
        PROVE  WakePending'
    BY <2>3, Zenon DEF Wake, Token
  <2>4. CASE NextFrame \/ Awake \/ Send \/ WriterFails
    BY <2>4, Zenon DEF NextFrame, Awake, Send, WriterFails
  <2>5. CASE NextEmpty
    BY <2>5, Zenon DEF NextEmpty, Drained
  <2>6. CASE Wait
    BY <2>6, Zenon DEF Wait
  <2>7. CASE UNCHANGED queueVars
    BY <2>7, Zenon DEF queueVars
  <2> QED
    BY <2>1, <2>2, <2>3, <2>4, <2>5, <2>6, <2>7, Zenon DEF QueueNext, Writer
<1> QED
  BY <1>1, <1>2, PTL DEF QueueSpec

=============================================================================
