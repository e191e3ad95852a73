---------------------------- MODULE SystemProofs ----------------------------
(***************************************************************************)
(* The theorems about client and server together, for any number of        *)
(* connections, Sessions and EVENTs and whatever is lost, pruned or        *)
(* expires.  The steps of the client preserve SyncInv because the frames   *)
(* it receives tell the log of its Session; the refinement of EventStream  *)
(* follows from StreamAgrees before and after each step.                   *)
(***************************************************************************)
EXTENDS EventSyncProofs, ConnectionProofs, ClientProtocolProofs

-----------------------------------------------------------------------------
(* The data of the server.                                                 *)

\* Replay collects retained EVENTs only.
LEMMA CollectedType ==
    ASSUME NEW S, NEW events \in Seq(S), NEW after, NEW through
    PROVE  Store!Collected(events, after, through) \in Seq(S)
<1> DEFINE n == Len(events)
           T == Seq(S)
           Turn(out, i) == IF events[i].seq > after /\ events[i].seq <= through
                           THEN Append(out, events[i]) ELSE out
           P(g) == g = [i \in 0..n |->
                           IF i = 0 THEN <<>>
                           ELSE IF events[i].seq > after
                                   /\ events[i].seq <= through
                                THEN Append(g[i - 1], events[i])
                                ELSE g[i - 1]]
           step == [p \in T \X (1..n) |-> Turn(p[1], p[2])]
<1>1. n \in Nat /\ (\A i \in 1..n : events[i] \in S) /\ <<>> \in T
  OBVIOUS
<1>2. \A t \in T, i \in 1..n : Turn(t, i) \in T
  BY <1>1
<1>3. step \in [T \X (1..n) -> T]
  <2> HIDE DEF Turn, T, n
  <2> QED
    BY <1>2, Zenon
<1>4. PICK h \in [0..n -> T] : Runs(h, <<>>, step, n)
  <2> HIDE DEF n, step, T
  <2> QED
    BY <1>1, <1>3, LoopExists, Zenon
<1>5. P(h)
  <2> HIDE DEF n, T
  <2>1. h[0] = <<>>
    BY <1>4, Zenon DEF Runs
  <2>2. \A i \in 1..n : h[i] = Turn(h[i - 1], i)
    <3> HIDE DEF Turn
    <3> SUFFICES ASSUME NEW i \in 1..n PROVE h[i] = Turn(h[i - 1], i)
      BY Zenon
    <3>1. i - 1 \in 0..n
      BY <1>1
    <3>2. <<h[i - 1], i>> \in T \X (1..n)
      BY <3>1, Zenon
    <3> QED
      BY <1>4, <3>2, Zenon DEF Runs
  <2>3. \A i \in 0..n : h[i] = IF i = 0 THEN <<>> ELSE Turn(h[i - 1], i)
    <3> HIDE DEF Turn
    <3> QED
      BY <1>1, <2>1, <2>2
  <2>4. h = [i \in 0..n |-> IF i = 0 THEN <<>> ELSE Turn(h[i - 1], i)]
    <3> HIDE DEF Turn
    <3> QED
      BY <1>4, <2>3, Zenon
  <2> QED
    BY <2>4, Zenon
<1>6. PICK f : f = CHOOSE g : P(g)
  BY Zenon
<1>7. P(f)
  <2> HIDE DEF P
  <2> QED
    BY <1>5, <1>6, Zenon
<1>8. Store!Collected(events, after, through) = f[n]
  BY <1>6, Zenon DEF Store!Collected
<1>9. f[0] = <<>> /\ \A i \in 1..n : f[i] = Turn(f[i - 1], i)
  <2> HIDE DEF n
  <2>1. f = [i \in 0..n |-> IF i = 0 THEN <<>> ELSE Turn(f[i - 1], i)]
    BY <1>7, Zenon
  <2> HIDE DEF Turn, P
  <2> QED
    BY <1>1, <2>1
<1>10. \A i \in 0..n : f[i] \in T
  <2> HIDE DEF n, T, Turn, P
  <2>1. \A i \in 1..n : f[i - 1] \in T => f[i] \in T
    BY <1>2, <1>9, Zenon
  <2> QED
    BY <1>1, <1>9, <2>1, LoopStays, Zenon
<1> QED
  <2> HIDE DEF n, P, Turn
  <2> QED
    BY <1>1, <1>8, <1>10

\* A snapshot is made of the State Objects it is given.
LEMMA AccumulateType ==
    ASSUME NEW objects \in Seq(StateObjects)
    PROVE  Accumulate(objects).objects \in Seq(StateObjects)
<1> DEFINE n == Len(objects)
           P(g) == g = [i \in 0..n |->
                           IF i = 0 THEN NewAccumulator
                           ELSE AddObject(g[i - 1], objects[i])]
           step == [p \in Snapshots \X (1..n) |->
                       AddObject(p[1], objects[p[2]])]
<1>1. n \in Nat /\ \A i \in 1..n : objects[i] \in StateObjects
  OBVIOUS
<1>2. \A acc \in Snapshots, i \in 1..n :
         AddObject(acc, objects[i]) \in Snapshots
  BY <1>1, AddObjectType, Zenon
<1>3. step \in [Snapshots \X (1..n) -> Snapshots]
  <2> HIDE DEF n
  <2> QED
    BY <1>2, Zenon
<1>4. PICK h \in [0..n -> Snapshots] : Runs(h, NewAccumulator, step, n)
  <2> HIDE DEF n, step
  <2> QED
    BY <1>1, <1>3, NewAccumulatorType, LoopExists, Zenon
<1>5. P(h)
  <2> HIDE DEF n
  <2>1. h[0] = NewAccumulator
    BY <1>4, Zenon DEF Runs
  <2>2. \A i \in 1..n : h[i] = AddObject(h[i - 1], objects[i])
    <3> SUFFICES ASSUME NEW i \in 1..n
                 PROVE  h[i] = AddObject(h[i - 1], objects[i])
      BY Zenon
    <3>1. i - 1 \in 0..n
      BY <1>1
    <3>2. <<h[i - 1], i>> \in Snapshots \X (1..n)
      BY <3>1, Zenon
    <3> QED
      BY <1>4, <3>2, Zenon DEF Runs
  <2>3. \A i \in 0..n : h[i] = IF i = 0 THEN NewAccumulator
                               ELSE AddObject(h[i - 1], objects[i])
    BY <1>1, <2>1, <2>2
  <2> QED
    BY <1>4, <2>3, Zenon
<1>6. PICK f : f = CHOOSE g : P(g)
  BY Zenon
<1>7. P(f)
  <2> HIDE DEF P
  <2> QED
    BY <1>5, <1>6, Zenon
<1>8. Accumulate(objects) = f[n]
  BY <1>6, Zenon DEF Accumulate
<1>9. /\ f[0] = NewAccumulator
      /\ \A i \in 1..n : f[i] = AddObject(f[i - 1], objects[i])
  <2> HIDE DEF n
  <2> QED
    BY <1>1, <1>7
<1>10. \A i \in 0..n : f[i] \in Snapshots
  <2> HIDE DEF n, P
  <2>1. \A i \in 1..n : f[i - 1] \in Snapshots => f[i] \in Snapshots
    BY <1>2, <1>9, Zenon
  <2> QED
    BY <1>1, <1>9, <2>1, NewAccumulatorType, LoopStays, Zenon
<1>11. Accumulate(objects) \in Snapshots
  <2> HIDE DEF n, P
  <2> QED
    BY <1>1, <1>8, <1>10
<1> QED
  BY <1>11, Zenon DEF Snapshots

\* The loops over retained EVENTs and State Objects return such.
LEMMA DataIsTyped == DataTyped
  BY CollectedType, AccumulateType, ProviderType, Zenon DEF DataTyped

-----------------------------------------------------------------------------
(* The client and the log of its Session.                                  *)

\* What an EVENT of the client's Session says is what the log holds.
Tells(f, all) ==
    f.type = "EVENT" /\ f.session = sessionID =>
        f.seq \in 1..Len(all) /\ all[f.seq].id = f.id

\* HandleIncoming, in a Session.
LEMMA IncomingFollows ==
    ASSUME StreamInv, SessionInv, sessionID # NoSession, NEW all, IsLog(all),
           Follows(all), NEW g, NEW f, FrameOK(f), Tells(f, all),
           HandleIncoming(g, f)
    PROVE  StreamGrows(all)
\* A piece of the log is delivered and no Resume goes on.
<1>1. ASSUME NEW b \in Seq(Events), Continues(b, lastSeq),
             Agrees(b, lastSeq, all), Deliver(b), sessionID' = sessionID,
             recovery' = NoRecovery
      PROVE  StreamGrows(all)
  <2> USE <1>1
  <2>1. /\ Len(all) \in Nat /\ lastSeq \in Nat /\ Len(delivered) = lastSeq
        /\ delivered \in Seq(Events) /\ Len(b) \in Nat
    BY StreamNumbers DEF IsLog
  <2>2. delivered' = delivered \o b /\ lastSeq' = lastSeq + Len(b)
    BY DeliverContinues, Zenon DEF Deliver, StreamInv
  <2>3. Agrees(delivered', 0, all)
    BY <2>1, <2>2, AgreesConcat, Zenon DEF Follows
  <2>4. Agrees(<<>>, lastSeq', all)
    <3>1. lastSeq' \in Nat /\ lastSeq' <= Len(all)
      BY <2>1, <2>2 DEF Agrees
    <3> QED
      BY <2>1, <3>1, AgreesEmpty, Zenon
  <2>5. Len(delivered') >= Len(delivered)
    BY <2>1, <2>2, SeqOver, SeqConcat
  <2> QED
    BY <2>3, <2>4, <2>5, NoRecoveryType, Zenon DEF Follows, StreamGrows
\* An EVENT of the client's Session is the one the log holds.
<1>2. ASSUME f.type = "EVENT", f.session = sessionID
      PROVE  f.seq \in 1..Len(all) /\ EventOf(f) = all[f.seq]
  <2> USE <1>2
  <2>1. f.seq \in 1..Len(all) /\ all[f.seq].id = f.id
    BY Zenon DEF Tells
  <2>2. PICK e : e = all[f.seq]
    BY Zenon
  <2>3. e \in Events /\ e.seq = f.seq /\ e.id = f.id
    BY <2>1, <2>2 DEF IsLog
  <2> QED
    BY <2>1, <2>2, <2>3, Zenon DEF Events, EventOf
\* A replayed EVENT is rejected, buffered or completes the replay.
<1>3. ASSUME f.type = "EVENT", f.session = sessionID, HandleReplayEvent(f)
      PROVE  StreamGrows(all)
  <2> USE <1>3
  <2>0. PICK e : e = EventOf(f)
    BY Zenon
  <2> DEFINE buffer == Append(recovery.buffer, e)
  <2>1. ReplayExpected(f)
    BY Zenon DEF HandleReplayEvent
  <2>2. /\ buffer \in Seq(Events) /\ Continues(buffer, lastSeq)
        /\ lastSeq + Len(buffer) = f.seq
    BY <2>0, <2>1, BufferGrows, Zenon
  <2>3. /\ Len(all) \in Nat /\ lastSeq \in Nat
        /\ recovery.buffer \in Seq(Events) /\ Len(recovery.buffer) \in Nat
        /\ Len(delivered) \in Nat
    BY StreamNumbers DEF IsLog
  <2>4. Agrees(buffer, lastSeq, all)
    <3>1. f.seq \in 1..Len(all) /\ e = all[f.seq]
      BY <2>0, <1>2, Zenon
    <3>2. f.seq = lastSeq + Len(recovery.buffer) + 1
      BY <2>1, Zenon DEF ReplayExpected
    <3>3. Agrees(recovery.buffer, lastSeq, all)
      BY Zenon DEF Follows
    <3>4. /\ lastSeq + Len(recovery.buffer) + 1 <= Len(all)
          /\ e = all[lastSeq + Len(recovery.buffer) + 1]
      BY <2>3, <3>1, <3>2
    <3> QED
      BY <2>3, <3>3, <3>4, AgreesAppend, Zenon
  <2> HIDE DEF buffer
  <2>5. CASE StopRecovery
    <3>1. UNCHANGED <<sessionID, delivered, lastSeq>> /\ recovery' = NoRecovery
      BY <2>5, Zenon DEF StopRecovery, ResetConnectionTransient, sessionVars
    <3> QED
      BY <3>1, SameFollows, NoRecoveryType, Zenon
  <2>6. CASE /\ recovery'.buffer = buffer
             /\ UNCHANGED <<sessionID, delivered, lastSeq>>
    BY <2>3, <2>4, <2>6 DEF Follows, StreamGrows
  <2>7. CASE Deliver(buffer) /\ FinishRecovery /\ sessionID' = sessionID
    <3>1. recovery' = NoRecovery
      BY <2>7, Zenon DEF FinishRecovery, ResetConnectionTransient
    <3> QED
      BY <2>2, <2>4, <2>7, <3>1, <1>1, Zenon
  <2>8. \/ StopRecovery
        \/ /\ UNCHANGED sessionVars
           /\ \E bytes, done : recovery' = [recovery EXCEPT
                 !.buffer = buffer, !.bytes = bytes, !.eventsComplete = done]
        \/ Deliver(buffer) /\ FinishRecovery /\ sessionID' = sessionID
    BY <2>0, Zenon DEF HandleReplayEvent, buffer
  <2>9. ASSUME NEW bytes, NEW done, UNCHANGED sessionVars,
               recovery' = [recovery EXCEPT
                 !.buffer = buffer, !.bytes = bytes, !.eventsComplete = done]
        PROVE  StreamGrows(all)
    <3>1. recovery'.buffer = buffer
      BY <2>9, Zenon DEF StreamInv, Recoveries
    <3> QED
      BY <2>6, <2>9, <3>1, Zenon DEF sessionVars
  <2> QED
    BY <2>5, <2>7, <2>8, <2>9, Zenon
\* handleEventLocked.
<1>4. ASSUME f.session = sessionID, HandleEvent(f)
      PROVE  StreamGrows(all)
  <2> USE <1>4
  <2>1. f.type = "EVENT"
    BY Zenon DEF HandleEvent
  <2>2. CASE DiscardEvent(f)
    BY <2>2, SameFollows, Zenon DEF DiscardEvent, sessionVars, transientVars
  <2>3. CASE HandleReplayEvent(f)
    BY <2>1, <2>3, <1>3, Zenon
  <2>4. CASE HandleLiveEvent(f)
    <3>1. recovery = NoRecovery
      BY <2>4, Zenon DEF HandleLiveEvent, StreamInv
    <3>2. CASE BeginRecovery({}, TRUE)
      <4>1. UNCHANGED <<sessionID, delivered, lastSeq>>
        BY <3>2, Zenon DEF BeginRecovery, sessionVars
      <4>2. recovery'.buffer = <<>>
        BY <3>2, Zenon DEF BeginRecovery, NoRecovery
      <4> QED
        BY <4>1, <4>2, SameFollows, Zenon
    <3>3. CASE /\ IsNext(f) /\ Deliver(<<EventOf(f)>>)
               /\ sessionID' = sessionID /\ recovery' = recovery
      <4>1. PICK e : e = EventOf(f)
        BY Zenon
      <4>2. lastSeq \in 0..MaxSeq /\ lastSeq \in Nat /\ Len(all) \in Nat
        <5>1. Len(all) \in Nat
          BY DEF IsLog
        <5>2. lastSeq \in 0..MaxSeq
          BY Zenon DEF StreamInv
        <5> QED
          BY <5>1, <5>2, StreamNumbers, Zenon
      <4>3. f.seq = lastSeq + 1
        BY <2>4, <3>3, <4>2, SuccNext, Zenon DEF HandleLiveEvent, IsNext
      <4>4. f.seq \in 1..Len(all) /\ e = all[f.seq]
        BY <2>1, <4>1, <1>2, Zenon
      <4>5. e \in Events /\ e.seq = lastSeq + 1
        BY <2>1, <4>1, <4>3, Zenon DEF FrameOK, EventOf, Events
      <4>6. PICK b : b = <<e>>
        BY Zenon
      <4>7. b \in Seq(Events) /\ Len(b) = 1 /\ b[1] = e
        BY <4>5, <4>6
      <4>8. Continues(b, lastSeq)
        BY <4>2, <4>5, <4>7 DEF Continues
      <4>9. Agrees(b, lastSeq, all)
        BY <4>2, <4>3, <4>4, <4>7 DEF Agrees
      <4> QED
        BY <3>1, <3>3, <4>1, <4>6, <4>7, <4>8, <4>9, <1>1, Zenon
    <3> QED
      BY <2>4, <3>2, <3>3, Zenon DEF HandleLiveEvent, transientVars
  <2> QED
    BY <2>2, <2>3, <2>4, Zenon DEF HandleEvent
<1> USE DEF sessionVars, transientVars
<1> DEFINE Same == /\ UNCHANGED <<sessionID, delivered, lastSeq>>
                   /\ recovery'.buffer \in {recovery.buffer, <<>>}
<1>5. ASSUME Same PROVE StreamGrows(all)
  BY <1>5, SameFollows, Zenon
<1>6. CASE \/ HandleIncomingFailure \/ HandleInvalidError(f)
           \/ HandlePong(g, f) \/ HandleAck(f) \/ HandleStateSnapshot(f)
           \/ HandleStateUpdate(f)
  <2>1. Same
    BY <1>6, NoRecoveryType, Zenon DEF HandleIncomingFailure, StopRecovery,
       HandleInvalidError, ResetConnectionTransient, HandlePong, HandleAck,
       HandleStateSnapshot, HandleStateUpdate
  <2> QED
    BY <1>5, <2>1, Zenon
<1>7. ~HandleNewWelcome(f)
  BY Zenon DEF HandleNewWelcome, SessionInv
<1>8. CASE HandleResumedWelcome(f)
  <2>1. UNCHANGED <<sessionID, delivered, lastSeq>>
    BY <1>8, Zenon DEF HandleResumedWelcome, StopRecovery
  <2>2. recovery'.buffer = <<>>
    BY <1>8, NoRecoveryType, Zenon DEF HandleResumedWelcome, StopRecovery,
             FinishRecovery, ResetConnectionTransient, NoRecovery
  <2> QED
    BY <1>5, <2>1, <2>2, Zenon
<1>9. CASE Expected(f) /\ HandleEvent(f)
  <2>1. f.session = sessionID
    BY <1>9, Zenon DEF Expected, Correlated, HandleEvent
  <2> QED
    BY <1>9, <2>1, <1>4, Zenon
<1>10. CASE HandleResumeStateSnapshot(f)
  <2>1. /\ Deliver(recovery.buffer) /\ recovery' = NoRecovery
        /\ sessionID' = sessionID
    BY <1>10, Zenon DEF HandleResumeStateSnapshot, FinishRecovery,
                ResetConnectionTransient
  <2>2. /\ recovery.buffer \in Seq(Events)
        /\ Continues(recovery.buffer, lastSeq)
    BY StreamNumbers, Zenon DEF StreamInv
  <2> QED
    BY <2>1, <2>2, <1>1, Zenon DEF Follows
<1>11. CASE HandleError(f)
  <2>1. CASE AbandonsSession(f.code)
    BY <1>11, <2>1, Zenon DEF HandleError, AbandonSession, StreamGrows
  <2>2. CASE ~AbandonsSession(f.code)
    <3>1. Same
      BY <1>11, <2>2, NoRecoveryType, Zenon DEF HandleError,
         ResetConnectionTransient
    <3> QED
      BY <1>5, <3>1, Zenon
  <2> QED
    BY <2>1, <2>2, Zenon
<1> QED
  BY <1>6, <1>7, <1>8, <1>9, <1>10, <1>11, Zenon DEF HandleIncoming

\* A client without a Session has received nothing.
LEMMA NothingReceived ==
    ASSUME StreamInv, SessionInv, sessionID = NoSession
    PROVE  lastSeq = 0 /\ delivered = <<>> /\ recovery = NoRecovery
<1>1. lastSeq = 0 /\ recovery = NoRecovery /\ delivered \in Seq(Events)
      /\ Len(delivered) = lastSeq
  BY Zenon DEF SessionInv, StreamInv, CleanWithoutSession, DeliveredInOrder
<1> QED
  BY <1>1

\* HandleIncoming, without a Session: at most a new WELCOME is accepted.
LEMMA IncomingBegins ==
    ASSUME StreamInv, SessionInv, sessionID = NoSession, NEW g, NEW f,
           FrameOK(f), HandleIncoming(g, f)
    PROVE  \/ sessionID' = NoSession
           \/ /\ sessionID' = f.session /\ f.type = "WELCOME"
              /\ UNCHANGED <<delivered, lastSeq, recovery>>
<1> USE DEF sessionVars, transientVars
<1>1. state \notin {"READY", "SUSPECT", "RESUMING"}
  BY HasSession, Zenon
<1>2. CASE HandleNewWelcome(f)
  BY <1>2, Zenon DEF HandleNewWelcome
<1>3. CASE ~HandleNewWelcome(f)
  BY <1>1, <1>3, Zenon DEF HandleIncoming, HandleIncomingFailure, StopRecovery,
     HandleInvalidError, HandleResumedWelcome, HandlePong, HandleAck,
     HandleEvent, DiscardEvent, HandleReplayEvent, ReplayExpected,
     HandleLiveEvent, HandleStateSnapshot, HandleResumeStateSnapshot,
     HandleStateUpdate, HandleError, AbandonSession
<1> QED
  BY <1>2, <1>3, Zenon

\* HandleIncoming of a frame the server sent.
LEMMA IncomingAgrees ==
    ASSUME ClientInv, StoreInv, StreamAgrees, published' = published,
           NEW g, NEW f, GoodFrame(f), HandleIncoming(g, f)
    PROVE  StreamAgrees' /\ StreamMoves
<1>0. FrameOK(f)
  BY Zenon DEF GoodFrame
<1>1. CASE sessionID # NoSession
  <2>1. PICK all : all = published[sessionID]
    BY Zenon
  <2>2. IsLog(all) /\ Follows(all)
    BY <1>1, <2>1, PublishedLog, Zenon DEF ClientInv, SessionInv, StreamAgrees
  <2>3. Tells(f, all)
    BY <2>1, Zenon DEF GoodFrame, Tells
  <2>4. StreamGrows(all)
    BY <1>0, <1>1, <2>2, <2>3, IncomingFollows, Zenon DEF ClientInv
  <2> QED
    BY <2>1, <2>4, Zenon DEF StreamGrows, StreamAgrees, StreamMoves
<1>2. CASE sessionID = NoSession /\ sessionID' = NoSession
  BY <1>2, Zenon DEF StreamAgrees, StreamMoves
<1>3. CASE sessionID = NoSession /\ sessionID' # NoSession
  <2>1. /\ sessionID' \in Sessions
        /\ UNCHANGED <<delivered, lastSeq, recovery>>
    <3>1. f.type = "WELCOME" /\ sessionID' = f.session
          /\ UNCHANGED <<delivered, lastSeq, recovery>>
      BY <1>0, <1>3, IncomingBegins, Zenon DEF ClientInv
    <3>2. SessionInv'
      BY <1>0, IncomingSession, Zenon DEF ClientInv
    <3> QED
      BY <1>3, <3>1, <3>2, Zenon DEF SessionInv
  <2>2. lastSeq = 0 /\ delivered = <<>> /\ recovery.buffer = <<>>
    BY <1>3, NothingReceived, NoRecoveryType, Zenon DEF ClientInv
  <2>3. Agrees(<<>>, 0, published[sessionID'])
    BY <2>1, PublishedLog, AgreesEmpty
  <2> QED
    BY <1>3, <2>1, <2>2, <2>3, Zenon DEF StreamAgrees, Follows, StreamMoves
<1> QED
  BY <1>1, <1>2, <1>3, Zenon

-----------------------------------------------------------------------------
(* The steps of the client.                                                *)

\* A step of the client and its transport.
LEMMA ClientSide ==
    ASSUME SyncInv, ClientStep, UNCHANGED serverVars, StreamAgrees',
           StreamMoves, RequestInv', FrameInv', EnqueuesLatest
    PROVE  SyncProgress
<1>1. UNCHANGED <<store, created, live, gate, reader, lane, open, published,
                  commits>>
  BY Zenon DEF serverVars, logs
<1>2. ClientInv'
  BY ClientKeeps, Zenon DEF SyncInv
<1>3. StoreInv' /\ ServerInv' /\ CommitInv'
  BY <1>1, QuietStore, Zenon DEF SyncInv, ServerInv, CommitInv
<1>4. ReaderInv'
  BY <1>1 DEF SyncInv, ReaderInv, ReaderOK, BatchOK, GoodFrame
<1>5. [Stream!StreamNext]_(Stream!streamVars)
  BY <1>1, <1>2, StreamRefines, Zenon DEF SyncInv
<1> QED
  BY <1>2, <1>3, <1>4, <1>5, Zenon DEF SyncInv, SyncProgress

\* A call that leaves the stream where it is and may drop the buffer.
LEMMA CallAgrees ==
    ASSUME SyncInv, UNCHANGED serverVars, UNCHANGED sessionVars,
           recovery'.buffer \in {recovery.buffer, <<>>}
    PROVE  StreamAgrees' /\ StreamMoves
  BY QuietAgrees, Zenon DEF SyncInv, serverVars, logs, sessionVars

\* BeginConnect on a new connection.
LEMMA ClientConnectsStep ==
    ASSUME SyncInv, ClientConnects
    PROVE  SyncProgress
<1>1. /\ BeginConnect /\ toClient' = <<>> /\ toServer' = toServer
      /\ UNCHANGED serverVars
  BY Zenon DEF ClientConnects
<1>2. StreamAgrees' /\ StreamMoves
  BY <1>1, CallAgrees, NoRecoveryType, Zenon
     DEF BeginConnect, ResetConnectionTransient
<1>3. FrameInv' /\ EnqueuesLatest
  BY <1>1, SeqSmall DEF FrameInv, EnqueuesLatest
<1>4. RequestInv'
  BY <1>1, QuietRequests, Zenon DEF SyncInv
<1> QED
  BY <1>1, <1>2, <1>3, <1>4, ClientSide, Zenon DEF ClientStep

\* TransportConnected, StartSession and Resume.
LEMMA ClientCallsStep ==
    ASSUME SyncInv, ClientCalls
    PROVE  SyncProgress
<1>1. Transmit /\ toClient' = toClient /\ UNCHANGED serverVars
  BY Zenon DEF ClientCalls
<1>2. ClientStep /\ SendsOK /\ StreamAgrees' /\ StreamMoves
  <2>1. CASE TransportConnected(generation)
    BY <1>1, <2>1, CallAgrees, Zenon
       DEF TransportConnected, transientVars, SendsOK, ClientStep
  <2>2. CASE StartSession(generation)
    <3>1. RequestOK(HelloFrame)
      BY Zenon DEF RequestOK, HelloFrame
    <3>2. SendsOK
      BY <2>2, <3>1 DEF StartSession, SendsOK, SendFrame
    <3> QED
      BY <1>1, <2>2, <3>2, CallAgrees, Zenon
         DEF StartSession, transientVars, ClientStep
  <2>3. ASSUME NEW ns \in SUBSET Namespaces, Resume(generation, ns)
        PROVE  ClientStep /\ SendsOK /\ StreamAgrees' /\ StreamMoves
    <3>1. BeginRecovery(ns, FALSE)
      BY <2>3, Zenon DEF Resume
    <3>2. UNCHANGED sessionVars /\ recovery'.buffer = <<>>
      BY <3>1, NoRecoveryType, Zenon DEF BeginRecovery, NoRecovery
    <3>3. SendsOK
      BY <3>1, RecoverySends, Zenon DEF SyncInv
    <3> QED
      BY <1>1, <2>3, <3>2, <3>3, CallAgrees, Zenon DEF ClientStep
  <2> QED
    BY <2>1, <2>2, <2>3, Zenon DEF ClientCalls
<1>3. RequestInv'
  BY <1>1, <1>2, TransmitKeeps, Zenon DEF SyncInv
<1>4. FrameInv' /\ EnqueuesLatest
  BY <1>1, NothingEnqueued, Zenon DEF SyncInv, serverVars, logs
<1> QED
  BY <1>1, <1>2, <1>3, <1>4, ClientSide, Zenon

\* Disconnect.
LEMMA ConnectionEndsStep ==
    ASSUME SyncInv, ConnectionEnds
    PROVE  SyncProgress
<1>1. /\ Disconnect(generation) /\ UNCHANGED <<toServer, toClient>>
      /\ UNCHANGED serverVars
  BY Zenon DEF ConnectionEnds
<1>2. StreamAgrees' /\ StreamMoves
  BY <1>1, CallAgrees, NoRecoveryType, Zenon
     DEF Disconnect, ResetConnectionTransient
<1>3. FrameInv' /\ EnqueuesLatest /\ RequestInv'
  BY <1>1, NothingEnqueued, QuietRequests, Zenon DEF SyncInv, serverVars, logs
<1> QED
  BY <1>1, <1>2, <1>3, ClientSide, Zenon DEF ClientStep

\* HandleIncoming, and the RESUME it may send.
LEMMA ClientReceivesStep ==
    ASSUME SyncInv, ClientReceives
    PROVE  SyncProgress
<1>1. PICK f : f = Head(toClient)
  BY Zenon
<1>2. /\ toClient # <<>> /\ toClient' = Tail(toClient) /\ Transmit
      /\ UNCHANGED serverVars /\ HandleIncoming(generation, f)
  BY <1>1, Zenon DEF ClientReceives
<1>3. published' = published
  BY <1>2, Zenon DEF serverVars, logs
<1>4. /\ GoodFrame(f) /\ Sequence(toClient')
      /\ Range(toClient') \subseteq Range(toClient)
      /\ Len(toClient') = Len(toClient) - 1 /\ Len(toClient) \in Nat
  BY <1>1, <1>2, SeqTail, Zenon DEF SyncInv, FrameInv
<1>5. FrameInv'
  BY <1>3, <1>4, Zenon DEF SyncInv, FrameInv, GoodFrame
<1>6. EnqueuesLatest
  BY <1>4, SeqFields DEF EnqueuesLatest
<1>7. SendsOK
  BY <1>2, IncomingSends, RecoverySends, Zenon DEF SyncInv, SendsOK
<1>8. RequestInv'
  BY <1>2, <1>7, TransmitKeeps, Zenon DEF SyncInv
<1>9. StreamAgrees' /\ StreamMoves
  BY <1>2, <1>3, <1>4, IncomingAgrees, Zenon DEF SyncInv
<1>10. ClientStep
  BY <1>2, <1>4, Zenon DEF ClientStep, GoodFrame
<1> QED
  BY <1>2, <1>5, <1>6, <1>8, <1>9, <1>10, ClientSide, Zenon

\* QueryState and its STATE_QUERY.
LEMMA ClientQueriesStep ==
    ASSUME SyncInv, NEW q \in Queries, NEW ids \in SUBSET Identities,
           ClientQueries(q, ids)
    PROVE  SyncProgress
<1>1. /\ QueryState(q, ids) /\ Transmit
      /\ toClient' = toClient /\ UNCHANGED serverVars
  BY Zenon DEF ClientQueries
<1>2. PICK f : f = [type |-> "STATE_QUERY", session |-> sessionID,
                    id |-> q, ids |-> ids]
  BY Zenon
<1>3. /\ UNCHANGED <<sessionVars, recovery>> /\ actions' = {SendFrame(f)}
      /\ state = "READY"
  BY <1>1, <1>2, Zenon DEF QueryState
<1>4. sessionID \in Sessions
  BY <1>3, HasSession, Zenon DEF SyncInv, ClientInv, SessionInv
<1>5. RequestOK(f)
  BY <1>2, <1>4, Zenon DEF RequestOK
<1>6. SendsOK
  <2>1. PICK a : a = SendFrame(f)
    BY Zenon
  <2>2. actions' = {a} /\ a.frame = f
    BY <1>3, <2>1, Zenon DEF SendFrame
  <2> QED
    BY <1>5, <2>2, Zenon DEF SendsOK
<1>7. RequestInv' /\ StreamAgrees' /\ StreamMoves
  BY <1>1, <1>3, <1>6, TransmitKeeps, CallAgrees, Zenon DEF SyncInv
<1>8. FrameInv' /\ EnqueuesLatest
  BY <1>1, NothingEnqueued, Zenon DEF SyncInv, serverVars, logs
<1>9. ClientStep
  BY <1>1, Zenon DEF ClientStep
<1> QED
  BY <1>1, <1>7, <1>8, <1>9, ClientSide, Zenon

-----------------------------------------------------------------------------
(* The invariant and what follows from it.                                 *)

\* Every step of client, server and Application.
LEMMA SyncStep ==
    ASSUME SyncInv, [StateNext]_syncVars
    PROVE  SyncProgress
<1>1. CASE ClientConnects \/ ClientCalls \/ ConnectionEnds \/ ClientReceives
  BY <1>1, ClientConnectsStep, ClientCallsStep, ConnectionEndsStep,
     ClientReceivesStep, Zenon
<1>2. ASSUME NEW g \in Generations, Reader(g)
      PROVE  SyncProgress
  BY <1>2, ReceiveHelloStep, ReceiveResumeStep, EnterLaneStep,
     RefuseLaneStep, AnswerResumeStep, AnswerResumeWithStateStep,
     ApplyResultStep, DataIsTyped, Zenon DEF Reader
<1>3. ASSUME NEW g, CloseOutbound(g)
      PROVE  SyncProgress
  BY <1>3, ShrinkStep, Zenon DEF CloseOutbound
<1>4. ASSUME NEW s, Expire(s)
      PROVE  SyncProgress
  BY <1>4, ShrinkStep, Zenon DEF Expire
<1>5. CASE UNCHANGED syncVars
  BY <1>5, ShrinkStep, Zenon DEF syncVars, serverVars
<1>6. CASE SyncNext
  BY <1>1, <1>2, <1>3, <1>4, <1>6, LoseRequestsStep, PublishStep, PruneStep,
     Zenon DEF SyncNext
<1>7. ASSUME NEW g \in Generations, QueryReader(g)
      PROVE  SyncProgress
  BY <1>7, ReceiveQueryStep, EnterQueryStep, GetObjectStep, GetFailsStep,
     AnswerQueryStep, Zenon DEF QueryReader
<1>8. ASSUME NEW q \in Queries, NEW ids \in SUBSET Identities,
             ClientQueries(q, ids)
      PROVE  SyncProgress
  BY <1>8, ClientQueriesStep, Zenon
<1>9. ASSUME NEW i \in Identities, NEW d \in Data, CommitState(i, d)
      PROVE  SyncProgress
  BY <1>9, CommitStep, Zenon
<1>10. ASSUME NEW s \in Sessions, NEW i \in Identities, NEW g \in Generations,
              PublishStateUpdate(s, i, g)
       PROVE  SyncProgress
  BY <1>10, PublishUpdateStep, Zenon
<1> QED
  BY <1>5, <1>6, <1>7, <1>8, <1>9, <1>10, Zenon DEF StateNext

\* A new client and a new server.
LEMMA SyncStarts ==
    ASSUME SyncInit
    PROVE  SyncInv /\ Stream!StreamInit
<1>1. ClientInv
  BY ClientInit, Zenon DEF SyncInit
<1>2. sessionID = NoSession /\ delivered = <<>>
  BY Zenon DEF SyncInit, Init
<1>3. StoreInv
  <2>1. PICK log : log = Store!EmptyStore
    BY Zenon
  <2>2. log \in Logs /\ log.current = 0 /\ log.floor = 0 /\ log.events = <<>>
    <3>1. 0 \in 0..MaxSeq /\ <<>> \in Seq(Events)
      BY ClientAssumption
    <3> QED
      BY <2>1, <3>1, Zenon DEF Store!EmptyStore, Logs
  <2>3. LogOK(log, <<>>)
    BY <2>2 DEF LogOK, FirstOf
  <2> QED
    BY <2>1, <2>3, Zenon DEF SyncInit, Store!StoreInit, StoreInv
<1>4. ServerInv
  <2>1. 0 \in 0..MaxGeneration
    BY ClientAssumption
  <2> QED
    BY <2>1, Zenon DEF SyncInit, ServerInv, Gates
<1>5. CommitInv
  <2>1. /\ commits \in [Identities -> Seq(Data)]
        /\ \A i \in Identities : commits[i] = <<>>
    BY DEF SyncInit
  <2>2. {i \in Identities : commits[i] # <<>>} = {}
    BY <2>1, Zenon
  <2> QED
    BY <2>1, <2>2, FS_EmptySet, Zenon DEF CommitInv
<1>6. RequestInv /\ FrameInv
  BY SeqSmall, Zenon DEF SyncInit, RequestInv, FrameInv
<1>7. ReaderInv
  <2>1. \A g \in Generations : reader[g].step = "idle"
    BY Zenon DEF SyncInit, Idle
  <2> QED
    BY <2>1, Zenon DEF SyncInit, ReaderInv, ReaderOK, Steps
<1> QED
  BY <1>1, <1>2, <1>3, <1>4, <1>5, <1>6, <1>7, Zenon
     DEF SyncInv, StreamAgrees, Stream!StreamInit, SyncInit

\* EventSync is StateSync without queries, commits and updates.
LEMMA SyncIsStateSync == SyncSpec => StateSpec
<1>1. [SyncNext]_syncVars => [StateNext]_syncVars
  BY Zenon DEF StateNext
<1> QED
  BY <1>1, PTL DEF SyncSpec, StateSpec

\* Client, store, lane, readers and frames in transit fit together: logs hold
\* what was published, the client holds a piece of its Session's log, and every
\* EVENT in transit was published under its sequence.
THEOREM SyncInvariant == StateSpec => []SyncInv
<1>1. SyncInv /\ [StateNext]_syncVars => SyncInv'
  BY SyncStep, Zenon DEF SyncProgress
<1> QED
  BY SyncStarts, <1>1, PTL DEF StateSpec

\* The Application of the client receives a prefix of the log PublishEvent
\* wrote for its Session, whatever connections break, whatever is pruned or
\* expires: client and server together implement EventStream.
THEOREM StreamIsImplemented == StateSpec => ImplementsEventStream
<1>1. SyncInv /\ [StateNext]_syncVars =>
         [Stream!StreamNext]_(Stream!streamVars)
  BY SyncStep, Zenon DEF SyncProgress
<1> QED
  BY SyncStarts, <1>1, SyncInvariant, PTL
     DEF StateSpec, ImplementsEventStream, Stream!StreamSpec

\* A replay reaches the EVENT published last when its WELCOME is enqueued,
\* whatever the lane, publications, expiry and broken connections do meanwhile.
THEOREM ReplaysAreComplete == StateSpec => ReplayReachesLatest
<1>1. SyncInv /\ [StateNext]_syncVars => EnqueuesLatest
  BY SyncStep, Zenon DEF SyncProgress
<1>2. SyncInv /\ [StateNext]_syncVars =>
         [\A n \in DOMAIN toClient' :
             LET f == toClient'[n]
             IN  /\ n > Len(toClient)
                 /\ f.type = "WELCOME" /\ f.mode = "RESUMED"
                 => f.replayTo = Len(published[f.session])]_syncVars
  BY <1>1, Zenon DEF EnqueuesLatest
<1> QED
  BY <1>2, SyncInvariant, PTL DEF StateSpec, ReplayReachesLatest

\* MemoryReplayStore retains exactly the EVENTs from its floor to its
\* high-water mark, however Append, PruneBefore and Resumes interleave.
THEOREM SuffixIsRetained == StateSpec => []StoreRetainsSuffix
<1>1. SyncInv => StoreRetainsSuffix
  <2> SUFFICES ASSUME SyncInv, NEW s \in Sessions, NEW log, log = store[s]
               PROVE  /\ FirstOf(log) <= log.current + 1
                      /\ Len(log.events) = log.current + 1 - FirstOf(log)
                      /\ \A n \in DOMAIN log.events :
                            log.events[n].seq = FirstOf(log) + n - 1
    BY Zenon DEF StoreRetainsSuffix, Store!RetainsSuffix, FirstOf
  <2>1. PICK all : LogOK(log, all)
    BY Zenon DEF SyncInv, StoreInv
  <2>2. DOMAIN log.events = 1..Len(log.events)
    BY <2>1 DEF LogOK, Logs
  <2>3. ASSUME NEW n \in 1..Len(log.events)
        PROVE  log.events[n].seq = FirstOf(log) + n - 1
    <3>1. FirstOf(log) + n - 1 \in 1..Len(all)
      BY <2>1, LogNumbers
    <3> QED
      BY <2>1, <3>1, Zenon DEF LogOK
  <2> QED
    BY <2>1, <2>2, <2>3, Zenon DEF LogOK
<1> QED
  BY <1>1, SyncInvariant, PTL

\* Every variable of client and server keeps its type.
THEOREM SyncTypesHold == StateSpec => []SyncTypeOK
<1>1. SyncInv => SyncTypeOK
  BY ClientTypes, Zenon
     DEF SyncInv, SyncTypeOK, ServerInv, Gates, ReaderInv, ReaderOK, CommitInv
<1> QED
  BY <1>1, SyncInvariant, PTL

\* Requests, gates, readers and answers fit together on every connection.
THEOREM ConnInvariant == SyncSpec => []ConnInv
<1>1. SyncInv /\ ConnInv /\ [SyncNext]_syncVars => ConnInv'
  BY ConnStep, DataIsTyped, Zenon
<1> QED
  BY ConnStarts, <1>1, SyncInvariant, SyncIsStateSync, PTL DEF SyncSpec

\* A request that reaches the server is one the ServerAdmission gate of its
\* connection admits, however requests, applyResult, live EVENTs with a gap
\* and reconnects interleave.
THEOREM RequestsAreAdmitted == SyncSpec => []RequestsAdmitted
<1>1. ConnInv => RequestsAdmitted
  <2> SUFFICES ASSUME ConnInv, NEW g \in Generations, reader[g] = Idle,
                      toServer[g] # <<>>
               PROVE  Admits(g, Head(toServer[g]))
    BY Zenon DEF RequestsAdmitted
  <2>1. PICK f : toServer[g] = <<f>> /\ Accepts(reader[g], gate[g], f)
    BY Zenon DEF ConnInv, TransitInv
  <2>2. Head(<<f>>) = f
    OBVIOUS
  <2>3. GateAdmits(gate[g], f)
    BY <2>1 DEF Accepts, Idle, Stopped
  <2> QED
    BY <2>1, <2>2, <2>3, Zenon DEF Admits, GateAdmits
<1> QED
  BY <1>1, ConnInvariant, PTL

\* While the client is RESUMING, its RESUME is on the way, the server is
\* handling it, what ends it is on the way back, or Handle has failed and the
\* connection is to end.  The lane may refuse a request at any time, and the
\* caller of Handle may hand a refused one in again; that it otherwise ends the
\* connection after an error is what ApplyResult and RefuseLane say of it.
THEOREM ResumesAreAnswered == SyncSpec => []NoResumeForgotten
<1>1. ConnInv => NoResumeForgotten
  <2> SUFFICES ASSUME ConnInv, state = "RESUMING"
               PROVE  \/ \E f \in Range(toServer[generation]) :
                            f.type = "RESUME"
                      \/ reader[generation].step
                            \in {"stream", "replay", "snapshot"}
                      \/ \E f \in Range(toClient) : EndsResume(f)
                      \/ ConnectionFailed
    BY Zenon DEF NoResumeForgotten
  <2>1. CASE Acked
    BY <2>1, Zenon DEF ConnInv, ResumeInv, EndsResume
  <2>2. CASE ~Acked
    BY <2>2, Zenon DEF ConnInv, ResumeInv, Waits, EndsResume, Acked
  <2> QED
    BY <2>1, <2>2, Zenon
<1> QED
  BY <1>1, ConnInvariant, PTL

=============================================================================
