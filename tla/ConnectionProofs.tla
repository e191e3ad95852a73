-------------------------- MODULE ConnectionProofs --------------------------
(***************************************************************************)
(* The other steps of EventSync preserve ConnInv: what the client sends is *)
(* what its connection waits for, and what it receives is what was         *)
(* promised.                                                               *)
(***************************************************************************)
EXTENDS AnswerProofs

-----------------------------------------------------------------------------
(* Steps that leave the client's connection alone.                         *)

\* Only requests of connections the client has left may go.
LEMMA QuietConn ==
    ASSUME ConnInv, UNCHANGED clientVars, UNCHANGED <<gate, reader, toClient>>,
           \A h \in Generations :
              \/ toServer'[h] = toServer[h]
              \/ toServer'[h] = <<>> /\ Left(h)
    PROVE  ConnInv'
<1>0. UNCHANGED <<state, generation, sessionID, lastSeq, recovery>>
  BY Zenon DEF clientVars, sessionVars, transientVars
<1>1. \A h \in Generations : Fresh(h) => Fresh(h)'
  BY Zenon DEF Fresh
<1>2. generation \in Generations => \A s : Done(s) => Done(s)'
  BY <1>0, Zenon DEF Done
<1>3. FreshInv' /\ TransitInv' /\ BatchInv' /\ HandledInv'
  BY <1>0, <1>1, Zenon DEF ConnInv, FreshInv, TransitInv, BatchInv, HandledInv
<1>4. WelcomeInv'
  <2>1. toClient = <<>> \/ generation \in Generations
    BY Zenon DEF ConnInv, FreshInv
  <2> QED
    BY <1>2, <2>1, SeqSmall, Zenon DEF ConnInv, WelcomeInv
<1>5. ReadyInv'
  BY <1>0, <1>2, Zenon DEF ConnInv, ReadyInv, FreshInv, Welcomed, Acked
<1>6. ResumeInv'
  <2>1. state = "RESUMING" => toServer'[generation] = toServer[generation]
    <3>1. state = "RESUMING" => generation \in Generations
      BY Zenon DEF ConnInv, FreshInv
    <3>2. \A h \in Generations : ~(h < h)
      BY DEF Generations
    <3> QED
      BY <3>1, <3>2, Zenon DEF Left
  <2> QED
    BY <1>0, <2>1, Zenon DEF ConnInv, ResumeInv, Acked, Waits, ConnectionFailed
<1> QED
  BY <1>3, <1>4, <1>5, <1>6, Zenon DEF ConnInv

\* The loss of requests in transit.
LEMMA LoseConn ==
    ASSUME SyncInv, ConnInv, NEW g \in Generations, LoseRequests(g)
    PROVE  ConnInv'
<1>1. \A h \in Generations :
         \/ toServer'[h] = toServer[h]
         \/ toServer'[h] = <<>> /\ Left(h)
  BY Zenon DEF LoseRequests, SyncInv, RequestInv
<1> QED
  BY <1>1, QuietConn, Zenon DEF LoseRequests, serverVars

\* PublishEvent: an EVENT goes where a Session is READY and promises nothing.
LEMMA PublishConn ==
    ASSUME SyncInv, ConnInv, NEW s \in Sessions, NEW id, NEW g \in Generations,
           PublishEvent(s, id, g)
    PROVE  ConnInv'
<1>0. /\ UNCHANGED <<state, generation, sessionID, lastSeq, recovery>>
      /\ UNCHANGED <<gate, reader, toServer>> /\ UNCHANGED clientVars
  BY Zenon DEF PublishEvent, clientVars, sessionVars, transientVars
<1>1. PICK f : f.type = "EVENT" /\ Enqueue(g, <<f>>)
  <2>1. PICK e : e = Last(store'[s].events)
    BY Zenon
  <2>2. PICK f : f = EventFrame(s, e)
    BY Zenon
  <2>3. f.type = "EVENT"
    BY <2>2, Zenon DEF EventFrame
  <2> QED
    BY <2>1, <2>2, <2>3, Zenon DEF PublishEvent
<1>2. CASE toClient' = toClient
  BY <1>0, <1>2, QuietConn, Zenon
<1>3. CASE g = generation /\ toClient' = toClient \o <<f>>
  <2>1. state \notin {"CONNECTING", "CONNECTED"}
    <3>1. gate[g].session # NoSession
      BY ClientAssumption, Zenon DEF PublishEvent
    <3> QED
      BY <1>3, <3>1 DEF ConnInv, FreshInv, Fresh
  <2>2. PICK p : p = <<f>>
    BY Zenon
  <2>3. Sequence(toClient) /\ Sequence(p) /\ Range(p) = {f}
    BY <2>2, SeqSmall, Zenon DEF SyncInv, FrameInv
  <2>4. Range(toClient') = Range(toClient) \cup {f}
    BY <1>3, <2>2, <2>3, SeqConcat, Zenon
  <2>5. NoWelcome({f}) /\ NoWelcome(Range(p))
    BY <1>1, <2>3, Zenon DEF NoWelcome
  <2>6. Answered(toClient, {f})
    <3>1. ASSUME NEW i \in 1..Len(toClient), NEW S, S = Later(toClient, i),
                 NEW T, T = S \cup {f}
          PROVE  Promise(toClient[i], T)
      <4>1. S \cup {} = S
        BY Zenon
      <4>2. Promise(toClient[i], S)
        BY <3>1, <4>1, Zenon DEF ConnInv, WelcomeInv, Answered
      <4>3. S \subseteq T /\ NoWelcome(T \ S)
        BY <2>5, <3>1, Zenon DEF NoWelcome
      <4> QED
        BY <4>2, <4>3, PromiseStays, Zenon
    <3> QED
      BY <3>1, Zenon DEF Answered
  <2>7. Answered(toClient', {})
    BY <1>3, <2>2, <2>3, <2>5, <2>6, NothingPromised, AnsweredConcat, Zenon
  <2>8. \A t : Done(t) => Done(t)'
    BY <1>0, Zenon DEF Done
  <2>9. FreshInv' /\ TransitInv' /\ BatchInv' /\ HandledInv'
    BY <1>0, <1>3, <2>1, Zenon DEF ConnInv, FreshInv, Fresh, TransitInv,
       BatchInv, HandledInv
  <2>10. WelcomeInv' /\ ReadyInv'
    BY <1>0, <1>1, <2>4, <2>7, <2>8, Zenon
       DEF ConnInv, WelcomeInv, ReadyInv, Welcomed, Acked, NoWelcome
  <2>11. ResumeInv'
    BY <1>0, <2>4, Zenon DEF ConnInv, ResumeInv, Acked, Waits, ConnectionFailed
  <2> QED
    BY <2>9, <2>10, <2>11, Zenon DEF ConnInv
<1> QED
  BY <1>1, <1>2, <1>3, Zenon DEF Enqueue

-----------------------------------------------------------------------------
(* The client connects, sends and loses its connection.                    *)

\* A new connection.
LEMMA ConnectConn ==
    ASSUME SyncInv, ConnInv, ClientConnects
    PROVE  ConnInv'
<1>1. /\ toClient' = <<>> /\ UNCHANGED <<toServer, gate, reader>>
      /\ state' = "CONNECTING" /\ generation' = generation + 1
      /\ generation < MaxGeneration
  BY Zenon DEF ClientConnects, BeginConnect, serverVars
<1>2. generation \in Nat /\ generation' \in Generations
  BY <1>1, ClientAssumption
     DEF SyncInv, ClientInv, SessionInv, Generations
<1>3. \A h \in Generations : h >= generation' => Fresh(h)'
  BY <1>1, <1>2 DEF ConnInv, FreshInv, Fresh, Generations
<1>4. FreshInv' /\ TransitInv' /\ BatchInv' /\ HandledInv'
  BY <1>1, <1>2, <1>3
     DEF ConnInv, FreshInv, TransitInv, BatchInv, HandledInv, Generations
<1>5. WelcomeInv'
  <2>1. Range(toClient') = {} /\ Len(toClient') = 0
    BY <1>1, SeqSmall, Zenon
  <2> QED
    BY <2>1 DEF WelcomeInv, Answered
<1>6. ReadyInv' /\ ResumeInv'
  BY <1>1, Zenon DEF ReadyInv, ResumeInv, Welcomed
<1> QED
  BY <1>4, <1>5, <1>6, Zenon DEF ConnInv

\* Disconnect.
LEMMA EndConn ==
    ASSUME SyncInv, ConnInv, ConnectionEnds
    PROVE  ConnInv'
<1>1. /\ UNCHANGED <<toClient, toServer, gate, reader, generation>>
      /\ state' = "DISCONNECTED"
  BY Zenon DEF ConnectionEnds, Disconnect, serverVars
<1>2. FreshInv' /\ TransitInv' /\ BatchInv' /\ HandledInv'
  BY <1>1, Zenon DEF ConnInv, FreshInv, Fresh, TransitInv, BatchInv, HandledInv
<1>3. WelcomeInv' /\ ReadyInv' /\ ResumeInv'
  BY <1>1, Zenon DEF ConnInv, WelcomeInv, Done, ReadyInv, ResumeInv, Welcomed
<1> QED
  BY <1>2, <1>3, Zenon DEF ConnInv

\* What the client reports without sending anything.
Signals == {Signal("FullSyncRequired"), Signal("CloseConnection"),
            Signal("SessionReady"), Signal("Acked")}

\* HandleIncoming sends a frame only when a live EVENT leaves a gap.
LEMMA IncomingSends ==
    ASSUME NEW g, NEW f, HandleIncoming(g, f)
    PROVE  \/ \A a \in actions' : a.do # "SendFrame"
           \/ /\ state = "READY" /\ BeginRecovery({}, TRUE)
              /\ Expected(f) /\ HandleEvent(f)
\* A report is no frame.
<1>1. ASSUME NEW a \in Signals
      PROVE  a.do # "SendFrame"
  <2>1. PICK w \in {"FullSyncRequired", "CloseConnection", "SessionReady",
                    "Acked"} : a = Signal(w)
    BY Zenon DEF Signals
  <2> QED
    BY <2>1, Zenon DEF Signal
<1>2. SUFFICES ASSUME ~(/\ state = "READY" /\ BeginRecovery({}, TRUE)
                        /\ Expected(f) /\ HandleEvent(f))
               PROVE  actions' \subseteq Signals
  BY <1>1, Zenon
<1> USE DEF Signals
<1>3. CASE HandleEvent(f) /\ Expected(f)
  <2>1. CASE DiscardEvent(f)
    BY <2>1, Zenon DEF DiscardEvent
  <2>2. CASE HandleReplayEvent(f)
    BY <2>2, Zenon DEF HandleReplayEvent, StopRecovery, FinishRecovery
  <2>3. CASE HandleLiveEvent(f)
    BY <1>2, <1>3, <2>3, Zenon DEF HandleLiveEvent
  <2> QED
    BY <1>3, <2>1, <2>2, <2>3, Zenon DEF HandleEvent
<1>4. CASE \/ HandleIncomingFailure \/ HandleInvalidError(f)
           \/ HandleNewWelcome(f) \/ HandleResumedWelcome(f)
  BY <1>4, Zenon DEF HandleIncomingFailure, StopRecovery, HandleInvalidError,
              HandleNewWelcome, HandleResumedWelcome, FinishRecovery
<1>5. CASE \/ HandlePong(g, f) \/ HandleAck(f) \/ HandleStateSnapshot(f)
           \/ HandleStateUpdate(f) \/ HandleResumeStateSnapshot(f)
  BY <1>5, Zenon DEF HandlePong, HandleAck, HandleStateSnapshot,
     HandleStateUpdate,
              HandleResumeStateSnapshot, FinishRecovery
<1>6. CASE HandleError(f)
  <2>1. actions' \subseteq {Signal("FullSyncRequired"),
                            Signal("CloseConnection")}
    BY <1>6, Zenon DEF HandleError
  <2> QED
    BY <2>1, Zenon
<1> QED
  BY <1>3, <1>4, <1>5, <1>6, Zenon DEF HandleIncoming

\* A call that sends nothing.
LEMMA NothingSent ==
    ASSUME Transmit, \A a \in actions' : a.do # "SendFrame"
    PROVE  toServer' = toServer
  BY Zenon DEF Transmit

\* A call that sends request f on a connection without one.
LEMMA RequestSent ==
    ASSUME SyncInv, Transmit, NEW f, actions' = {SendFrame(f)},
           generation \in Generations, generation' = generation,
           toServer[generation] = <<>>
    PROVE  /\ toServer'[generation] = <<f>>
           /\ \A h \in Generations :
                 h # generation => toServer'[h] = toServer[h]
<1>1. {a.frame : a \in {b \in actions' : b.do = "SendFrame"}} = {f}
  <2>1. PICK a : a = SendFrame(f)
    BY Zenon
  <2>2. a.do = "SendFrame" /\ a.frame = f
    BY <2>1, Zenon DEF SendFrame
  <2>3. {b \in actions' : b.do = "SendFrame"} = {a}
    BY <2>1, <2>2, Zenon
  <2> QED
    BY <2>2, <2>3, Zenon
<1>2. toServer' = [toServer EXCEPT ![generation] = Append(@, f)]
  BY <1>1, Zenon DEF Transmit
<1>3. Append(<<>>, f) = <<f>>
  OBVIOUS
<1> QED
  BY <1>2, <1>3, Zenon DEF SyncInv, RequestInv

\* The request of a client whose connection is ready to admit it.
LEMMA RequestConn ==
    ASSUME ConnInv, generation \in Generations,
           UNCHANGED <<generation, gate, reader>>,
           NEW f, toServer'[generation] = <<f>>,
           Accepts(reader[generation], gate[generation], f),
           \A h \in Generations :
              h # generation => toServer'[h] = toServer[h]
    PROVE  /\ TransitInv' /\ BatchInv' /\ HandledInv'
           /\ \A h \in Generations : h > generation => Fresh(h)'
<1>1. TransitInv'
  BY Zenon DEF ConnInv, TransitInv
<1>2. \A h \in Generations : h > generation => Fresh(h)'
  <2>1. \A h \in Generations : ~(h > h)
    BY DEF Generations
  <2> QED
    BY <2>1, Zenon DEF ConnInv, FreshInv, Fresh
<1> QED
  BY <1>1, <1>2, Zenon DEF ConnInv, BatchInv, HandledInv

\* TransportConnected, StartSession and Resume.
LEMMA CallConn ==
    ASSUME SyncInv, ConnInv, ClientCalls
    PROVE  ConnInv'
<1>1. /\ Transmit /\ UNCHANGED <<toClient, gate, reader>>
      /\ state \in {"CONNECTING", "CONNECTED"} /\ UNCHANGED generation
  BY Zenon DEF ClientCalls, serverVars, TransportConnected, StartSession,
     Resume,
         BeginRecovery
<1>2. /\ generation \in Generations /\ Fresh(generation)
      /\ toClient = <<>> /\ toClient' = <<>>
  BY <1>1, Zenon DEF ConnInv, FreshInv
<1>3. WelcomeInv'
  <2>1. Range(toClient') = {} /\ Len(toClient') = 0
    BY <1>2, SeqSmall, Zenon
  <2> QED
    BY <2>1 DEF WelcomeInv, Answered
<1>4. CASE TransportConnected(generation)
  <2>1. state' = "CONNECTED" /\ toServer' = toServer
    BY <1>1, <1>4, NothingSent, Zenon DEF TransportConnected
  <2>2. /\ FreshInv' /\ TransitInv' /\ BatchInv' /\ HandledInv'
        /\ ReadyInv' /\ ResumeInv'
    BY <1>1, <1>2, <2>1, Zenon DEF ConnInv, FreshInv, Fresh, TransitInv,
       BatchInv, HandledInv,
                            ReadyInv, ResumeInv, Welcomed
  <2> QED
    BY <1>3, <2>2, Zenon DEF ConnInv
<1>5. ASSUME NEW f, f.type \in {"HELLO", "RESUME"},
             actions' = {SendFrame(f)}
      PROVE  /\ toServer'[generation] = <<f>>
             /\ TransitInv' /\ BatchInv' /\ HandledInv'
             /\ \A h \in Generations : h > generation => Fresh(h)'
  <2>1. toServer[generation] = <<>>
    BY <1>2, Zenon DEF Fresh
  <2>2. /\ toServer'[generation] = <<f>>
        /\ \A h \in Generations :
              h # generation => toServer'[h] = toServer[h]
    BY <1>1, <1>2, <1>5, <2>1, RequestSent, Zenon
  <2>3. Accepts(reader[generation], gate[generation], f)
    BY <1>2, <1>5 DEF Fresh, Accepts, GateAdmits
  <2> QED
    BY <1>1, <1>2, <2>2, <2>3, RequestConn, Zenon
<1>6. CASE StartSession(generation)
  <2>1. HelloFrame.type = "HELLO"
    BY Zenon DEF HelloFrame
  <2>2. state' = "HANDSHAKING" /\ actions' = {SendFrame(HelloFrame)}
    BY <1>6, Zenon DEF StartSession
  <2>3. /\ FreshInv' /\ TransitInv' /\ BatchInv' /\ HandledInv'
        /\ ReadyInv' /\ ResumeInv'
    BY <1>1, <1>2, <1>5, <2>1, <2>2
       DEF FreshInv, ReadyInv, ResumeInv, Welcomed
  <2> QED
    BY <1>3, <2>3, Zenon DEF ConnInv
<1>7. ASSUME NEW ns \in SUBSET Namespaces, Resume(generation, ns)
      PROVE  ConnInv'
  <2>1. PICK f : f = ResumeFrame(ns)
    BY Zenon
  <2>2. f.type = "RESUME"
    BY <2>1, Zenon DEF ResumeFrame
  <2>3. /\ state' = "RESUMING" /\ actions' = {SendFrame(f)}
        /\ recovery' = [NoRecovery EXCEPT !.namespaces = ns, !.gap = FALSE]
    BY <1>7, <2>1, Zenon DEF Resume, BeginRecovery
  <2>4. ~Acked'
    BY <2>3, Zenon DEF Acked, NoRecovery
  <2>5. Waits'
    <3>1. toServer'[generation] = <<f>> /\ Range(<<f>>) = {f}
      BY <1>5, <2>2, <2>3, SeqSmall
    <3> QED
      BY <1>1, <2>2, <3>1, Zenon DEF Waits
  <2>6. FreshInv' /\ TransitInv' /\ BatchInv' /\ HandledInv'
    BY <1>1, <1>2, <1>5, <2>2, <2>3 DEF FreshInv
  <2>7. ReadyInv' /\ ResumeInv'
    BY <2>3, <2>4, <2>5, Zenon DEF ReadyInv, ResumeInv, Welcomed
  <2> QED
    BY <1>3, <2>6, <2>7, Zenon DEF ConnInv
<1> QED
  BY <1>4, <1>6, <1>7, Zenon DEF ClientCalls

-----------------------------------------------------------------------------
(* The client receives.                                                    *)

\* What a RESUMING client does with an EVENT that does not end its Resume.
WaitsOn(f) ==
    /\ state = "RESUMING" /\ state' = "RESUMING" /\ f.type = "EVENT"
    /\ UNCHANGED <<sessionID, lastSeq, recovery.replayTo, recovery.namespaces>>
    /\ Acked' <=> Acked
    /\ recovery.namespaces = {} /\ recovery.replayTo > lastSeq =>
          f.seq # recovery.replayTo

\* What it does with the WELCOME that acknowledges its RESUME.
IsAcknowledged(f) ==
    /\ state = "RESUMING" /\ state' = "RESUMING" /\ Acknowledges(f) /\ Acked'
    /\ UNCHANGED <<sessionID, lastSeq, recovery.namespaces>>
    /\ recovery'.replayTo = f.replayTo
    /\ f.replayTo # lastSeq \/ recovery.namespaces # {}

\* What one frame does to the connection.
Moves(f) ==
    \/ state' = "DISCONNECTED"
    \/ /\ state # "RESUMING" /\ sessionID' = sessionID
       /\ \/ state' = state
          \/ state \in {"READY", "SUSPECT"} /\ state' \in {"READY", "SUSPECT"}
    \/ f.type = "WELCOME" /\ state' = "READY" /\ sessionID' = f.session
    \/ IsAcknowledged(f)
    \/ /\ state = "RESUMING" /\ Acked
       /\ state' = "READY" /\ sessionID' = sessionID
    \/ WaitsOn(f)

\* The handler of an EVENT, unless the EVENT leaves a gap.
LEMMA EventMoves ==
    ASSUME StreamInv, NEW f, FrameOK(f), HandleEvent(f),
           ~(state = "READY" /\ BeginRecovery({}, TRUE))
    PROVE  Moves(f)
<1> USE DEF sessionVars, transientVars
<1>0. f.type = "EVENT" /\ f.seq \in Nat
  BY ClientAssumption DEF HandleEvent, FrameOK
<1>1. lastSeq \in Nat
  BY ClientAssumption DEF StreamInv
<1>2. CASE DiscardEvent(f)
  <2>1. UNCHANGED <<state, sessionID, lastSeq, recovery>>
    BY <1>2, Zenon DEF DiscardEvent
  <2>2. state = "RESUMING" =>
           \/ f.seq <= lastSeq
           \/ recovery.replayTo = 0
    BY <1>2, Zenon DEF DiscardEvent, Duplicate, Superseded
  <2>3. recovery.replayTo \in Nat
    BY ClientAssumption DEF StreamInv, Recoveries
  <2>4. state = "RESUMING" => WaitsOn(f)
    BY <1>0, <1>1, <2>1, <2>2, <2>3 DEF WaitsOn, Acked
  <2> QED
    BY <2>1, <2>4, Zenon DEF Moves
<1>3. CASE HandleReplayEvent(f)
  <2>1. state = "RESUMING" /\ recovery.replayTo # 0
    BY <1>3, Zenon DEF HandleReplayEvent, ReplayExpected
  <2>2. CASE StopRecovery
    BY <2>2, Zenon DEF StopRecovery, Moves
  <2>3. ASSUME NEW b, NEW n, NEW e, ~EndsReplay(f),
               recovery' = [recovery EXCEPT !.buffer = b, !.bytes = n,
                                            !.eventsComplete = e],
               UNCHANGED <<state, sessionID, lastSeq>>
        PROVE  Moves(f)
    <3>1. UNCHANGED <<recovery.replayTo, recovery.namespaces>>
      BY <2>3, Zenon DEF StreamInv, Recoveries
    <3> QED
      BY <1>0, <2>1, <2>3, <3>1, Zenon DEF Moves, WaitsOn, Acked, EndsReplay
  <2>4. CASE FinishRecovery /\ sessionID' = sessionID
    BY <2>1, <2>4, Zenon DEF FinishRecovery, Moves, Acked
  <2> DEFINE b == Append(recovery.buffer, EventOf(f))
             n == recovery.bytes + EventBytes[f.id]
             fits == Len(b) <= MaxReplayEvents /\ n <= MaxReplayBytes
  <2>5. CASE ~fits
    BY <1>3, <2>2, <2>5, Zenon DEF HandleReplayEvent
  <2>6. CASE fits /\ ~EndsReplay(f)
    <3>1. recovery' = [recovery EXCEPT !.buffer = b, !.bytes = n,
             !.eventsComplete = recovery.eventsComplete
                                \/ f.seq = recovery.replayTo]
      BY <1>3, <2>6, Zenon DEF HandleReplayEvent, StreamInv, Recoveries
    <3>2. UNCHANGED <<state, sessionID, lastSeq>>
      BY <1>3, <2>6, Zenon DEF HandleReplayEvent
    <3> QED
      BY <2>3, <2>6, <3>1, <3>2, Zenon
  <2>7. CASE fits /\ EndsReplay(f)
    BY <1>3, <2>4, <2>7, Zenon DEF HandleReplayEvent
  <2> QED
    BY <2>5, <2>6, <2>7, Zenon
<1>4. CASE HandleLiveEvent(f)
  BY <1>4, Zenon DEF HandleLiveEvent, Moves
<1> QED
  BY <1>2, <1>3, <1>4, Zenon DEF HandleEvent

\* A WELCOME.
LEMMA WelcomeMoves ==
    ASSUME StreamInv, NEW f, FrameOK(f),
           \/ HandleNewWelcome(f)
           \/ f.type = "WELCOME" /\ HandleResumedWelcome(f)
    PROVE  Moves(f)
<1> USE DEF sessionVars, transientVars
<1>1. CASE HandleNewWelcome(f)
  BY <1>1, Zenon DEF HandleNewWelcome, Moves
<1>2. CASE f.type = "WELCOME" /\ HandleResumedWelcome(f)
  <2>1. state = "RESUMING" /\ Acknowledges(f) /\ f.session = sessionID
    BY <1>2, Zenon DEF HandleResumedWelcome, Acknowledges
  <2>2. CASE StopRecovery
    BY <2>2, Zenon DEF StopRecovery, Moves
  <2>3. CASE FinishRecovery /\ sessionID' = sessionID
    BY <1>2, <2>1, <2>3, Zenon DEF FinishRecovery, Moves
  <2>4. CASE /\ f.replayTo # lastSeq \/ recovery.namespaces # {}
             /\ recovery' = [NoRecovery EXCEPT
                    !.replayTo = f.replayTo,
                    !.namespaces = recovery.namespaces,
                    !.eventsComplete = (f.replayTo = lastSeq)]
             /\ UNCHANGED <<state, sessionID, lastSeq>>
    <3>1. PICK e \in BOOLEAN : e = (f.replayTo = lastSeq)
      BY Zenon
    <3>2. recovery' = [NoRecovery EXCEPT !.replayTo = f.replayTo,
                                         !.namespaces = recovery.namespaces,
                                         !.eventsComplete = e]
      BY <2>4, <3>1, Zenon
    <3>3. /\ recovery'.replayTo = f.replayTo /\ recovery'.eventsComplete = e
          /\ recovery'.namespaces = recovery.namespaces
      BY <3>2, Zenon DEF NoRecovery
    <3>4. Acked'
      <4>1. f.replayTo = 0 => f.replayTo = lastSeq
        BY <2>1, ClientAssumption DEF Acknowledges, StreamInv
      <4> QED
        BY <3>1, <3>3, <4>1, Zenon DEF Acked
    <3> QED
      BY <2>1, <2>4, <3>3, <3>4, Zenon DEF IsAcknowledged, Moves
  <2> QED
    BY <1>2, <2>2, <2>3, <2>4, Zenon DEF HandleResumedWelcome
<1> QED
  BY <1>1, <1>2, Zenon

\* HandleIncoming.
LEMMA IncomingMoves ==
    ASSUME StreamInv, NEW g, NEW f, FrameOK(f), HandleIncoming(g, f),
           ~(state = "READY" /\ BeginRecovery({}, TRUE))
    PROVE  Moves(f)
<1> USE DEF sessionVars, transientVars
<1>1. CASE HandleIncomingFailure \/ HandleInvalidError(f)
  BY <1>1, Zenon DEF HandleIncomingFailure, StopRecovery, HandleInvalidError,
     Moves
<1>2. CASE \/ HandlePong(g, f) \/ HandleAck(f) \/ HandleStateSnapshot(f)
           \/ HandleStateUpdate(f)
  BY <1>2, Zenon DEF HandlePong, HandleAck, HandleStateSnapshot,
     SnapshotExpected,
              HandleStateUpdate, UpdateExpected, Moves
<1>3. CASE HandleResumeStateSnapshot(f)
  BY <1>3, Zenon DEF HandleResumeStateSnapshot, ResumeSnapshotExpected,
              FinishRecovery, Moves, Acked
<1>4. CASE HandleError(f)
  <2>1. CASE AbandonsSession(f.code) \/ state = "RESUMING"
    BY <1>4, <2>1, Zenon DEF HandleError, Moves
  <2>2. CASE ~AbandonsSession(f.code) /\ state # "RESUMING"
    <3>1. UNCHANGED sessionVars
      BY <1>4, <2>2, Zenon DEF HandleError
    <3>2. state' = "DISCONNECTED" \/ state' = state
      BY <1>4, Zenon DEF HandleError
    <3> QED
      BY <2>2, <3>1, <3>2, Zenon DEF Moves
  <2> QED
    BY <2>1, <2>2, Zenon
<1> QED
  BY <1>1, <1>2, <1>3, <1>4, EventMoves, WelcomeMoves, Zenon DEF HandleIncoming

\* No frame opens a connection.
LEMMA IncomingSameGeneration ==
    ASSUME NEW g, NEW f, HandleIncoming(g, f)
    PROVE  generation' = generation
  BY Zenon DEF HandleIncoming, HandleIncomingFailure, StopRecovery,
     HandleInvalidError, HandleNewWelcome, HandleResumedWelcome,
     FinishRecovery, HandlePong, HandleAck, HandleEvent, DiscardEvent,
     HandleReplayEvent, HandleLiveEvent, BeginRecovery, HandleStateSnapshot,
     HandleResumeStateSnapshot, HandleStateUpdate, HandleError

\* A live EVENT leaves a gap: the client resumes on its own connection.
LEMMA GapConn ==
    ASSUME SyncInv, ConnInv, ClientReceives,
           state = "READY" /\ BeginRecovery({}, TRUE)
    PROVE  ConnInv'
<1>1. /\ toClient # <<>> /\ toClient' = Tail(toClient) /\ Transmit
      /\ UNCHANGED <<gate, reader>>
  BY Zenon DEF ClientReceives, serverVars
<1>2. PICK f : f = ResumeFrame({})
  BY Zenon
<1>3. f.type = "RESUME" /\ f.session = sessionID
  BY <1>2, Zenon DEF ResumeFrame
<1>4. /\ state' = "RESUMING" /\ actions' = {SendFrame(f)}
      /\ UNCHANGED generation
      /\ recovery' = [NoRecovery EXCEPT !.namespaces = {}, !.gap = TRUE]
  BY <1>2, Zenon DEF BeginRecovery
<1>5. /\ generation \in Generations /\ toServer[generation] = <<>>
      /\ Settled(reader[generation], gate[generation], sessionID)
      /\ NoWelcome(Range(toClient))
  BY Zenon DEF ConnInv, FreshInv, ReadyInv, Welcomed, Done
<1>6. /\ toServer'[generation] = <<f>>
      /\ \A h \in Generations : h # generation => toServer'[h] = toServer[h]
  BY <1>1, <1>4, <1>5, RequestSent, Zenon
<1>7. Accepts(reader[generation], gate[generation], f)
  BY <1>3, <1>5, SettledAccepts, Zenon
<1>8. FreshInv' /\ TransitInv' /\ BatchInv' /\ HandledInv'
  BY <1>1, <1>4, <1>5, <1>6, <1>7, RequestConn, Zenon DEF FreshInv
<1>9. ~Acked'
  BY <1>4, Zenon DEF Acked, NoRecovery
<1>10. Waits'
  <2>1. Range(<<f>>) = {f}
    BY SeqSmall, Zenon
  <2> QED
    BY <1>3, <1>4, <1>6, <2>1, Zenon DEF Waits
<1>11. WelcomeInv'
  <2>1. /\ Sequence(toClient) /\ Range(toClient') \subseteq Range(toClient)
        /\ Answered(toClient', {})
    BY <1>1, SeqTail, AnsweredTail, Zenon
       DEF SyncInv, FrameInv, ConnInv, WelcomeInv
  <2> QED
    BY <1>5, <2>1, Zenon DEF WelcomeInv, NoWelcome
<1>12. ReadyInv' /\ ResumeInv'
  BY <1>4, <1>9, <1>10, Zenon DEF ReadyInv, ResumeInv, Welcomed
<1> QED
  BY <1>8, <1>11, <1>12, Zenon DEF ConnInv

\* HandleIncoming of the first frame on its way.
LEMMA ReceiveConn ==
    ASSUME SyncInv, ConnInv, ClientReceives
    PROVE  ConnInv'
<1>0. CASE state = "READY" /\ BeginRecovery({}, TRUE)
  BY <1>0, GapConn, Zenon
<1> SUFFICES ASSUME ~(state = "READY" /\ BeginRecovery({}, TRUE))
             PROVE  ConnInv'
  BY <1>0, Zenon
<1>1. PICK f : f = Head(toClient)
  BY Zenon
<1>2. /\ toClient # <<>> /\ toClient' = Tail(toClient)
      /\ UNCHANGED <<gate, reader>> /\ HandleIncoming(generation, f)
      /\ Transmit
  BY <1>1, Zenon DEF ClientReceives, serverVars
<1>3. /\ FrameOK(f) /\ f \in Range(toClient)
      /\ Range(toClient) = {f} \cup Range(toClient')
  BY <1>1, <1>2, SeqTail, Zenon DEF SyncInv, FrameInv, GoodFrame
<1>4. Promise(f, Range(toClient')) /\ Answered(toClient', {})
  BY <1>1, <1>2, AnsweredTail, Zenon
     DEF SyncInv, FrameInv, ConnInv, WelcomeInv
<1>5. Moves(f) /\ toServer' = toServer /\ generation' = generation
  <2>1. toServer' = toServer
    BY <1>2, IncomingSends, NothingSent, Zenon
  <2>2. Moves(f)
    BY <1>2, <1>3, IncomingMoves, Zenon DEF SyncInv, ClientInv
  <2>3. generation' = generation
    BY <1>2, IncomingSameGeneration, Zenon
  <2> QED
    BY <2>1, <2>2, <2>3, Zenon
<1>6. /\ generation \in Generations
      /\ state \notin {"CONNECTING", "CONNECTED"}
  BY <1>2, Zenon DEF ConnInv, FreshInv
<1>7. \A s : Done(s)' <=> Done(s)
  BY <1>2, <1>5, Zenon DEF Done
<1>8. FreshInv'
  BY <1>2, <1>5, <1>6, Zenon
     DEF ConnInv, FreshInv, Fresh, Moves, IsAcknowledged, WaitsOn
<1>9. TransitInv' /\ BatchInv' /\ HandledInv' /\ WelcomeInv'
  BY <1>2, <1>3, <1>4, <1>5, <1>7, Zenon
     DEF ConnInv, TransitInv, BatchInv, HandledInv, WelcomeInv
<1>10. f.type = "WELCOME" => Done(f.session)' /\ NoWelcome(Range(toClient'))
  BY <1>3, <1>4, <1>7, Zenon DEF ConnInv, WelcomeInv, Promise
<1>11. Welcomed => Done(sessionID) /\ NoWelcome(Range(toClient'))
  BY <1>3, Zenon DEF ConnInv, ReadyInv, NoWelcome
<1>12. ReadyInv'
  <2>1. PICK s : s = sessionID'
    BY Zenon
  <2>2. Welcomed' => Done(s) /\ NoWelcome(Range(toClient'))
    <3>1. CASE Welcomed /\ sessionID' = sessionID
      BY <1>11, <2>1, <3>1, Zenon
    <3>2. CASE f.type = "WELCOME" /\ state' = "READY" /\ s = f.session
      BY <1>7, <1>10, <3>2, Zenon
    <3>3. CASE IsAcknowledged(f)
      <4>1. f.type = "WELCOME" /\ f.session = sessionID
        BY <3>3, Zenon DEF IsAcknowledged, Acknowledges
      <4> QED
        BY <1>7, <1>10, <2>1, <3>3, <4>1, Zenon DEF IsAcknowledged
    <3> QED
      BY <1>5, <2>1, <3>1, <3>2, <3>3, Zenon DEF Moves, Welcomed, WaitsOn
  <2>3. Done(s) => Done(sessionID)'
    BY <1>2, <1>5, <2>1, Zenon DEF Done
  <2> QED
    BY <2>2, <2>3, Zenon DEF ReadyInv
<1>13. ResumeInv'
  <2>1. CASE IsAcknowledged(f)
    <3>1. /\ f.type = "WELCOME" /\ f.mode = "RESUMED"
          /\ f.resumeFrom = Succ(lastSeq) /\ f.namespaces = recovery.namespaces
      BY <2>1, Zenon DEF IsAcknowledged, Acknowledges
    <3>2. /\ f.resumeFrom \in Nat \ {0}
          /\ f.replayTo >= f.resumeFrom =>
                \E g \in Range(toClient') : g.type = "EVENT" /\ g.seq = f.replayTo
          /\ f.namespaces # {} =>
                \E g \in Range(toClient') : g.type = "STATE_SNAPSHOT"
      BY <1>4, <3>1, Zenon DEF Promise
    <3>3. lastSeq \in 0..MaxSeq
      BY Zenon DEF SyncInv, ClientInv, StreamInv
    <3>4. Succ(lastSeq) = lastSeq + 1
      BY <3>1, <3>2, <3>3, ClientAssumption DEF Succ
    <3> QED
      BY <1>3, <2>1, <3>1, <3>2, <3>3, <3>4
         DEF ResumeInv, IsAcknowledged, FrameOK, Acknowledges
  <2>2. CASE WaitsOn(f)
    <3>1. Waits => Waits'
      BY <1>2, <1>3, <1>5, <2>2, Zenon DEF Waits, ConnectionFailed, WaitsOn
    <3> QED
      BY <1>3, <2>2, <3>1, Zenon DEF ConnInv, ResumeInv, WaitsOn
  <2> QED
    BY <1>5, <2>1, <2>2, Zenon DEF Moves, ResumeInv
<1> QED
  BY <1>8, <1>9, <1>12, <1>13, Zenon DEF ConnInv

-----------------------------------------------------------------------------
(* The invariant.                                                          *)

\* A new client and a new server.
LEMMA ConnStarts ==
    ASSUME SyncInit
    PROVE  ConnInv
<1>1. /\ state = "DISCONNECTED" /\ toClient = <<>>
      /\ \A g \in Generations : Fresh(g)
  BY Zenon DEF SyncInit, Init, Fresh
<1>2. Range(toClient) = {} /\ Len(toClient) = 0
  BY <1>1, SeqSmall, Zenon
<1>3. WelcomeInv
  BY <1>2 DEF WelcomeInv, Answered
<1>4. FreshInv /\ TransitInv /\ BatchInv /\ HandledInv
  BY <1>1 DEF FreshInv, TransitInv, BatchInv, HandledInv, Handled, Fresh,
     Idle
<1>5. ReadyInv /\ ResumeInv
  BY <1>1, Zenon DEF ReadyInv, ResumeInv, Welcomed
<1> QED
  BY <1>3, <1>4, <1>5, Zenon DEF ConnInv

\* Every step of client, server and Application.
LEMMA ConnStep ==
    ASSUME DataTyped, SyncInv, ConnInv, [SyncNext]_syncVars
    PROVE  ConnInv'
<1>1. CASE ClientConnects \/ ClientCalls \/ ConnectionEnds \/ ClientReceives
  BY <1>1, ConnectConn, CallConn, EndConn, ReceiveConn, Zenon
<1>2. ASSUME NEW g \in Generations, Reader(g)
      PROVE  ConnInv'
  BY <1>2, HelloConn, ResumeConn, LaneConn, RefuseConn, AnswerConn,
     SnapshotConn, ApplyConn, Zenon DEF Reader
<1>3. ASSUME UNCHANGED clientVars,
             UNCHANGED <<gate, reader, toServer, toClient>>
      PROVE  ConnInv'
  BY <1>3, QuietConn, Zenon
<1>4. ASSUME NEW g, CloseOutbound(g)
      PROVE  ConnInv'
  BY <1>3, <1>4, Zenon DEF CloseOutbound
<1>5. ASSUME NEW s, Expire(s) \/ \E first \in PrunePoints : PruneBefore(s, first)
      PROVE  ConnInv'
  BY <1>3, <1>5, Zenon DEF Expire, PruneBefore
<1>6. CASE UNCHANGED syncVars
  BY <1>3, <1>6, Zenon DEF syncVars, serverVars
<1> QED
  BY <1>1, <1>2, <1>4, <1>5, <1>6, LoseConn, PublishConn, Zenon DEF SyncNext

=============================================================================
