--------------------------- MODULE EventSyncProofs --------------------------
(***************************************************************************)
(* Every step of the server of EventSync preserves SyncInv, and takes no   *)
(* step of EventStream except PublishTo.                                   *)
(***************************************************************************)
EXTENDS EventLogProofs, FiniteSetTheorems

-----------------------------------------------------------------------------
(* Steps of the server.                                                    *)

\* What every step does: it keeps the invariant, enqueues no short replay and
\* is a step of EventStream.
SyncProgress ==
    SyncInv' /\ EnqueuesLatest /\ [Stream!StreamNext]_(Stream!streamVars)

\* A step of the server that publishes nothing.
LEMMA ServerStep ==
    ASSUME SyncInv, UNCHANGED clientVars, UNCHANGED logs, StoreInv',
           ServerInv', RequestInv', ReaderInv', FrameInv', EnqueuesLatest
    PROVE  SyncProgress
<1>1. ClientInv'
  BY ClientRests, Zenon DEF SyncInv
<1>2. UNCHANGED <<sessionID, delivered, lastSeq, recovery>>
  BY Zenon DEF clientVars, sessionVars, transientVars
<1>3. StreamAgrees'
  BY <1>2, QuietAgrees, Zenon DEF SyncInv, logs
<1>4. CommitInv'
  BY Zenon DEF SyncInv, CommitInv, logs
<1>5. UNCHANGED Stream!streamVars
  BY <1>2, Zenon DEF Stream!streamVars, logs
<1> QED
  BY <1>1, <1>3, <1>4, <1>5, Zenon DEF SyncInv, SyncProgress

\* Nothing was appended or pruned.
LEMMA QuietStore ==
    ASSUME StoreInv, store' = store, published' = published
    PROVE  StoreInv'
  BY Zenon DEF StoreInv

\* The requests in transit stay.
LEMMA QuietRequests ==
    ASSUME RequestInv, toServer' = toServer
    PROVE  RequestInv'
  BY Zenon DEF RequestInv, RequestOK

\* No other reader loses the lane.
LaneKept(g) ==
    /\ lane' \in [Sessions -> 0..MaxGeneration]
    /\ \A s \in Sessions, h \in Generations :
          h # g /\ lane[s] = h => lane'[s] = h

\* The lanes are left alone.
LEMMA QuietLane ==
    ASSUME ServerInv, lane' = lane, NEW g
    PROVE  LaneKept(g)
  BY Zenon DEF ServerInv, LaneKept

\* The lane is given to a reader or taken from it.
LEMMA MovedLane ==
    ASSUME ServerInv, NEW g \in Generations, NEW s \in Sessions,
           lane[s] \in {0, g}, NEW h \in {0, g},
           lane' = [lane EXCEPT ![s] = h]
    PROVE  LaneKept(g) /\ lane'[s] = h
<1>1. 0 \notin Generations /\ h \in 0..MaxGeneration
  BY ClientAssumption DEF Generations
<1> QED
  BY <1>1, Zenon DEF ServerInv, LaneKept

\* The reader goes on without sending anything.
LEMMA ReaderMoves ==
    ASSUME SyncInv, UNCHANGED clientVars, NEW g \in Generations, NEW r,
           reader' = [reader EXCEPT ![g] = r], ReaderOK(r, g)', LaneKept(g),
           gate' \in [Generations -> Gates],
           UNCHANGED <<store, created, live, open, logs, toServer, toClient>>
    PROVE  SyncProgress
<1>1. published' = published /\ UNCHANGED logs
  BY Zenon DEF logs
<1>2. ReaderInv'
  BY <1>1, ReaderKeeps, Zenon DEF SyncInv, LaneKept
<1>3. StoreInv' /\ RequestInv' /\ FrameInv' /\ EnqueuesLatest
  BY <1>1, QuietStore, QuietRequests, NothingEnqueued, Zenon DEF SyncInv
<1>4. ServerInv'
  BY Zenon DEF SyncInv, ServerInv, LaneKept
<1> QED
  BY <1>1, <1>2, <1>3, <1>4, ServerStep, Zenon

\* The reader enqueues its answer and goes on to applyResult.
LEMMA ReaderAnswers ==
    ASSUME SyncInv, UNCHANGED clientVars, NEW g \in Generations,
           NEW o, NEW s, OutcomeOK(o, s), Finish(g, o), LaneKept(g),
           gate' \in [Generations -> Gates],
           live' \subseteq created', created' \subseteq Sessions,
           UNCHANGED <<store, logs>>, RequestInv'
    PROVE  SyncProgress
<1>1. published' = published /\ UNCHANGED logs
  BY Zenon DEF logs
<1>2. ReaderInv' /\ FrameInv' /\ EnqueuesLatest /\ open' \subseteq Generations
  BY <1>1, FinishKeeps, Zenon DEF SyncInv, LaneKept
<1>3. ServerInv'
  BY <1>2, Zenon DEF ServerInv, LaneKept
<1>4. StoreInv'
  BY <1>1, QuietStore, Zenon DEF SyncInv
<1> QED
  BY <1>1, <1>2, <1>3, <1>4, ServerStep, Zenon

\* handleHello.
LEMMA ReceiveHelloStep ==
    ASSUME SyncInv, NEW g \in Generations, NEW s \in Sessions,
           ReceiveHello(g, s)
    PROVE  SyncProgress
<1>1. PICK o : o = HelloOutcome(s, Negotiate(Registry,
                                             Head(toServer[g]).offers))
  BY Zenon
<1>2. /\ UNCHANGED clientVars /\ UNCHANGED <<store, gate, lane, logs>>
      /\ toServer[g] # <<>> /\ toServer' = [toServer EXCEPT ![g] = Tail(@)]
      /\ Finish(g, o)
  BY <1>1, Zenon DEF ReceiveHello
<1>3. PICK new \in {{}, {s}} :
         created' = created \cup new /\ live' = live \cup new
  BY Zenon DEF ReceiveHello
<1>4. OutcomeOK(o, s) /\ RequestInv' /\ LaneKept(g)
  BY <1>1, <1>2, HelloOutcomeOK, ReceiveKeeps, QuietLane, Zenon DEF SyncInv
<1>5. /\ gate' \in [Generations -> Gates]
      /\ live' \subseteq created' /\ created' \subseteq Sessions
  BY <1>2, <1>3, Zenon DEF SyncInv, ServerInv
<1> QED
  BY <1>2, <1>4, <1>5, ReaderAnswers, Zenon

\* handleResume up to its runStream.
LEMMA ReceiveResumeStep ==
    ASSUME SyncInv, NEW g \in Generations, ReceiveResume(g)
    PROVE  SyncProgress
<1>1. PICK f : f = Head(toServer[g])
  BY Zenon
<1>2. /\ UNCHANGED clientVars
      /\ UNCHANGED <<store, created, live, lane, logs>>
      /\ toServer[g] # <<>> /\ toServer' = [toServer EXCEPT ![g] = Tail(@)]
      /\ f.type = "RESUME"
  BY <1>1, Zenon DEF ReceiveResume
<1>3. RequestInv' /\ f.lastSeq \in 0..MaxSeq /\ LaneKept(g)
  BY <1>1, <1>2, ReceiveKeeps, QuietLane, Zenon DEF SyncInv, RequestOK
<1>4. gate' \in [Generations -> Gates]
  <2>1. PICK st \in {"CLOSED", "AWAITING_HANDSHAKE", "READY", "RESUMING"} :
           gate' = [gate EXCEPT ![g].state = st]
    <3>1. gate[g] \in Gates
      BY Zenon DEF SyncInv, ServerInv
    <3>2. gate' = [gate EXCEPT ![g].state =
                      IF @ = "READY" THEN "RESUMING" ELSE @]
      BY Zenon DEF ReceiveResume
    <3> QED
      BY <3>1, <3>2, Zenon DEF Gates, SyncInv, ServerInv
  <2> QED
    BY <2>1, Zenon DEF SyncInv, ServerInv, Gates
<1>5. live' \subseteq created' /\ created' \subseteq Sessions
  BY <1>2, Zenon DEF SyncInv, ServerInv
<1>6. ASSUME NEW code, NEW kind \in {"close", "abandon"},
             Finish(g, ErrorOutcome(f.session, code, kind))
      PROVE  SyncProgress
  <2>1. PICK o : o = ErrorOutcome(f.session, code, kind)
    BY Zenon
  <2>2. OutcomeOK(o, f.session) /\ Finish(g, o)
    BY <1>6, <2>1, ErrorOutcomeOK, Zenon
  <2> QED
    BY <1>2, <1>3, <1>4, <1>5, <2>2, ReaderAnswers, Zenon
<1>7. ASSUME NEW r,
             r = [step |-> "stream", session |-> f.session,
                  lastSeq |-> f.lastSeq, namespaces |-> f.namespaces],
             f.session \in live, reader' = [reader EXCEPT ![g] = r],
             UNCHANGED <<open, toClient>>
      PROVE  SyncProgress
  <2>1. f.session \in Sessions
    BY <1>7, Zenon DEF SyncInv, ServerInv
  <2>2. ReaderOK(r, g)'
    BY <1>3, <1>7, <2>1, Zenon DEF ReaderOK, Steps
  <2>3. published' = published
    BY <1>2, Zenon DEF logs
  <2>4. ReaderInv' /\ StoreInv' /\ FrameInv' /\ EnqueuesLatest
    BY <1>2, <1>3, <1>7, <2>2, <2>3, ReaderKeeps, QuietStore, NothingEnqueued,
       Zenon
       DEF SyncInv, LaneKept
  <2>5. ServerInv'
    BY <1>2, <1>3, <1>4, <1>5, <1>7, Zenon DEF SyncInv, ServerInv, LaneKept
  <2> QED
    BY <1>2, <1>3, <2>4, <2>5, ServerStep, Zenon
<1>8. \/ \E code : \E kind \in {"close", "abandon"} :
            Finish(g, ErrorOutcome(f.session, code, kind))
      \/ /\ f.session \in live
         /\ reader' = [reader EXCEPT
                ![g] = [step |-> "stream", session |-> f.session,
                        lastSeq |-> f.lastSeq, namespaces |-> f.namespaces]]
         /\ UNCHANGED <<open, toClient>>
  BY <1>1, Zenon DEF ReceiveResume
<1> QED
  BY <1>6, <1>7, <1>8, Zenon

\* replay_to is fixed when the lane is entered, at what is published then.
LEMMA EnterLaneStep ==
    ASSUME SyncInv, NEW g \in Generations, EnterLane(g)
    PROVE  SyncProgress
<1>1. PICK s : s = reader[g].session
  BY Zenon
<1>2. PICK r : r = [step |-> "replay", session |-> s,
                    lastSeq |-> reader[g].lastSeq,
                    namespaces |-> reader[g].namespaces,
                    replayTo |-> store[s].current]
  BY Zenon
<1>3. s \in Sessions /\ reader[g].lastSeq \in 0..MaxSeq
  BY <1>1, Zenon DEF SyncInv, ReaderInv, ReaderOK, EnterLane, Steps
<1>4. LaneKept(g) /\ lane'[s] = g
  BY <1>1, <1>3, MovedLane, Zenon DEF EnterLane, SyncInv
<1>5. /\ UNCHANGED clientVars /\ reader' = [reader EXCEPT ![g] = r]
      /\ UNCHANGED <<store, created, live, open, logs, toServer, toClient>>
      /\ gate' \in [Generations -> Gates]
  BY <1>1, <1>2, Zenon DEF EnterLane, Store!CurrentSeq, SyncInv, ServerInv
<1>6. r.replayTo = Len(published'[s])
  BY <1>2, <1>3, <1>5, Zenon DEF SyncInv, StoreInv, LogOK, logs
<1>7. /\ r.step = "replay" /\ r.session = s /\ r.lastSeq \in 0..MaxSeq
  BY <1>2, <1>3, Zenon
<1>8. ReaderOK(r, g)'
  BY <1>3, <1>4, <1>6, <1>7, Zenon DEF ReaderOK, Steps
<1> QED
  BY <1>4, <1>5, <1>8, ReaderMoves, Zenon

\* The gate after applyResult.
LEMMA AppliedType ==
    ASSUME NEW old \in Gates, NEW result \in Results
    PROVE  Applied(old, result) \in Gates
  BY Zenon DEF Applied, Gates, Results

\* A refusal by streamLane.run; the caller may hand in the request again.
LEMMA RefuseLaneStep ==
    ASSUME SyncInv, NEW g \in Generations, RefuseLane(g)
    PROVE  SyncProgress
<1>1. PICK f : f = Request(reader[g])
  BY Zenon
<1>2. PICK r \in {Stopped, Idle} : reader' = [reader EXCEPT ![g] = r]
  BY Zenon DEF RefuseLane
<1>3. /\ UNCHANGED clientVars /\ lane' = lane
      /\ UNCHANGED <<store, created, live, open, logs, toClient>>
  BY Zenon DEF RefuseLane
<1>4. published' = published /\ LaneKept(g)
  BY <1>3, QuietLane, Zenon DEF SyncInv, logs
<1>5. gate' \in [Generations -> Gates]
  <2>1. PICK new : new = Applied(gate[g], Result("none", NoSession))
    BY Zenon
  <2>2. Result("none", NoSession) \in Results
    BY Zenon DEF Result, Results
  <2>3. new \in Gates
    BY <2>1, <2>2, AppliedType, Zenon DEF SyncInv, ServerInv
  <2> QED
    BY <2>1, <2>3, Zenon DEF RefuseLane, SyncInv, ServerInv
<1>6. RequestOK(f)
  <2>1. CASE reader[g].step = "stream"
    <3>1. f.type = "RESUME" /\ f.lastSeq = reader[g].lastSeq
      BY <1>1, <2>1, Zenon DEF Request
    <3> QED
      BY <2>1, <3>1, Zenon DEF RequestOK, SyncInv, ReaderInv, ReaderOK
  <2>2. CASE reader[g].step = "query"
    <3>1. /\ f.type = "STATE_QUERY" /\ f.session = reader[g].session
          /\ f.ids = reader[g].ids
      BY <1>1, <2>2 DEF Request
    <3> QED
      BY <2>2, <3>1, Zenon
         DEF RequestOK, SyncInv, ReaderInv, ReaderOK, Steps
  <2> QED
    BY <2>1, <2>2, Zenon DEF RefuseLane
<1>7. RequestInv'
  <2>1. CASE toServer' = toServer
    BY <2>1, QuietRequests, Zenon DEF SyncInv
  <2>2. CASE toServer' = [toServer EXCEPT ![g] = <<f>> \o @]
    <3>1. PICK p, q : p = <<f>> /\ q = toServer[g]
      BY Zenon
    <3>2. Sequence(p) /\ Range(p) = {f}
      BY <3>1, SeqSmall, Zenon
    <3>3. Sequence(q) /\ \A e \in Range(q) : RequestOK(e)
      BY <3>1, Zenon DEF SyncInv, RequestInv
    <3>4. Sequence(p \o q) /\ Range(p \o q) = Range(p) \cup Range(q)
      BY <3>2, <3>3, SeqConcat, Zenon
    <3>5. PICK t : t = p \o q
      BY Zenon
    <3>6. Sequence(t) /\ \A e \in Range(t) : RequestOK(e)
      BY <1>6, <3>2, <3>3, <3>4, <3>5, Zenon
    <3>7. toServer' = [toServer EXCEPT ![g] = t]
      BY <2>2, <3>1, <3>5, Zenon
    <3> QED
      BY <3>6, <3>7, Zenon DEF SyncInv, RequestInv, RequestOK
  <2> QED
    BY <1>1, <2>1, <2>2, Zenon DEF RefuseLane
<1>8. ReaderOK(r, g)'
  <2>1. r.step \in {"idle", "stopped"}
    BY <1>2 DEF Stopped, Idle
  <2> QED
    BY <2>1, FreeReader
<1>9. ReaderInv' /\ StoreInv' /\ FrameInv' /\ EnqueuesLatest
  BY <1>2, <1>3, <1>4, <1>8, ReaderKeeps, QuietStore, NothingEnqueued, Zenon
     DEF SyncInv, LaneKept
<1>10. ServerInv'
  BY <1>3, <1>4, <1>5, Zenon DEF SyncInv, ServerInv, LaneKept
<1> QED
  BY <1>3, <1>7, <1>9, <1>10, ServerStep, Zenon

\* The reader after applyResult.
LEMMA ApplyResultStep ==
    ASSUME SyncInv, NEW g \in Generations, ApplyResult(g)
    PROVE  SyncProgress
<1>1. PICK r \in {Stopped, Idle} : reader' = [reader EXCEPT ![g] = r]
  BY Zenon DEF ApplyResult
<1>2. ReaderOK(r, g)'
  <2>1. r.step \in {"idle", "stopped"}
    BY <1>1 DEF Stopped, Idle
  <2> QED
    BY <2>1, FreeReader
<1>3. /\ UNCHANGED clientVars /\ lane' = lane
      /\ UNCHANGED <<store, created, live, open, logs, toServer, toClient>>
  BY Zenon DEF ApplyResult
<1>4. gate' \in [Generations -> Gates]
  <2>1. PICK new : new = Applied(gate[g], reader[g].result)
    BY Zenon
  <2>2. new \in Gates
    BY <2>1, AppliedType, Zenon
       DEF SyncInv, ServerInv, ReaderInv, ReaderOK, ApplyResult
  <2> QED
    BY <2>1, <2>2, Zenon DEF ApplyResult, SyncInv, ServerInv
<1>5. LaneKept(g)
  BY <1>3, QuietLane, Zenon DEF SyncInv
<1> QED
  BY <1>1, <1>2, <1>3, <1>4, <1>5, ReaderMoves, Zenon

\* The answer of handleResume may be sent.
LEMMA ResumeOutcomeOK ==
    ASSUME DataTyped, StoreInv, NEW r, r.session \in Sessions,
           r.replayTo = Len(published[r.session])
    PROVE  OutcomeOK(ResumeOutcome(r), r.session)
\* The replayed EVENTs may be sent.
<1>1. ASSUME NEW s \in Sessions, NEW events \in Seq(Range(store[s].events)),
             NEW q, q = [n \in 1..Len(events) |-> EventFrame(s, events[n])]
      PROVE  BatchOK(q, s) /\ Len(q) = Len(events)
  <2> USE <1>1
  <2>1. PICK S : S = {EventFrame(s, e) : e \in Range(store[s].events)}
    BY Zenon
  <2>2. q \in Seq(S) /\ Len(q) = Len(events)
    BY <2>1
  <2>3. ASSUME NEW f \in S
        PROVE  GoodFrame(f) /\ f.type = "EVENT"
    <3>1. PICK e \in Range(store[s].events) : f = EventFrame(s, e)
      BY <2>1, Zenon
    <3>2. LogOK(store[s], published[s])
      BY Zenon DEF StoreInv
    <3>3. e \in Events /\ e.seq \in 1..Len(published[s])
          /\ published[s][e.seq] = e
      BY <3>2, LogEvents
    <3>4. f.type = "EVENT" /\ f.session = s /\ f.seq = e.seq /\ f.id = e.id
      BY <3>1, Zenon DEF EventFrame
    <3>5. f.seq \in 1..MaxSeq /\ f.id \in EventIDs
      BY <3>3, <3>4, Zenon DEF Events
    <3> QED
      BY <3>3, <3>4, <3>5, Zenon DEF GoodFrame, FrameOK
  <2> QED
    BY <2>2, <2>3, SeqOver, Zenon DEF BatchOK
\* Two parts of an answer.
<1>2. ASSUME NEW s, NEW p, NEW q, BatchOK(p, s), BatchOK(q, s)
      PROVE  BatchOK(p \o q, s)
  <2> USE <1>2
  <2>1. Sequence(p \o q) /\ Range(p \o q) = Range(p) \cup Range(q)
    BY SeqConcat, Zenon DEF BatchOK
  <2> QED
    BY <2>1, Zenon DEF BatchOK
<1> DEFINE s == r.session
<1>3. ASSUME NEW events \in Seq(Range(store[s].events)), NEW q,
             q = [n \in 1..Len(events) |-> EventFrame(s, events[n])],
             ResumeOutcome(r) = Outcome(<<ResumedWelcome(r)>> \o q,
                                        Result("ready", s))
      PROVE  OutcomeOK(ResumeOutcome(r), s)
  <2>1. PICK w : w = ResumedWelcome(r)
    BY Zenon
  <2>2. /\ w.type = "WELCOME" /\ w.mode = "RESUMED" /\ w.session = s
        /\ w.replayTo = Len(published[s])
    BY <2>1, Zenon DEF ResumedWelcome
  <2>3. GoodFrame(w)
    BY <2>2, PublishedLog, Zenon DEF GoodFrame, FrameOK
  <2>4. BatchOK(<<w>>, s)
    BY <2>2, <2>3, SeqSmall, Zenon DEF BatchOK
  <2>5. BatchOK(<<w>> \o q, s)
    BY <1>3, <2>4, <1>1, <1>2
  <2>6. /\ ResumeOutcome(r).frames = <<w>> \o q
        /\ ResumeOutcome(r).result = Result("ready", s)
    BY <1>3, <2>1 DEF Outcome
  <2> QED
    BY <2>5, <2>6 DEF OutcomeOK, Result, Results
<1> QED
  BY <1>3, ResumeCases, ErrorOutcomeOK, Zenon

\* The handler leaves the lane with its answer.
LEMMA LeaveStep ==
    ASSUME SyncInv, NEW g \in Generations, NEW o,
           reader[g].step \in {"replay", "snapshot", "get"},
           OutcomeOK(o, reader[g].session), LeaveLane(g, o),
           UNCHANGED clientVars,
           UNCHANGED <<store, created, live, gate, logs, toServer>>
    PROVE  SyncProgress
<1>1. PICK s : s = reader[g].session
  BY Zenon
<1>2. s \in Sessions /\ lane[s] = g
  BY <1>1, Zenon DEF SyncInv, ReaderInv, ReaderOK, Steps
<1>3. lane' = [lane EXCEPT ![s] = 0] /\ Finish(g, o)
  BY <1>1, Zenon DEF LeaveLane
<1>4. LaneKept(g)
  BY <1>2, <1>3, MovedLane, Zenon DEF SyncInv
<1>5. /\ gate' \in [Generations -> Gates] /\ RequestInv'
      /\ live' \subseteq created' /\ created' \subseteq Sessions
  BY QuietRequests, Zenon DEF SyncInv, ServerInv
<1> QED
  BY <1>3, <1>4, <1>5, ReaderAnswers, Zenon

\* handleResume from CurrentSeq to its batch or to the provider.
LEMMA AnswerResumeStep ==
    ASSUME DataTyped, SyncInv, NEW g \in Generations, AnswerResume(g)
    PROVE  SyncProgress
<1>1. PICK r, o : r = reader[g] /\ o = ResumeOutcome(r)
  BY Zenon
<1>2. /\ UNCHANGED clientVars /\ r.step = "replay"
      /\ UNCHANGED <<store, created, live, gate, logs, toServer>>
  BY <1>1, Zenon DEF AnswerResume
<1>3. /\ r.session \in Sessions /\ lane[r.session] = g
      /\ r.replayTo = Len(published[r.session])
  BY <1>1, <1>2, Zenon DEF SyncInv, ReaderInv, ReaderOK, Steps
<1>4. OutcomeOK(o, r.session)
  BY <1>1, <1>3, ResumeOutcomeOK, Zenon DEF SyncInv
<1>5. CASE LeaveLane(g, o)
  BY <1>1, <1>2, <1>4, <1>5, LeaveStep
<1>6. ASSUME NEW q,
             q = [step |-> "snapshot", session |-> r.session,
                  batch |-> o.frames,
                  states |-> ProviderSnapshot(r.namespaces)],
             reader' = [reader EXCEPT ![g] = q],
             UNCHANGED <<lane, open, toClient>>
      PROVE  SyncProgress
  <2>1. PICK p : p = ProviderSnapshot(r.namespaces)
    BY Zenon
  <2>2. /\ q.step = "snapshot" /\ q.session = r.session /\ q.batch = o.frames
        /\ q.states \in Seq(StateObjects)
    <3>1. p \in Seq(StateObjects)
      BY <2>1, Zenon DEF DataTyped, SyncInv
    <3> QED
      BY <1>6, <2>1, <3>1, Zenon
  <2>3. BatchOK(o.frames, r.session)'
    BY <1>2, <1>4, Zenon DEF OutcomeOK, BatchOK, GoodFrame, logs
  <2>4. ReaderOK(q, g)'
    BY <1>3, <1>6, <2>2, <2>3, Zenon DEF ReaderOK, Steps, BatchOK, GoodFrame
  <2>5. LaneKept(g) /\ gate' \in [Generations -> Gates]
    BY <1>2, <1>6, QuietLane, Zenon DEF SyncInv, ServerInv
  <2> QED
    BY <1>2, <1>6, <2>4, <2>5, ReaderMoves, Zenon
<1> QED
  BY <1>1, <1>5, <1>6, Zenon DEF AnswerResume

\* handleResume from the provider to its batch.
LEMMA AnswerResumeWithStateStep ==
    ASSUME DataTyped, SyncInv, NEW g \in Generations,
           AnswerResumeWithState(g)
    PROVE  SyncProgress
<1>1. PICK r : r = reader[g]
  BY Zenon
<1>2. /\ UNCHANGED clientVars /\ r.step = "snapshot"
      /\ UNCHANGED <<store, created, live, gate, logs, toServer>>
  BY <1>1, Zenon DEF AnswerResumeWithState
<1>3. /\ r.session \in Sessions /\ BatchOK(r.batch, r.session)
      /\ r.states \in Seq(StateObjects)
  BY <1>1, <1>2, Zenon DEF SyncInv, ReaderInv, ReaderOK, Steps
<1>4. PICK objects : objects = Accumulate(r.states).objects
  BY Zenon
<1>5. PICK f : f = SnapshotFrame(r.session, NoSession, objects)
  BY Zenon
<1>6. BatchOK(Append(r.batch, f), r.session)
  <2>1. f.type = "STATE_SNAPSHOT" /\ f.objects = objects
    BY <1>5, Zenon DEF SnapshotFrame
  <2>2. objects \in Seq(StateObjects)
    BY <1>3, <1>4, Zenon DEF DataTyped
  <2>3. GoodFrame(f)
    BY <2>1, <2>2, Zenon DEF GoodFrame, FrameOK
  <2>4. Sequence(Append(r.batch, f))
        /\ Range(Append(r.batch, f)) = Range(r.batch) \cup {f}
    BY <1>3, SeqAppend, Zenon DEF BatchOK
  <2> QED
    BY <1>3, <2>1, <2>3, <2>4, Zenon DEF BatchOK
<1>7. ASSUME NEW o, o = Outcome(Append(r.batch, f),
                                Result("ready", r.session)), LeaveLane(g, o)
      PROVE  SyncProgress
  <2>1. o.frames = Append(r.batch, f) /\ o.result = Result("ready", r.session)
    BY <1>7, Zenon DEF Outcome
  <2>2. OutcomeOK(o, r.session)
    BY <1>3, <1>6, <2>1 DEF OutcomeOK, Result, Results
  <2> QED
    BY <1>1, <1>2, <1>7, <2>2, LeaveStep
<1>8. ASSUME NEW o, o = ErrorOutcome(r.session, "STATE_UNAVAILABLE", "close"),
             LeaveLane(g, o)
      PROVE  SyncProgress
  <2>1. OutcomeOK(o, r.session)
    BY <1>8, ErrorOutcomeOK, Zenon
  <2> QED
    BY <1>1, <1>2, <1>8, <2>1, LeaveStep
<1> QED
  BY <1>1, <1>4, <1>5, <1>7, <1>8, Zenon
     DEF AnswerResumeWithState, ResumeBatch

\* The ERROR that answers a query may be sent.
LEMMA QueryErrorOK ==
    ASSUME NEW s, NEW r, NEW code, NEW kind \in {"none", "close", "abandon"}
    PROVE  OutcomeOK(QueryError(r, code, kind), s)
<1>1. PICK f : f = [ErrorFrame(r.session, code) EXCEPT !.ref = r.id]
  BY Zenon
<1>2. f.type = "ERROR" /\ FrameOK(f)
  BY <1>1, Zenon DEF ErrorFrame, FrameOK
<1>3. QueryError(r, code, kind).frames = <<f>>
  BY <1>1, Zenon DEF QueryError, Outcome
<1>4. QueryError(r, code, kind).result \in Results
  BY Zenon DEF QueryError, Outcome, Result, Results
<1> QED
  BY <1>2, <1>3, <1>4, SingleBatch, Zenon DEF OutcomeOK

\* handleStateQuery up to its runStream.
LEMMA ReceiveQueryStep ==
    ASSUME SyncInv, NEW g \in Generations, ReceiveQuery(g)
    PROVE  SyncProgress
<1>1. PICK f : f = Head(toServer[g])
  BY Zenon
<1>2. PICK r : r = [step |-> "query", session |-> f.session, id |-> f.id,
                    ids |-> f.ids, exists |-> f.session \in live]
  BY Zenon
<1>3. /\ UNCHANGED clientVars
      /\ UNCHANGED <<store, created, live, gate, lane, open, logs, toClient>>
      /\ toServer[g] # <<>> /\ toServer' = [toServer EXCEPT ![g] = Tail(@)]
      /\ f.type = "STATE_QUERY" /\ reader' = [reader EXCEPT ![g] = r]
  BY <1>1, <1>2, Zenon DEF ReceiveQuery
<1>4. /\ RequestInv' /\ LaneKept(g)
      /\ f.session \in Sessions /\ f.ids \subseteq Identities
  BY <1>1, <1>3, ReceiveKeeps, QuietLane, Zenon DEF SyncInv, RequestOK
<1>5. r.step = "query" /\ r.session = f.session /\ r.ids = f.ids
  BY <1>2, Zenon
<1>6. ReaderOK(r, g)'
  BY <1>4, <1>5, Zenon DEF ReaderOK, Steps
<1>7. published' = published
  BY <1>3, Zenon DEF logs
<1>8. ReaderInv' /\ StoreInv' /\ FrameInv' /\ EnqueuesLatest
  BY <1>3, <1>4, <1>6, <1>7, ReaderKeeps, QuietStore, NothingEnqueued, Zenon
     DEF SyncInv, LaneKept
<1>9. ServerInv'
  BY <1>3, <1>4, Zenon DEF SyncInv, ServerInv, LaneKept
<1> QED
  BY <1>3, <1>4, <1>8, <1>9, ServerStep, Zenon

\* The lane admits the query, or the query is refused.
LEMMA EnterQueryStep ==
    ASSUME SyncInv, NEW g \in Generations, EnterQuery(g)
    PROVE  SyncProgress
<1>1. PICK r : r = reader[g]
  BY Zenon
<1>2. /\ UNCHANGED clientVars /\ r.step = "query" /\ lane[r.session] = 0
      /\ UNCHANGED <<store, created, live, gate, logs, toServer>>
  BY <1>1, Zenon DEF EnterQuery
<1>3. r.session \in Sessions /\ r.ids \subseteq Identities
  BY <1>1, <1>2, Zenon DEF SyncInv, ReaderInv, ReaderOK, Steps
<1>4. /\ gate' \in [Generations -> Gates] /\ RequestInv'
      /\ live' \subseteq created' /\ created' \subseteq Sessions
  BY <1>2, QuietRequests, Zenon DEF SyncInv, ServerInv
<1>5. ASSUME NEW code, NEW kind \in {"none", "close", "abandon"},
             Finish(g, QueryError(r, code, kind)), lane' = lane
      PROVE  SyncProgress
  <2>1. PICK o : o = QueryError(r, code, kind)
    BY Zenon
  <2>2. OutcomeOK(o, r.session) /\ Finish(g, o) /\ LaneKept(g)
    BY <1>5, <2>1, QueryErrorOK, QuietLane, Zenon DEF SyncInv
  <2> QED
    BY <1>2, <1>4, <2>2, ReaderAnswers, Zenon
<1>6. ASSUME NEW q,
             q = [step |-> "get", session |-> r.session, id |-> r.id,
                  todo |-> r.ids, acc |-> NewAccumulator],
             reader' = [reader EXCEPT ![g] = q],
             lane' = [lane EXCEPT ![r.session] = g],
             UNCHANGED <<open, toClient>>
      PROVE  SyncProgress
  <2>1. LaneKept(g) /\ lane'[r.session] = g
    BY <1>2, <1>3, <1>6, MovedLane, Zenon DEF SyncInv
  <2>2. /\ q.step = "get" /\ q.session = r.session /\ q.todo = r.ids
        /\ q.acc \in Snapshots
    BY <1>6, NewAccumulatorType, Zenon
  <2>3. ReaderOK(q, g)'
    BY <1>3, <2>1, <2>2, Zenon DEF ReaderOK, Steps
  <2> QED
    BY <1>2, <1>4, <1>6, <2>1, <2>3, ReaderMoves, Zenon
<1>7. CASE lane' = lane
  <2>1. \E code : \E kind \in {"none", "close", "abandon"} :
           Finish(g, QueryError(r, code, kind))
    <3>1. CASE r.exists /\ SessionStateSync /\ HasStateStore
      <4>1. 0 \notin Generations
        BY ClientAssumption DEF Generations
      <4>2. lane' = [lane EXCEPT ![r.session] = g]
        BY <1>1, <3>1, Zenon DEF EnterQuery
      <4> QED
        BY <1>2, <1>3, <1>7, <4>1, <4>2, Zenon DEF SyncInv, ServerInv
    <3>2. CASE ~r.exists
      BY <1>1, <3>2, Zenon DEF EnterQuery
    <3>3. CASE r.exists /\ ~SessionStateSync
      BY <1>1, <3>3, Zenon DEF EnterQuery
    <3>4. CASE r.exists /\ SessionStateSync /\ ~HasStateStore
      BY <1>1, <3>4, Zenon DEF EnterQuery
    <3> QED
      BY <3>1, <3>2, <3>3, <3>4, Zenon
  <2> QED
    BY <1>5, <1>7, <2>1, Zenon
<1>8. \/ lane' = lane
      \/ /\ reader' = [reader EXCEPT
                ![g] = [step |-> "get", session |-> r.session, id |-> r.id,
                        todo |-> r.ids, acc |-> NewAccumulator]]
         /\ lane' = [lane EXCEPT ![r.session] = g]
         /\ UNCHANGED <<open, toClient>>
  BY <1>1, Zenon DEF EnterQuery
<1> QED
  BY <1>6, <1>7, <1>8, Zenon

\* What StateStore.Get returns.
LEMMA GetType ==
    ASSUME CommitInv, NEW i \in Identities, commits[i] # <<>>
    PROVE  Get(i) \in StateObjects
<1>1. PICK q \in Seq(Data) : q = commits[i]
  BY Zenon DEF CommitInv
<1>2. Len(q) \in 1..MaxVersion /\ Len(q) \in Nat
  BY <1>1 DEF CommitInv
<1>3. Len(q) \in 1..Len(q)
  BY <1>2
<1>4. Last(q) \in Data
  BY <1>3 DEF Last
<1> QED
  BY <1>1, <1>2, <1>4, Zenon DEF Get, StateObjects, Values

\* One turn of the loop over the object IDs.
LEMMA GetObjectStep ==
    ASSUME SyncInv, NEW g \in Generations, GetObject(g)
    PROVE  SyncProgress
<1>1. PICK r, i : r = reader[g] /\ i = CHOOSE j \in r.todo : TRUE
  BY Zenon
<1>2. PICK acc : acc = IF commits[i] = <<>> THEN r.acc
                       ELSE AddObject(r.acc, Get(i))
  BY Zenon
<1>3. /\ UNCHANGED clientVars /\ r.step = "get" /\ r.todo # {}
      /\ UNCHANGED <<store, created, live, gate, logs, toServer>>
  BY <1>1, Zenon DEF GetObject
<1>4. /\ r.session \in Sessions /\ lane[r.session] = g
      /\ r.todo \subseteq Identities /\ r.acc \in Snapshots
  BY <1>1, <1>3, Zenon DEF SyncInv, ReaderInv, ReaderOK, Steps
<1>5. i \in r.todo
  BY <1>1, <1>3, Zenon
<1>6. acc \in Snapshots
  BY <1>2, <1>4, <1>5, GetType, AddObjectType, Zenon DEF SyncInv
<1>7. CASE LeaveLane(g, QueryError(r, "BAD_REQUEST", "none"))
  <2>1. PICK o : o = QueryError(r, "BAD_REQUEST", "none")
    BY Zenon
  <2>2. OutcomeOK(o, r.session) /\ LeaveLane(g, o)
    BY <1>7, <2>1, QueryErrorOK, Zenon
  <2>3. /\ reader[g].step \in {"replay", "snapshot", "get"}
        /\ OutcomeOK(o, reader[g].session)
    BY <1>1, <1>3, <2>2
  <2> QED
    BY <1>3, <2>2, <2>3, LeaveStep
<1>8. CASE /\ reader' = [reader EXCEPT ![g].todo = @ \ {i}, ![g].acc = acc]
           /\ UNCHANGED <<lane, open, toClient>>
  <2>1. PICK q : q = [r EXCEPT !.todo = @ \ {i}, !.acc = acc]
    BY Zenon
  <2>2. reader' = [reader EXCEPT ![g] = q]
    BY <1>1, <1>8, <2>1, Zenon DEF SyncInv, ReaderInv
  <2>3. /\ q.step = "get" /\ q.session = r.session
        /\ q.todo \subseteq Identities /\ q.acc = acc
    BY <1>3, <1>4, <2>1
  <2>4. ReaderOK(q, g)'
    BY <1>4, <1>6, <1>8, <2>3, Zenon DEF ReaderOK, Steps
  <2>5. LaneKept(g) /\ gate' \in [Generations -> Gates]
    BY <1>3, <1>8, QuietLane, Zenon DEF SyncInv, ServerInv
  <2> QED
    BY <1>3, <1>8, <2>2, <2>4, <2>5, ReaderMoves, Zenon
<1> QED
  BY <1>1, <1>2, <1>7, <1>8, Zenon DEF GetObject

\* A failure of StateStore.Get.
LEMMA GetFailsStep ==
    ASSUME SyncInv, NEW g \in Generations, GetFails(g)
    PROVE  SyncProgress
<1>1. PICK r, s : r = HandlerFailed /\ s = reader[g].session
  BY Zenon
<1>2. r.step = "apply" /\ r.result \in Results /\ r.err \in BOOLEAN
  BY <1>1, Zenon DEF HandlerFailed, Result, Results
<1>3. /\ UNCHANGED clientVars /\ reader' = [reader EXCEPT ![g] = r]
      /\ UNCHANGED <<store, created, live, open, logs, toServer, toClient>>
      /\ gate' \in [Generations -> Gates] /\ reader[g].step = "get"
      /\ lane' = [lane EXCEPT ![s] = 0]
  BY <1>1, Zenon DEF GetFails, SyncInv, ServerInv
<1>4. s \in Sessions /\ lane[s] = g
  BY <1>1, <1>3, Zenon DEF SyncInv, ReaderInv, ReaderOK, Steps
<1>5. LaneKept(g)
  BY <1>3, <1>4, MovedLane, Zenon DEF SyncInv
<1>6. ReaderOK(r, g)'
  BY <1>2, FreeReader
<1> QED
  BY <1>3, <1>5, <1>6, ReaderMoves, Zenon

\* The snapshot that answers a query.
LEMMA AnswerQueryStep ==
    ASSUME SyncInv, NEW g \in Generations, AnswerQuery(g)
    PROVE  SyncProgress
<1>1. PICK r : r = reader[g]
  BY Zenon
<1>2. PICK f : f = SnapshotFrame(r.session, r.id, r.acc.objects)
  BY Zenon
<1>3. PICK o : o = Outcome(<<f>>, Result("none", NoSession))
  BY Zenon
<1>4. /\ UNCHANGED clientVars /\ r.step = "get" /\ LeaveLane(g, o)
      /\ UNCHANGED <<store, created, live, gate, logs, toServer>>
  BY <1>1, <1>2, <1>3, Zenon DEF AnswerQuery
<1>5. r.acc \in Snapshots
  BY <1>1, <1>4, Zenon DEF SyncInv, ReaderInv, ReaderOK
<1>6. f.type = "STATE_SNAPSHOT" /\ FrameOK(f)
  BY <1>2, <1>5, Zenon DEF SnapshotFrame, FrameOK, Snapshots
<1>7. o.frames = <<f>> /\ o.result \in Results
  BY <1>3, Zenon DEF Outcome, Result, Results
<1>8. OutcomeOK(o, r.session)
  BY <1>6, <1>7, SingleBatch, Zenon DEF OutcomeOK
<1>9. /\ reader[g].step \in {"replay", "snapshot", "get"}
      /\ OutcomeOK(o, reader[g].session)
  BY <1>1, <1>4, <1>8
<1> QED
  BY <1>4, <1>9, LeaveStep

\* The readers stay where they are.
LEMMA QuietReaders ==
    ASSUME ReaderInv, UNCHANGED <<reader, lane, published>>
    PROVE  ReaderInv'
  BY DEF ReaderInv, ReaderOK, BatchOK, GoodFrame

\* The loss of requests in transit.
LEMMA LoseRequestsStep ==
    ASSUME SyncInv, NEW g \in Generations, LoseRequests(g)
    PROVE  SyncProgress
<1>1. /\ UNCHANGED clientVars /\ toClient' = toClient
      /\ UNCHANGED <<store, created, live, gate, reader, lane, open,
                     published, commits>>
      /\ toServer' = [toServer EXCEPT ![g] = <<>>]
  BY Zenon DEF LoseRequests, serverVars, logs
<1>2. RequestInv'
  <2>1. /\ DOMAIN toServer' = Generations
        /\ \A h \in Generations : toServer'[h] \in {<<>>, toServer[h]}
    BY <1>1, Zenon DEF SyncInv, RequestInv
  <2> QED
    BY <2>1, SeqSmall, Zenon DEF SyncInv, RequestInv, RequestOK
<1>3. StoreInv' /\ ReaderInv' /\ FrameInv' /\ EnqueuesLatest /\ ServerInv'
  BY <1>1, QuietStore, QuietReaders, NothingEnqueued, Zenon DEF SyncInv,
     ServerInv
<1> QED
  BY <1>1, <1>2, <1>3, ServerStep, Zenon DEF logs

\* Fewer queues are open, fewer Sessions alive, or nothing happens at all.
LEMMA ShrinkStep ==
    ASSUME SyncInv, UNCHANGED clientVars,
           UNCHANGED <<store, created, gate, reader, lane, logs, toServer,
                       toClient>>,
           open' \subseteq open, live' \subseteq live
    PROVE  SyncProgress
<1>1. published' = published /\ UNCHANGED logs
  BY Zenon DEF logs
<1>2. StoreInv' /\ ReaderInv' /\ FrameInv' /\ EnqueuesLatest /\ RequestInv'
  BY <1>1, QuietStore, QuietReaders, NothingEnqueued, QuietRequests, Zenon
     DEF SyncInv
<1>3. ServerInv'
  BY Zenon DEF SyncInv, ServerInv
<1> QED
  BY <1>1, <1>2, <1>3, ServerStep, Zenon

\* PruneBefore.
LEMMA PruneStep ==
    ASSUME SyncInv, NEW s \in Sessions, NEW point \in PrunePoints,
           PruneBefore(s, point)
    PROVE  SyncProgress
<1>1. /\ UNCHANGED clientVars /\ Store!PruneBefore(s, point)
      /\ UNCHANGED <<created, live, gate, reader, lane, open, logs, toServer,
                     toClient>>
      /\ published' = published
  BY Zenon DEF PruneBefore, logs
<1>2. PICK log : log = store[s]
  BY Zenon
<1>3. PICK first : first = IF log.current # MaxSeq /\ point > log.current + 1
                           THEN log.current + 1 ELSE point
  BY Zenon
<1>4. PICK next :
         next = [log EXCEPT
                    !.events = SubSeq(@, Store!Pruned(@, first) + 1, Len(@)),
                    !.floor = IF first > @ THEN first ELSE @]
  BY Zenon
<1>5. DOMAIN store = Sessions /\ LogOK(log, published[s])
  BY <1>2, Zenon DEF SyncInv, StoreInv
<1>6. store' = [store EXCEPT
                   ![s].events = SubSeq(@, Store!Pruned(@, first) + 1, Len(@)),
                   ![s].floor = IF first > @ THEN first ELSE @]
  BY <1>1, <1>2, <1>3, Zenon DEF Store!PruneBefore
<1>7. store' = [store EXCEPT ![s] = next]
  BY <1>2, <1>4, <1>5, <1>6, Zenon
<1>8. point \in 0..MaxSeq
  BY ServerAssumption, Zenon
<1>9. LogOK(next, published[s])
  BY <1>3, <1>4, <1>5, <1>8, LogPrune, Zenon
<1>10. StoreInv'
  BY <1>1, <1>7, <1>9, Zenon DEF SyncInv, StoreInv
<1>11. ReaderInv' /\ FrameInv' /\ EnqueuesLatest /\ RequestInv' /\ ServerInv'
  BY <1>1, QuietReaders, NothingEnqueued, QuietRequests, Zenon DEF SyncInv,
     ServerInv
<1> QED
  BY <1>1, <1>10, <1>11, ServerStep, Zenon

\* EVENT e is published to Session s.
Grows(s, e) ==
    /\ e \in Events /\ e.seq = Len(published[s]) + 1
    /\ \A n \in 1..Len(published[s]) : published[s][n].id # e.id
    /\ published' = [published EXCEPT ![s] = Append(@, e)]

\* PublishEvent.
LEMMA PublishStep ==
    ASSUME SyncInv, NEW s \in Sessions, NEW id \in EventIDs, NEW g,
           PublishEvent(s, id, g)
    PROVE  SyncProgress
\* Append gives the EVENT the next sequence of the Session and keeps the log.
<1>1. /\ StoreInv'
      /\ \E e : /\ Grows(s, e) /\ Enqueue(g, <<EventFrame(s, e)>>)
                /\ e = [seq |-> Len(published[s]) + 1, id |-> id]
  <2>2. PICK log, all : log = store[s] /\ all = published[s]
    BY Zenon
  <2>3. /\ LogOK(log, all) /\ DOMAIN store = Sessions
        /\ DOMAIN published = Sessions
    BY <2>2, Zenon DEF SyncInv, StoreInv
  <2>4. PICK e : e = [seq |-> log.current + 1, id |-> id]
    BY Zenon
  <2>5. PICK next : next = [log EXCEPT !.events = Append(@, e),
                                       !.current = log.current + 1,
                                       !.ids = @ \cup {id}]
    BY Zenon
  <2>6. id \notin log.ids /\ log.current # MaxSeq
        /\ store' = [store EXCEPT ![s] = next]
    BY <2>2, <2>3, <2>4, <2>5, Zenon
       DEF PublishEvent, Store!AppendEvent, Store!NextSeq
  <2>7. PICK more : more = Append(all, e)
    BY Zenon
  <2>8. /\ LogOK(next, more) /\ Last(next.events) = e
        /\ e \in Events /\ e.seq = Len(all) + 1 /\ e.id = id
    <3>1. /\ log.current \in 0..MaxSeq /\ log.current = Len(all) /\ log \in Logs
          /\ log.events \in Seq(Events) /\ log.ids \subseteq EventIDs
      BY <2>3, Zenon DEF LogOK, Logs
    <3>2. log.current + 1 \in 1..MaxSeq
      BY <2>6, <3>1, ClientAssumption
    <3>3. e \in Events /\ e.seq = Len(all) + 1 /\ e.id = id
      BY <2>4, <3>1, <3>2, Zenon DEF Events
    <3>4. PICK events, ids : events = Append(log.events, e)
                             /\ ids = log.ids \cup {id}
      BY Zenon
    <3>5. /\ Extends(events, log.events, e) /\ Extends(more, all, e)
          /\ ids \subseteq EventIDs
      BY <2>3, <2>7, <3>1, <3>3, <3>4 DEF Extends, LogOK
    <3>6. next = [log EXCEPT !.events = events, !.current = log.current + 1,
                             !.ids = ids]
      BY <2>5, <3>4, Zenon
    <3>7. events \in Seq(Events) /\ log.current + 1 \in 0..MaxSeq
      BY <3>2, <3>5 DEF Extends
    <3>8. /\ next \in Logs /\ next.events = events /\ next.floor = log.floor
          /\ next.current = log.current + 1 /\ next.ids = ids
      BY <3>1, <3>5, <3>6, <3>7, Zenon DEF Logs
    <3>9. /\ next.current = Len(all) + 1 /\ next.ids = log.ids \cup {e.id}
          /\ Extends(next.events, log.events, e)
      BY <3>1, <3>3, <3>4, <3>5, <3>8, Zenon
    <3>10. LogOK(log, all)
      BY <2>3, Zenon
    <3> QED
      BY <3>3, <3>5, <3>8, <3>9, <3>10, LogAppend, Zenon
  <2>9. store'[s] = next
    BY <2>3, <2>6, Zenon
  <2>10. /\ Enqueue(g, <<EventFrame(s, e)>>)
         /\ published' = [published EXCEPT ![s] = more]
    BY <2>2, <2>7, <2>8, <2>9, Zenon DEF PublishEvent
  <2>11. StoreInv'
    BY <2>3, <2>6, <2>8, <2>10, Zenon DEF SyncInv, StoreInv
  <2>12. Grows(s, e)
    <3>1. \A n \in 1..Len(all) : all[n].id # e.id
      BY <2>3, <2>6, <2>8, Zenon DEF LogOK
    <3> QED
      BY <2>2, <2>7, <2>8, <2>10, <3>1, Zenon DEF Grows
  <2>13. e = [seq |-> Len(all) + 1, id |-> id]
    BY <2>3, <2>4, Zenon DEF LogOK
  <2> QED
    BY <2>2, <2>10, <2>11, <2>12, <2>13, Zenon
\* The longer log begins with what it was.
<1>2. ASSUME StoreInv, NEW e, Grows(s, e)
      PROVE  /\ Len(published[s]) \in Nat
             /\ Len(published'[s]) = Len(published[s]) + 1
             /\ \A n \in 1..Len(published[s]) :
                   published'[s][n] = published[s][n]
             /\ published'[s][Len(published[s]) + 1] = e
             /\ \A t \in Sessions : t # s => published'[t] = published[t]
  <2> USE <1>2
  <2>1. PICK all : all = published[s]
    BY Zenon
  <2>2. all \in Seq(Events) /\ e \in Events
    BY <2>1, PublishedLog, Zenon DEF Grows
  <2>3. /\ published'[s] = Append(all, e)
        /\ \A t \in Sessions : t # s => published'[t] = published[t]
    BY <2>1, Zenon DEF Grows, StoreInv
  <2>4. /\ Len(all) \in Nat /\ Len(Append(all, e)) = Len(all) + 1
        /\ \A n \in 1..Len(all) : Append(all, e)[n] = all[n]
        /\ Append(all, e)[Len(all) + 1] = e
    BY <2>2
  <2> QED
    BY <2>1, <2>3, <2>4, Zenon
\* Frames in transit keep their place in the longer log.
<1>3. ASSUME StoreInv, NEW e, Grows(s, e), NEW f, GoodFrame(f)
      PROVE  GoodFrame(f)'
  <2> USE <1>3
  <2>1. CASE f.type = "EVENT" /\ f.session = s
    <3>1. /\ f.seq \in 1..Len(published[s]) /\ FrameOK(f)
          /\ published[s][f.seq].id = f.id
      BY <2>1, Zenon DEF GoodFrame
    <3>2. f.seq \in 1..Len(published'[s]) /\ published'[s][f.seq].id = f.id
      BY <3>1, <1>2
    <3> QED
      BY <2>1, <3>1, <3>2, Zenon DEF GoodFrame
  <2>2. CASE ~(f.type = "EVENT" /\ f.session = s)
    BY <2>2, <1>2, Zenon DEF GoodFrame
  <2> QED
    BY <2>1, <2>2, Zenon
\* The EVENT published is one of the longer log.
<1>4. ASSUME NEW e, Grows(s, e), Enqueue(g, <<EventFrame(s, e)>>)
      PROVE  FrameInv' /\ EnqueuesLatest
  <2> USE <1>4
  <2>1. PICK ef : ef = EventFrame(s, e)
    BY Zenon
  <2>2. /\ ef.type = "EVENT" /\ ef.session = s /\ ef.seq = e.seq /\ ef.id = e.id
        /\ e.seq \in 1..MaxSeq /\ e.id \in EventIDs
        /\ e.seq = Len(published[s]) + 1
    BY <2>1, Zenon DEF EventFrame, Grows, Events
  <2>3. GoodFrame(ef)'
    <3>1. e.seq \in 1..Len(published'[s]) /\ published'[s][e.seq] = e
      BY <2>2, <1>2 DEF SyncInv
    <3> QED
      BY <2>2, <3>1, Zenon DEF GoodFrame, FrameOK
  <2>4. PICK c, d : c = toClient /\ d = toClient'
    BY Zenon
  <2>5. Sequence(c) /\ \A f \in Range(c) : GoodFrame(f)'
    BY <2>4, <1>3, Zenon DEF SyncInv, FrameInv
  <2>6. CASE d = c
    BY <2>4, <2>5, <2>6, SeqFields DEF FrameInv, EnqueuesLatest, GoodFrame
  <2>7. CASE d = c \o <<ef>>
    <3>1. /\ Sequence(d) /\ Len(d) = Len(c) + 1
          /\ Range(d) = Range(c) \cup {ef} /\ d[Len(c) + 1] = ef
      BY <2>5, <2>7, SeqSnoc, Zenon
    <3>2. Len(c) \in Nat /\ DOMAIN d = 1..Len(d)
      BY <2>5, <3>1, SeqFields, Zenon
    <3>3. \A n \in DOMAIN d : n > Len(c) => d[n].type = "EVENT"
      BY <2>2, <3>1, <3>2
    <3>4. EnqueuesLatest
      BY <2>4, <3>3, Zenon DEF EnqueuesLatest
    <3> QED
      BY <2>3, <2>4, <2>5, <3>1, <3>4, Zenon DEF FrameInv, GoodFrame
  <2> QED
    BY <2>1, <2>4, <2>6, <2>7, Zenon DEF Enqueue
\* No reader that has fixed replay_to is in the lane of the Session.
<1>5. ASSUME NEW e, Grows(s, e), lane[s] = 0, UNCHANGED <<reader, lane>>
      PROVE  ReaderInv'
  <2> USE <1>5
  <2>1. ASSUME NEW h \in Generations, NEW r, r = reader[h]
        PROVE  ReaderOK(r, h)'
    <3>1. ReaderOK(r, h)
      BY <2>1, Zenon DEF SyncInv, ReaderInv
    <3>2. CASE r.step \in {"replay", "snapshot"}
      <4>1. r.session \in Sessions /\ r.session # s
        <5>1. r.session \in Sessions /\ lane[r.session] = h
          BY <3>1, <3>2, Zenon DEF ReaderOK, Steps
        <5>2. h # 0
          BY <2>1 DEF Generations
        <5> QED
          BY <5>1, <5>2, Zenon
      <4>2. published'[r.session] = published[r.session]
        BY <4>1, <1>2, Zenon DEF SyncInv
      <4>3. r.step = "snapshot" => BatchOK(r.batch, r.session)'
        BY <3>1, <4>2, <1>3, Zenon DEF SyncInv, ReaderOK, BatchOK
      <4> QED
        BY <3>1, <3>2, <4>1, <4>2, <4>3, Zenon DEF ReaderOK, Steps
    <3>3. CASE r.step \notin {"replay", "snapshot"}
      BY <3>1, <3>3, Zenon DEF ReaderOK
    <3> QED
      BY <3>2, <3>3, Zenon
  <2>2. ASSUME NEW h \in Generations
        PROVE  ReaderOK(reader[h], h)'
    BY <2>1, Zenon DEF ReaderOK, BatchOK, GoodFrame
  <2> QED
    BY <2>2, Zenon DEF SyncInv, ReaderInv
\* What the client has stays a piece of the longer log.
<1>6. ASSUME NEW e, Grows(s, e),
             UNCHANGED <<sessionID, delivered, lastSeq, recovery>>
      PROVE  StreamAgrees'
  <2> USE <1>6
  <2>1. CASE sessionID = s
    <3>1. PICK all, more : all = published[s] /\ more = published'[s]
      BY Zenon
    <3>2. Follows(all) /\ StreamInv /\ recovery'.buffer = recovery.buffer
      BY <2>1, <3>1, ClientAssumption, Zenon DEF SyncInv, StreamAgrees,
         ClientInv
    <3>3. /\ Len(all) \in Nat /\ Len(more) = Len(all) + 1
          /\ \A n \in 1..Len(all) : more[n] = all[n]
      BY <3>1, <1>2, Zenon DEF SyncInv
    <3>4. Follows(more)'
      BY <3>2, <3>3, QuietFollows
    <3> QED
      BY <2>1, <3>1, <3>4, Zenon DEF StreamAgrees, Follows
  <2>2. CASE sessionID # s /\ sessionID # NoSession
    <3>1. published'[sessionID] = published[sessionID]
      BY <2>2, <1>2, Zenon DEF SyncInv, ClientInv, SessionInv
    <3> QED
      BY <3>1, Zenon DEF SyncInv, StreamAgrees, Follows
  <2> QED
    BY <2>1, <2>2, Zenon DEF StreamAgrees
<1>7. /\ UNCHANGED clientVars /\ lane[s] = 0
      /\ UNCHANGED <<created, live, gate, reader, lane, open, commits,
                     toServer>>
  BY Zenon DEF PublishEvent, LaneFree
<1>8. PICK e : /\ Grows(s, e) /\ Enqueue(g, <<EventFrame(s, e)>>)
               /\ e = [seq |-> Len(published[s]) + 1, id |-> id]
  BY <1>1, Zenon
<1>9. UNCHANGED <<sessionID, delivered, lastSeq, recovery>>
  BY <1>7, Zenon DEF clientVars, sessionVars, transientVars
<1>10. StoreInv' /\ StreamAgrees' /\ ReaderInv' /\ FrameInv' /\ EnqueuesLatest
  BY <1>7, <1>8, <1>9, <1>1, <1>6, <1>5,
     <1>4, Zenon
<1>11. Stream!PublishTo(s, id)
  <2>1. DOMAIN published[s] = 1..Len(published[s]) /\ e.id = id
    BY <1>8, PublishedLog DEF SyncInv
  <2> QED
    BY <1>8, <1>9, <2>1, Zenon DEF Grows, Stream!PublishTo
<1>12. ClientInv'
  BY <1>7, ClientRests, Zenon DEF SyncInv
<1>13. RequestInv' /\ ServerInv' /\ CommitInv'
  BY <1>7, QuietRequests, Zenon DEF SyncInv, ServerInv, CommitInv
<1> QED
  BY <1>10, <1>11, <1>12, <1>13, Zenon DEF SyncInv, SyncProgress,
     Stream!StreamNext

\* PublishStateUpdate of a committed version.
LEMMA PublishUpdateStep ==
    ASSUME SyncInv, NEW s, NEW i \in Identities, NEW g,
           PublishStateUpdate(s, i, g)
    PROVE  SyncProgress
<1>1. PICK version \in 1..Len(commits[i]) :
         Enqueue(g, <<UpdateFrame(s, i, version)>>)
  BY Zenon DEF PublishStateUpdate
<1>2. PICK f : f = UpdateFrame(s, i, version)
  BY Zenon
<1>3. PICK q \in Seq(Data) : q = commits[i]
  BY Zenon DEF SyncInv, CommitInv
<1>4. q[version] \in Data /\ version \in 1..MaxVersion
  <2>1. version \in 1..Len(q)
    BY <1>3, Zenon
  <2>2. q # <<>>
    <3>1. CASE q = <<>>
      <4>1. Len(q) = 0
        BY <3>1
      <4> QED
        BY <2>1, <4>1
    <3> QED
      BY <3>1, Zenon
  <2>3. Len(q) \in 1..MaxVersion
    BY <1>3, <2>2, Zenon DEF SyncInv, CommitInv
  <2>4. q[version] \in Data
    BY <2>1
  <2>5. version \in 1..MaxVersion
    BY <2>1, <2>3, MergeAssumption
  <2> QED
    BY <2>4, <2>5, Zenon
<1>5. PICK o : o = [identity |-> i,
                    value |-> [version |-> version, data |-> q[version]]]
  BY Zenon
<1>6. o \in StateObjects /\ f.type = "STATE_UPDATE" /\ f.objects = <<o>>
  BY <1>2, <1>3, <1>4, <1>5, Zenon DEF StateObjects, Values, UpdateFrame
<1>7. f.objects \in Seq(StateObjects)
  BY <1>6
<1>8. BatchOK(<<f>>, s)
  BY <1>6, <1>7, SingleBatch, Zenon DEF FrameOK
<1>9. /\ UNCHANGED clientVars /\ toServer' = toServer
      /\ UNCHANGED <<store, created, live, gate, reader, lane, open, published,
                     commits>>
  BY Zenon DEF PublishStateUpdate, serverVars, logs
<1>10. FrameInv' /\ EnqueuesLatest
  BY <1>1, <1>2, <1>8, <1>9, EnqueueKeeps, Zenon DEF SyncInv
<1>11. StoreInv' /\ ReaderInv' /\ RequestInv' /\ ServerInv'
  BY <1>9, QuietStore, QuietReaders, QuietRequests, Zenon
     DEF SyncInv, ServerInv
<1> QED
  BY <1>9, <1>10, <1>11, ServerStep, Zenon DEF logs

\* StateStore.Apply.
LEMMA CommitStep ==
    ASSUME SyncInv, NEW i \in Identities, NEW d \in Data, CommitState(i, d)
    PROVE  SyncProgress
<1>1. /\ UNCHANGED clientVars
      /\ UNCHANGED <<store, created, live, gate, reader, lane, open, published,
                     toServer, toClient>>
      /\ commits' = [commits EXCEPT ![i] = Append(commits[i], d)]
      /\ Len(commits[i]) < MaxVersion
  BY Zenon DEF CommitState
<1>2. StoreInv' /\ ReaderInv' /\ RequestInv' /\ ServerInv'
  BY <1>1, QuietStore, QuietReaders, QuietRequests, Zenon
     DEF SyncInv, ServerInv
<1>3. FrameInv' /\ EnqueuesLatest
  BY <1>1, NothingEnqueued, Zenon DEF SyncInv
<1>4. CommitInv'
  <2>0. PICK h \in Seq(Data) : h = commits[i]
    BY Zenon DEF SyncInv, CommitInv
  <2>1. PICK q : q = Append(h, d)
    BY Zenon
  <2>2. Len(q) \in 1..MaxVersion
    <3>1. Len(q) = Len(h) + 1 /\ Len(h) \in Nat
      BY <2>1
    <3>2. Len(h) < MaxVersion
      BY <1>1, <2>0, Zenon
    <3> QED
      BY <3>1, <3>2, MergeAssumption
  <2>3. /\ commits' \in [Identities -> Seq(Data)]
        /\ \A j \in Identities : commits'[j] \in {commits[j], q}
        /\ \A j \in Identities : j # i => commits'[j] = commits[j]
    <3>1. q \in Seq(Data)
      BY <2>1
    <3> QED
      BY <1>1, <2>0, <2>1, <3>1, Zenon DEF SyncInv, CommitInv
  <2>4. {j \in Identities : commits'[j] # <<>>}
           \subseteq {j \in Identities : commits[j] # <<>>} \cup {i}
    BY <2>3, Zenon
  <2>5. IsFiniteSet({j \in Identities : commits'[j] # <<>>})
    BY <2>4, FS_AddElement, FS_Subset, Zenon DEF SyncInv, CommitInv
  <2> QED
    BY <2>2, <2>3, <2>5, Zenon DEF SyncInv, CommitInv
<1>5. ClientInv'
  BY <1>1, ClientRests, Zenon DEF SyncInv
<1>6. UNCHANGED <<sessionID, delivered, lastSeq, recovery>>
  BY <1>1, Zenon DEF clientVars, sessionVars, transientVars
<1>7. StreamAgrees' /\ UNCHANGED Stream!streamVars
  BY <1>1, <1>6, QuietAgrees, Zenon DEF SyncInv, Stream!streamVars
<1> QED
  BY <1>2, <1>3, <1>4, <1>5, <1>7, Zenon DEF SyncInv, SyncProgress

\* The provider returns State Objects.
LEMMA ProviderType ==
    ASSUME CommitInv, NEW namespaces
    PROVE  ProviderSnapshot(namespaces) \in Seq(StateObjects)
\* A finite set can be listed.
<1>1. ASSUME NEW S, IsFiniteSet(S)
      PROVE  Listed(S) \in Seq(S)
  <2> USE <1>1
  <2>1. Cardinality(S) \in Nat /\ ExistsBijection(1..Cardinality(S), S)
    BY FS_CardinalityType, FS_NatBijection, Zenon
  <2>2. PICK f \in [1..Cardinality(S) -> S] : IsInjective(f)
    BY <2>1, Zenon DEF ExistsBijection, Bijection, Injection, IsInjective
  <2>3. Listed(S) \in [1..Cardinality(S) -> S]
    BY <2>2, Zenon DEF Listed
  <2> QED
    BY <2>1, <2>3
<1> DEFINE Held(i) == [identity |-> i,
                         value |-> [version |-> Len(commits[i]),
                                    data |-> Last(commits[i])]]
           held == {i \in Identities :
                       i[1] \in namespaces /\ commits[i] # <<>>}
           objects == {Held(i) : i \in held}
<1>2. IsFiniteSet(held)
  <2>1. held \subseteq {i \in Identities : commits[i] # <<>>}
    BY Zenon
  <2> QED
    BY <2>1, FS_Subset, Zenon DEF CommitInv
<1>3. IsFiniteSet(objects)
  <2> HIDE DEF held
  <2>1. PICK f : f = [i \in held |-> Held(i)]
    BY Zenon
  <2>2. f \in Surjection(held, objects)
    BY <2>1, Zenon DEF Surjection
  <2> QED
    BY <1>2, <2>2, FS_Surjection, Zenon
<1>4. objects \subseteq StateObjects
  <2> SUFFICES ASSUME NEW i \in held
               PROVE  Held(i) \in StateObjects
    BY Zenon
  <2>1. /\ i \in Identities /\ commits[i] \in Seq(Data)
        /\ Len(commits[i]) \in 1..MaxVersion
    BY Zenon DEF CommitInv
  <2>2. PICK q : q = commits[i]
    BY Zenon
  <2>3. Last(q) \in Data
    <3>1. q \in Seq(Data) /\ Len(q) \in 1..MaxVersion /\ Len(q) \in Nat
      BY <2>1, <2>2
    <3>2. Len(q) \in 1..Len(q)
      BY <3>1
    <3> QED
      BY <3>1, <3>2 DEF Last
  <2> QED
    BY <2>1, <2>2, <2>3, Zenon DEF StateObjects, Values
<1>5. Listed(objects) \in Seq(objects)
  <2> HIDE DEF objects
  <2> QED
    BY <1>3, <1>1, Zenon
<1>6. Listed(objects) \in Seq(StateObjects)
  <2> HIDE DEF objects
  <2> QED
    BY <1>4, <1>5
<1>7. ProviderSnapshot(namespaces) = Listed(objects)
  BY Zenon DEF ProviderSnapshot
<1> QED
  BY <1>6, <1>7, Zenon

=============================================================================
