----------------------------- MODULE EventSync -----------------------------
(***************************************************************************)
(* Client and server keeping one EVENT stream in step: ClientProtocol over *)
(* its connections, and on the server one ServerAdmission gate and one     *)
(* serial reader per connection, HELLO and RESUME handling, PublishEvent,  *)
(* the Session's stream lane, MemoryReplayStore and Session expiry.        *)
(*                                                                         *)
(* A connection delivers frames in order and loses them only by ending.    *)
(* toClient is the OutboundQueue, writer and transport of the client's     *)
(* current connection: frames of an earlier one would be ignored by        *)
(* HandleIncoming.  Readers of earlier connections go on handling the      *)
(* requests they received.  A Resume may ask for State; STATE_QUERY and    *)
(* STATE_UPDATE are added by StateSync.  SEND and heartbeat frames are not *)
(* composed here.                                                          *)
(***************************************************************************)
EXTENDS ClientProtocol, StateSnapshot

CONSTANTS
    ServerMaxReplayEvents, ServerMaxReplayBytes,   \* ServerConfig
    Registry,      \* ServerConfig.Capabilities: [names -> versions]
    PrunePoints    \* arguments the retention policy gives PruneBefore

ASSUME ServerAssumption ==
    /\ ImplementedRegistry(Registry)
    /\ ServerMaxReplayEvents \in Nat /\ ServerMaxReplayBytes \in Nat
    /\ PrunePoints \subseteq 0..MaxSeq

VARIABLES
    store,       \* MemoryReplayStore
    created,     \* Sessions in the MemorySessionRepository
    live,        \* those that have not expired
    gate,        \* [generation -> state and Session of its ServerAdmission]
    reader,      \* [generation -> the request its reader is handling]
    lane,        \* [Sessions -> the generation in its stream lane, or 0]
    toServer,    \* [generation -> requests in transit]
    toClient,    \* frames queued or in transit on the current connection
    open,        \* generations whose OutboundQueue is not closed
    published,   \* history: [Sessions -> all EVENTs appended]
    commits      \* [Identities -> the data of version 1, 2, ... committed
                 \* to the Application's State]

logs == <<published, commits>>

serverVars == <<store, created, live, gate, reader, lane, open, logs>>

syncVars == <<clientVars, serverVars, toServer, toClient>>

Store == INSTANCE ReplayStore

Generations == 1..MaxGeneration

Idle == [step |-> "idle"]

Stopped == [step |-> "stopped"]

\* Where a reader's request is while it waits for the lane or holds it.
Steps == {"stream", "replay", "snapshot", "query", "get"}

Results == [kind : {"none", "close", "abandon"}, session : {NoSession}]
           \cup [kind : {"ready"}, session : Sessions]

SyncTypeOK ==
    /\ TypeOK
    /\ live \subseteq created /\ created \subseteq Sessions
    /\ gate \in [Generations ->
          [state : {"CLOSED", "AWAITING_HANDSHAKE", "READY", "RESUMING"},
           session : Sessions \cup {NoSession}]]
    /\ \A g \in Generations :
          LET r == reader[g]
          IN  /\ r.step \in {"idle", "stopped", "apply"} \cup Steps
              /\ r.step \in Steps => r.session \in Sessions
              /\ r.step = "apply" => r.result \in Results /\ r.err \in BOOLEAN
    /\ lane \in [Sessions -> 0..MaxGeneration]
    /\ open \subseteq Generations
    /\ commits \in [Identities -> Seq(Data)]

SyncInit ==
    /\ Init
    /\ Store!StoreInit
    /\ created = {} /\ live = {}
    /\ gate = [g \in Generations |->
                  [state |-> "AWAITING_HANDSHAKE", session |-> NoSession]]
    /\ reader = [g \in Generations |-> Idle]
    /\ lane = [s \in Sessions |-> 0]
    /\ toServer = [g \in Generations |-> <<>>]
    /\ toClient = <<>>
    /\ open = Generations
    /\ published = [s \in Sessions |-> <<>>]
    /\ commits = [i \in Identities |-> <<>>]

-----------------------------------------------------------------------------
(* The client and its transport.                                           *)

\* The caller transmits the frame, at most one, that a call returns.
Transmit ==
    LET requests == {a.frame : a \in {b \in actions' : b.do = "SendFrame"}}
    IN  \/ requests = {} /\ UNCHANGED toServer
        \/ \E f \in requests :
              toServer' = [toServer EXCEPT ![generation'] = Append(@, f)]

ClientConnects ==
    /\ BeginConnect
    /\ toClient' = <<>>
    /\ UNCHANGED <<toServer, serverVars>>

ClientCalls ==
    /\ \/ TransportConnected(generation)
       \/ StartSession(generation)
       \/ \E namespaces \in SUBSET Namespaces :
             Resume(generation, namespaces)
    /\ Transmit
    /\ UNCHANGED <<toClient, serverVars>>

\* Frames already read from the transport may still be handled afterwards.
ConnectionEnds ==
    /\ generation > 0
    /\ Disconnect(generation)
    /\ UNCHANGED <<toServer, toClient, serverVars>>

ClientReceives ==
    /\ toClient # <<>>
    /\ toClient' = Tail(toClient)
    /\ UNCHANGED serverVars
    /\ HandleIncoming(generation, Head(toClient))
    /\ Transmit

\* The client no longer uses connection g.
Left(g) == g < generation \/ (g = generation /\ state = "DISCONNECTED")

LoseRequests(g) ==
    /\ Left(g)
    /\ toServer[g] # <<>>
    /\ toServer' = [toServer EXCEPT ![g] = <<>>]
    /\ UNCHANGED <<clientVars, serverVars, toClient>>

\* The server notices the loss and closes the connection's OutboundQueue.
CloseOutbound(g) ==
    /\ Left(g)
    /\ g \in open
    /\ open' = open \ {g}
    /\ UNCHANGED <<clientVars, store, created, live, gate, reader, lane,
                   logs, toServer, toClient>>

-----------------------------------------------------------------------------
(* What a request's handler returns and enqueues.                          *)

Result(kind, s) == [kind |-> kind, session |-> s]

Outcome(frames, result) == [frames |-> frames, result |-> result]

ErrorFrame(s, code) ==
    [type |-> "ERROR", session |-> s, code |-> code, ref |-> NoSession]

\* Mutant: the result of an error still names the Session.
MutErrorOutcome(s, code, kind) ==
    Outcome(<<ErrorFrame(s, code)>>, Result(kind, s))

\* Mutant: the handler returns without the ERROR.
MutSilentError(s, code, kind) == Outcome(<<>>, Result(kind, NoSession))

\* errorFrameAt and the serverHandleResult that goes with the code.
ErrorOutcome(s, code, kind) ==
    Outcome(<<ErrorFrame(s, code)>>, Result(kind, NoSession))

NewWelcome(s, accepted) ==
    [type |-> "WELCOME", mode |-> "NEW", session |-> s, accepted |-> accepted]

ResumedWelcome(r) ==
    [type |-> "WELCOME", mode |-> "RESUMED", session |-> r.session,
     resumeFrom |-> r.lastSeq + 1, replayTo |-> r.replayTo,
     namespaces |-> r.namespaces]

EventFrame(s, e) ==
    [type |-> "EVENT", session |-> s, seq |-> e.seq, id |-> e.id]

SnapshotFrame(s, id, objects) ==
    [type |-> "STATE_SNAPSHOT", session |-> s, id |-> id,
     objects |-> objects]

\* EnqueueBatch succeeds on an open queue; only the current one is of use.
Enqueue(g, frames) ==
    toClient' = IF g = generation /\ g \in open
                THEN toClient \o frames ELSE toClient

\* The reader goes on to applyResult.  On a closed queue the enqueue fails,
\* its error is returned and readySessionID is not set.
Finish(g, outcome) ==
    LET failed == g \notin open
        result == IF failed /\ outcome.result.kind = "ready"
                  THEN Result("none", NoSession) ELSE outcome.result
        closes == \E n \in DOMAIN outcome.frames :
                     /\ outcome.frames[n].type = "ERROR"
                     /\ ClosesConnection(outcome.frames[n].code)
    IN  /\ Enqueue(g, outcome.frames)
        /\ open' = IF closes THEN open \ {g} ELSE open
        /\ reader' = [reader EXCEPT
               ![g] = [step |-> "apply", result |-> result, err |-> failed]]

\* Mutant: Handle returns nil although the request was not answered.
MutHandlerFailed ==
    [step |-> "apply", result |-> Result("none", NoSession), err |-> FALSE]

\* The handler returns the error of a store and has enqueued nothing.
HandlerFailed ==
    [step |-> "apply", result |-> Result("none", NoSession), err |-> TRUE]

-----------------------------------------------------------------------------
(* The server's reader of connection g.                                    *)

\* The allowed frames of ServerAdmission.Handle, for a client's HELLO, RESUME
\* and STATE_QUERY and one frame at a time.
Admits(g, f) ==
    \/ /\ gate[g].state = "AWAITING_HANDSHAKE"
       /\ f.type \in {"HELLO", "RESUME"}
    \/ /\ gate[g].state = "READY"
       /\ f.type \in {"RESUME", "STATE_QUERY"}
       /\ f.session = gate[g].session

\* handleHello; s is what NewSessionID generates.
HelloOutcome(s, negotiated) ==
    CASE negotiated.error # "none" ->
             ErrorOutcome(NoSession, negotiated.error,
                          IF ClosesConnection(negotiated.error)
                          THEN "close" ELSE "none")
      [] negotiated.error = "none" /\ s \in created ->
             ErrorOutcome(NoSession, "INTERNAL", "none")
      [] OTHER ->
             Outcome(<<NewWelcome(s, negotiated.accepted)>>,
                     Result("ready", s))

ReceiveHello(g, s) ==
    LET f       == Head(toServer[g])
        outcome == HelloOutcome(s, Negotiate(Registry, f.offers))
        new     == IF outcome.result.kind = "ready" THEN {s} ELSE {}
    IN  /\ reader[g] = Idle /\ toServer[g] # <<>>
        /\ f.type = "HELLO"
        /\ Admits(g, f)
        /\ created' = created \cup new
        /\ live' = live \cup new
        /\ Finish(g, outcome)
        /\ toServer' = [toServer EXCEPT ![g] = Tail(@)]
        /\ UNCHANGED <<clientVars, store, gate, lane, logs>>

\* handleResume, up to its runStream.  The client asks for State only when
\* the Session negotiated it, and the provider or a frame ID may be missing.
ReceiveResume(g) ==
    LET f == Head(toServer[g])
    IN  /\ reader[g] = Idle /\ toServer[g] # <<>>
        /\ f.type = "RESUME"
        /\ Admits(g, f)
        /\ gate' = [gate EXCEPT
               ![g].state = IF @ = "READY" THEN "RESUMING" ELSE @]
        /\ \/ /\ f.session \notin live
              /\ Finish(g, ErrorOutcome(f.session, "INVALID_SESSION",
                                        "abandon"))
           \/ /\ f.session \in live
              /\ f.namespaces # {}
              /\ Finish(g, ErrorOutcome(f.session, "STATE_UNAVAILABLE",
                                        "close"))
           \/ /\ f.session \in live
              /\ reader' = [reader EXCEPT
                     ![g] = [step |-> "stream", session |-> f.session,
                             lastSeq |-> f.lastSeq,
                             namespaces |-> f.namespaces]]
              /\ UNCHANGED <<open, toClient>>
        /\ toServer' = [toServer EXCEPT ![g] = Tail(@)]
        /\ UNCHANGED <<clientVars, store, created, live, lane, logs>>

\* The lane admits the request and CurrentSeq fixes replay_to.
EnterLane(g) ==
    LET r == reader[g]
    IN  /\ r.step = "stream"
        /\ lane[r.session] = 0
        /\ lane' = [lane EXCEPT ![r.session] = g]
        /\ reader' = [reader EXCEPT
               ![g] = [step |-> "replay", session |-> r.session,
                       lastSeq |-> r.lastSeq, namespaces |-> r.namespaces,
                       replayTo |-> Store!CurrentSeq(r.session)]]
        /\ UNCHANGED <<clientVars, store, created, live, gate, open,
                       logs, toServer, toClient>>

Contiguous(events, last) ==
    \A n \in DOMAIN events : events[n].seq = last + n

\* handleResume from CurrentSeq to the end of the replay.
ResumeOutcome(r) ==
    LET s      == r.session
        replay == Store!Replay(s, r.lastSeq, r.replayTo,
                               ServerMaxReplayEvents, ServerMaxReplayBytes)
        frames == [n \in 1..Len(replay.events) |->
                      EventFrame(s, replay.events[n])]
    IN  CASE r.lastSeq > r.replayTo ->
                 ErrorOutcome(s, "PROTOCOL_VIOLATION", "close")
          [] \/ r.lastSeq = MaxSeq
             \/ r.replayTo - r.lastSeq > ServerMaxReplayEvents
             \/ replay.error # "none" ->
                 ErrorOutcome(s, "SYNC_REQUIRED", "none")
          [] \/ ~Contiguous(replay.events, r.lastSeq)
             \/ r.lastSeq + Len(replay.events) # r.replayTo ->
                 ErrorOutcome(s, "INTERNAL", "close")
          [] OTHER ->
                 Outcome(<<ResumedWelcome(r)>> \o frames,
                         Result("ready", s))

\* The handler leaves the lane with its outcome.
LeaveLane(g, outcome) ==
    /\ Finish(g, outcome)
    /\ lane' = [lane EXCEPT ![reader[g].session] = 0]

\* The members of a finite set as a list, in some order.
Listed(S) == CHOOSE list \in [1..Cardinality(S) -> S] : IsInjective(list)

\* What the provider returns: all objects of the namespaces, at one instant.
ProviderSnapshot(namespaces) ==
    LET held == {i \in Identities : i[1] \in namespaces /\ commits[i] # <<>>}
    IN  Listed({[identity |-> i,
                 value |-> [version |-> Len(commits[i]),
                            data |-> Last(commits[i])]] : i \in held})

AnswerResume(g) ==
    LET r       == reader[g]
        outcome == ResumeOutcome(r)
        asks    == outcome.result.kind = "ready" /\ r.namespaces # {}
    IN  /\ r.step = "replay"
        /\ \/ ~asks /\ LeaveLane(g, outcome)
           \/ /\ asks
              /\ reader' = [reader EXCEPT
                     ![g] = [step |-> "snapshot", session |-> r.session,
                             batch |-> outcome.frames,
                             states |-> ProviderSnapshot(r.namespaces)]]
              /\ UNCHANGED <<lane, open, toClient>>
        /\ UNCHANGED <<clientVars, store, created, live, gate, logs, toServer>>

\* Mutant: the snapshot comes first.
MutResumeBatch(batch, snapshot) == <<snapshot>> \o batch

\* The snapshot ends the batch of WELCOME and replay.
ResumeBatch(batch, snapshot) == Append(batch, snapshot)

\* buildResumeStateSnapshot once the provider has returned, and the batch;
\* the provider may also have failed.
AnswerResumeWithState(g) ==
    LET r        == reader[g]
        acc      == Accumulate(r.states)
        snapshot == SnapshotFrame(r.session, NoSession, acc.objects)
    IN  /\ r.step = "snapshot"
        /\ \/ /\ ~acc.full
              /\ LeaveLane(g, Outcome(ResumeBatch(r.batch, snapshot),
                                      Result("ready", r.session)))
           \/ LeaveLane(g, ErrorOutcome(r.session, "STATE_UNAVAILABLE",
                                        "close"))
        /\ UNCHANGED <<clientVars, store, created, live, gate, logs, toServer>>

\* Mutant: a successful RESUME or HELLO leaves the gate RESUMING.
MutApplied(old, result) ==
    IF result.kind = "ready"
    THEN [state |-> "RESUMING", session |-> result.session] ELSE old

\* The gate after applyResult.
Applied(old, result) ==
    CASE result.kind = "close" ->
             [old EXCEPT !.state = "CLOSED"]
      [] result.kind = "abandon" ->
             [state |-> "AWAITING_HANDSHAKE", session |-> NoSession]
      [] result.kind = "ready" ->
             [state |-> "READY", session |-> result.session]
      [] result.kind = "none" /\ old.state = "RESUMING" ->
             [old EXCEPT !.state = "CLOSED"]
      [] OTHER -> old

\* The frame a reader waiting for the lane was handed.
Request(r) ==
    IF r.step = "stream"
    THEN [type |-> "RESUME", session |-> r.session, lastSeq |-> r.lastSeq,
          namespaces |-> r.namespaces]
    ELSE [type |-> "STATE_QUERY", session |-> r.session, id |-> r.id,
          ids |-> r.ids]

\* ErrStreamCallbackActive, and the applyResult that follows it.  A callback of
\* the Session may be active at any time: that of a request on any of its
\* connections, or of a publication, found or not.  Nothing is enqueued.  The
\* caller lets the connection end, or hands the frame to Handle again; a gate
\* that was RESUMING is now CLOSED and refuses it.
RefuseLane(g) ==
    LET r == reader[g]
    IN  /\ r.step \in {"stream", "query"}
        /\ gate' = [gate EXCEPT
               ![g] = Applied(@, Result("none", NoSession))]
        /\ \/ /\ reader' = [reader EXCEPT ![g] = Stopped]
              /\ UNCHANGED toServer
           \/ /\ gate'[g].state # "CLOSED"
              /\ reader' = [reader EXCEPT ![g] = Idle]
              /\ toServer' = [toServer EXCEPT ![g] = <<Request(r)>> \o @]
        /\ UNCHANGED <<clientVars, store, created, live, lane, open, logs,
                       toClient>>

\* The caller goes on with the next frame unless Handle returned an error: it
\* then stops reading, and lets the connection end.
ApplyResult(g) ==
    /\ reader[g].step = "apply"
    /\ gate' = [gate EXCEPT ![g] = Applied(@, reader[g].result)]
    /\ reader' = [reader EXCEPT
           ![g] = IF reader[g].err THEN Stopped ELSE Idle]
    /\ UNCHANGED <<clientVars, store, created, live, lane, open, logs,
                   toServer, toClient>>

-----------------------------------------------------------------------------
(* The Application of the server, retention and expiry.                    *)

\* Mutant: publication is not serialised with a Resume in the lane.
MutLaneFree(s) == TRUE

LaneFree(s) == lane[s] = 0

\* PublishEvent to the queue of any connection that made the Session READY,
\* a stale one included; a closed queue refuses after the Append.  In the lane
\* from its first callback to the enqueue: what arrives meanwhile is refused,
\* as RefuseLane always may, or waits until it is done.  Lookup uses a clock
\* sample from before the lane, so the Session may have expired since.
PublishEvent(s, id, g) ==
    /\ LaneFree(s)
    /\ s \in created
    /\ gate[g].session = s
    /\ Store!AppendEvent(s, id)
    /\ LET event == Last(store'[s].events)
       IN  /\ Enqueue(g, <<EventFrame(s, event)>>)
           /\ published' = [published EXCEPT ![s] = Append(@, event)]
    /\ UNCHANGED <<clientVars, created, live, gate, reader, lane, open,
                   commits, toServer>>

PruneBefore(s, first) ==
    /\ Store!PruneBefore(s, first)
    /\ UNCHANGED <<clientVars, created, live, gate, reader, lane, open,
                   logs, toServer, toClient>>

\* now is no longer before ExpiresAt.
Expire(s) ==
    /\ s \in live
    /\ live' = live \ {s}
    /\ UNCHANGED <<clientVars, store, created, gate, reader, lane, open,
                   logs, toServer, toClient>>

-----------------------------------------------------------------------------

Reader(g) ==
    \/ \E s \in Sessions : ReceiveHello(g, s)
    \/ ReceiveResume(g)
    \/ EnterLane(g)
    \/ RefuseLane(g)
    \/ AnswerResume(g)
    \/ AnswerResumeWithState(g)
    \/ ApplyResult(g)

SyncNext ==
    \/ ClientConnects \/ ClientCalls \/ ConnectionEnds \/ ClientReceives
    \/ \E g \in Generations :
          \/ LoseRequests(g)
          \/ CloseOutbound(g)
          \/ Reader(g)
          \/ \E s \in Sessions, id \in EventIDs : PublishEvent(s, id, g)
    \/ \E s \in Sessions :
          \/ \E first \in PrunePoints : PruneBefore(s, first)
          \/ Expire(s)

SyncSpec == SyncInit /\ [][SyncNext]_syncVars

-----------------------------------------------------------------------------
(* Properties.                                                             *)

Stream == INSTANCE EventStream
              WITH session <- sessionID, received <- delivered

\* Whatever connections break, whatever connection an EVENT is published on,
\* whatever is pruned or expires, the client's Application receives a prefix
\* of the log PublishEvent wrote for its Session: handleResume's replay, live
\* EVENTs and the client's recovery never lose, repeat, reorder or mix EVENTs.
ImplementsEventStream == Stream!StreamSpec

\* The store keeps the retained suffix of every Session's log exact.
StoreRetainsSuffix == Store!RetainsSuffix

\* A request that reaches the server is always one its connection's gate
\* admits: the client never resumes on a connection whose applyResult is still
\* to come, or whose gate holds another state or Session.
RequestsAdmitted ==
    \A g \in Generations :
        reader[g] = Idle /\ toServer[g] # <<>> => Admits(g, Head(toServer[g]))

\* Against this server a Resume never ends in a full resynchronisation unless
\* the server asked for one: no order of live EVENTs, replay, reconnects and
\* pruning makes the client reject a frame while RESUMING.
FullSyncOnlyOnDemand ==
    [][state = "RESUMING" /\ Signal("FullSyncRequired") \in actions' =>
          /\ Head(toClient).type = "ERROR"
          /\ Head(toClient).code \in {"SYNC_REQUIRED", "INVALID_SESSION"}
      ]_syncVars

\* A replay reaches the EVENT published last when its WELCOME is enqueued.  So
\* the EVENTs handleEventLocked discards after a gap, which were queued before
\* the WELCOME, are all in the replay, and the live EVENTs behind it continue
\* where it ends: none falls between the two.
ReplayReachesLatest ==
    [][\A n \in DOMAIN toClient' :
          LET f == toClient'[n]
          IN  /\ n > Len(toClient)
              /\ f.type = "WELCOME" /\ f.mode = "RESUMED"
              => f.replayTo = Len(published[f.session])
      ]_syncVars

\* Handle has failed on the client's connection, which its caller stops reading
\* and ends.
ConnectionFailed ==
    LET r == reader[generation]
    IN  r = Stopped \/ (r.step = "apply" /\ r.err)

\* Frame f ends the Resume of a RESUMING client, or starts its replay.
EndsResume(f) ==
    \/ f.type = "ERROR"
    \/ f.type = "WELCOME" /\ recovery.replayTo = 0
    \/ f.type = "EVENT" /\ f.seq = recovery.replayTo
    \/ f.type = "STATE_SNAPSHOT"

\* No Resume is forgotten: while the client is RESUMING, its RESUME is on the
\* way, the server is handling it, what ends it is on the way back, or Handle
\* has failed and the connection is to end.  No order of requests, publications
\* and refusals in the Session's lane leaves the client waiting for nothing,
\* provided that the caller of Handle, after an error, ends the connection or
\* hands in the same frame again.
NoResumeForgotten ==
    state = "RESUMING" =>
        \/ \E f \in Range(toServer[generation]) : f.type = "RESUME"
        \/ reader[generation].step \in {"stream", "replay", "snapshot"}
        \/ \E f \in Range(toClient) : EndsResume(f)
        \/ ConnectionFailed

=============================================================================
