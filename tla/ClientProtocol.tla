--------------------------- MODULE ClientProtocol ---------------------------
(***************************************************************************)
(* The client state machine: connection states, generations, the Session   *)
(* with its EVENT stream, outbox and State cache, the heartbeat, and       *)
(* recovery of a Session on a new connection or after a gap.               *)
(*                                                                         *)
(* Every exported method of ClientProtocol is one action, because it holds *)
(* c.mu from its checks to its return.  A call the code refuses without a  *)
(* state change is not a step.  Timeouts are nondeterministic: a heartbeat *)
(* check may find its deadline passed whenever the code consults one.      *)
(***************************************************************************)
EXTENDS StateMerge, Negotiation

CONSTANTS
    Sessions, NoSession,    \* Session IDs and ""
    EventIDs,               \* EVENT envelope IDs
    MaxSeq,                 \* the largest EVENT sequence, math.MaxUint64
    EventBytes,             \* [EventIDs -> Nat]: replayEventBytes
    MaxReplayEvents, MaxReplayBytes, EventIdentityWindow,   \* ClientConfig
    Msgs,                   \* SEND IDs
    Pings, NoPing,          \* PING IDs, no outstanding PING
    Queries,                \* STATE_QUERY IDs
    Offers,                 \* ClientConfig.Capabilities
    MaxGeneration           \* bound: connections opened

ASSUME ClientAssumption ==
    /\ NoSession \notin Sessions
    /\ MaxSeq \in Nat \ {0}
    /\ MaxReplayEvents \in Nat /\ MaxReplayBytes \in Nat
    /\ EventIdentityWindow \in Nat \ {0}
    /\ MaxGeneration \in Nat
    /\ EventBytes \in [EventIDs -> Nat]
    /\ ValidOffers(Offers) /\ ImplementedOffers(Offers)

VARIABLES
    state,         \* ConnectionState
    generation,    \* ConnectionGeneration
    sessionID,     \* the logical Session or NoSession
    stateSync,     \* the Session negotiated state-sync version 1
    lastSeq,       \* sequence of the last EVENT given to the Application
    eventIDs,      \* sequence -> EVENT ID, for the retained window
    outbox,        \* SENDs without an ACK
    stateObjects, stateBytes,   \* the State cache and its byte count
    pendingPing,   \* the outstanding PING with its generation, or NoPing
    stateQueries,  \* pending STATE_QUERY -> the identities it asked for
    recovery,      \* the fields of a Resume in progress
    delivered,     \* history: the EVENTs of this Session given out, in order
    actions        \* what the last call asks its caller to do

sessionVars == <<sessionID, stateSync, lastSeq, eventIDs, outbox,
                 stateObjects, stateBytes, delivered>>

transientVars == <<pendingPing, stateQueries, recovery>>

clientVars == <<state, generation, sessionVars, transientVars, actions>>

States == {"DISCONNECTED", "CONNECTING", "CONNECTED", "HANDSHAKING",
           "RESUMING", "READY", "SUSPECT"}

Namespaces == {i[1] : i \in Identities}

Events == [seq : 1..MaxSeq, id : EventIDs]

Empty == [q \in {} |-> {}]

NoRecovery == [replayTo |-> 0, buffer |-> <<>>, bytes |-> 0,
               namespaces |-> {}, eventsComplete |-> FALSE, gap |-> FALSE]

TypeOK ==
    /\ state \in States
    /\ generation \in 0..MaxGeneration
    /\ sessionID \in Sessions \cup {NoSession}
    /\ stateSync \in BOOLEAN
    /\ lastSeq \in 0..MaxSeq
    /\ DOMAIN eventIDs \subseteq 1..MaxSeq
    /\ \A n \in DOMAIN eventIDs : eventIDs[n] \in EventIDs
    /\ outbox \subseteq Msgs
    /\ DOMAIN stateObjects \subseteq Identities
    /\ \A i \in DOMAIN stateObjects : stateObjects[i] \in Values
    /\ stateBytes \in Nat
    /\ pendingPing \in {NoPing} \cup [id : Pings, generation : Nat]
    /\ DOMAIN stateQueries \subseteq Queries
    /\ \A q \in DOMAIN stateQueries : stateQueries[q] \subseteq Identities
    /\ recovery \in [replayTo : 0..MaxSeq, buffer : Seq(Events), bytes : Nat,
                     namespaces : SUBSET Namespaces,
                     eventsComplete : BOOLEAN, gap : BOOLEAN]
    /\ delivered \in Seq(Events)

Init ==
    /\ state = "DISCONNECTED" /\ generation = 0
    /\ sessionID = NoSession /\ stateSync = FALSE
    /\ lastSeq = 0 /\ eventIDs = Empty /\ delivered = <<>>
    /\ outbox = {}
    /\ stateObjects = EmptyCache /\ stateBytes = 0
    /\ pendingPing = NoPing /\ stateQueries = Empty /\ recovery = NoRecovery
    /\ actions = {}

-----------------------------------------------------------------------------
(* Frames.  INVALID stands for what ValidateFrame refuses; the others have *)
(* the fields the client reads.                                            *)

ErrorCodes == {"BAD_REQUEST", "UNSUPPORTED_VERSION", "UNSUPPORTED_FEATURE",
    "INVALID_CAPABILITY", "INVALID_STATE_VERSION", "UNAUTHORIZED",
    "INVALID_SESSION", "NOT_FOUND", "RATE_LIMITED", "SYNC_REQUIRED",
    "STATE_SYNC_REQUIRED", "STATE_UNAVAILABLE", "INTERNAL",
    "PROTOCOL_VIOLATION"}

\* BehaviorForErrorCode.
ClosesConnection(code) ==
    code \in {"UNSUPPORTED_VERSION", "UNSUPPORTED_FEATURE", "UNAUTHORIZED",
              "STATE_SYNC_REQUIRED", "STATE_UNAVAILABLE",
              "PROTOCOL_VIOLATION"}

AbandonsSession(code) == code = "INVALID_SESSION"

NeedsFullSync(code) == code = "SYNC_REQUIRED"

\* uint64 addition.
Succ(n) == (n + 1) % (MaxSeq + 1)

SendFrame(frame) == [do |-> "SendFrame", frame |-> frame]

Signal(what) == [do |-> what]

HelloFrame == [type |-> "HELLO", session |-> NoSession, offers |-> Offers]

\* resumeFrameLocked.
ResumeFrame(namespaces) ==
    [type |-> "RESUME", session |-> sessionID, lastSeq |-> lastSeq,
     namespaces |-> namespaces]

-----------------------------------------------------------------------------
(* Steps shared by several methods.                                        *)

\* Mutant: the outstanding PING survives its connection.
MutResetConnectionTransient ==
    /\ stateQueries' = Empty
    /\ recovery' = NoRecovery
    /\ UNCHANGED pendingPing

\* resetConnectionTransientLocked.
ResetConnectionTransient ==
    /\ pendingPing' = NoPing
    /\ stateQueries' = Empty
    /\ recovery' = NoRecovery

\* beginRecoveryLocked, and the RESUME it is always paired with.
BeginRecovery(namespaces, gap) ==
    /\ state' = "RESUMING"
    /\ pendingPing' = NoPing
    /\ stateQueries' = Empty
    /\ recovery' = [NoRecovery EXCEPT !.namespaces = namespaces, !.gap = gap]
    /\ actions' = {SendFrame(ResumeFrame(namespaces))}
    /\ UNCHANGED <<generation, sessionVars>>

\* stopReplayLocked and stopStateResumeLocked; they differ in the code of the
\* reported error only.
StopRecovery ==
    /\ state' = "DISCONNECTED"
    /\ ResetConnectionTransient
    /\ actions' = {Signal("FullSyncRequired"), Signal("CloseConnection")}
    /\ UNCHANGED <<generation, sessionVars>>

\* handleIncomingFailureLocked: outside RESUMING the error is only returned.
HandleIncomingFailure ==
    \/ state = "RESUMING" /\ StopRecovery
    \/ /\ state # "RESUMING"
       /\ actions' = {}
       /\ UNCHANGED <<state, generation, sessionVars, transientVars>>

\* Mutant: the identity at the edge of the window is dropped one too early.
MutRemember(ids, event) ==
    LET kept == {n \in DOMAIN ids : n + EventIdentityWindow > event.seq + 1}
    IN  [n \in kept \cup {event.seq} |->
            IF n = event.seq THEN event.id ELSE ids[n]]

\* rememberEventLocked.
RememberEvent(ids, event) ==
    LET kept == DOMAIN ids \ {event.seq - EventIdentityWindow}
    IN  [n \in kept \cup {event.seq} |->
            IF n = event.seq THEN event.id ELSE ids[n]]

\* The loop over the EVENTs handed out.
Remembered(ids, events) ==
    LET after[n \in 0..Len(events)] ==
            IF n = 0 THEN ids ELSE RememberEvent(after[n - 1], events[n])
    IN  after[Len(events)]

Last(list) == list[Len(list)]

\* Mutant: lastSeq is left at the sequence expected next.
MutDeliver(events) ==
    /\ lastSeq' = lastSeq + Len(events) + 1
    /\ eventIDs' = Remembered(eventIDs, events)
    /\ delivered' = delivered \o events

\* The loop over the replay buffer: every EVENT in order.
Deliver(events) ==
    /\ lastSeq' = IF events = <<>> THEN lastSeq ELSE Last(events).seq
    /\ eventIDs' = Remembered(eventIDs, events)
    /\ delivered' = delivered \o events

\* The end of a successful Resume.
FinishRecovery ==
    /\ state' = "READY"
    /\ ResetConnectionTransient
    /\ actions' = {Signal("SessionReady")}

-----------------------------------------------------------------------------
(* Connection and Session entry points.                                    *)

BeginConnect ==
    /\ generation < MaxGeneration
    /\ generation' = generation + 1
    /\ state' = "CONNECTING"
    /\ ResetConnectionTransient
    /\ actions' = {}
    /\ UNCHANGED sessionVars

TransportConnected(g) ==
    /\ g = generation
    /\ state = "CONNECTING"
    /\ state' = "CONNECTED"
    /\ actions' = {}
    /\ UNCHANGED <<generation, sessionVars, transientVars>>

StartSession(g) ==
    /\ g = generation
    /\ state = "CONNECTED" /\ sessionID = NoSession
    /\ state' = "HANDSHAKING"
    /\ actions' = {SendFrame(HelloFrame)}
    /\ UNCHANGED <<generation, sessionVars, transientVars>>

\* Resume (no namespaces) and ResumeWithState.
Resume(g, namespaces) ==
    /\ g = generation
    /\ namespaces # {} => stateSync
    /\ state = "CONNECTED" /\ sessionID # NoSession
    /\ BeginRecovery(namespaces, FALSE)

Disconnect(g) ==
    /\ g = generation
    /\ state' = "DISCONNECTED"
    /\ ResetConnectionTransient
    /\ actions' = {}
    /\ UNCHANGED <<generation, sessionVars>>

-----------------------------------------------------------------------------
(* Requests of the Application.                                            *)

\* The identities asked for share one namespace.
QueryState(q, ids) ==
    /\ state = "READY" /\ stateSync
    /\ q \notin DOMAIN stateQueries
    /\ stateQueries' = [p \in DOMAIN stateQueries \cup {q} |->
                           IF p = q THEN ids ELSE stateQueries[p]]
    /\ actions' = {SendFrame([type |-> "STATE_QUERY", session |-> sessionID,
                              id |-> q, ids |-> ids])}
    /\ UNCHANGED <<state, generation, sessionVars, pendingPing, recovery>>

SendOf(m) == SendFrame([type |-> "SEND", session |-> sessionID, id |-> m])

EnqueueSend(m) ==
    /\ state = "READY"
    /\ m \notin outbox
    /\ outbox' = outbox \cup {m}
    /\ actions' = {SendOf(m)}
    /\ UNCHANGED <<state, generation, sessionID, stateSync, lastSeq, eventIDs,
                   stateObjects, stateBytes, delivered, transientVars>>

RetryPending ==
    /\ state = "READY"
    /\ actions' = {SendOf(m) : m \in outbox}
    /\ UNCHANGED <<state, generation, sessionVars, transientVars>>

SendPing(g, p) ==
    /\ g = generation
    /\ state = "READY" /\ pendingPing = NoPing
    /\ pendingPing' = [id |-> p, generation |-> g]
    /\ actions' = {SendFrame([type |-> "PING", session |-> sessionID,
                              id |-> p])}
    /\ UNCHANGED <<state, generation, sessionVars, stateQueries, recovery>>

\* HeartbeatTimeout passed in READY, or DisconnectGrace passed in SUSPECT.
CheckHeartbeat(g) ==
    /\ g = generation
    /\ pendingPing # NoPing
    /\ \/ /\ state = "READY"
          /\ state' = "SUSPECT"
          /\ actions' = {}
          /\ UNCHANGED transientVars
       \/ /\ state = "SUSPECT"
          /\ state' = "DISCONNECTED"
          /\ ResetConnectionTransient
          /\ actions' = {Signal("CloseConnection")}
    /\ UNCHANGED <<generation, sessionVars>>

-----------------------------------------------------------------------------
(* WELCOME.                                                                *)

HandleNewWelcome(f) ==
    /\ state = "HANDSHAKING"
    /\ f.type = "WELCOME" /\ f.mode = "NEW"
    /\ AcceptedAgainstOffers(Offers, f.accepted)
    /\ sessionID' = f.session
    /\ stateSync' = StateSyncEnabled(f.accepted)
    /\ state' = "READY"
    /\ actions' = {Signal("SessionReady")}
    /\ UNCHANGED <<generation, lastSeq, eventIDs, outbox, stateObjects,
                   stateBytes, delivered, transientVars>>

\* The checks on a resume acknowledgement.
Acknowledges(f) ==
    /\ f.type = "WELCOME" /\ f.mode = "RESUMED"
    /\ f.session = sessionID
    /\ f.resumeFrom = Succ(lastSeq)
    /\ f.replayTo >= lastSeq
    /\ f.namespaces = recovery.namespaces

HandleResumedWelcome(f) ==
    /\ state = "RESUMING"
    /\ Acknowledges(f)
    /\ \/ /\ f.replayTo - lastSeq > MaxReplayEvents
          /\ StopRecovery
       \/ /\ f.replayTo - lastSeq <= MaxReplayEvents
          /\ f.replayTo = lastSeq /\ recovery.namespaces = {}
          /\ FinishRecovery
          /\ UNCHANGED <<generation, sessionVars>>
       \/ /\ f.replayTo - lastSeq <= MaxReplayEvents
          /\ f.replayTo # lastSeq \/ recovery.namespaces # {}
          /\ recovery' = [NoRecovery EXCEPT
                             !.replayTo = f.replayTo,
                             !.namespaces = recovery.namespaces,
                             !.eventsComplete = (f.replayTo = lastSeq)]
          /\ actions' = {}
          /\ UNCHANGED <<state, generation, sessionVars, pendingPing,
                         stateQueries>>

WelcomeExpected(f) ==
    \/ /\ state = "HANDSHAKING" /\ f.mode = "NEW"
       /\ AcceptedAgainstOffers(Offers, f.accepted)
    \/ state = "RESUMING" /\ Acknowledges(f)

-----------------------------------------------------------------------------
(* EVENT.                                                                  *)

EventOf(f) == [seq |-> f.seq, id |-> f.id]

\* A sequence already delivered, with the identity it was delivered under.
Duplicate(f) ==
    /\ f.seq <= lastSeq
    /\ f.seq \in DOMAIN eventIDs
    /\ eventIDs[f.seq] = f.id

\* Mutant: every EVENT before RESUMED WELCOME is rejected.
MutSuperseded(f) == FALSE

\* In flight when the gap was found, before RESUMED WELCOME.
Superseded(f) ==
    /\ f.seq > lastSeq
    /\ state = "RESUMING"
    /\ recovery.replayTo = 0 /\ recovery.gap

\* The next EVENT of the fixed Replay.
ReplayExpected(f) ==
    /\ f.seq > lastSeq
    /\ state = "RESUMING"
    /\ recovery.replayTo # 0
    /\ f.seq = lastSeq + Len(recovery.buffer) + 1
    /\ f.seq <= recovery.replayTo

EventExpected(f) ==
    /\ state \in {"READY", "RESUMING"}
    /\ \/ Duplicate(f)
       \/ Superseded(f)
       \/ ReplayExpected(f)
       \/ state = "READY" /\ f.seq > lastSeq

\* A discarded EVENT changes nothing.
DiscardEvent(f) ==
    /\ state \in {"READY", "RESUMING"}
    /\ Duplicate(f) \/ Superseded(f)
    /\ actions' = {}
    /\ UNCHANGED <<state, generation, sessionVars, transientVars>>

\* Mutant: a partial Replay reaches the Application.
MutEndsReplay(f) == recovery.namespaces = {}

\* The last EVENT of a Replay that no State snapshot follows.
EndsReplay(f) == f.seq = recovery.replayTo /\ recovery.namespaces = {}

HandleReplayEvent(f) ==
    LET buffer == Append(recovery.buffer, EventOf(f))
        bytes  == recovery.bytes + EventBytes[f.id]
        fits   == Len(buffer) <= MaxReplayEvents /\ bytes <= MaxReplayBytes
    IN  /\ ReplayExpected(f)
        /\ \/ ~fits /\ StopRecovery
           \/ /\ fits /\ ~EndsReplay(f)
              /\ recovery' = [recovery EXCEPT
                     !.buffer = buffer, !.bytes = bytes,
                     !.eventsComplete = @ \/ f.seq = recovery.replayTo]
              /\ actions' = {}
              /\ UNCHANGED <<state, generation, sessionVars, pendingPing,
                             stateQueries>>
           \/ /\ fits /\ EndsReplay(f)
              /\ Deliver(buffer)
              /\ FinishRecovery
              /\ UNCHANGED <<generation, sessionID, stateSync, outbox,
                             stateObjects, stateBytes>>

\* Mutant: a gap is skipped over.
MutIsNext(f) == f.seq > lastSeq

\* The live EVENT that continues the stream.
IsNext(f) == f.seq = Succ(lastSeq)

HandleLiveEvent(f) ==
    /\ state = "READY"
    /\ f.seq > lastSeq
    /\ \/ ~IsNext(f) /\ BeginRecovery({}, TRUE)
       \/ /\ IsNext(f)
          /\ Deliver(<<EventOf(f)>>)
          /\ actions' = {}
          /\ UNCHANGED <<state, generation, sessionID, stateSync, outbox,
                         stateObjects, stateBytes, transientVars>>

HandleEvent(f) ==
    /\ f.type = "EVENT"
    /\ DiscardEvent(f) \/ HandleReplayEvent(f) \/ HandleLiveEvent(f)

-----------------------------------------------------------------------------
(* ACK and PONG.                                                           *)

HandleAck(f) ==
    /\ f.type = "ACK"
    /\ state \in {"READY", "SUSPECT"}
    /\ outbox' = outbox \ {f.ref}
    /\ actions' = IF f.ref \in outbox THEN {Signal("Acked")} ELSE {}
    /\ UNCHANGED <<state, generation, sessionID, stateSync, lastSeq, eventIDs,
                   stateObjects, stateBytes, delivered, transientVars>>

\* The PONG of the outstanding PING, on the PING's own connection.
AnswersPing(g, f) == pendingPing = [id |-> f.id, generation |-> g]

HandlePong(g, f) ==
    /\ f.type = "PONG"
    /\ state \in {"READY", "SUSPECT"}
    /\ pendingPing' = IF AnswersPing(g, f) THEN NoPing ELSE pendingPing
    /\ state' = IF AnswersPing(g, f) THEN "READY" ELSE state
    /\ actions' = {}
    /\ UNCHANGED <<generation, sessionVars, stateQueries, recovery>>

-----------------------------------------------------------------------------
(* State frames.                                                           *)

Merged(f) == ApplyStateObjects(stateObjects, stateBytes, f.objects)

Returns(f) == {f.objects[n].identity : n \in DOMAIN f.objects}

\* handleStateSnapshotLocked in READY.
SnapshotExpected(f) ==
    /\ state = "READY" /\ stateSync
    /\ f.id \in DOMAIN stateQueries
    /\ Returns(f) \subseteq stateQueries[f.id]
    /\ Merged(f).ok

\* handleResumeStateSnapshotLocked.
ResumeSnapshotExpected(f) ==
    /\ state = "RESUMING" /\ stateSync
    /\ recovery.eventsComplete
    /\ {i[1] : i \in Returns(f)} \subseteq recovery.namespaces
    /\ recovery.namespaces # {}
    /\ Merged(f).ok

UpdateExpected(f) == state = "READY" /\ stateSync /\ Merged(f).ok

Merge(f) ==
    /\ stateObjects' = Merged(f).cache
    /\ stateBytes' = Merged(f).bytes

HandleStateSnapshot(f) ==
    /\ f.type = "STATE_SNAPSHOT"
    /\ SnapshotExpected(f)
    /\ Merge(f)
    /\ stateQueries' = [q \in DOMAIN stateQueries \ {f.id} |->
                           stateQueries[q]]
    /\ actions' = {}
    /\ UNCHANGED <<state, generation, sessionID, stateSync, lastSeq, eventIDs,
                   outbox, delivered, pendingPing, recovery>>

HandleResumeStateSnapshot(f) ==
    /\ f.type = "STATE_SNAPSHOT"
    /\ ResumeSnapshotExpected(f)
    /\ Merge(f)
    /\ Deliver(recovery.buffer)
    /\ FinishRecovery
    /\ UNCHANGED <<generation, sessionID, stateSync, outbox>>

HandleStateUpdate(f) ==
    /\ f.type = "STATE_UPDATE"
    /\ UpdateExpected(f)
    /\ Merge(f)
    /\ actions' = {}
    /\ UNCHANGED <<state, generation, sessionID, stateSync, lastSeq, eventIDs,
                   outbox, delivered, transientVars>>

-----------------------------------------------------------------------------
(* ERROR.                                                                  *)

\* Mutant: the EVENT position of the abandoned Session survives.
MutAbandonSession ==
    /\ sessionID' = NoSession /\ stateSync' = FALSE
    /\ outbox' = {} /\ stateObjects' = EmptyCache /\ stateBytes' = 0
    /\ UNCHANGED <<lastSeq, eventIDs, delivered>>

\* abandonSessionLocked.
AbandonSession ==
    /\ sessionID' = NoSession /\ stateSync' = FALSE
    /\ lastSeq' = 0 /\ eventIDs' = Empty /\ delivered' = <<>>
    /\ outbox' = {}
    /\ stateObjects' = EmptyCache /\ stateBytes' = 0

HandleError(f) ==
    LET resuming == state = "RESUMING"
        abandon  == AbandonsSession(f.code)
        fullSync == /\ resuming
                    /\ \/ NeedsFullSync(f.code)
                       \/ abandon
                       \/ /\ recovery.namespaces # {}
                          /\ f.code = "STATE_SYNC_REQUIRED"
        close    == ClosesConnection(f.code) \/ (resuming /\ ~fullSync)
        ends     == resuming \/ abandon \/ close
    IN  /\ f.type = "ERROR"
        /\ IF abandon THEN AbandonSession ELSE UNCHANGED sessionVars
        /\ \/ /\ ends
              /\ state' = "DISCONNECTED"
              /\ ResetConnectionTransient
           \/ /\ ~ends
              /\ stateQueries' = [q \in DOMAIN stateQueries \ {f.ref} |->
                                     stateQueries[q]]
              /\ UNCHANGED <<state, pendingPing, recovery>>
        /\ actions' = {a \in {Signal("FullSyncRequired"),
                              Signal("CloseConnection")} :
                          \/ a.do = "FullSyncRequired" /\ fullSync
                          \/ a.do = "CloseConnection" /\ close}
        /\ UNCHANGED generation

\* A malformed ERROR closes and is never answered.
HandleInvalidError(f) ==
    /\ f.type = "INVALID_ERROR"
    /\ state' = "DISCONNECTED"
    /\ ResetConnectionTransient
    /\ actions' = {Signal("CloseConnection")}
    /\ UNCHANGED <<generation, sessionVars>>

-----------------------------------------------------------------------------
(* HandleIncoming.                                                         *)

\* The Session check made before a frame is dispatched.
Correlated(f) ==
    \/ f.type = "WELCOME"
    \/ f.type = "ERROR" /\ f.session \in {NoSession, sessionID}
    \/ f.type \notin {"WELCOME", "ERROR"} /\ f.session = sessionID

\* The frame's handler returns without an error.
Expected(f) ==
    \/ f.type = "INVALID_ERROR"
    \/ /\ f.type \notin {"INVALID", "INVALID_ERROR"}
       /\ Correlated(f)
       /\ \/ f.type = "WELCOME" /\ WelcomeExpected(f)
          \/ f.type = "EVENT" /\ EventExpected(f)
          \/ f.type \in {"ACK", "PONG"} /\ state \in {"READY", "SUSPECT"}
          \/ /\ f.type = "STATE_SNAPSHOT"
             /\ SnapshotExpected(f) \/ ResumeSnapshotExpected(f)
          \/ f.type = "STATE_UPDATE" /\ UpdateExpected(f)
          \/ f.type = "ERROR"

HandleIncoming(g, f) ==
    /\ g = generation
    /\ \/ ~Expected(f) /\ HandleIncomingFailure
       \/ /\ Expected(f)
          /\ \/ HandleInvalidError(f)
             \/ HandleNewWelcome(f)
             \/ f.type = "WELCOME" /\ HandleResumedWelcome(f)
             \/ HandlePong(g, f)
             \/ HandleAck(f)
             \/ HandleEvent(f)
             \/ HandleStateSnapshot(f)
             \/ HandleResumeStateSnapshot(f)
             \/ HandleStateUpdate(f)
             \/ HandleError(f)

-----------------------------------------------------------------------------
(* A client facing any sequence of frames a peer can send.                 *)

\* Objects a frame may carry: at most two objects of distinct identity.
Batches ==
    {<<>>} \cup {<<o>> : o \in StateObjects} \cup
    {b \in StateObjects \X StateObjects : b[1].identity # b[2].identity}

Frames ==
    [type : {"INVALID", "INVALID_ERROR"}]
    \cup [type : {"WELCOME"}, mode : {"NEW"}, session : Sessions,
          accepted : {<<>>} \cup
                     [1..1 -> [name : StateSyncName..2, version : 1..2]]]
    \cup {f \in [type : {"WELCOME"}, mode : {"RESUMED"}, session : Sessions,
                 resumeFrom : 1..MaxSeq, replayTo : 0..MaxSeq,
                 namespaces : SUBSET Namespaces] :
             f.replayTo >= f.resumeFrom - 1}
    \cup [type : {"EVENT"}, session : Sessions, seq : 1..MaxSeq,
          id : EventIDs]
    \cup [type : {"ACK"}, session : Sessions, ref : Msgs]
    \cup [type : {"PONG"}, session : Sessions, id : Pings]
    \cup [type : {"STATE_SNAPSHOT"}, session : Sessions, id : Queries,
          objects : Batches]
    \cup [type : {"STATE_UPDATE"}, session : Sessions,
          objects : {b \in Batches : Len(b) = 1}]
    \cup [type : {"ERROR"}, session : Sessions \cup {NoSession},
          code : ErrorCodes, ref : Queries]

OneNamespace(ids) == \A i, j \in ids : i[1] = j[1]

\* g is the generation the caller believes current; HandleIncoming and the
\* other methods ignore every other one.
Next ==
    \/ BeginConnect
    \/ RetryPending
    \/ \E m \in Msgs : EnqueueSend(m)
    \/ \E q \in Queries, ids \in SUBSET Identities :
          ids # {} /\ OneNamespace(ids) /\ QueryState(q, ids)
    \/ \E g \in 1..generation :
          \/ TransportConnected(g)
          \/ StartSession(g)
          \/ \E namespaces \in SUBSET Namespaces : Resume(g, namespaces)
          \/ Disconnect(g)
          \/ \E p \in Pings : SendPing(g, p)
          \/ CheckHeartbeat(g)
          \/ \E f \in Frames : HandleIncoming(g, f)

Spec == Init /\ [][Next]_clientVars

-----------------------------------------------------------------------------
(* Properties.                                                             *)

\* The Application has been given EVENTs 1..lastSeq of the current Session,
\* once each and in order, whatever mixture of live EVENTs, duplicates, gaps,
\* replays and reconnects the frames made of them (handleEventLocked and
\* handleResumeStateSnapshotLocked).
DeliveredInOrder ==
    /\ Len(delivered) = lastSeq
    /\ \A n \in 1..lastSeq : delivered[n].seq = n

\* rememberEventLocked keeps exactly the identities of the last
\* EventIdentityWindow EVENTs, each the one the Application was given; a
\* duplicate inside the window is recognised and an older one never is.
IdentityWindow ==
    /\ DOMAIN eventIDs =
          {n \in 1..lastSeq : n + EventIdentityWindow > lastSeq}
    /\ \A n \in DOMAIN eventIDs : eventIDs[n] = delivered[n].id

\* While RESUMING the Application receives nothing until one step hands it the
\* whole replay, up to the replay_to the accepted WELCOME fixed, and the client
\* is READY; an interrupted Resume has delivered nothing.
ReplayAllOrNothing ==
    [][state = "RESUMING" /\ delivered' # delivered =>
          \/ state' = "READY" /\ lastSeq' = recovery.replayTo
          \/ sessionID' = NoSession]_clientVars

\* An outstanding PING belongs to the current connection and to a READY or
\* SUSPECT client, and SUSPECT always has one: CheckHeartbeat can always end
\* the suspicion and a PONG of an old connection never can.
HeartbeatIsCurrent ==
    /\ pendingPing # NoPing =>
          /\ pendingPing.generation = generation
          /\ state \in {"READY", "SUSPECT"}
    /\ state = "SUSPECT" => pendingPing # NoPing

\* A client without a Session has nothing left of an earlier one, so the next
\* NEW WELCOME starts at sequence 1 with an empty outbox and State cache; and
\* a client that is READY, SUSPECT or RESUMING has a Session.
CleanWithoutSession ==
    /\ sessionID = NoSession =>
          /\ lastSeq = 0 /\ eventIDs = Empty /\ outbox = {} /\ ~stateSync
          /\ stateObjects = EmptyCache /\ stateBytes = 0
          /\ recovery = NoRecovery
    /\ state \in {"READY", "SUSPECT", "RESUMING"} => sessionID # NoSession

\* Within a Session the cached version of a State Object never decreases, its
\* data never changes without a higher version, and no object is dropped.
StateNeverRegresses ==
    [][sessionID' = sessionID =>
          \A i \in DOMAIN stateObjects :
             /\ i \in DOMAIN stateObjects'
             /\ \/ stateObjects'[i] = stateObjects[i]
                \/ stateObjects'[i].version > stateObjects[i].version
      ]_clientVars

\* The running byte count is the size of the cached objects, and neither limit
\* of the cache is ever exceeded.
StateAccounting ==
    /\ stateBytes = CacheBytes(stateObjects)
    /\ stateBytes <= MaxStateBytes
    /\ Cardinality(DOMAIN stateObjects) <= MaxStateObjects

=============================================================================
