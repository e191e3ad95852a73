----------------------------- MODULE SendDedup -----------------------------
(***************************************************************************)
(* Reliable SEND on the server: ServerProtocol.handleSend, the in-process  *)
(* SEND flights that elect one handler per (session, message) identity,    *)
(* MemoryDedupStore and the Session expiry it depends on.                  *)
(*                                                                         *)
(* A member of Calls is one invocation of handleSend.  The callbacks it    *)
(* makes (session lookup, claim, failure injection, application, complete) *)
(* are two steps, entry and return, because other handlers can observe     *)
(* flight.callbackActive between them and because a callback may itself    *)
(* submit a SEND: such a call is nested, and the callback cannot return    *)
(* before it.  The content of a SEND stands for its SHA-256 fingerprint.   *)
(*                                                                         *)
(* A store reads its clock before it takes its mutex.  Claim and Complete  *)
(* are nevertheless one step here: only the flight's leader touches the    *)
(* record of its identity, so the record cannot change between the two.    *)
(***************************************************************************)
EXTENDS Naturals, FiniteSets

CONSTANTS
    Calls,              \* invocations of handleSend
    Sessions,           \* Session IDs the server may allocate
    Msgs,               \* SEND IDs
    Contents,           \* opaque SEND contents
    NoCall,             \* "no flight", "not nested"
    SessionResumeTTL,   \* ServerConfig.SessionResumeTTL, in clock ticks
    DedupTTL,           \* retention of a completed record, in clock ticks
    MaxDelay,           \* ticks that may pass between a handler's clock
                        \* sample and its Claim
    MaxTime             \* bound: the last clock value

ASSUME NoCallAssumption == NoCall \notin Calls

\* NewServerProtocol rejects any other combination (server.go:152-160).
ASSUME TTLAssumption ==
    /\ SessionResumeTTL \in Nat \ {0}
    /\ DedupTTL \in Nat
    /\ DedupTTL >= SessionResumeTTL

ASSUME BoundAssumption == MaxDelay \in Nat /\ MaxTime \in Nat

VARIABLES
    clock,       \* the injected Clock
    expiresAt,   \* [Sessions -> Nat]: SessionState.ExpiresAt, 0 before Create
    records,     \* [Keys -> dedup record]: MemoryDedupStore.records
    flights,     \* [Keys -> leading call or NoCall]: ServerProtocol.flights
    req,         \* [Calls -> Requests]: the SEND frame of the call
    pc,          \* [Calls -> Labels]: where the handler is
    now,         \* [Calls -> Nat]: the clock sample of handleSend
    parent,      \* [Calls -> call whose callback submitted it, or NoCall]
    flight,      \* [Calls -> leader of the flight the call joined, or NoCall]
    callback,    \* [Calls -> BOOLEAN]: callbackActive of the flight it leads
    flightAck,   \* [Calls -> BOOLEAN]: the flight it leads holds an ACK
    reply,       \* [Calls -> Replies]: what the handler enqueued or returned
    app          \* [Calls -> AppStates]: the application's view, a history

vars == <<clock, expiresAt, records, flights, req, pc, now, parent, flight,
          callback, flightAck, reply, app>>

Keys == Sessions \X Msgs

Requests == [key : Keys, content : Contents]

\* The callbacks of the leader, in program order.
Stages == {"lookup", "claim", "afterClaim", "app", "afterApp", "complete",
           "afterComplete"}

Leading == Stages \cup {"finish"}

Labels == {"idle", "acquire", "peek", "wait", "done"} \cup Leading

\* "error" is a Go error returned to the caller with no frame enqueued.
Replies == {"none", "ack", "bad_request", "invalid_session", "internal",
            "error"}

AppStates == {"none", "called", "ok", "failed"}

Absent == [state |-> "absent"]

Records == {Absent} \cup
           [state : {"processing", "completed"}, content : Contents,
            expiresAt : Nat]

TypeOK ==
    /\ clock \in Nat
    /\ expiresAt \in [Sessions -> Nat]
    /\ records \in [Keys -> Records]
    /\ flights \in [Keys -> Calls \cup {NoCall}]
    /\ req \in [Calls -> Requests]
    /\ pc \in [Calls -> Labels]
    /\ now \in [Calls -> Nat]
    /\ parent \in [Calls -> Calls \cup {NoCall}]
    /\ flight \in [Calls -> Calls \cup {NoCall}]
    /\ callback \in [Calls -> BOOLEAN]
    /\ flightAck \in [Calls -> BOOLEAN]
    /\ reply \in [Calls -> Replies]
    /\ app \in [Calls -> AppStates]

\* The frame a call will carry is fixed from the start; it is read only once
\* the call has arrived.
Init ==
    /\ clock = 0
    /\ expiresAt = [s \in Sessions |-> 0]
    /\ records = [k \in Keys |-> Absent]
    /\ flights = [k \in Keys |-> NoCall]
    /\ req \in [Calls -> Requests]
    /\ pc = [c \in Calls |-> "idle"]
    /\ now = [c \in Calls |-> 0]
    /\ parent = [c \in Calls |-> NoCall]
    /\ flight = [c \in Calls |-> NoCall]
    /\ callback = [c \in Calls |-> FALSE]
    /\ flightAck = [c \in Calls |-> FALSE]
    /\ reply = [c \in Calls |-> "none"]
    /\ app = [c \in Calls |-> "none"]

-----------------------------------------------------------------------------
(* Time and Sessions.                                                      *)

\* Handlers that hold a clock sample and have not reached their Claim.
BeforeClaim == {c \in Calls : pc[c] \in {"acquire", "lookup", "claim"}}

Tick ==
    /\ clock < MaxTime
    /\ \A c \in BeforeClaim : clock - now[c] < MaxDelay
    /\ clock' = clock + 1
    /\ UNCHANGED <<expiresAt, records, flights, req, pc, now, parent, flight,
                   callback, flightAck, reply, app>>

\* handleHello: the only place that creates a Session; Create rejects an ID
\* that exists, and nothing ever extends ExpiresAt.
CreateSession(s) ==
    /\ expiresAt[s] = 0
    /\ expiresAt' = [expiresAt EXCEPT ![s] = clock + SessionResumeTTL]
    /\ UNCHANGED <<clock, records, flights, req, pc, now, parent, flight,
                   callback, flightAck, reply, app>>

\* MemorySessionRepository.Lookup with the handler's own sample.
Live(c) == now[c] < expiresAt[req[c].key[1]]

-----------------------------------------------------------------------------
(* Entry of a call and the flight table.                                   *)

Goto(c, label) == pc' = [pc EXCEPT ![c] = label]

\* enqueueFrame and enqueueErrorAt fail, leaving only a Go error, when the
\* outbound queue is already closed.
Answer(c, frame) ==
    \E r \in {frame, "error"} : reply' = [reply EXCEPT ![c] = r]

\* handleSend samples the clock, decodes and fingerprints the content.
Arrive(c, p) ==
    /\ pc[c] = "idle"
    /\ p # NoCall => p # c /\ callback[p]
    /\ now' = [now EXCEPT ![c] = clock]
    /\ parent' = [parent EXCEPT ![c] = p]
    /\ Goto(c, "acquire")
    /\ UNCHANGED <<clock, expiresAt, records, flights, req, flight, callback,
                   flightAck, reply, app>>

\* Mutant: the fingerprint of a joined flight is not compared.
MutNoConflict(c, lead) == FALSE

\* acquireFlight: the identity is in flight with another fingerprint.
Conflict(c, lead) == req[lead].content # req[c].content

\* Mutant: callbackActive is not consulted, every follower waits.
MutAlwaysWait(lead) == "wait"

\* handleSend: a follower waits for the leader unless a callback is active.
Join(lead) == IF callback[lead] THEN "peek" ELSE "wait"

\* acquireFlight, and the branches of handleSend on what it returns.
AcquireFlight(c) ==
    /\ pc[c] = "acquire"
    /\ LET k == req[c].key  lead == flights[k]
       IN  \/ /\ lead = NoCall
              /\ flights' = [flights EXCEPT ![k] = c]
              /\ flight' = [flight EXCEPT ![c] = c]
              /\ Goto(c, "lookup")
              /\ UNCHANGED reply
           \/ /\ lead # NoCall /\ Conflict(c, lead)
              /\ Answer(c, "bad_request")
              /\ Goto(c, "done")
              /\ UNCHANGED <<flights, flight>>
           \/ /\ lead # NoCall /\ ~Conflict(c, lead)
              /\ flight' = [flight EXCEPT ![c] = lead]
              /\ Goto(c, Join(lead))
              /\ UNCHANGED <<flights, reply>>
    /\ UNCHANGED <<clock, expiresAt, records, req, now, parent, callback,
                   flightAck, app>>

\* A follower that met an active callback reads flight.ack and never blocks.
Peek(c) ==
    /\ pc[c] = "peek"
    /\ Answer(c, IF flightAck[flight[c]] THEN "ack" ELSE "internal")
    /\ Goto(c, "done")
    /\ UNCHANGED <<clock, expiresAt, records, flights, req, now, parent,
                   flight, callback, flightAck, app>>

\* waitForOriginal: flight.done is closed by the leader's finishFlight.
WaitForOriginal(c) ==
    /\ pc[c] = "wait"
    /\ pc[flight[c]] = "done"
    /\ Answer(c, IF flightAck[flight[c]] THEN "ack" ELSE "internal")
    /\ Goto(c, "done")
    /\ UNCHANGED <<clock, expiresAt, records, flights, req, now, parent,
                   flight, callback, flightAck, app>>

\* waitForOriginal: the follower's own context is cancelled.
WaitCancelled(c) ==
    /\ pc[c] = "wait"
    /\ reply' = [reply EXCEPT ![c] = "error"]
    /\ Goto(c, "done")
    /\ UNCHANGED <<clock, expiresAt, records, flights, req, now, parent,
                   flight, callback, flightAck, app>>

-----------------------------------------------------------------------------
(* The leader's callbacks.                                                 *)

\* invokeSendCallback up to fn().  The application counts as executed from the
\* moment it is called: a later error is an indeterminate commit.
BeginCallback(c) ==
    /\ pc[c] \in Stages
    /\ ~callback[c]
    /\ callback' = [callback EXCEPT ![c] = TRUE]
    /\ app' = IF pc[c] = "app" THEN [app EXCEPT ![c] = "called"] ELSE app
    /\ UNCHANGED <<clock, expiresAt, records, flights, req, pc, now, parent,
                   flight, flightAck, reply>>

\* The deferred part of invokeSendCallback; every call fn() made has returned.
Return(c, stage) ==
    /\ pc[c] = stage
    /\ callback[c]
    /\ \A d \in Calls : parent[d] = c => pc[d] = "done"
    /\ callback' = [callback EXCEPT ![c] = FALSE]

\* Any callback may fail or panic; invokeSendCallback turns a panic into an
\* error.  Only an application error is answered with a frame.
CallbackFails(c) ==
    /\ \E stage \in Stages \ {"app"} : Return(c, stage)
    /\ reply' = [reply EXCEPT ![c] = "error"]
    /\ Goto(c, "finish")
    /\ UNCHANGED <<clock, expiresAt, records, flights, req, now, parent,
                   flight, flightAck, app>>

LookupReturns(c) ==
    /\ Return(c, "lookup")
    /\ IF Live(c)
       THEN Goto(c, "claim") /\ UNCHANGED reply
       ELSE Goto(c, "finish") /\ Answer(c, "invalid_session")
    /\ UNCHANGED <<clock, expiresAt, records, flights, req, now, parent,
                   flight, flightAck, app>>

\* Mutant: a PROCESSING record is claimed again.
MutHeldCompletedOnly(k) ==
    /\ records[k] # Absent /\ records[k].state = "completed"
    /\ clock < records[k].expiresAt

\* Mutant: COMPLETED is not retained at all.
MutHeldProcessingOnly(k) ==
    records[k] # Absent /\ records[k].state = "processing"

\* MemoryDedupStore.Claim: the existing record still answers.
Held(k) ==
    /\ records[k] # Absent
    /\ \/ records[k].state = "processing"
       \/ clock < records[k].expiresAt

\* MemoryDedupStore.Claim finds a live record.
ClaimFindsRecord(c) ==
    LET rec == records[req[c].key]
    IN  /\ Return(c, "claim")
        /\ Held(req[c].key)
        /\ \/ /\ rec.content # req[c].content
              /\ Answer(c, "bad_request")
              /\ UNCHANGED flightAck
           \/ /\ rec.content = req[c].content
              /\ rec.state = "completed"
              /\ flightAck' = [flightAck EXCEPT ![c] = TRUE]
              /\ Answer(c, "ack")
           \/ /\ rec.content = req[c].content
              /\ rec.state = "processing"
              /\ Answer(c, "internal")
              /\ UNCHANGED flightAck
        /\ Goto(c, "finish")
        /\ UNCHANGED <<clock, expiresAt, records, flights, req, now, parent,
                       flight, app>>

\* Mutant: the record is stored without its retention deadline.
MutRecordNoTTL(status, content) == [state |-> status, content |-> content]

\* memoryDedupEntry: both Claim and Complete restart the retention clock.
Record(status, content) ==
    [state |-> status, content |-> content, expiresAt |-> clock + DedupTTL]

\* MemoryDedupStore.Claim binds the identity to this content; an expired
\* COMPLETED record is deleted first.
ClaimGranted(c) ==
    /\ Return(c, "claim")
    /\ ~Held(req[c].key)
    /\ records' = [records EXCEPT ![req[c].key] =
                      Record("processing", req[c].content)]
    /\ Goto(c, "afterClaim")
    /\ UNCHANGED <<clock, expiresAt, flights, req, now, parent, flight,
                   flightAck, reply, app>>

\* The failure injector lets the handler continue.
InjectorPasses(c) ==
    /\ \/ Return(c, "afterClaim") /\ Goto(c, "app") /\ UNCHANGED reply
       \/ Return(c, "afterApp") /\ Goto(c, "complete") /\ UNCHANGED reply
       \/ Return(c, "afterComplete") /\ Goto(c, "finish") /\ Answer(c, "ack")
    /\ UNCHANGED <<clock, expiresAt, records, flights, req, now, parent,
                   flight, flightAck, app>>

\* HandleSend returned nil.
AppSucceeds(c) ==
    /\ Return(c, "app")
    /\ app' = [app EXCEPT ![c] = "ok"]
    /\ Goto(c, "afterApp")
    /\ UNCHANGED <<clock, expiresAt, records, flights, req, now, parent,
                   flight, flightAck, reply>>

\* HandleSend returned an error: the claim stays PROCESSING.
AppFails(c) ==
    /\ Return(c, "app")
    /\ app' = [app EXCEPT ![c] = "failed"]
    /\ Answer(c, "internal")
    /\ Goto(c, "finish")
    /\ UNCHANGED <<clock, expiresAt, records, flights, req, now, parent,
                   flight, flightAck>>

\* MemoryDedupStore.Complete, then setFlightACK.  Complete would refuse a
\* record that is not PROCESSING.
CompleteReturns(c) ==
    LET k == req[c].key
    IN  /\ Return(c, "complete")
        /\ records[k].state = "processing"
        /\ records' = [records EXCEPT ![k] =
                          Record("completed", records[k].content)]
        /\ flightAck' = [flightAck EXCEPT ![c] = TRUE]
        /\ Goto(c, "afterComplete")
        /\ UNCHANGED <<clock, expiresAt, flights, req, now, parent, flight,
                       reply, app>>

\* The deferred finishFlight: forget the flight and release its followers.
FinishFlight(c) ==
    /\ pc[c] = "finish"
    /\ flights' = [flights EXCEPT ![req[c].key] = NoCall]
    /\ Goto(c, "done")
    /\ UNCHANGED <<clock, expiresAt, records, req, now, parent, flight,
                   callback, flightAck, reply, app>>

\* MemoryDedupStore.Abort, used the way the store's contract allows it: the
\* claim's owner is gone and the application is known not to have run.
Abort(k) ==
    /\ records[k].state = "processing"
    /\ flights[k] = NoCall
    /\ \A c \in Calls : req[c].key = k => app[c] = "none"
    /\ records' = [records EXCEPT ![k] = Absent]
    /\ UNCHANGED <<clock, expiresAt, flights, req, pc, now, parent, flight,
                   callback, flightAck, reply, app>>

-----------------------------------------------------------------------------

\* What a handler, its callbacks included, does on its own.
Step(c) ==
    \/ AcquireFlight(c)
    \/ Peek(c)
    \/ WaitForOriginal(c)
    \/ BeginCallback(c)
    \/ CallbackFails(c)
    \/ LookupReturns(c)
    \/ ClaimFindsRecord(c)
    \/ ClaimGranted(c)
    \/ InjectorPasses(c)
    \/ AppSucceeds(c)
    \/ AppFails(c)
    \/ CompleteReturns(c)
    \/ FinishFlight(c)

Next ==
    \/ Tick
    \/ \E s \in Sessions : CreateSession(s)
    \/ \E c \in Calls, p \in Calls \cup {NoCall} : Arrive(c, p)
    \/ \E c \in Calls : Step(c)
    \/ \E c \in Calls : WaitCancelled(c)
    \/ \E k \in Keys : Abort(k)

Spec == Init /\ [][Next]_vars

\* Go schedules every runnable goroutine, and the dependencies' callbacks
\* return.  Nothing is assumed of clients, the clock or cancellation.
Fairness == \A c \in Calls : WF_vars(Step(c))

FairSpec == Spec /\ Fairness

-----------------------------------------------------------------------------
(* Properties.                                                             *)

\* A SEND identity reaches ApplicationHandler.HandleSend at most once, whatever
\* the retries, concurrent handlers, callback failures and elapsed time: no
\* two calls of one (session, message) both executed the application.
AtMostOnce ==
    \A c, d \in Calls :
        /\ app[c] # "none"
        /\ app[d] # "none"
        /\ req[c].key = req[d].key
        => c = d

\* An ACK, whether from the leader, the stored record or a joined flight, is
\* only ever given to a call whose identity and content the application has
\* accepted.
AckMeansApplied ==
    \A c \in Calls :
        reply[c] = "ack" => \E d \in Calls : app[d] = "ok" /\ req[d] = req[c]

\* A COMPLETED record is final: no later Claim deletes or rebinds it, however
\* late the retry that meets it.
CompletedIsFinal ==
    [][\A k \in Keys : records[k].state = "completed"
                            => records'[k] = records[k]]_vars

\* Every SEND handler returns, also when callbacks submit further SENDs of the
\* same or of each other's identity: no cycle of handlers waiting for flights.
EveryCallReturns ==
    \A c \in Calls : pc[c] # "idle" ~> pc[c] = "done"

=============================================================================
