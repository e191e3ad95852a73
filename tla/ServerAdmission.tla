-------------------------- MODULE ServerAdmission --------------------------
(***************************************************************************)
(* The per-connection admission gate of the server.  Handle checks a frame *)
(* under the gate's mutex, releases it, lets ServerProtocol process the    *)
(* frame and applies the result under the mutex again; Replace installs a  *)
(* new connection generation at any moment.  Handlers are the concurrent   *)
(* calls of Handle.  What ServerProtocol makes of a frame is any result it *)
(* can return for a frame of that type.                                    *)
(***************************************************************************)
EXTENDS Naturals

CONSTANTS
    Handlers,             \* concurrent calls of Handle
    Sessions, NoSession,  \* Session IDs and ""
    MaxGeneration         \* bound: connections accepted

ASSUME AdmissionAssumption ==
    NoSession \notin Sessions /\ MaxGeneration \in Nat

VARIABLES
    generation,    \* ConnectionGeneration
    open,          \* generations whose OutboundQueue is not closed
    state,         \* ServerAdmissionState
    sessionID,     \* the admitted Session or NoSession
    capabilities,  \* the Session whose capability set is installed
    handshake,     \* a HELLO or RESUME is being processed
    calls,         \* [Handlers -> the frame being processed, or Idle]
    established    \* history: [generation -> Sessions it made READY]

admissionVars == <<generation, open, state, sessionID, capabilities,
                   handshake, calls, established>>

Generations == 1..MaxGeneration

Traffic == {"PING", "SEND", "STATE_QUERY"}

\* INVALID is a frame ValidateFrame refuses, OTHER a type only servers send.
Frames ==
    [type : {"HELLO", "INVALID", "ERROR"}, session : {NoSession}]
    \cup [type : Traffic \cup {"RESUME", "ERROR", "OTHER"},
          session : Sessions]

NoResult == [kind |-> "none", session |-> NoSession]

Results == [kind : {"none", "close", "abandon"}, session : {NoSession}]
           \cup [kind : {"ready"}, session : Sessions]

Idle == [phase |-> "idle"]

HandleCalls ==
    [phase : {"process"}, gen : Generations, frame : Frames]
    \cup [phase : {"apply"}, gen : Generations, frame : Frames,
          result : Results]

TypeOK ==
    /\ generation \in 0..MaxGeneration
    /\ open \subseteq Generations
    /\ state \in {"CLOSED", "AWAITING_HANDSHAKE", "READY", "RESUMING"}
    /\ sessionID \in Sessions \cup {NoSession}
    /\ capabilities \in Sessions \cup {NoSession}
    /\ handshake \in BOOLEAN
    /\ calls \in [Handlers -> HandleCalls \cup {Idle}]
    /\ established \in [Generations -> SUBSET Sessions]

Init ==
    /\ generation = 0 /\ open = {}
    /\ state = "CLOSED" /\ sessionID = NoSession /\ capabilities = NoSession
    /\ handshake = FALSE
    /\ calls = [h \in Handlers |-> Idle]
    /\ established = [g \in Generations |-> {}]

-----------------------------------------------------------------------------

\* Replace: close the old queue and start a generation.
Replace ==
    /\ generation < MaxGeneration
    /\ generation' = generation + 1
    /\ open' = (open \ {generation}) \cup {generation'}
    /\ state' = "AWAITING_HANDSHAKE"
    /\ sessionID' = NoSession /\ capabilities' = NoSession
    /\ handshake' = FALSE
    /\ UNCHANGED <<calls, established>>

\* Mutant: a frame of another Session is admitted.
MutAllowed(f) ==
    \/ f.type = "ERROR"
    \/ /\ state = "AWAITING_HANDSHAKE" /\ ~handshake
       /\ f.type \in {"HELLO", "RESUME"}
    \/ state = "READY" /\ f.type \in Traffic \cup {"RESUME"}

\* Handle's admission rule.
Allowed(f) ==
    \/ f.type = "ERROR" /\ ~(state = "AWAITING_HANDSHAKE" /\ handshake)
                        /\ ~(state = "READY" /\ f.session # sessionID)
    \/ /\ state = "AWAITING_HANDSHAKE" /\ ~handshake
       /\ f.type \in {"HELLO", "RESUME"}
    \/ /\ state = "READY" /\ f.session = sessionID
       /\ f.type \in Traffic \cup {"RESUME"}

\* Mutant: the call does not remember its generation.
MutStart(h, g, f) ==
    calls' = [calls EXCEPT ![h] = [phase |-> "process", frame |-> f]]

\* Handle keeps generation, queue and frame while the mutex is released.
Start(h, g, f) ==
    calls' = [calls EXCEPT ![h] = [phase |-> "process", gen |-> g,
                                   frame |-> f]]

\* Handle refuses a frame: the gate closes and PROTOCOL_VIOLATION, which also
\* closes the queue, is the only answer.
Refuse(h, g, f) ==
    /\ calls[h] = Idle
    /\ g = generation /\ g > 0
    /\ state # "CLOSED"
    /\ f.type # "INVALID" /\ ~Allowed(f)
    /\ state' = "CLOSED" /\ capabilities' = NoSession /\ handshake' = FALSE
    /\ open' = open \ {g}
    /\ UNCHANGED <<generation, sessionID, calls, established>>

\* Handle lets ServerProtocol process the frame; an invalid frame is passed on
\* for its ERROR without touching the gate.
Admit(h, g, f) ==
    /\ calls[h] = Idle
    /\ g = generation /\ g > 0
    /\ state # "CLOSED"
    /\ \/ f.type = "INVALID" /\ UNCHANGED <<state, handshake>>
       \/ /\ f.type # "INVALID" /\ Allowed(f)
          /\ handshake' = (handshake \/ (/\ state = "AWAITING_HANDSHAKE"
                                         /\ f.type # "ERROR"))
          /\ state' = IF state = "READY" /\ f.type = "RESUME"
                      THEN "RESUMING" ELSE state
    /\ Start(h, g, f)
    /\ UNCHANGED <<generation, open, sessionID, capabilities, established>>

\* What processFrame can return for a frame; a panic anywhere below it, which
\* invokeServerProcess recovers, is a "close".
ResultsOf(f) ==
    [kind : {"close"}, session : {NoSession}] \cup
    CASE f.type = "HELLO"    -> {NoResult} \cup [kind : {"ready"},
                                                 session : Sessions]
      [] f.type = "RESUME"   -> [kind : {"none", "abandon"},
                                 session : {NoSession}]
                                \cup [kind : {"ready"}, session : {f.session}]
      [] f.type \in Traffic  -> [kind : {"none", "abandon"},
                                 session : {NoSession}]
      [] f.type = "INVALID"  -> {NoResult}
      [] OTHER               -> {}

\* processFrame returns; most closing results also close the queue.
Process(h, result) ==
    /\ calls[h].phase = "process"
    /\ result \in ResultsOf(calls[h].frame)
    /\ calls' = [calls EXCEPT ![h] = [phase |-> "apply", gen |-> @.gen,
                                      frame |-> @.frame, result |-> result]]
    /\ \/ UNCHANGED open
       \/ result.kind = "close" /\ open' = open \ {calls[h].gen}
    /\ UNCHANGED <<generation, state, sessionID, capabilities, handshake,
                   established>>

\* applyResult: the call's generation and queue are still the gate's.
Current(h) == calls[h].gen = generation

\* Mutant: a closed gate is opened again by a late result.
MutAccepts(h) == Current(h)

\* applyResult changes more than the handshake flag.
Accepts(h) == Current(h) /\ state # "CLOSED"

\* Mutant: a READY result does not install the capabilities.
MutInstall(newState, session) ==
    state' = newState /\ sessionID' = session /\ UNCHANGED capabilities

Install(newState, session) ==
    state' = newState /\ sessionID' = session /\ capabilities' = session

\* applyResult.
ApplyResult(h) ==
    LET r == calls[h].result
    IN  /\ calls[h].phase = "apply"
        /\ calls' = [calls EXCEPT ![h] = Idle]
        /\ handshake' = (handshake /\ ~Current(h))
        /\ \/ ~Accepts(h) /\ UNCHANGED <<state, sessionID, capabilities>>
           \/ /\ Accepts(h)
              /\ r.kind = "close" \/ (r.kind = "none" /\ state = "RESUMING")
              /\ state' = "CLOSED" /\ capabilities' = NoSession
              /\ UNCHANGED sessionID
           \/ /\ Accepts(h) /\ r.kind = "abandon"
              /\ Install("AWAITING_HANDSHAKE", NoSession)
           \/ /\ Accepts(h) /\ r.kind = "ready"
              /\ Install("READY", r.session)
           \/ /\ Accepts(h) /\ r.kind = "none" /\ state # "RESUMING"
              /\ UNCHANGED <<state, sessionID, capabilities>>
        /\ established' = IF r.kind = "ready"
                          THEN [established EXCEPT ![calls[h].gen] =
                                   @ \cup {r.session}]
                          ELSE established
        /\ UNCHANGED <<generation, open>>

Next ==
    \/ Replace
    \/ \E h \in Handlers, g \in Generations, f \in Frames :
          Refuse(h, g, f) \/ Admit(h, g, f)
    \/ \E h \in Handlers, r \in Results : Process(h, r)
    \/ \E h \in Handlers : ApplyResult(h)

Spec == Init /\ [][Next]_admissionVars

-----------------------------------------------------------------------------
(* Properties.                                                             *)

\* HELLO first, on every connection: PING, SEND and STATE_QUERY reach
\* ServerProtocol only for a Session that a HELLO or RESUME of the same
\* connection made READY; no Session of a replaced connection leaks into its
\* successor, however late the old handlers return.
TrafficNeedsHandshake ==
    \A h \in Handlers :
        /\ calls[h] # Idle
        /\ calls[h].frame.type \in Traffic
        => calls[h].frame.session \in established[calls[h].gen]

\* A READY or RESUMING gate holds a Session together with that Session's own
\* capabilities, and every other gate holds none.
CapabilitiesMatchSession ==
    IF state \in {"READY", "RESUMING"}
    THEN sessionID # NoSession /\ capabilities = sessionID
    ELSE capabilities = NoSession

\* A connection that was closed admits nothing more: only Replace, with a new
\* generation, leaves CLOSED.
ClosedIsFinal ==
    [][state = "CLOSED" /\ state' # "CLOSED"
          => generation' = generation + 1]_admissionVars

\* docs/protocol-v0.2.md:149, "Successful RESUME returns it to READY. A RESUME
\* without explicit success leaves that connection closed": the outcome of the
\* RESUME decides.  A result other than the RESUME's own that asks neither to
\* close nor to abandon, such as that of a SEND admitted before it, leaves a
\* RESUMING gate as it is.
OnlyResumeEndsResuming ==
    [][\A h \in Handlers :
          /\ state = "RESUMING"
          /\ calls[h].phase = "apply" /\ calls'[h] = Idle
          /\ calls[h].frame.type \in Traffic /\ calls[h].result = NoResult
          => state' = "RESUMING"]_admissionVars

\* docs/protocol-v0.2-implementation-plan.md:380, the gate "must internally
\* fence concurrent handshake work so only one HELLO can win": two HELLOs of
\* one connection are never processed at the same time.
OneHelloAtATime ==
    \A h, i \in Handlers :
        /\ calls[h].phase = "process" /\ calls[i].phase = "process"
        /\ calls[h].gen = calls[i].gen
        /\ calls[h].frame.type = "HELLO" /\ calls[i].frame.type = "HELLO"
        => h = i

=============================================================================
