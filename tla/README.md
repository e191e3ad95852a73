# kmtproto: TLA+ models and proofs

kmtproto is a transport-independent chat synchronisation protocol in Go: a
client state machine, a server frame processor, an admission gate per
connection, process-local stores, and an outbound queue with a single writer.
This directory holds TLA+ modules of its stateful parts, TLC configurations
that check them on small instances, and TLAPS proofs for any instance.
`PROJECT.json` lists components, runs, the code behind every definition,
known hazards and theorems.

## The system and its parts

| Part | Code | Module |
|---|---|---|
| SEND handling: flights, callbacks, dedup store | `server.go` 481-588, 861-915; `store.go` 125-204 | `SendDedup`, proofs in `SendDedupProofs` |
| Client state machine | `client.go` | `ClientProtocol`, its invariant in `ClientInvariants`, proofs in `ClientProtocolProofs` |
| State versions and cache accounting | `state.go` 194-222; `client.go` 542-582 | `StateMerge` (used by `ClientProtocol`) |
| Equality of State data | `state.go` 294-402 | `StateData` (used by `StateMerge`) |
| Capability negotiation | `capability.go` 113-321; `state.go` 14-46 | `Negotiation` (used by `ClientProtocol` and `EventSync`) |
| Admission gate | `server.go` 1002-1194 | `ServerAdmission`, proofs in `ServerConnectionProofs` |
| Outbound queue and writer | `outbound.go` | `OutboundQueue`, abstract `OutboundFifo`, proofs in `ServerConnectionProofs` |
| Replay store | `store.go` 244-346 | `ReplayStore` (used by `EventSync`) |
| Session repository | `store.go` 206-242 | inside `SendDedup` and `EventSync` |
| HELLO, RESUME, PublishEvent with client and connections | `server.go` 337-385, 426-462, 590-769 | `EventSync`, abstract `EventStream`, invariants in `SyncInvariants` and `ConnectionInvariants`, proofs in `EventLogProofs`, `EventSyncProofs`, `AnswerProofs`, `ConnectionProofs`, theorems in `SystemProofs` |
| State query and State publication with client and connections | `server.go` 253-335, 389-424 | `StateSync` |
| Snapshot accumulator | `state.go` 229-285 | `StateSnapshot` (used by `EventSync` and `StateSync`) |
| Stream lanes | `server.go` 917-993 | `StreamLane`, proofs in `ServerConnectionProofs` |
| Validation, codec, IDs, example | `validate.go`, `json_codec.go`, `id.go`, ... | not modelled: stateless |

How they interact.  A connection's reader passes each frame to
`ServerAdmission.Handle`, which checks it under a mutex, releases the mutex,
lets `ServerProtocol` process the frame, and applies the result under the mutex
again.  SEND handlers of one identity meet in a *flight*; RESUME and
publication for one Session are serialised by a *stream lane*.  Both answer
through the connection's `OutboundQueue`, drained by one `SingleWriter`.  The
client's methods hold one mutex throughout and return actions for their
caller.

## Modules

**SendDedup.**  One process per call of `handleSend`.  Its program counter walks
through the flight table, the callbacks (`lookup`, `claim`, three failure
injectors, `app`, `complete`) and `finishFlight`.  Each callback is two steps,
so other handlers run in between, and a callback may submit further SENDs
(`parent`).  Any callback may fail.  A clock moves freely except that at most
`MaxDelay` ticks pass between a handler's clock sample and its `Claim`: the
module names this delay because the guarantee depends on it.  `app` is a
history of Application executions.

**ClientProtocol / StateMerge.**  One action per exported method and one
`HandleIncoming` with a handler per frame type.  Its peer is arbitrary:
`Frames` holds every frame that passes validation, plus one that does not.
`delivered` is the history of EVENTs given to the Application.  Sequence
arithmetic wraps at `MaxSeq`, which stands for `math.MaxUint64`.

**Negotiation, StateData, StateSnapshot.**  The pure algorithms, as operators.
`Negotiation` has both sides of the capability exchange: `Negotiate` with its
descending search for the highest common version, and the client's check of
the answer with its binary search.  Names are numbers, because the code only
compares them; their syntax is left out.  `StateData` keeps of a JSON number
what `normalizeStateJSONNumber` looks at (sign, digits before and after the
point, exponent); other scalars are tokens, arrays and objects hold scalars.
`StateSnapshot` is the accumulator that refuses an object beyond the object or
byte limit.

**ServerAdmission.**  `Handlers` are concurrent calls of `Handle`; a call has a
step for admission, one for processing (any result `processFrame` can return
for that frame type) and one for `applyResult`.  `Replace` may happen between
any two of them.

**OutboundQueue / OutboundFifo.**  `EnqueueBatch` and `Close` are two steps: the
locked change and the later non-blocking send on the one-slot wake channel.
`Next` examines the queue in one step and waits for the channel in another.
`OutboundFifo` is the abstract queue: whole batches in, single frames out.

**ReplayStore.**  The four maps of `MemoryReplayStore` as one record per Session.
`Replay` is a function to an error or a range.

**EventSync / EventStream.**  `EventSync` extends `ClientProtocol` with the server
side of the EVENT stream: one gate and one serial reader per connection,
`handleHello`, `handleResume` in up to five steps (admission and Lookup; entering
the lane and `CurrentSeq`; `Replay`; the provider's State snapshot when the
client asked for one, and the batch; `applyResult`), `PublishEvent` to
the queue of any connection that made the Session READY (a stale one
included), pruning, and Session expiry.

A request that reaches the lane while one of the Session's callbacks runs is not
queued but refused with `ErrStreamCallbackActive`.  The callback may be that of a
request on another connection, or of `PublishEvent`, `PublishStateUpdate` or a
query (`server.go` 352, 364, 400), so `RefuseLane` may happen at any time.
Publications are therefore single steps: of the operations that arrive during
their callbacks, those that are refused take `RefuseLane`, and those that are queued
run after them, which is the order of the steps.  Both publications sample the
clock before they wait for the lane and look the Session up with that sample, so
they may succeed for a Session that has expired since.  A queue closed between
Append and enqueue is one closed before both: the Append does not depend on it.

What the caller of `Handle` does with an error is not in the repository.  The model
assumes that it never goes on to the next frame as if nothing had happened.  It
ends the connection (the reader becomes `Stopped`), or, after
`ErrStreamCallbackActive`, hands the same frame to `Handle` again, as
`server.go:90-92` and `docs/protocol-v0.2.md:308-311` allow.  A RESUME refused on a
connection that was READY cannot be retried on it: its gate was RESUMING, and
`applyResult` closes it.

Connections keep order and lose frames only by ending.
Frames refused by the gate are the subject of `ServerAdmission`; here `RequestsAdmitted`
shows that this client's requests are never refused.  `EventStream` is the
promise: an append-only log per Session, of which the Application has received
a prefix.

**StateSync.**  Extends `EventSync` with the client's `QueryState`, the server's
`handleStateQuery` (one step per object it reads, any of which may fail),
`PublishStateUpdate` of any version committed so far, and an Application that
commits State at any time.  The StateStore and the snapshot provider belong to
the Application: modelled is what their interface comments in `store.go` demand,
that Get returns the newest version and a provider's snapshot is taken at one
instant.  The lane refuses a query, and the caller retries it, by `RefuseLane`.  A
gate that refuses a query is not modelled: within the bounds it happens only behind
an ERROR that closes the connection.  `MCStateSync` adds the history `asked`, the versions committed when the
client sent each request, to every action.

**StreamLane.**  One process per call of `runStream`, with nested calls from
callbacks.  The goroutine that finds the lane idle executes everybody's
operations; lanes are objects that can be deleted and made anew.

Loops of the code (over the EVENTs of a replay, the objects of a State frame, a
log to prune) are recursive functions of the number of turns or, where the code
searches, the index the search stops at, so that proofs can reason about them.

Definitions named `Mut...` are faulty variants, used to confirm that each
property can fail.

## Runs

| Run | Configuration | Shows |
|---|---|---|
| `send_dedup` | `SendDedupSafety` | `AtMostOnce`, `AckMeansApplied`, `CompletedIsFinal`, when records outlive the Session by `MaxDelay` |
| `send_liveness` | `SendDedupLiveness` | every handler returns, nested SENDs included |
| `send_default_ttl` | `SendDedupDefaultTTL` | with `DedupTTL = SessionResumeTTL` a SEND executes twice (expected violation) |
| `client_events` | `ClientEvents` | ordered exactly-once delivery, identity window, heartbeat, clean Session start, all-or-nothing replay; `NegotiationAgrees` compares the negotiation with its definition over all small offers and registries |
| `client_state` | `ClientState` | State versions never regress, cache accounting at its limits; `NumbersCompareByValue` compares the normal form of 120 number literals with their values |
| `admission` | `Admission` | handshake first, capabilities belong to the Session, CLOSED is final |
| `admission_resume` | `AdmissionResume` | an unrelated result closes a RESUMING gate (expected violation) |
| `admission_hello` | `AdmissionHello` | two HELLOs processed at once (expected violation) |
| `outbound_queue` | `OutboundQueue` | refinement of the FIFO, no lost wake-up, Close ends the writer after the last frame |
| `event_sync` | `EventSyncSafety` | client and server implement `EventStream`; the store is exact; requests are admitted; a full resync happens only on demand; every replay reaches the EVENT published last; no RESUME is left without an answer to come |
| `state_sync` | `StateSync` | the answer to a query is accepted, no query or Resume is forgotten, snapshots are at least as new as the request, Resume with State never needs a full resync of the client's own making |
| `stream_lane` | `StreamLane` | mutual exclusion per Session, lane lifetime, no deadlock |

### Bounds

- `SendDedup*`: three handlers are enough for a leader, a follower and a nested
  or late SEND; the clock runs past Session expiry and record expiry.  A leader
  waits for its caller's identity, or for one that waits for it, through nesting;
  two independent leaders, each with a callback that waits for the other, would
  need four handlers.
- `ClientEvents`: five sequence numbers with an identity window of two and three
  connections reach duplicates inside and outside the window, gaps, replays
  above the limit, and the last sequence number.  `ClientState` has three State
  identities in two namespaces and limits that a batch can cross half way.
- `Admission`: three concurrent calls (the two of each race and a bystander), two
  Sessions, two generations; calls and Sessions are symmetric.
- `OutboundQueue`: three producers, batches of one and of three frames.
- `EventSyncSafety`: two Sessions and two connections, so that a Session is resumed,
  or abandoned and followed by another, with a stale connection to publish on;
  pruning; Resumes with and without the State of a namespace, whose snapshot is
  empty.  Four EVENTs: one lost with the stale connection, one that shows the
  gap, one live before the replay and superseded by it, one live behind it.
  EVENT identities and Sessions are symmetric.
- `StateSync`: one Session on two connections, two objects, two commits in all,
  and room for one object in a snapshot: enough for a commit between two reads
  of one query, for an update that would overtake a snapshot, for a snapshot
  over its limit, and for a Resume with State beside a query of the old
  connection.  It has no EVENTs (see below).
- `StreamLane`: four calls on two Sessions, the fewest with which two callbacks
  could wait for each other's lane.

### Fairness and progress

`send_liveness`, `outbound_queue` and `stream_lane` assume weak fairness only, for
goroutines that can run: handlers and callbacks return (`SendDedup`,
`StreamLane`), producers finish the calls they began and the writer runs
(`OutboundQueue`).  Nothing is assumed of the clock or of cancellation.

In the compositions the client may always disconnect, so that progress is
stated without fairness, as what the client waits for: `NoResumeForgotten` and
`NoQueryForgotten` say that a request without an answer is still on its way, is
being handled, has its answer on the way back, or that `Handle` returned an
error and the caller gave the connection up (see EventSync above for what is
assumed of the caller).  Their substance is that the handlers themselves return
without an error only when a frame answers the request.  `ReplayReachesLatest` says that the EVENTs a
client discards after a gap are in the replay it is promised.

`FullSyncOnlyOnDemand` is checked for EVENTs with Resumes that ask for State, and
for queries and updates without EVENTs.  It does not hold for all of them
together: a STATE_SNAPSHOT, STATE_UPDATE, ACK or PONG in flight
when a gap makes the client resume on the same connection is a frame it does not
expect while RESUMING, and `HandleIncoming` then ends the Resume with
FullSyncRequired.

### Disagreements with the documentation

1. `server.go:482`: the Session check uses a clock sample taken before `Claim`
   takes its own.  With the default `DedupTTL = SessionResumeTTL`, which
   `NewServerProtocol` accepts, a delayed retry executes the Application again;
   `docs/protocol-v0.2.md:170-171` says it never does.  Retention of
   `SessionResumeTTL` plus the longest delay repairs this, and is proved to.
2. `server.go:1188`: while RESUMING, the empty result of any other frame counts
   as a failed RESUME; `docs/protocol-v0.2.md:149-151` ties the outcome to the
   RESUME.  It needs two concurrent `Handle` calls on one connection.
3. `server.go:1167`: any result clears the handshake flag, so an invalid frame
   handled beside a HELLO admits a second HELLO;
   `docs/protocol-v0.2-implementation-plan.md:380-381` requires a fence.

## Proofs

All proofs are for any values of the constants that satisfy the named
assumptions of the modules, which state what the constructors enforce.

### SEND

`SendDedupProofs` proves, for any sets of calls, Sessions, messages and contents
and any bounds:

- `TypeCorrect`: `Spec => []TypeOK`;
- `AckSound`: `Spec => []AckMeansApplied`;
- `SendAtMostOnce` and `CompletedStays`: `AtMostOnce` and `CompletedIsFinal`,
  assuming `DedupTTL >= SessionResumeTTL + MaxDelay`.

`AtMostOnce` is not inductive by itself.  The proof uses four layers.  `OwnInv`:
a call past `acquireFlight` is the one the flight table names, so an identity
has one leader, and between `Claim` and `Complete` it owns a PROCESSING record
of its content.  `AckInv`: a flight or a COMPLETED record that holds an ACK has
a successful execution of that identity and content behind it.  `TimeInv`: a
clock sample is at most `MaxDelay` old until `Claim`, a handler at `Claim` had a
live Session at its sample, and a COMPLETED record outlives its Session by at
least `DedupTTL - SessionResumeTTL`.  `OnceInv`: an executed identity keeps a
record, and a handler about to execute is the first.  Together: a handler that
reaches `Claim` still finds the COMPLETED record, because its Session was alive
no more than `MaxDelay` ago.
This last fact is the lemma `GrantedIsFresh`.
`AckFrame` and `OnceFrame` reduce the preservation of
`AckInv` and `OnceInv` to the effects of one handler's step (`AckStep`,
`OnceStep`), so each action's case only speaks of the call that moves.
Constant assumptions are the named ones of `SendDedup`; `DedupTTL >=
SessionResumeTTL` is what `NewServerProtocol` enforces.

### Outbound queue

`QueueImplementsFifo` proves the refinement of `OutboundFifo`, with `QueueInit` and each
action mapped to a step or a stutter.  `WriterIsWoken` proves `WakePending`: while
the writer waits on the channel and the queue has a frame or is closed, the
token is in the channel or a producer is about to send it.  It is the safety
half of "no lost wake-up", and inductive as it stands.

### Admission gate

`HandshakeFirst`, `CapabilitiesFollowSession` and `ClosedStaysClosed` rest on `GateInv`:
a READY or RESUMING gate names a Session that a handshake of its current
generation established.  Without it a late result could be believed to belong
to the connection that replaced its own.

### Stream lanes

`OperationsAreSerial` and `LanesAreReleased` rest on `LaneInv`: the table maps a
Session to a lane made for it (`MapInv`), a lane's count is the number of calls
between entering and leaving `runStream` (`CountInv`), a lane has one runner
exactly while it runs (`RunInv`), a queued call waits and is queued once
(`QueueInv`), and a lane executes one operation at a time, for its runner
(`ExecInv`).
The count is what makes deletion safe: a call that holds the lane is counted, so
the table keeps it.

### Loops

The library's induction theorems take the property as an operator, which the
provers do not instantiate.  The first part of `ClientProtocolProofs` states
induction over a *set* instead (`SetInduction`, from the well-foundedness of `<`
on the naturals).  From it follow `LoopExists`, that a recursive function over
`0..n` exists, and `LoopStays`, that what its step preserves holds at its end.
The step is a function, so both can be instantiated.  The same part has the
facts about sums over finite sets.

### Client

`ClientInvariant` proves `ClientInv` against any peer; its parts are

- `StreamInv`: the replay buffer continues the delivered EVENTs, a complete replay
  ends at `replayTo`, there is no recovery outside RESUMING, and the identities
  kept are those of the newest `EventIdentityWindow` EVENTs.  `EventsInOrder`,
  `ReplayIsAtomic` and `WindowIsExact` rest on it.  The last one needs what the
  loop over a replay does to the window: every turn moves it by one.
- `SessionInv`: what each state implies for Session and heartbeat
  (`HeartbeatIsSound`, `SessionsDoNotLeak`).
- `CacheInv`: the cache and its byte count, for State frames of `Frames`, which hold
  at most two objects (the lemmas about a step allow any number).  `StateIsAccounted` and
  `StateIsMonotone` follow from one lemma about a turn of
  `applyStateObjectsLocked`: the sum over the cache changes by the size of the new
  object less that of the replaced one, and no version decreases.
- `PendingInv`: what is pending.  `TypesHold` takes the types from all four.

Beyond `ClientAssumption` the proofs assume `MergeAssumption`: sizes and limits
are numbers.

### Client and server together

`SyncInvariant` proves `SyncInv` for any number of Sessions, connections and
EVENTs, of `StateSpec`, the composition with State queries, commits and updates.
`SyncSpec`, the composition without them, is the special case where none is made
(lemma `SyncIsStateSync`), so what is proved of `StateSpec` holds of both.  `SyncInv`
joins `ClientInv` to what server and network guarantee:

- `StoreInv`: the events of the store are those of the published log from the
  floor on, and its current sequence is the length of the log;
- `ReaderInv`: a reader between `CurrentSeq` and its answer holds the lane of its
  Session, its `replayTo` is the length of the log, and what it has collected so
  far is part of the log.  Publication needs the lane, so the log cannot grow in
  between;
- `FrameInv`: an EVENT in transit is the one published under its sequence;
- `StreamAgrees`: delivered and buffered EVENTs are a piece of the log of the
  client's Session, from its first EVENT;
- `RequestInv`, `ServerInv`, `CommitInv`: types of requests, gates and State.

`StreamIsImplemented` is the refinement of `EventStream`: with `StreamAgrees` before
and after a step, the step publishes one EVENT, receives EVENTs that follow those
received, begins or gives up a Session, or stutters.  `ReplaysAreComplete`,
`SuffixIsRetained` and `SyncTypesHold` follow from the same invariant.
`EventLogProofs` has the facts about sequences, logs and readers they need
(appending and pruning keep the suffix exact, `Replay` returns EVENTs of the log),
`EventSyncProofs` a lemma for each step of the server, `SystemProofs` those for the
steps of the client and the theorems.

`AnswerProofs` (the readers) and `ConnectionProofs` (the other steps) prove what
`RequestsAreAdmitted` and `ResumesAreAnswered` in `SystemProofs` rest on.  They are
about `SyncSpec`: with State queries a connection carries more than one request.
Neither property is inductive: whether a gate admits a request depends on `applyResult`
of the request before it, which the reader may still have to call when the
client, having read the WELCOME, sends the next.  `ConnInv` therefore follows a
request to its answer.  A connection the client has not used is fresh
(`FreshInv`).  At most one request is in transit on a connection, and the gate
admits it as soon as the reader is idle (`TransitInv`).  While the reader has not
entered the lane, the gate would admit its request a second time, unless it is
RESUMING and closes when the lane refuses (`HandledInv`, for the retry).  While a WELCOME is in
transit, or the client has seen it, the reader has nothing left to do but
`applyResult` with that Session (`WelcomeInv`, `ReadyInv`), and the EVENT
`replay_to` and the snapshot it promises are behind it (`BatchInv` while the
batch is being put together).  So a RESUMING client always has something to wait
for (`ResumeInv`).

The server's assumptions are `ServerAssumption` (limits are numbers, the registry
holds what the package implements), `SnapshotAssumption` and `LimitsAssumption`
(an empty snapshot is within its limits), beside those of the client.

### Only model-checked

- Liveness under fairness (`EveryCallReturns`, `EveryFrameLeaves`,
  `CloseEndsWriter`): not supported by the prover.
- `FullSyncOnlyOnDemand`: it needs, besides `ConnInv`, the order of all EVENTs in
  transit, live ones between a gap and the replay included.
- `NoQueryForgotten`, `SnapshotsAccepted` and `SnapshotsAreFresh`, the properties of
  the State query in `StateSync`.
- `NegotiationAgrees` and `NumbersCompareByValue`: two searches and a normal form
  compared with their definitions over the enumerated inputs.

## Not modelled

- SEND, ACK and heartbeat frames are not composed with the EVENT stream; each is
  modelled in its own module.  An EVENT that meets a SUSPECT client, and an ACK or
  PONG that meets a RESUMING one, are listed as hazards.
- One consumer of `OutboundQueue`, as `SingleWriter` has.
- Failures of the replay store's callbacks other than its two named errors: the
  memory store has none.
- Frame validation (`validate.go`, `limits.go`, the syntax of capability names),
  JSON encoding, ID generation, the clock interface and the example program.
  They hold no state; the models take their results as given.
