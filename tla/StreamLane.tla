----------------------------- MODULE StreamLane -----------------------------
(***************************************************************************)
(* The per-Session stream lane of ServerProtocol: runStream finds or makes *)
(* the lane, run queues the operation, and the first caller executes the   *)
(* queue for all of them.  An operation calls out to stores and providers  *)
(* through invokeCallback, and such a callback may call runStream again,   *)
(* for the same Session or for another.                                    *)
(*                                                                         *)
(* Calls of runStream are numbered in the order they are made, and a lane  *)
(* object is named by the call that made it.                               *)
(***************************************************************************)
EXTENDS Naturals, Sequences, FiniteSets

CONSTANTS
    MaxCalls,        \* bound: calls of runStream
    MaxCallbacks,    \* bound: callbacks of one operation
    Streams          \* Session IDs

ASSUME LaneAssumption == MaxCalls \in Nat /\ MaxCallbacks \in Nat

Calls == 1..MaxCalls

NoCall == 0

VARIABLES
    lanes,    \* ServerProtocol.lanes: [Sessions -> a lane or NoCall]
    lane,     \* [Calls -> the fields of the lane it made]
    call,     \* [Calls -> where runStream and run are]
    op        \* [Calls -> where its operation fn is]

laneVars == <<lanes, lane, call, op>>

NewLane == [users |-> 0, queue |-> <<>>, running |-> FALSE,
            callbackActive |-> FALSE]

Unused == [pc |-> "unused"]

Returned == [pc |-> "returned"]

Calling(pc, s, l, parent) ==
    [pc |-> pc, session |-> s, lane |-> l, parent |-> parent]

LaneTypeOK ==
    /\ lanes \in [Streams -> Calls \cup {NoCall}]
    /\ lane \in [Calls -> [users : Nat, queue : Seq(Calls),
                           running : BOOLEAN, callbackActive : BOOLEAN]]
    /\ call \in [Calls -> {Unused, Returned} \cup
          [pc : {"enter", "wait", "drain", "execute", "leave"},
           session : Streams, lane : Calls, parent : Calls \cup {NoCall}]]
    /\ op \in [Calls -> [at : {"new", "body", "callback", "done"},
                         callbacks : 0..MaxCallbacks]]

LaneInit ==
    /\ lanes = [s \in Streams |-> NoCall]
    /\ lane = [c \in Calls |-> NewLane]
    /\ call = [c \in Calls |-> Unused]
    /\ op = [c \in Calls |-> [at |-> "new", callbacks |-> 0]]

-----------------------------------------------------------------------------

InProgress(c) == call[c] \notin {Unused, Returned}

\* parent's callback is inside a nested call of runStream.
Nesting(parent) == \E c \in Calls : InProgress(c) /\ call[c].parent = parent

\* Mutant: a caller that finds a lane does not count itself.
MutUsers(l) == IF lane[l].users = 0 THEN 1 ELSE lane[l].users

Users(l) == lane[l].users + 1

\* runStream up to lane.run, called by a goroutine of its own (NoCall) or by
\* the callback of the operation parent.
RunStream(c, s, parent) ==
    LET l == IF lanes[s] = NoCall THEN c ELSE lanes[s]
    IN  /\ call[c] = Unused /\ \A d \in 1..c-1 : call[d] # Unused
        /\ parent # NoCall => op[parent].at = "callback" /\ ~Nesting(parent)
        /\ lanes' = [lanes EXCEPT ![s] = l]
        /\ lane' = [lane EXCEPT ![l].users = Users(l)]
        /\ call' = [call EXCEPT ![c] = Calling("enter", s, l, parent)]
        /\ UNCHANGED op

\* Mutant: a call made while a callback is active is queued.
MutRefuses(l) == FALSE

\* ErrStreamCallbackActive.
Refuses(l) == lane[l].callbackActive

\* run, up to the first unlock.
Enter(c) ==
    LET l == call[c].lane
    IN  /\ call[c].pc = "enter"
        /\ \/ /\ Refuses(l)
              /\ call' = [call EXCEPT ![c].pc = "leave"]
              /\ UNCHANGED lane
           \/ /\ ~Refuses(l)
              /\ call' = [call EXCEPT
                     ![c].pc = IF lane[l].running THEN "wait" ELSE "drain"]
              /\ lane' = [lane EXCEPT ![l].queue = Append(@, c),
                                      ![l].running = TRUE]
        /\ UNCHANGED <<lanes, op>>

\* The runner takes the next operation, or ends with an empty queue.
Drain(c) ==
    LET l == call[c].lane
    IN  /\ call[c].pc = "drain"
        /\ \/ /\ lane[l].queue = <<>>
              /\ lane' = [lane EXCEPT ![l].running = FALSE]
              /\ call' = [call EXCEPT ![c].pc = "leave"]
              /\ UNCHANGED op
           \/ /\ lane[l].queue # <<>>
              /\ lane' = [lane EXCEPT ![l].queue = Tail(@)]
              /\ call' = [call EXCEPT ![c].pc = "execute"]
              /\ op' = [op EXCEPT ![Head(lane[l].queue)].at = "body"]
        /\ UNCHANGED lanes

\* invokeCallback marks the lane, runs the callback and unmarks the lane.
StartCallback(o) ==
    LET l == call[o].lane
    IN  /\ op[o].at = "body"
        /\ op[o].callbacks < MaxCallbacks
        /\ ~lane[l].callbackActive
        /\ lane' = [lane EXCEPT ![l].callbackActive = TRUE]
        /\ op' = [op EXCEPT ![o].at = "callback", ![o].callbacks = @ + 1]
        /\ UNCHANGED <<lanes, call>>

EndCallback(o) ==
    /\ op[o].at = "callback"
    /\ ~Nesting(o)
    /\ lane' = [lane EXCEPT ![call[o].lane].callbackActive = FALSE]
    /\ op' = [op EXCEPT ![o].at = "body"]
    /\ UNCHANGED <<lanes, call>>

\* The operation returns or panics, its result is sent on done and the
\* runner goes on.
EndOperation(o) ==
    /\ op[o].at = "body"
    /\ op' = [op EXCEPT ![o].at = "done"]
    /\ call' = [c \in Calls |->
           IF call[c].pc = "execute" /\ call[c].lane = call[o].lane
           THEN [call[c] EXCEPT !.pc = "drain"] ELSE call[c]]
    /\ UNCHANGED <<lanes, lane>>

\* A queued call receives its result.
Receive(c) ==
    /\ call[c].pc = "wait"
    /\ op[c].at = "done"
    /\ call' = [call EXCEPT ![c].pc = "leave"]
    /\ UNCHANGED <<lanes, lane, op>>

\* Mutant: every caller deletes the lane when it returns.
MutLastUser(l) == TRUE

\* Mutant: the count is tested before it is decremented.
MutNoUser(l) == lane[l].users = 0

LastUser(l) == lane[l].users = 1

\* The deferred function of runStream.
Leave(c) ==
    LET l == call[c].lane
        s == call[c].session
    IN  /\ call[c].pc = "leave"
        /\ lane' = [lane EXCEPT ![l].users = @ - 1]
        /\ lanes' = [lanes EXCEPT
               ![s] = IF LastUser(l) /\ @ = l THEN NoCall ELSE @]
        /\ call' = [call EXCEPT ![c] = Returned]
        /\ UNCHANGED op

\* Steps a scheduled goroutine takes, as opposed to new calls.
Progress(c) ==
    \/ Enter(c) \/ Drain(c) \/ EndCallback(c) \/ EndOperation(c)
    \/ Receive(c) \/ Leave(c)

LaneNext ==
    \E c \in Calls :
        \/ \E s \in Streams, parent \in Calls \cup {NoCall} :
              RunStream(c, s, parent)
        \/ StartCallback(c)
        \/ Progress(c)

LaneSpec ==
    /\ LaneInit /\ [][LaneNext]_laneVars
    /\ \A c \in Calls : WF_laneVars(Progress(c))

-----------------------------------------------------------------------------
(* Properties.                                                             *)

\* At most one operation of a Session executes at any moment, across the
\* creation and deletion of its lanes: replay capture, publication and their
\* enqueues are serialised.
OneOperationPerSession ==
    \A a, b \in Calls :
        /\ op[a].at \in {"body", "callback"}
        /\ op[b].at \in {"body", "callback"}
        /\ call[a].session = call[b].session
        => a = b

\* A lane is in the map exactly while some call uses it, and is idle when it
\* leaves: lanes of finished Sessions do not accumulate and no call holds a
\* lane that new calls cannot find.
LaneLivesWithItsUsers ==
    \A l \in Calls :
        LET users == {c \in Calls : InProgress(c) /\ call[c].lane = l}
        IN  /\ lane[l].users = Cardinality(users)
            /\ users # {} <=> \E s \in Streams : lanes[s] = l
            /\ users = {} => lane[l] = NewLane

\* All calls of runStream return, whatever callbacks nest in which lanes:
\* a lane in a callback refuses new calls, so callers never wait for each
\* other in a circle.
EveryCallReturns ==
    (\E c \in Calls : InProgress(c)) ~> (\A c \in Calls : ~InProgress(c))

=============================================================================
