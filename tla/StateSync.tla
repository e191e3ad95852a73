----------------------------- MODULE StateSync -----------------------------
(***************************************************************************)
(* State synchronisation on top of EventSync: the client's QueryState, the *)
(* server's handleStateQuery with one StateStore callback per object,      *)
(* PublishStateUpdate, and the Application that commits State while these  *)
(* run.  The StateStore is the Application's; what the code relies on is   *)
(* that versions of an object grow and Get returns the newest.             *)
(***************************************************************************)
EXTENDS EventSync

CONSTANTS
    HasStateStore,    \* ServerConfig.StateStore is set
    MaxCommits,       \* bound: commits to all objects together
    MaxInFlight       \* bound: frames in transit when an update is published

\* The limits admit an empty snapshot; with others no query is answered.
ASSUME LimitsAssumption == ~NewAccumulator.full

-----------------------------------------------------------------------------
(* STATE_QUERY.                                                            *)

ClientQueries(q, ids) ==
    /\ QueryState(q, ids)
    /\ Transmit
    /\ UNCHANGED <<toClient, serverVars>>

\* handleStateQuery samples the clock; Lookup uses that sample later, in the
\* lane.
ReceiveQuery(g) ==
    LET f == Head(toServer[g])
    IN  /\ reader[g] = Idle /\ toServer[g] # <<>>
        /\ f.type = "STATE_QUERY"
        /\ Admits(g, f)
        /\ reader' = [reader EXCEPT
               ![g] = [step |-> "query", session |-> f.session, id |-> f.id,
                       ids |-> f.ids, exists |-> f.session \in live]]
        /\ toServer' = [toServer EXCEPT ![g] = Tail(@)]
        /\ UNCHANGED <<clientVars, store, created, live, gate, lane, open,
                       logs, toClient>>

\* The ERROR names the query it answers.
QueryError(r, code, kind) ==
    Outcome(<<[ErrorFrame(r.session, code) EXCEPT !.ref = r.id]>>,
            Result(kind, NoSession))

\* The capabilities of every Session this client creates.
SessionStateSync == StateSyncEnabled(Negotiate(Registry, Offers).accepted)

\* The lane admits the query, Lookup returns, and the checks that follow it.
EnterQuery(g) ==
    LET r       == reader[g]
        refusal == CASE ~r.exists ->
                            QueryError(r, "INVALID_SESSION", "abandon")
                     [] r.exists /\ ~SessionStateSync ->
                            QueryError(r, "PROTOCOL_VIOLATION", "close")
                     [] OTHER -> QueryError(r, "INTERNAL", "none")
        admits  == r.exists /\ SessionStateSync /\ HasStateStore
    IN  /\ r.step = "query"
        /\ lane[r.session] = 0
        /\ \/ /\ ~admits
              /\ Finish(g, refusal)
              /\ UNCHANGED lane
           \/ /\ admits
              /\ lane' = [lane EXCEPT ![r.session] = g]
              /\ reader' = [reader EXCEPT
                     ![g] = [step |-> "get", session |-> r.session,
                             id |-> r.id, todo |-> r.ids,
                             acc |-> NewAccumulator]]
              /\ UNCHANGED <<open, toClient>>
        /\ UNCHANGED <<clientVars, store, created, live, gate, logs, toServer>>

\* StateStore.Get.
Get(i) == [identity |-> i,
           value |-> [version |-> Len(commits[i]), data |-> Last(commits[i])]]

\* One turn of the loop over the object IDs.
GetObject(g) ==
    LET r   == reader[g]
        i   == CHOOSE j \in r.todo : TRUE
        acc == IF commits[i] = <<>> THEN r.acc ELSE AddObject(r.acc, Get(i))
    IN  /\ r.step = "get" /\ r.todo # {}
        /\ \/ /\ acc.full
              /\ LeaveLane(g, QueryError(r, "BAD_REQUEST", "none"))
           \/ /\ ~acc.full
              /\ reader' = [reader EXCEPT
                     ![g].todo = @ \ {i}, ![g].acc = acc]
              /\ UNCHANGED <<lane, open, toClient>>
        /\ UNCHANGED <<clientVars, store, created, live, gate, logs, toServer>>

\* Get fails or returns an unusable object: the handler returns the error and
\* enqueues nothing.
GetFails(g) ==
    /\ reader[g].step = "get" /\ reader[g].todo # {}
    /\ reader' = [reader EXCEPT ![g] = HandlerFailed]
    /\ lane' = [lane EXCEPT ![reader[g].session] = 0]
    /\ UNCHANGED <<clientVars, store, created, live, gate, open, logs,
                   toServer, toClient>>

AnswerQuery(g) ==
    LET r == reader[g]
    IN  /\ r.step = "get" /\ r.todo = {}
        /\ LeaveLane(g, Outcome(<<SnapshotFrame(r.session, r.id,
                                                r.acc.objects)>>,
                                Result("none", NoSession)))
        /\ UNCHANGED <<clientVars, store, created, live, gate, logs, toServer>>

-----------------------------------------------------------------------------
(* The Application.                                                        *)

\* StateStore.Apply of the next version of object i.
CommitState(i, d) ==
    /\ Len(commits[i]) < MaxVersion
    /\ MapThenSumSet(LAMBDA j : Len(commits[j]), Identities) < MaxCommits
    /\ commits' = [commits EXCEPT ![i] = Append(@, d)]
    /\ UNCHANGED <<clientVars, store, created, live, gate, reader, lane, open,
                   published, toServer, toClient>>

UpdateFrame(s, i, version) ==
    [type |-> "STATE_UPDATE", session |-> s,
     objects |-> <<[identity |-> i,
                    value |-> [version |-> version,
                               data |-> commits[i][version]]]>>]

\* PublishStateUpdate of a version committed at some time before, to the queue
\* of any connection that made the Session READY.  It is in the lane from Lookup
\* to the enqueue: a RESUME or query that arrives during the callback is refused
\* (RefuseLane), one that arrives later waits.  Lookup uses a clock sample from
\* before the lane, so the Session may have expired since.
PublishStateUpdate(s, i, g) ==
    /\ LaneFree(s)
    /\ s \in created
    /\ SessionStateSync
    /\ gate[g].session = s
    /\ g \in open /\ Len(toClient) < MaxInFlight
    /\ \E version \in 1..Len(commits[i]) :
          Enqueue(g, <<UpdateFrame(s, i, version)>>)
    /\ UNCHANGED <<clientVars, serverVars, toServer>>

-----------------------------------------------------------------------------

QueryReader(g) ==
    \/ ReceiveQuery(g)
    \/ EnterQuery(g)
    \/ GetObject(g)
    \/ GetFails(g)
    \/ AnswerQuery(g)

StateNext ==
    \/ SyncNext
    \/ \E q \in Queries, ids \in SUBSET Identities :
          ids # {} /\ OneNamespace(ids) /\ ClientQueries(q, ids)
    \/ \E g \in Generations : QueryReader(g)
    \/ \E i \in Identities, d \in Data : CommitState(i, d)
    \/ \E s \in Sessions, i \in Identities, g \in Generations :
          PublishStateUpdate(s, i, g)

StateSpec == SyncInit /\ [][StateNext]_syncVars

-----------------------------------------------------------------------------
(* Properties.                                                             *)

\* The answer to a pending query is never refused: whatever is committed and
\* published while handleStateQuery reads one object after the other, no
\* update overtakes the snapshot that lacks it.
SnapshotsAccepted ==
    toClient # <<>> =>
        LET f == Head(toClient)
        IN  /\ state = "READY" /\ f.type = "STATE_SNAPSHOT"
            /\ f.id \in DOMAIN stateQueries
            => SnapshotExpected(f)

\* Frame f ends the query q of a READY client.
Ends(f, q) ==
    \/ f.type = "STATE_SNAPSHOT" /\ f.id = q
    \/ /\ f.type = "ERROR"
       /\ f.ref = q \/ ClosesConnection(f.code) \/ AbandonsSession(f.code)

\* No query is forgotten: while the client waits for one, it is on the way, the
\* server is handling it, what ends it is on the way back, or Handle has failed
\* and the connection is to end; the caller of Handle is as in
\* NoResumeForgotten.
NoQueryForgotten ==
    LET r == reader[generation]
    IN  \A q \in DOMAIN stateQueries :
           \/ \E f \in Range(toServer[generation]) :
                 f.type = "STATE_QUERY" /\ f.id = q
           \/ r.step \in {"query", "get"} /\ r.id = q
           \/ \E f \in Range(toClient) : Ends(f, q)
           \/ ConnectionFailed

=============================================================================
