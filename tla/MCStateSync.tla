---------------------------- MODULE MCStateSync ----------------------------
(***************************************************************************)
(* One Session with State on two connections, and a history of what was    *)
(* committed when the client asked.                                        *)
(***************************************************************************)
EXTENDS StateSync

CONSTANTS chat, msg1, msg2

MCIdentities == {<<chat, msg1>>, <<chat, msg2>>}

Doc == Number(FALSE, <<1>>, <<>>, 0)

MCData == {Doc}

MCDataBytes == Doc :> 1

MCEventBytes == [e \in EventIDs |-> 1]

MCOffers == <<[name |-> StateSyncName, versions |-> <<1>>,
               required |-> TRUE]>>

MCRegistry == StateSyncName :> <<1>>

-----------------------------------------------------------------------------

VARIABLE
    asked    \* [requests for State -> the versions committed when the
             \* request was sent], all zero for none outstanding

freshVars == <<syncVars, asked>>

Requests == Queries \cup {"resume"}

\* The newest committed versions; zero for an object that does not exist.
Committed == [i \in Identities |-> Len(commits[i])]

Nothing == [i \in Identities |-> 0]

Outstanding(r) ==
    IF r = "resume" THEN state = "RESUMING" ELSE r \in DOMAIN stateQueries

\* The client sends request r, or no longer waits for it, in this step.
RecordAsked ==
    asked' = [r \in Requests |->
                 CASE ~Outstanding(r)'                   -> Nothing
                   [] Outstanding(r)' /\ Outstanding(r)  -> asked[r]
                   [] OTHER                              -> Committed]

\* StateNext, action by action, with the history.
FreshNext ==
    \/ SyncNext /\ RecordAsked
    \/ \E q \in Queries, ids \in SUBSET Identities :
          /\ ids # {} /\ OneNamespace(ids)
          /\ ClientQueries(q, ids) /\ RecordAsked
    \/ \E g \in Generations :
          \/ ReceiveQuery(g) /\ RecordAsked
          \/ EnterQuery(g) /\ RecordAsked
          \/ GetObject(g) /\ RecordAsked
          \/ GetFails(g) /\ RecordAsked
          \/ AnswerQuery(g) /\ RecordAsked
    \/ \E i \in Identities, d \in Data : CommitState(i, d) /\ RecordAsked
    \/ \E s \in Sessions, i \in Identities, g \in Generations :
          PublishStateUpdate(s, i, g) /\ RecordAsked

FreshSpec ==
    SyncInit /\ asked = [r \in Requests |-> Nothing] /\ [][FreshNext]_freshVars

Version(cache, i) == IF i \in DOMAIN cache THEN cache[i].version ELSE 0

\* A snapshot the client accepts, as an answer or at the end of a Resume, has
\* brought every object asked for to at least the version committed when the
\* client asked: no object is left out for want of room and none is read from
\* before the request.
SnapshotsAreFresh ==
    [][/\ \A q \in DOMAIN stateQueries :
             /\ toClient # <<>> /\ Head(toClient).type = "STATE_SNAPSHOT"
             /\ state' = "READY" /\ q \notin DOMAIN stateQueries'
             => \A i \in stateQueries[q] :
                   Version(stateObjects', i) >= asked[q][i]
       /\ state = "RESUMING" /\ state' = "READY" =>
             \A i \in Identities : i[1] \in recovery.namespaces =>
                Version(stateObjects', i) >= asked["resume"][i]
      ]_freshVars

=============================================================================
