--------------------------- MODULE SyncInvariants ---------------------------
(***************************************************************************)
(* The invariant that joins the client of StateSync to what the server and *)
(* the frames in transit guarantee it:                                     *)
(*                                                                         *)
(*   StoreInv      the store retains a suffix of the EVENTs published;     *)
(*   ReaderInv     replay_to is fixed inside the Session's lane, at the    *)
(*                 number of EVENTs published, and the lane is still held; *)
(*   FrameInv      an EVENT on its way is the one published under its      *)
(*                 sequence;                                               *)
(*   StreamAgrees  what the client delivered or has buffered is a piece of *)
(*                 the log published for its Session.                      *)
(***************************************************************************)
EXTENDS StateSync, ClientInvariants

Sequence(q) == \E S : q \in Seq(S)

\* The sequence b is what the log all holds after position from.
Agrees(b, from, all) ==
    /\ from + Len(b) <= Len(all)
    /\ \A n \in 1..Len(b) : b[n] = all[from + n]

IsLog(all) == all \in Seq(Events) /\ \A n \in 1..Len(all) : all[n].seq = n

Follows(all) ==
    Agrees(delivered, 0, all) /\ Agrees(recovery.buffer, lastSeq, all)

Logs == [events : Seq(Events), floor : 0..MaxSeq, current : 0..MaxSeq,
         ids : SUBSET EventIDs]

\* The sequence of the first EVENT a log retains, or would.
FirstOf(log) == IF log.floor = 0 THEN 1 ELSE log.floor

\* The log of a Session to which the EVENTs all have been published.
LogOK(log, all) ==
    /\ log \in Logs /\ all \in Seq(Events)
    /\ log.current = Len(all)
    /\ \A n \in 1..Len(all) : all[n].seq = n /\ all[n].id \in log.ids
    /\ FirstOf(log) <= log.current + 1
    /\ Len(log.events) = log.current + 1 - FirstOf(log)
    /\ \A n \in 1..Len(log.events) : log.events[n] = all[FirstOf(log) + n - 1]

\* What is committed: a history per object, of few objects.
CommitInv ==
    /\ commits \in [Identities -> Seq(Data)]
    /\ \A i \in Identities :
          commits[i] # <<>> => Len(commits[i]) \in 1..MaxVersion
    /\ IsFiniteSet({i \in Identities : commits[i] # <<>>})

StoreInv ==
    /\ DOMAIN store = Sessions /\ DOMAIN published = Sessions
    /\ \A s \in Sessions : LogOK(store[s], published[s])

Gates == [state : {"CLOSED", "AWAITING_HANDSHAKE", "READY", "RESUMING"},
          session : Sessions \cup {NoSession}]

ServerInv ==
    /\ live \subseteq created /\ created \subseteq Sessions
    /\ gate \in [Generations -> Gates]
    /\ lane \in [Sessions -> 0..MaxGeneration]
    /\ open \subseteq Generations

\* The fields of a request the server computes with.
RequestOK(f) ==
    /\ f.type = "RESUME" => f.lastSeq \in 0..MaxSeq
    /\ f.type = "STATE_QUERY" =>
          f.session \in Sessions /\ f.ids \subseteq Identities

RequestInv ==
    /\ DOMAIN toServer = Generations
    /\ \A g \in Generations :
          Sequence(toServer[g]) /\ \A f \in Range(toServer[g]) : RequestOK(f)

\* A frame the client can read; an EVENT was published under its sequence.
GoodFrame(f) ==
    /\ FrameOK(f)
    /\ f.type = "EVENT" =>
          /\ f.session \in Sessions
          /\ f.seq \in 1..Len(published[f.session])
          /\ published[f.session][f.seq].id = f.id

FrameInv == Sequence(toClient) /\ \A f \in Range(toClient) : GoodFrame(f)

\* What a request of Session s may be answered with now.
BatchOK(q, s) ==
    /\ Sequence(q)
    /\ \A f \in Range(q) :
          /\ GoodFrame(f)
          /\ f.type = "WELCOME" => f.session = s
          /\ f.type = "WELCOME" /\ f.mode = "RESUMED" =>
                f.replayTo = Len(published[s])

\* What stateSnapshotAccumulator holds.
Snapshots == [objects : Seq(StateObjects), bytes : Int, full : BOOLEAN]

\* The request r of the reader of connection g.
ReaderOK(r, g) ==
    /\ r.step \in {"idle", "stopped", "apply"} \cup Steps
    /\ r.step \in Steps => r.session \in Sessions
    /\ r.step = "apply" => r.result \in Results /\ r.err \in BOOLEAN
    /\ r.step \in {"stream", "replay"} => r.lastSeq \in 0..MaxSeq
    /\ r.step = "replay" =>
          lane[r.session] = g /\ r.replayTo = Len(published[r.session])
    /\ r.step = "snapshot" =>
          /\ lane[r.session] = g
          /\ BatchOK(r.batch, r.session)
          /\ r.states \in Seq(StateObjects)
    /\ r.step = "query" => r.ids \subseteq Identities
    /\ r.step = "get" =>
          /\ lane[r.session] = g
          /\ r.todo \subseteq Identities
          /\ r.acc \in Snapshots

ReaderInv ==
    /\ DOMAIN reader = Generations
    /\ \A g \in Generations : ReaderOK(reader[g], g)

StreamAgrees ==
    sessionID # NoSession => Follows(published[sessionID])

SyncInv ==
    /\ ClientInv /\ StreamAgrees
    /\ StoreInv /\ ServerInv /\ CommitInv
    /\ RequestInv /\ ReaderInv /\ FrameInv

=============================================================================
