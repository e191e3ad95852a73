------------------------ MODULE ConnectionInvariants ------------------------
(***************************************************************************)
(* The invariant that follows a request of EventSync to its answer.  A     *)
(* connection the client has not used yet is fresh.  At most one request   *)
(* is in transit on a connection, and the gate will admit it once the      *)
(* reader is idle, again if the lane refuses it and the gate stays open.   *)
(* A WELCOME is sent only when the reader is done with the request, so a   *)
(* client that has seen one can send the next request.                     *)
(* A WELCOME is followed by what it promises: the EVENT replay_to and the  *)
(* snapshot it names.                                                      *)
(***************************************************************************)
EXTENDS SyncInvariants

Later(q, i) == {q[j] : j \in i + 1..Len(q)}

\* ServerAdmission in state a admits request f.
GateAdmits(a, f) ==
    \/ a.state = "AWAITING_HANDSHAKE" /\ f.type \in {"HELLO", "RESUME"}
    \/ /\ a.state = "READY"
       /\ f.type \in {"RESUME", "STATE_QUERY"} /\ f.session = a.session

\* Reader r and gate a will admit f, or the reader never reads it.
Accepts(r, a, f) ==
    \/ r = Stopped
    \/ r = Idle /\ GateAdmits(a, f)
    \/ r.step = "apply" /\ (r.err \/ GateAdmits(Applied(a, r.result), f))

\* Reader r and gate a are done with the request that made Session s READY,
\* up to applyResult.
Settled(r, a, s) ==
    \/ r = Stopped
    \/ r = Idle /\ a = [state |-> "READY", session |-> s]
    \/ r.step = "apply" /\ (r.err \/ r.result = Result("ready", s))

\* Nothing has happened on connection g.
Fresh(g) ==
    /\ toServer[g] = <<>> /\ reader[g] = Idle
    /\ gate[g] = [state |-> "AWAITING_HANDSHAKE", session |-> NoSession]

\* The client's connection is done with its requests and Session s is READY.
Done(s) ==
    /\ toServer[generation] = <<>>
    /\ Settled(reader[generation], gate[generation], s)

NoWelcome(S) == \A f \in S : f.type # "WELCOME"

\* What a WELCOME promises is among the frames S behind it.
Promise(w, S) ==
    w.type = "WELCOME" =>
        /\ NoWelcome(S)
        /\ w.mode = "RESUMED" =>
              /\ w.resumeFrom \in Nat \ {0}
              /\ w.replayTo >= w.resumeFrom =>
                    \E f \in S : f.type = "EVENT" /\ f.seq = w.replayTo
              /\ w.namespaces # {} => \E f \in S : f.type = "STATE_SNAPSHOT"

\* Every WELCOME of q is followed by what it promises, in q or in S.
Answered(q, S) == \A i \in 1..Len(q) : Promise(q[i], Later(q, i) \cup S)

\* The batch a snapshot is to end.
Promises(q) ==
    /\ \A f : f.type = "STATE_SNAPSHOT" => Answered(q, {f})
    /\ \E w \in Range(q) : w.type = "WELCOME"

FreshInv ==
    /\ state # "DISCONNECTED" \/ toClient # <<>> => generation \in Generations
    /\ \A g \in Generations : g > generation => Fresh(g)
    /\ state \in {"CONNECTING", "CONNECTED"} =>
          Fresh(generation) /\ toClient = <<>>

TransitInv ==
    \A g \in Generations :
        \/ toServer[g] = <<>>
        \/ \E f : toServer[g] = <<f>> /\ Accepts(reader[g], gate[g], f)

WelcomeInv ==
    /\ \A f \in Range(toClient) : f.type = "WELCOME" => Done(f.session)
    /\ Answered(toClient, {})

\* The client has seen the WELCOME of its RESUME.
Acked == recovery.replayTo # 0 \/ recovery.eventsComplete

Welcomed ==
    state \in {"READY", "SUSPECT"} \/ (state = "RESUMING" /\ Acked)

ReadyInv == Welcomed => Done(sessionID) /\ NoWelcome(Range(toClient))

BatchInv ==
    \A g \in Generations : reader[g].step = "snapshot" => Promises(reader[g].batch)

\* Reader r could be handed its request again by gate a, unless the gate is
\* RESUMING and closes when r is refused.
Handled(r, a) ==
    r.step \in {"stream", "query"} =>
        a.state = "RESUMING" \/ GateAdmits(a, Request(r))

HandledInv == \A g \in Generations : Handled(reader[g], gate[g])

\* The RESUME or its answer is under way, or the connection is to end.
Waits ==
    \/ \E f \in Range(toServer[generation]) : f.type = "RESUME"
    \/ reader[generation].step \in {"stream", "replay", "snapshot"}
    \/ \E f \in Range(toClient) : f.type \in {"ERROR", "WELCOME"}
    \/ ConnectionFailed

ResumeInv ==
    state = "RESUMING" =>
        /\ ~Acked => Waits
        /\ Acked /\ recovery.namespaces = {} =>
              /\ recovery.replayTo > lastSeq
              /\ \E f \in Range(toClient) :
                    f.type = "EVENT" /\ f.seq = recovery.replayTo
        /\ Acked /\ recovery.namespaces # {} =>
              \E f \in Range(toClient) : f.type = "STATE_SNAPSHOT"

ConnInv ==
    /\ FreshInv /\ TransitInv /\ WelcomeInv
    /\ ReadyInv /\ BatchInv /\ HandledInv /\ ResumeInv

=============================================================================
