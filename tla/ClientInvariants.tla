-------------------------- MODULE ClientInvariants --------------------------
(***************************************************************************)
(* The invariant of ClientProtocol that its proofs carry from step to step, *)
(* in four parts: the EVENT stream, the Session, the State cache and what  *)
(* the client waits for.                                                   *)
(***************************************************************************)
EXTENDS ClientProtocol

Recoveries == [replayTo : 0..MaxSeq, buffer : Seq(Events), bytes : Nat,
               namespaces : SUBSET Namespaces,
               eventsComplete : BOOLEAN, gap : BOOLEAN]

\* The EVENTs b continue a stream that has reached last.
Continues(b, last) == \A n \in 1..Len(b) : b[n].seq = last + n

\* Identities by sequence.
IdMaps == UNION {[held -> EventIDs] : held \in SUBSET Int}

WindowOK == eventIDs \in IdMaps /\ IdentityWindow

StreamInv ==
    /\ lastSeq \in 0..MaxSeq
    /\ delivered \in Seq(Events)
    /\ recovery \in Recoveries
    /\ DeliveredInOrder
    /\ WindowOK
    /\ Continues(recovery.buffer, lastSeq)
    /\ recovery.eventsComplete =>
          lastSeq + Len(recovery.buffer) = recovery.replayTo
    /\ state # "RESUMING" => recovery = NoRecovery

SessionInv ==
    /\ state \in States
    /\ generation \in Nat
    /\ sessionID \in Sessions \cup {NoSession}
    /\ HeartbeatIsCurrent
    /\ CleanWithoutSession
    /\ state = "HANDSHAKING" => sessionID = NoSession

\* A cache of finitely many objects.
Finite(cache) == cache \in Caches /\ IsFiniteSet(DOMAIN cache)

\* The size of one entry.
Size(cache) == [i \in DOMAIN cache |-> DataBytes[cache[i].data]]

\* A cache with its byte count, within the limits.
Accounted(cache, bytes) ==
    /\ Finite(cache)
    /\ bytes = CacheBytes(cache) /\ bytes <= MaxStateBytes
    /\ Cardinality(DOMAIN cache) <= MaxStateObjects

CacheInv == Accounted(stateObjects, stateBytes)

\* What is pending, and what the Session negotiated.
PendingInv ==
    /\ generation \in 0..MaxGeneration
    /\ stateSync \in BOOLEAN
    /\ outbox \subseteq Msgs
    /\ pendingPing \in {NoPing} \cup [id : Pings, generation : Nat]
    /\ DOMAIN stateQueries \subseteq Queries
    /\ \A q \in DOMAIN stateQueries : stateQueries[q] \subseteq Identities

ClientInv == StreamInv /\ SessionInv /\ CacheInv /\ PendingInv

\* The fields the client reads have their types.
FrameOK(f) ==
    /\ f.type = "EVENT" => f.seq \in 1..MaxSeq /\ f.id \in EventIDs
    /\ f.type = "WELCOME" /\ f.mode = "NEW" => f.session \in Sessions
    /\ f.type = "WELCOME" /\ f.mode = "RESUMED" => f.replayTo \in 0..MaxSeq
    /\ f.type \in {"STATE_SNAPSHOT", "STATE_UPDATE"} =>
          f.objects \in Seq(StateObjects)

=============================================================================
