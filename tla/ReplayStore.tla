---------------------------- MODULE ReplayStore ----------------------------
(***************************************************************************)
(* MemoryReplayStore: the EVENTs retained for each Session, its high-water *)
(* mark, the pruning floor and the EVENT identities already used.  Every   *)
(* method holds the store's lock, so each is one step or one state         *)
(* function.  Sequences are uint64: MaxSeq stands for math.MaxUint64.      *)
(***************************************************************************)
EXTENDS Integers, Sequences, Functions

CONSTANTS
    Sessions,     \* Session IDs
    EventIDs,     \* EVENT identities
    MaxSeq,       \* math.MaxUint64
    EventBytes    \* [EventIDs -> Nat]: the encoded size of an EVENT

VARIABLE
    store         \* [Sessions -> the entries of the four maps]

EmptyStore == [events |-> <<>>, floor |-> 0, current |-> 0, ids |-> {}]

StoreInit == store = [s \in Sessions |-> EmptyStore]

CurrentSeq(s) == store[s].current

-----------------------------------------------------------------------------

Failed(error) == [error |-> error, events |-> <<>>]

Bytes(events) == SumFunction([n \in DOMAIN events |-> EventBytes[events[n].id]])

\* The loop of Replay: the EVENTs of (after, through] among those retained.
Collected(events, after, through) ==
    LET out[n \in 0..Len(events)] ==
            IF n = 0 THEN <<>>
            ELSE IF events[n].seq > after /\ events[n].seq <= through
                 THEN Append(out[n - 1], events[n])
                 ELSE out[n - 1]
    IN  out[Len(events)]

\* The range (after, through] or the error that refuses it.
Replay(s, after, through, maxEvents, maxBytes) ==
    LET log == store[s]
        out == Collected(log.events, after, through)
    IN  CASE through < after \/ through - after > maxEvents ->
                 Failed("limit")
          [] log.floor > 0 /\ after < log.floor - 1 ->
                 Failed("unavailable")
          [] Bytes(out) > maxBytes ->
                 Failed("limit")
          [] Len(out) # through - after ->
                 Failed("unavailable")
          [] OTHER ->
                 [error |-> "none", events |-> out]

\* Mutant: numbering restarts behind what is retained.
MutNextSeq(s) == Len(store[s].events) + 1

NextSeq(s) == store[s].current + 1

\* Append, for an identity not used before and a sequence not exhausted.
AppendEvent(s, id) ==
    /\ id \notin store[s].ids
    /\ store[s].current # MaxSeq
    /\ store' = [store EXCEPT
           ![s].events = Append(@, [seq |-> NextSeq(s), id |-> id]),
           ![s].current = NextSeq(s),
           ![s].ids = @ \cup {id}]

\* Mutant: the first EVENT to keep is pruned as well.
MutRetained(e, first) == e.seq > first

Retained(e, first) == e.seq >= first

\* The index the loop of PruneBefore stops at.
Pruned(events, first) ==
    CHOOSE i \in 0..Len(events) :
        /\ \A n \in 1..i : ~Retained(events[n], first)
        /\ i = Len(events) \/ Retained(events[i + 1], first)

PruneBefore(s, firstAvailable) ==
    LET current == store[s].current
        first   == IF current # MaxSeq /\ firstAvailable > current + 1
                   THEN current + 1
                   ELSE firstAvailable
    IN  store' = [store EXCEPT
            ![s].events = SubSeq(@, Pruned(@, first) + 1, Len(@)),
            ![s].floor = IF first > @ THEN first ELSE @]

-----------------------------------------------------------------------------

\* The store retains exactly the EVENTs from its floor to its high-water mark,
\* in sequence order, however Append and PruneBefore interleave: so Replay
\* either refuses a range or returns all of it, and pruning everything never
\* gives a sequence number to a second EVENT.
RetainsSuffix ==
    \A s \in Sessions :
        LET log   == store[s]
            first == IF log.floor = 0 THEN 1 ELSE log.floor
        IN  /\ first <= log.current + 1
            /\ Len(log.events) = log.current + 1 - first
            /\ \A n \in DOMAIN log.events : log.events[n].seq = first + n - 1

=============================================================================
