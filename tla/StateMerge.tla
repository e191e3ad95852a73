----------------------------- MODULE StateMerge -----------------------------
(***************************************************************************)
(* The merge of State Objects into a client's cache: ApplyStateObject and  *)
(* ClientProtocol.applyStateObjectsLocked.  A cache is a function from the *)
(* identities it holds to the version and data retained for them.          *)
(***************************************************************************)
EXTENDS StateData, FiniteSets

CONSTANTS
    Identities,       \* (namespace, object_id) pairs
    MaxVersion,       \* bound: the highest State version
    Data,             \* State documents, as StateData makes them
    DataBytes,        \* [Data -> Nat]: the size of an object holding it
    MaxStateObjects,  \* ClientConfig.MaxStateObjects
    MaxStateBytes     \* ClientConfig.MaxStateBytes

ASSUME MergeAssumption ==
    /\ DataBytes \in [Data -> Nat]
    /\ MaxStateObjects \in Nat /\ MaxStateBytes \in Nat
    /\ MaxVersion \in Nat

Values == [version : 1..MaxVersion, data : Data]

StateObjects == [identity : Identities, value : Values]

EmptyCache == [i \in {} |-> <<>>]

Caches == UNION {[held -> Values] : held \in SUBSET Identities}

Put(cache, i, value) ==
    [j \in DOMAIN cache \cup {i} |-> IF j = i THEN value ELSE cache[j]]

\* The size of everything a cache holds.
CacheBytes(cache) ==
    SumFunction([i \in DOMAIN cache |-> DataBytes[cache[i].data]])

-----------------------------------------------------------------------------

\* Mutant: an older version replaces a newer one.
MutStale(current, incoming) ==
    IF incoming = current THEN "duplicate" ELSE "applied"

\* ApplyStateObject on an identity that is already cached.
ApplyStateObject(current, incoming) ==
    CASE incoming.version > current.version -> "applied"
      [] incoming.version < current.version -> "stale"
      [] OTHER -> IF EqualStateData(current.data, incoming.data)
                  THEN "duplicate" ELSE "conflict"

\* Mutant: the bytes of the replaced object are not given back.
MutLeakBytes(cache, bytes, object) == bytes + DataBytes[object.value.data]

\* The cache's byte count once object has been stored.
NextBytes(cache, bytes, object) ==
    LET i == object.identity
    IN  DataBytes[object.value.data] +
        IF i \in DOMAIN cache THEN bytes - DataBytes[cache[i].data] ELSE bytes

\* One turn of the loop of applyStateObjectsLocked; ok turns FALSE for good on
\* the first object that is stale, conflicting or over a limit.
MergeOne(acc, object) ==
    LET i      == object.identity
        held   == i \in DOMAIN acc.cache
        result == IF held THEN ApplyStateObject(acc.cache[i], object.value)
                          ELSE "applied"
        next   == [ok    |-> TRUE,
                   cache |-> Put(acc.cache, i, object.value),
                   bytes |-> NextBytes(acc.cache, acc.bytes, object)]
        fits   == /\ Cardinality(DOMAIN next.cache) <= MaxStateObjects
                  /\ next.bytes <= MaxStateBytes
    IN  CASE ~acc.ok \/ result = "duplicate" -> acc
          [] result = "applied" /\ fits      -> next
          [] OTHER                           -> [acc EXCEPT !.ok = FALSE]

\* applyStateObjectsLocked: all objects of a frame, or none.
ApplyStateObjects(cache, bytes, objects) ==
    LET after[n \in 0..Len(objects)] ==
            IF n = 0 THEN [ok |-> TRUE, cache |-> cache, bytes |-> bytes]
            ELSE MergeOne(after[n - 1], objects[n])
        merged == after[Len(objects)]
    IN  IF merged.ok THEN merged
                     ELSE [ok |-> FALSE, cache |-> cache, bytes |-> bytes]

=============================================================================
