--------------------------- MODULE StateSnapshot ---------------------------
(***************************************************************************)
(* The bounded assembly of a STATE_SNAPSHOT: stateSnapshotAccumulator.     *)
(* The encoded payload is {"states":[...]}, so it costs thirteen bytes,    *)
(* the objects, and a comma between two of them.                           *)
(***************************************************************************)
EXTENDS StateMerge

CONSTANTS
    SnapshotMaxObjects, SnapshotMaxBytes    \* StateSnapshotLimits

ASSUME SnapshotAssumption ==
    SnapshotMaxObjects \in Nat /\ SnapshotMaxBytes \in Nat

BaseBytes == 13

\* newStateSnapshotAccumulator; full: a limit was exceeded.
NewAccumulator ==
    [objects |-> <<>>, bytes |-> BaseBytes,
     full    |-> SnapshotMaxObjects = 0 \/ BaseBytes > SnapshotMaxBytes]

\* Mutant: what exceeds a limit is left out.
MutAddObject(acc, object) ==
    LET comma      == IF acc.objects = <<>> THEN 0 ELSE 1
        additional == DataBytes[object.value.data] + comma
    IN  IF \/ acc.full
           \/ Len(acc.objects) >= SnapshotMaxObjects
           \/ additional > SnapshotMaxBytes - acc.bytes
        THEN acc
        ELSE [acc EXCEPT !.objects = Append(@, object),
                         !.bytes = @ + additional]

\* stateSnapshotAccumulator.Add.
AddObject(acc, object) ==
    LET comma      == IF acc.objects = <<>> THEN 0 ELSE 1
        additional == DataBytes[object.value.data] + comma
    IN  IF \/ acc.full
           \/ Len(acc.objects) >= SnapshotMaxObjects
           \/ additional > SnapshotMaxBytes - acc.bytes
        THEN [acc EXCEPT !.full = TRUE]
        ELSE [acc EXCEPT !.objects = Append(@, object),
                         !.bytes = @ + additional]

Accumulate(objects) ==
    LET after[n \in 0..Len(objects)] ==
            IF n = 0 THEN NewAccumulator
            ELSE AddObject(after[n - 1], objects[n])
    IN  after[Len(objects)]

=============================================================================
