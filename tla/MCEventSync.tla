---------------------------- MODULE MCEventSync ----------------------------
(***************************************************************************)
(* The EVENT stream with Resumes that ask for the State of one namespace,  *)
(* in which nothing is committed.  No SEND, query or heartbeat traffic.    *)
(***************************************************************************)
EXTENDS EventSync

CONSTANTS chat, msg1

MCIdentities == {<<chat, msg1>>}

MCEventBytes == [e \in EventIDs |-> 1]

MCDataBytes == [d \in {} |-> 0]

MCOffers == <<[name |-> StateSyncName, versions |-> <<1>>,
               required |-> TRUE]>>

MCRegistry == StateSyncName :> <<1>>

Symmetry == Permutations(EventIDs) \cup Permutations(Sessions)

=============================================================================
