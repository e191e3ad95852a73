---------------------------- MODULE EventStream ----------------------------
(***************************************************************************)
(* What client and server together promise of a Session's EVENT stream:    *)
(* the server extends an append-only log per Session, and the Application  *)
(* of the client has received, at every moment, a prefix of the log of its *)
(* Session.  A Session can be given up, and is then given up as a whole.   *)
(***************************************************************************)
EXTENDS Naturals, Sequences

CONSTANTS Sessions, NoSession, EventIDs

VARIABLES
    published,   \* [Sessions -> the EVENTs appended, in order]
    session,     \* the client's Session
    received     \* the EVENTs of it given to the Application

streamVars == <<published, session, received>>

StreamInit ==
    /\ published = [s \in Sessions |-> <<>>]
    /\ session = NoSession
    /\ received = <<>>

PublishTo(s, id) ==
    LET event == [seq |-> Len(published[s]) + 1, id |-> id]
    IN  /\ \A n \in DOMAIN published[s] : published[s][n].id # id
        /\ published' = [published EXCEPT ![s] = Append(@, event)]
        /\ UNCHANGED <<session, received>>

Receive ==
    /\ session # NoSession
    /\ \E n \in DOMAIN published[session] :
          /\ n > Len(received)
          /\ received' = SubSeq(published[session], 1, n)
    /\ UNCHANGED <<published, session>>

Begin(s) ==
    /\ session = NoSession
    /\ session' = s
    /\ UNCHANGED <<published, received>>

GiveUp ==
    /\ session' = NoSession
    /\ received' = <<>>
    /\ UNCHANGED published

StreamNext ==
    \/ \E s \in Sessions, id \in EventIDs : PublishTo(s, id)
    \/ Receive
    \/ \E s \in Sessions : Begin(s)
    \/ GiveUp

StreamSpec == StreamInit /\ [][StreamNext]_streamVars

=============================================================================
