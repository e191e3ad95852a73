-------------------------- MODULE SendDedupProofs --------------------------
(***************************************************************************)
(* Proofs about SendDedup for every set of calls, sessions, messages and   *)
(* contents and every value of the time constants.                         *)
(*                                                                         *)
(* OwnInv ties the flight table to program counters: while a call leads,   *)
(* it alone works on its identity.  AckInv follows an ACK back to an       *)
(* application call that succeeded.  TimeInv compares clock samples with   *)
(* deadlines, and OnceInv says that an executed identity keeps its record  *)
(* and that a handler about to execute is the first.  Only OnceInv needs   *)
(* the retention to outlast the Session by the longest handler delay.      *)
(* AckStep and OnceStep list what AckInv and OnceInv ask of one handler's  *)
(* step, so that each action is checked against its own effects only.      *)
(***************************************************************************)
EXTENDS SendDedup, TLAPS

\* Labels at which the leader owns a PROCESSING record.
Claimed == {"afterClaim", "app", "afterApp", "complete"}

OwnInv ==
    /\ \A k \in Keys : flights[k] # NoCall =>
          /\ req[flights[k]].key = k
          /\ pc[flights[k]] \in Leading
    /\ \A c \in Calls : pc[c] \in Leading => flights[req[c].key] = c
    /\ \A c \in Calls : pc[c] \in Claimed =>
          /\ records[req[c].key].state = "processing"
          /\ records[req[c].key].content = req[c].content

\* The application has accepted the request q.
Applied(q) == \E d \in Calls : app[d] = "ok" /\ req[d] = q

AckInv ==
    /\ \A c \in Calls : pc[c] \in {"peek", "wait"} =>
          flight[c] \in Calls /\ req[flight[c]] = req[c]
    /\ \A c \in Calls : app[c] = "ok" =>
          pc[c] \in {"afterApp", "complete", "afterComplete", "finish", "done"}
    /\ \A c \in Calls : pc[c] \in {"afterApp", "complete", "afterComplete"}
          => app[c] = "ok"
    /\ \A k \in Keys : records[k].state = "completed"
          => Applied([key |-> k, content |-> records[k].content])
    /\ \A c \in Calls : flightAck[c] => Applied(req[c])
    /\ AckMeansApplied

TimeInv ==
    /\ \A s \in Sessions : expiresAt[s] <= clock + SessionResumeTTL
    /\ \A c \in BeforeClaim : now[c] <= clock /\ clock <= now[c] + MaxDelay
    /\ \A c \in Calls : pc[c] \in Claimed \cup {"claim"}
          => expiresAt[req[c].key[1]] # 0
    /\ \A c \in Calls : pc[c] = "claim" => Live(c)
    /\ \A k \in Keys : records[k].state = "completed" =>
          /\ expiresAt[k[1]] # 0
          /\ expiresAt[k[1]] + DedupTTL
                <= records[k].expiresAt + SessionResumeTTL

\* The call has not yet entered the application.
BeforeApp(c) ==
    \/ pc[c] \in {"idle", "acquire", "peek", "wait", "lookup", "claim",
                  "afterClaim"}
    \/ pc[c] = "app" /\ ~callback[c]

OnceInv ==
    /\ \A c \in Calls : BeforeApp(c) => app[c] = "none"
    /\ \A c \in Calls : pc[c] = "app" /\ callback[c] => app[c] # "none"
    /\ \A c \in Calls : app[c] # "none" => records[req[c].key] # Absent
    /\ \A c, d \in Calls :
          pc[c] \in {"afterClaim", "app"} /\ BeforeApp(c)
          /\ req[d].key = req[c].key => app[d] = "none"
    /\ AtMostOnce

-----------------------------------------------------------------------------

\* Every reachable state is well typed: handleSend and the stores keep
\* flights, records, samples and replies inside their domains.
THEOREM TypeCorrect == Spec => []TypeOK
<1>1. Init => TypeOK
  BY DEF Init, TypeOK, Records, Labels, Replies, AppStates
<1>2. TypeOK /\ [Next]_vars => TypeOK'
  <2> SUFFICES ASSUME TypeOK, [Next]_vars
               PROVE  TypeOK'
    BY Zenon
  <2> USE DEF TypeOK, Goto, Labels, Leading, Stages, Replies, AppStates
  <2>1. CASE Tick
    BY <2>1 DEF Tick
  <2>2. ASSUME NEW s \in Sessions, CreateSession(s)
        PROVE  TypeOK'
    BY <2>2, TTLAssumption DEF CreateSession
  <2>3. ASSUME NEW c \in Calls, NEW p \in Calls \cup {NoCall}, Arrive(c, p)
        PROVE  TypeOK'
    BY <2>3, Zenon DEF Arrive
  <2>4. ASSUME NEW c \in Calls, Step(c)
        PROVE  TypeOK'
    <3>1. req[c].key \in Keys /\ req[c].content \in Contents
      BY Zenon DEF Requests
    <3>2. CASE AcquireFlight(c)
      BY <3>1, <3>2 DEF AcquireFlight, Answer, Join
    <3>3. CASE Peek(c)
      BY <3>3, Zenon DEF Peek, Answer
    <3>4. CASE WaitForOriginal(c)
      BY <3>4 DEF WaitForOriginal, Answer
    <3>5. CASE BeginCallback(c)
      BY <3>5, Zenon DEF BeginCallback
    <3>6. CASE CallbackFails(c)
      BY <3>6, Zenon DEF CallbackFails, Return
    <3>7. CASE LookupReturns(c)
      <4>1. CASE Live(c)
        BY <3>7, <4>1, Zenon DEF LookupReturns, Return
      <4>2. CASE ~Live(c)
        BY <3>7, <4>2 DEF LookupReturns, Return, Answer
      <4> QED
        BY <4>1, <4>2, Zenon
    <3>8. CASE ClaimFindsRecord(c)
      <4>1. flightAck' \in [Calls -> BOOLEAN]
        BY <3>8, Zenon DEF ClaimFindsRecord
      <4>2. reply' \in [Calls -> Replies]
        BY <3>8, Zenon DEF ClaimFindsRecord, Answer
      <4> QED
        BY <3>8, <4>1, <4>2, Zenon DEF ClaimFindsRecord, Return
    <3>9. CASE ClaimGranted(c)
      BY <3>1, <3>9, TTLAssumption DEF ClaimGranted, Return, Record, Records
    <3>10. CASE InjectorPasses(c)
      <4>1. reply' \in [Calls -> Replies]
        BY <3>10, Zenon DEF InjectorPasses, Answer
      <4>2. pc' \in [Calls -> Labels] /\ callback' \in [Calls -> BOOLEAN]
        BY <3>10, Zenon DEF InjectorPasses, Return
      <4> QED
        BY <3>10, <4>1, <4>2, Zenon DEF InjectorPasses
    <3>11. CASE AppSucceeds(c)
      BY <3>11, Zenon DEF AppSucceeds, Return
    <3>12. CASE AppFails(c)
      BY <3>12 DEF AppFails, Return, Answer
    <3>13. CASE CompleteReturns(c)
      BY <3>1, <3>13, TTLAssumption
      DEF CompleteReturns, Return, Record, Records, Absent
    <3>14. CASE FinishFlight(c)
      BY <3>1, <3>14, Zenon DEF FinishFlight
    <3> QED
      BY <2>4, <3>2, <3>3, <3>4, <3>5, <3>6, <3>7, <3>8, <3>9, <3>10,
         <3>11, <3>12, <3>13, <3>14, Zenon DEF Step
  <2>5. ASSUME NEW c \in Calls, WaitCancelled(c)
        PROVE  TypeOK'
    BY <2>5, Zenon DEF WaitCancelled
  <2>6. ASSUME NEW k \in Keys, Abort(k)
        PROVE  TypeOK'
    BY <2>6, Zenon DEF Abort, Records
  <2>7. CASE UNCHANGED vars
    BY <2>7, Zenon DEF vars
  <2> QED
    BY <2>1, <2>2, <2>3, <2>4, <2>5, <2>6, <2>7, Zenon DEF Next
<1> QED
  BY <1>1, <1>2, PTL DEF Spec

\* A step keeps the flight table and the leaders' claims consistent.
LEMMA OwnInductive == TypeOK /\ OwnInv /\ [Next]_vars => OwnInv'
<1> SUFFICES ASSUME TypeOK, OwnInv, [Next]_vars
             PROVE  OwnInv'
  BY Zenon
<1> USE DEF TypeOK, OwnInv, Goto, Labels, Leading, Stages, Claimed
<1>1. CASE Tick
  BY <1>1, Zenon DEF Tick
<1>2. ASSUME NEW s \in Sessions, CreateSession(s)
      PROVE  OwnInv'
  BY <1>2, Zenon DEF CreateSession
<1>3. ASSUME NEW c \in Calls, NEW p \in Calls \cup {NoCall}, Arrive(c, p)
      PROVE  OwnInv'
  BY <1>3 DEF Arrive
<1>4. ASSUME NEW c \in Calls, Step(c)
      PROVE  OwnInv'
  <2> DEFINE k == req[c].key
  <2>1. k \in Keys /\ req[c].content \in Contents
    BY DEF TypeOK, Requests
  <2>2. CASE AcquireFlight(c)
    <3>1. CASE flights[k] = NoCall
      <4>1. /\ flights' = [flights EXCEPT ![k] = c]
            /\ Goto(c, "lookup")
            /\ UNCHANGED <<req, records>>
        BY <2>2, <3>1, Zenon DEF AcquireFlight
      <4>2. \A d \in Calls : pc[d] \in Leading => req[d].key # k
        BY <3>1, NoCallAssumption
      <4>3. /\ flights'[k] = c
            /\ \A j \in Keys : j # k => flights'[j] = flights[j]
            /\ pc'[c] = "lookup"
            /\ \A d \in Calls : d # c => pc'[d] = pc[d]
        BY <2>1, <4>1
      <4>4. \A j \in Keys : j # k /\ flights[j] # NoCall => flights[j] # c
        BY <2>2, Zenon DEF AcquireFlight
      <4> QED
        BY <2>1, <4>1, <4>2, <4>3, <4>4, NoCallAssumption
    <3>2. CASE flights[k] # NoCall
      <4>1. /\ flights' = flights /\ UNCHANGED <<req, records>>
            /\ \E l \in {"done", "peek", "wait"} : Goto(c, l)
        BY <2>1, <2>2, <3>2, Zenon DEF AcquireFlight, Join
      <4>2. /\ pc[c] = "acquire" /\ pc'[c] \in {"done", "peek", "wait"}
            /\ \A d \in Calls : d # c => pc'[d] = pc[d]
        BY <2>2, <4>1 DEF AcquireFlight
      <4> QED
        BY <4>1, <4>2
    <3> QED
      BY <3>1, <3>2, Zenon
  <2>3. CASE Peek(c)
    BY <2>1, <2>3 DEF Peek
  <2>4. CASE WaitForOriginal(c)
    BY <2>1, <2>4 DEF WaitForOriginal
  <2>5. CASE BeginCallback(c)
    BY <2>1, <2>5, Zenon DEF BeginCallback
  <2>6. CASE CallbackFails(c)
    BY <2>1, <2>6 DEF CallbackFails, Return
  <2>7. CASE LookupReturns(c)
    BY <2>1, <2>7 DEF LookupReturns, Return
  <2>8. CASE ClaimFindsRecord(c)
    <3>1. /\ pc[c] = "claim" /\ Goto(c, "finish")
          /\ UNCHANGED <<flights, req, records>>
      BY <2>8, Zenon DEF ClaimFindsRecord, Return
    <3> QED
      BY <3>1
  <2>9. CASE ClaimGranted(c)
    BY <2>1, <2>9 DEF ClaimGranted, Return, Record
  <2>10. CASE InjectorPasses(c)
    BY <2>1, <2>10 DEF InjectorPasses, Return
  <2>11. CASE AppSucceeds(c)
    BY <2>1, <2>11 DEF AppSucceeds, Return
  <2>12. CASE AppFails(c)
    BY <2>1, <2>12 DEF AppFails, Return
  <2>13. CASE CompleteReturns(c)
    BY <2>1, <2>13 DEF CompleteReturns, Return, Record
  <2>14. CASE FinishFlight(c)
    BY <2>1, <2>14 DEF FinishFlight
  <2> QED
    BY <1>4, <2>2, <2>3, <2>4, <2>5, <2>6, <2>7, <2>8, <2>9,
       <2>10, <2>11, <2>12, <2>13, <2>14, Zenon DEF Step
<1>5. ASSUME NEW c \in Calls, WaitCancelled(c)
      PROVE  OwnInv'
  BY <1>5 DEF WaitCancelled
<1>6. ASSUME NEW k \in Keys, Abort(k)
      PROVE  OwnInv'
  <2>1. \A c \in Calls : pc[c] \in Leading => req[c].key # k
    BY <1>6, NoCallAssumption DEF Abort
  <2> QED
    BY <1>6, <2>1 DEF Abort
<1>7. CASE UNCHANGED vars
  BY <1>7, Zenon DEF vars
<1> QED
  BY <1>1, <1>2, <1>3, <1>4, <1>5, <1>6, <1>7, Zenon DEF Next

\* A step keeps every sample, deadline and Session expiry in order.
LEMMA TimeInductive ==
    TypeOK /\ TimeInv /\ [Next]_vars => TimeInv'
<1> SUFFICES ASSUME TypeOK, TimeInv, [Next]_vars
             PROVE  TimeInv'
  BY Zenon
<1> USE DEF TypeOK, TimeInv, Goto, Labels, Leading, Stages, Claimed, Live, BeforeClaim
<1>1. CASE Tick
  <2>1. /\ clock' = clock + 1
        /\ UNCHANGED <<expiresAt, records, req, pc, now>>
    BY <1>1, Zenon DEF Tick
  <2>2. \A s \in Sessions : expiresAt'[s] <= clock' + SessionResumeTTL
    BY <2>1, TTLAssumption
  <2>3. \A c \in BeforeClaim : now'[c] <= clock' /\ clock' <= now'[c] + MaxDelay
    BY <1>1, <2>1, BoundAssumption DEF Tick
  <2> QED
    BY <2>1, <2>2, <2>3, Zenon
<1>2. ASSUME NEW s \in Sessions, CreateSession(s)
      PROVE  TimeInv'
  BY <1>2, TTLAssumption, BoundAssumption DEF CreateSession, Keys, Requests
<1>3. ASSUME NEW c \in Calls, NEW p \in Calls \cup {NoCall}, Arrive(c, p)
      PROVE  TimeInv'
  BY <1>3, TTLAssumption, BoundAssumption DEF Arrive
<1>4. ASSUME NEW c \in Calls, Step(c)
      PROVE  TimeInv'
  <2> DEFINE k == req[c].key
  <2>1. k \in Keys /\ req[c].content \in Contents
    BY Zenon DEF Requests
  <2>2. CASE AcquireFlight(c)
    BY <2>1, <2>2, Zenon DEF AcquireFlight, Join
  <2>3. CASE Peek(c)
    BY <2>1, <2>3, Zenon DEF Peek
  <2>4. CASE WaitForOriginal(c)
    BY <2>1, <2>4, Zenon DEF WaitForOriginal
  <2>5. CASE BeginCallback(c)
    BY <2>1, <2>5, Zenon DEF BeginCallback
  <2>6. CASE CallbackFails(c)
    BY <2>1, <2>6, Zenon DEF CallbackFails, Return
  <2>7. CASE LookupReturns(c)
    BY <2>1, <2>7 DEF LookupReturns, Return
  <2>8. CASE ClaimFindsRecord(c)
    <3>1. /\ pc[c] = "claim" /\ Goto(c, "finish")
          /\ UNCHANGED <<clock, expiresAt, records, req, now>>
      BY <2>8, Zenon DEF ClaimFindsRecord, Return
    <3> QED
      BY <3>1, Zenon
  <2>9. CASE ClaimGranted(c)
    BY <2>1, <2>9, TTLAssumption, BoundAssumption, Zenon DEF ClaimGranted,
       Return, Record
  <2>10. CASE InjectorPasses(c)
    BY <2>1, <2>10 DEF InjectorPasses, Return
  <2>11. CASE AppSucceeds(c)
    BY <2>1, <2>11, Zenon DEF AppSucceeds, Return
  <2>12. CASE AppFails(c)
    BY <2>1, <2>12, Zenon DEF AppFails, Return
  <2>13. CASE CompleteReturns(c)
    <3>1. /\ records' = [records EXCEPT ![k] =
                            Record("completed", records[k].content)]
          /\ Goto(c, "afterComplete")
          /\ UNCHANGED <<clock, expiresAt, req, now>>
      BY <2>13, Zenon DEF CompleteReturns
    <3>2. k[1] \in Sessions /\ expiresAt[k[1]] # 0
      BY <2>1, <2>13, Zenon DEF CompleteReturns, Return, Keys
    <3>3. /\ records'[k].expiresAt = clock + DedupTTL
          /\ \A j \in Keys : j # k => records'[j] = records[j]
      BY <2>1, <3>1, Zenon DEF Record
    <3>4. /\ expiresAt[k[1]] \in Nat /\ clock \in Nat
          /\ expiresAt[k[1]] + DedupTTL
                <= (clock + DedupTTL) + SessionResumeTTL
      BY <3>2, TTLAssumption
    <3>5. /\ pc'[c] = "afterComplete" /\ pc[c] = "complete"
          /\ \A d \in Calls : d # c => pc'[d] = pc[d]
      BY <2>13, <3>1, Zenon DEF CompleteReturns, Return
    <3>6. \A j \in Keys : records'[j].state = "completed" =>
             /\ expiresAt[j[1]] # 0
             /\ expiresAt[j[1]] + DedupTTL
                   <= records'[j].expiresAt + SessionResumeTTL
      BY <3>2, <3>3, <3>4, Zenon
    <3> HIDE DEF TypeOK
    <3> QED
      BY <3>1, <3>2, <3>5, <3>6, Zenon
  <2>14. CASE FinishFlight(c)
    BY <2>1, <2>14, Zenon DEF FinishFlight
  <2> QED
    BY <1>4, <2>2, <2>3, <2>4, <2>5, <2>6, <2>7, <2>8, <2>9,
       <2>10, <2>11, <2>12, <2>13, <2>14, Zenon DEF Step
<1>5. ASSUME NEW c \in Calls, WaitCancelled(c)
      PROVE  TimeInv'
  BY <1>5, Zenon DEF WaitCancelled
<1>6. ASSUME NEW k \in Keys, Abort(k)
      PROVE  TimeInv'
  BY <1>6, Zenon DEF Abort, Absent
<1>7. CASE UNCHANGED vars
  BY <1>7, Zenon DEF vars
<1> QED
  BY <1>1, <1>2, <1>3, <1>4, <1>5, <1>6, <1>7, Zenon DEF Next

\* What AckInv asks of a step of the call c: only c's own fields move, and an
\* ACK, a stored ACK or a COMPLETED record appears for an accepted request.
AckStep(c) ==
    /\ req' = req
    /\ \A d \in Calls \ {c} :
          /\ pc'[d] = pc[d] /\ flight'[d] = flight[d] /\ app'[d] = app[d]
          /\ reply'[d] = reply[d] /\ flightAck'[d] = flightAck[d]
    /\ pc'[c] \in {"peek", "wait"} =>
          flight'[c] \in Calls /\ req[flight'[c]] = req[c]
    /\ app'[c] = "ok" =>
          pc'[c] \in {"afterApp", "complete", "afterComplete", "finish", "done"}
    /\ pc'[c] \in {"afterApp", "complete", "afterComplete"} => app'[c] = "ok"
    /\ app[c] = "ok" => app'[c] = "ok"
    /\ reply'[c] = "ack" => Applied(req[c])
    /\ flightAck'[c] => Applied(req[c])
    /\ \A k \in Keys : records'[k].state = "completed" =>
          \/ records'[k] = records[k]
          \/ Applied([key |-> k, content |-> records'[k].content])

\* Such a step preserves AckInv, because an accepted request stays accepted.
LEMMA AckFrame ==
    ASSUME AckInv, NEW c \in Calls, AckStep(c)
    PROVE  AckInv'
<1>1. req' = req
  BY Zenon DEF AckStep
<1>2. \A d \in Calls : app[d] = "ok" => app'[d] = "ok"
  BY Zenon DEF AckStep
<1>3. ASSUME NEW q, Applied(q)
      PROVE  \E d \in Calls : app'[d] = "ok" /\ req'[d] = q
  BY <1>1, <1>2, <1>3, Zenon DEF Applied
<1>4. \A d \in Calls : pc'[d] \in {"peek", "wait"} =>
         flight'[d] \in Calls /\ req'[flight'[d]] = req'[d]
  BY <1>1 DEF AckStep, AckInv
<1>5. \A d \in Calls : app'[d] = "ok" =>
         pc'[d] \in {"afterApp", "complete", "afterComplete", "finish", "done"}
  BY Zenon DEF AckStep, AckInv
<1>6. \A d \in Calls : pc'[d] \in {"afterApp", "complete", "afterComplete"}
         => app'[d] = "ok"
  BY DEF AckStep, AckInv
<1>7. ASSUME NEW k \in Keys, records'[k].state = "completed"
      PROVE  \E d \in Calls :
                app'[d] = "ok"
                /\ req'[d] = [key |-> k, content |-> records'[k].content]
  <2>1. Applied([key |-> k, content |-> records'[k].content])
    BY <1>7, Zenon DEF AckStep, AckInv
  <2> QED
    BY <1>3, <2>1, Zenon
<1>8. ASSUME NEW d \in Calls, flightAck'[d] \/ reply'[d] = "ack"
      PROVE  \E e \in Calls : app'[e] = "ok" /\ req'[e] = req'[d]
  <2>1. (flightAck[d] \/ reply[d] = "ack") => Applied(req[d])
    BY Zenon DEF AckInv, AckMeansApplied, Applied
  <2>2. Applied(req[d])
    BY <1>8, <2>1, Zenon DEF AckStep
  <2> QED
    BY <1>1, <1>3, <2>2, Zenon
<1> QED
  BY <1>4, <1>5, <1>6, <1>7, <1>8, Zenon DEF AckInv, AckMeansApplied, Applied

\* A step hands out an ACK only for a request the application has accepted.
LEMMA AckInductive ==
    TypeOK /\ OwnInv /\ AckInv /\ [Next]_vars => AckInv'
<1>0. SUFFICES ASSUME TypeOK, OwnInv, AckInv, [Next]_vars
               PROVE  AckInv'
  BY Zenon
<1> USE DEF TypeOK, Goto
<1>type. TypeOK
  BY <1>0, Zenon
<1>leads. OwnInv
  BY <1>0, Zenon
<1>acks. AckInv
  BY <1>0, Zenon
<1>still. UNCHANGED <<pc, flight, req, app, records, flightAck, reply>> => AckInv'
  BY <1>acks DEF AckInv, AckMeansApplied, Applied
\* What AckInv says of one call.
<1>own. ASSUME NEW c \in Calls
        PROVE  /\ req[c].key \in Keys /\ req[c].content \in Contents
               /\ req[c] = [key |-> req[c].key, content |-> req[c].content]
               /\ pc[c] \in {"peek", "wait"} =>
                     flight[c] \in Calls /\ req[flight[c]] = req[c]
               /\ app[c] = "ok" => pc[c] \in {"afterApp", "complete",
                                    "afterComplete", "finish", "done"}
               /\ pc[c] \in {"afterApp", "complete", "afterComplete"}
                     => app[c] = "ok" /\ Applied(req[c])
               /\ flightAck[c] => Applied(req[c])
               /\ reply[c] = "ack" => Applied(req[c])
  <2>1. req[c] \in Requests
    BY <1>type, Zenon
  <2>2. /\ req[c].key \in Keys /\ req[c].content \in Contents
        /\ req[c] = [key |-> req[c].key, content |-> req[c].content]
    BY <2>1, Zenon DEF Requests
  <2>3. /\ pc[c] \in {"peek", "wait"} =>
              flight[c] \in Calls /\ req[flight[c]] = req[c]
        /\ app[c] = "ok" => pc[c] \in {"afterApp", "complete",
                             "afterComplete", "finish", "done"}
        /\ pc[c] \in {"afterApp", "complete", "afterComplete"} => app[c] = "ok"
        /\ flightAck[c] => Applied(req[c])
    BY <1>acks, Zenon DEF AckInv
  <2>4. app[c] = "ok" => Applied(req[c])
    BY Zenon DEF Applied
  <2>5. reply[c] = "ack" => Applied(req[c])
    BY <1>acks, Zenon DEF AckInv, AckMeansApplied, Applied
  <2> QED
    BY <2>2, <2>3, <2>4, <2>5, Zenon
<1>1. CASE Tick
  BY <1>1, <1>still, Zenon DEF Tick
<1>2. ASSUME NEW s \in Sessions, CreateSession(s)
      PROVE  AckInv'
  BY <1>2, <1>still, Zenon DEF CreateSession
<1>3. ASSUME NEW c \in Calls, NEW p \in Calls \cup {NoCall}, Arrive(c, p)
      PROVE  AckInv'
  <2>1. AckStep(c)
    BY <1>type, <1>own, <1>3, Zenon DEF AckStep, Arrive
  <2> QED
    BY <1>acks, <2>1, AckFrame, Zenon
<1>4. ASSUME NEW c \in Calls, Step(c)
      PROVE  AckStep(c)
  <2> DEFINE k == req[c].key
  <2>1. k \in Keys /\ req[c].content \in Contents
    BY <1>own, Zenon
  <2>2. CASE AcquireFlight(c)
    <3>1. pc'[c] \in {"peek", "wait"} =>
             flight'[c] \in Calls /\ req[flight'[c]] = req[c]
      <4> SUFFICES ASSUME pc'[c] \in {"peek", "wait"}
                   PROVE  flight'[c] \in Calls /\ req[flight'[c]] = req[c]
        BY Zenon
      <4>1. /\ flights[k] # NoCall
            /\ req[flights[k]].content = req[c].content
            /\ flight'[c] = flights[k]
        BY <1>type, <2>1, <2>2, Zenon DEF AcquireFlight, Conflict
      <4>2. flights[k] \in Calls /\ req[flights[k]].key = k
        <5>1. flights \in [Keys -> Calls \cup {NoCall}]
          BY <1>type, Zenon
        <5> HIDE DEF TypeOK
        <5> QED
          BY <1>leads, <2>1, <4>1, <5>1, Zenon DEF OwnInv
      <4>3. \A d \in Calls :
               req[d] = [key |-> req[d].key, content |-> req[d].content]
        BY <1>own, Zenon
      <4> QED
        BY <4>1, <4>2, <4>3, Zenon
    <3>2. reply'[c] = "ack" => reply[c] = "ack"
      BY <1>type, <2>2, Zenon DEF AcquireFlight, Answer
    <3>3. pc'[c] \in {"lookup", "done", "peek", "wait"} /\ app[c] # "ok"
      BY <1>type, <1>own, <2>2 DEF AcquireFlight, Join
    <3>4. \A d \in Calls \ {c} :
             pc'[d] = pc[d] /\ flight'[d] = flight[d] /\ reply'[d] = reply[d]
      BY <1>type, <2>2, Zenon DEF AcquireFlight, Answer
    <3>5. UNCHANGED <<app, req, records, flightAck>>
      BY <2>2, Zenon DEF AcquireFlight
    <3> QED
      BY <1>own, <3>1, <3>2, <3>3, <3>4, <3>5, Zenon DEF AckStep
  <2>3. CASE Peek(c) \/ WaitForOriginal(c)
    <3>1. flight[c] \in Calls /\ req[flight[c]] = req[c]
      BY <1>own, <2>3, Zenon DEF Peek, WaitForOriginal
    <3>2. flightAck[flight[c]] => Applied(req[c])
      BY <1>own, <3>1, Zenon
    <3>3. reply'[c] = "ack" => flightAck[flight[c]]
      BY <1>type, <2>3, Zenon DEF Peek, WaitForOriginal, Answer
    <3>4. /\ pc'[c] = "done"
          /\ \A d \in Calls \ {c} : pc'[d] = pc[d] /\ reply'[d] = reply[d]
          /\ UNCHANGED <<app, req, records, flight, flightAck>>
      BY <1>type, <2>3, Zenon DEF Peek, WaitForOriginal, Answer
    <3> QED
      BY <1>own, <3>2, <3>3, <3>4, Zenon DEF AckStep
  <2>4. CASE BeginCallback(c)
    BY <1>type, <1>own, <2>4, Zenon DEF AckStep, BeginCallback
  <2>5. CASE CallbackFails(c)
    BY <1>type, <1>own, <2>5, Zenon DEF AckStep, CallbackFails, Return
  <2>6. CASE LookupReturns(c)
    <3>1. /\ reply'[c] = "ack" => reply[c] = "ack"
          /\ \A d \in Calls \ {c} : reply'[d] = reply[d]
      BY <1>type, <2>6, Zenon DEF LookupReturns, Answer
    <3>2. /\ pc[c] = "lookup" /\ pc'[c] \in {"claim", "finish"}
          /\ \A d \in Calls \ {c} : pc'[d] = pc[d]
          /\ UNCHANGED <<app, req, records, flight, flightAck>>
      BY <1>type, <2>6, Zenon DEF LookupReturns, Return
    <3> QED
      BY <1>own, <3>1, <3>2, Zenon DEF AckStep
  <2>7. CASE ClaimFindsRecord(c)
    <3>1. reply'[c] = "ack" \/ flightAck' # flightAck =>
             /\ records[k].state = "completed"
             /\ records[k].content = req[c].content
      BY <1>type, <2>7, Zenon DEF ClaimFindsRecord, Answer
    <3>2. reply'[c] = "ack" \/ flightAck' # flightAck => Applied(req[c])
      BY <1>acks, <1>own, <2>1, <3>1, Zenon DEF AckInv
    <3>3. \A d \in Calls \ {c} :
             flightAck'[d] = flightAck[d] /\ reply'[d] = reply[d]
      BY <1>type, <2>7, Zenon DEF ClaimFindsRecord, Answer
    <3>4. /\ pc[c] = "claim" /\ pc'[c] = "finish"
          /\ \A d \in Calls \ {c} : pc'[d] = pc[d]
          /\ UNCHANGED <<app, req, records, flight>>
      BY <1>type, <2>7, Zenon DEF ClaimFindsRecord, Return
    <3> QED
      BY <1>own, <3>2, <3>3, <3>4, Zenon DEF AckStep
  <2>8. CASE ClaimGranted(c)
    <3>1. \A j \in Keys : records'[j].state = "completed"
             => records'[j] = records[j]
      BY <1>type, <2>1, <2>8, Zenon DEF ClaimGranted, Record
    <3>2. /\ pc[c] = "claim" /\ pc'[c] = "afterClaim"
          /\ \A d \in Calls \ {c} : pc'[d] = pc[d]
          /\ UNCHANGED <<app, req, flight, flightAck, reply>>
      BY <1>type, <2>8, Zenon DEF ClaimGranted, Return
    <3> QED
      BY <1>own, <3>1, <3>2, Zenon DEF AckStep
  <2>9. CASE InjectorPasses(c)
    <3>1. /\ reply'[c] = "ack" => reply[c] = "ack" \/ pc[c] = "afterComplete"
          /\ \A d \in Calls \ {c} : reply'[d] = reply[d]
      BY <1>type, <2>9, Zenon DEF InjectorPasses, Return, Answer
    <3>2. /\ \/ pc[c] = "afterClaim" /\ pc'[c] = "app"
             \/ pc[c] = "afterApp" /\ pc'[c] = "complete"
             \/ pc[c] = "afterComplete" /\ pc'[c] = "finish"
          /\ \A d \in Calls \ {c} : pc'[d] = pc[d]
          /\ UNCHANGED <<app, req, records, flight, flightAck>>
      BY <1>type, <2>9, Zenon DEF InjectorPasses, Return
    <3> QED
      BY <1>own, <3>1, <3>2, Zenon DEF AckStep
  <2>10. CASE AppSucceeds(c)
    BY <1>type, <1>own, <2>10, Zenon DEF AckStep, AppSucceeds, Return
  <2>11. CASE AppFails(c)
    BY <1>type, <1>own, <2>11, Zenon DEF AckStep, AppFails, Return, Answer
  <2>12. CASE CompleteReturns(c)
    <3>1. /\ pc[c] = "complete" /\ pc'[c] = "afterComplete"
          /\ \A d \in Calls \ {c} : pc'[d] = pc[d] /\ flightAck'[d] = flightAck[d]
          /\ UNCHANGED <<app, req, flight, reply>>
      BY <1>type, <2>12, Zenon DEF CompleteReturns, Return
    <3>2. records[k].content = req[c].content
      BY <1>leads, <3>1, Zenon DEF OwnInv, Claimed
    <3>3. /\ records'[k].content = records[k].content
          /\ \A j \in Keys : j # k => records'[j] = records[j]
      <4>1. records' = [records EXCEPT ![k] =
                           Record("completed", records[k].content)]
        BY <2>12, Zenon DEF CompleteReturns
      <4> QED
        BY <1>type, <2>1, <4>1, Zenon DEF Record
    <3>4. Applied([key |-> k, content |-> records'[k].content])
      <4>1. /\ Applied(req[c])
            /\ req[c] = [key |-> k, content |-> req[c].content]
        BY <1>own, <3>1, Zenon
      <4> QED
        BY <3>2, <3>3, <4>1, Zenon
    <3> QED
      BY <1>own, <3>1, <3>3, <3>4, Zenon DEF AckStep
  <2>13. CASE FinishFlight(c)
    BY <1>type, <1>own, <2>13, Zenon DEF AckStep, FinishFlight
  <2> QED
    BY <1>4, <2>2, <2>3, <2>4, <2>5, <2>6, <2>7, <2>8, <2>9,
       <2>10, <2>11, <2>12, <2>13, Zenon DEF Step
<1>5. ASSUME NEW c \in Calls, WaitCancelled(c)
      PROVE  AckStep(c)
  BY <1>type, <1>own, <1>5, Zenon DEF AckStep, WaitCancelled
<1>6. ASSUME NEW k \in Keys, Abort(k)
      PROVE  AckInv'
  <2>1. /\ UNCHANGED <<pc, flight, req, app, flightAck, reply>>
        /\ \A j \in Keys : records'[j].state = "completed"
              => records'[j] = records[j]
    BY <1>type, <1>6, Zenon DEF Abort, Absent
  <2> HIDE DEF TypeOK
  <2>2. \A j \in Keys : records'[j].state = "completed"
           => Applied([key |-> j, content |-> records'[j].content])
    BY <1>acks, <2>1, Zenon DEF AckInv
  <2>3. \A j \in Keys : records'[j].state = "completed" =>
           \E d \in Calls :
              app'[d] = "ok"
              /\ req'[d] = [key |-> j, content |-> records'[j].content]
    BY <2>1, <2>2, Zenon DEF Applied
  <2>4. /\ \A c \in Calls : flightAck'[c] =>
              \E d \in Calls : app'[d] = "ok" /\ req'[d] = req'[c]
        /\ AckMeansApplied'
    BY <1>acks, <2>1, Zenon DEF AckInv, AckMeansApplied, Applied
  <2>5. /\ \A c \in Calls : pc'[c] \in {"peek", "wait"} =>
              flight'[c] \in Calls /\ req'[flight'[c]] = req'[c]
        /\ \A c \in Calls : app'[c] = "ok" =>
              pc'[c] \in {"afterApp", "complete", "afterComplete", "finish",
                         "done"}
        /\ \A c \in Calls : pc'[c] \in {"afterApp", "complete", "afterComplete"}
              => app'[c] = "ok"
    BY <1>acks, <2>1, Zenon DEF AckInv
  <2> QED
    BY <2>3, <2>4, <2>5, Zenon DEF AckInv, Applied
<1>7. CASE UNCHANGED vars
  BY <1>7, <1>still, Zenon DEF vars
<1> QED
  BY <1>0, <1>1, <1>2, <1>3, <1>4, <1>5, <1>6, <1>7, AckFrame, Zenon DEF Next

\* When retention outlasts the Session by the longest handler delay, Claim
\* never finds an expired COMPLETED record: its Session has expired before it.
LEMMA GrantedIsFresh ==
    ASSUME DedupTTL >= SessionResumeTTL + MaxDelay, TypeOK, TimeInv,
           NEW c \in Calls, ClaimGranted(c)
    PROVE  records[req[c].key].state # "completed"
<1> DEFINE k == req[c].key
<1>1. SUFFICES ASSUME records[k].state = "completed"
               PROVE  FALSE
  BY Zenon
<1>2. k \in Keys /\ k[1] \in Sessions
  BY Zenon DEF TypeOK, Requests, Keys
<1>3. /\ clock \in Nat /\ now[c] \in Nat /\ expiresAt[k[1]] \in Nat
      /\ records[k] \in Records
  BY <1>2, Zenon DEF TypeOK
<1>4. records[k].expiresAt \in Nat /\ records[k] # Absent
  BY <1>1, <1>3 DEF Records, Absent
<1>5. pc[c] = "claim" /\ ~Held(k)
  BY Zenon DEF ClaimGranted, Return
<1>6. clock >= records[k].expiresAt
  BY <1>3, <1>4, <1>5 DEF Held
<1>7. now[c] < expiresAt[k[1]]
  BY <1>5, Zenon DEF TimeInv, Live
<1>8. clock <= now[c] + MaxDelay
  BY <1>5, Zenon DEF TimeInv, BeforeClaim
<1>9. expiresAt[k[1]] + DedupTTL <= records[k].expiresAt + SessionResumeTTL
  BY <1>1, <1>2, Zenon DEF TimeInv
<1>10. \A t, n, e, x \in Nat : \A R, D, M \in Nat :
          ~ (/\ D >= R + M /\ t >= x /\ n < e /\ t <= n + M
             /\ e + D <= x + R)
  OBVIOUS
<1> HIDE DEF k
<1> QED
  BY <1>3, <1>4, <1>6, <1>7, <1>8, <1>9, <1>10, TTLAssumption,
     BoundAssumption, Zenon

\* What OnceInv asks of a step of the call c that does not start an execution:
\* c neither returns to a point before the application nor enters it with its
\* callback active, an execution is neither begun nor forgotten, and no record
\* disappears.
OnceStep(c) ==
    /\ req' = req
    /\ \A d \in Calls \ {c} :
          pc'[d] = pc[d] /\ callback'[d] = callback[d] /\ app'[d] = app[d]
    /\ BeforeApp(c)' => BeforeApp(c)
    /\ pc'[c] # "app" \/ ~callback'[c]
    /\ pc'[c] \in {"afterClaim", "app"} => pc[c] \in {"afterClaim", "app"}
    /\ app'[c] = "none" <=> app[c] = "none"
    /\ \A k \in Keys : records[k] # Absent => records'[k] # Absent

\* Such a step preserves OnceInv.
LEMMA OnceFrame ==
    ASSUME TypeOK, OnceInv, NEW c \in Calls, OnceStep(c)
    PROVE  OnceInv'
<1>1. req' = req
  BY Zenon DEF OnceStep
<1>2. \A d \in Calls : app'[d] = "none" <=> app[d] = "none"
  BY Zenon DEF OnceStep
<1>3. \A d \in Calls : BeforeApp(d)' => BeforeApp(d)
  BY Zenon DEF OnceStep, BeforeApp
<1>4. \A d \in Calls : pc'[d] \in {"afterClaim", "app"}
         => pc[d] \in {"afterClaim", "app"}
  BY Zenon DEF OnceStep
<1>5. \A d \in Calls : BeforeApp(d)' => app'[d] = "none"
  BY <1>2, <1>3, Zenon DEF OnceInv
<1>6. \A d \in Calls : pc'[d] = "app" /\ callback'[d] => app'[d] # "none"
  BY <1>2, Zenon DEF OnceStep, OnceInv
<1>7. \A d \in Calls : app'[d] # "none" => records'[req'[d].key] # Absent
  <2>1. \A d \in Calls : req[d].key \in Keys
    BY Zenon DEF TypeOK, Requests
  <2> QED
    BY <1>1, <1>2, <2>1, Zenon DEF OnceStep, OnceInv
<1>8. ASSUME NEW d \in Calls, NEW e \in Calls,
             pc'[d] \in {"afterClaim", "app"}, BeforeApp(d)',
             req'[e].key = req'[d].key
      PROVE  app'[e] = "none"
  <2>1. pc[d] \in {"afterClaim", "app"} /\ BeforeApp(d)
    BY <1>3, <1>4, <1>8, Zenon
  <2> QED
    BY <1>1, <1>2, <1>8, <2>1, Zenon DEF OnceInv
<1>9. AtMostOnce'
  BY <1>1, <1>2, Zenon DEF OnceInv, AtMostOnce
<1> QED
  BY <1>5, <1>6, <1>7, <1>8, <1>9, Zenon DEF OnceInv, Absent

\* When retention outlasts the Session by the longest handler delay, a step
\* never lets an identity execute twice.
LEMMA OnceInductive ==
    /\ DedupTTL >= SessionResumeTTL + MaxDelay
    /\ TypeOK /\ OwnInv /\ TimeInv /\ OnceInv
    /\ [Next]_vars
    => OnceInv'
<1>0. SUFFICES ASSUME DedupTTL >= SessionResumeTTL + MaxDelay,
                      TypeOK, OwnInv, TimeInv, OnceInv, [Next]_vars
               PROVE  OnceInv'
  BY Zenon
<1>type. TypeOK
  BY <1>0, Zenon
<1>leads. OwnInv
  BY <1>0, Zenon
<1>once. OnceInv
  BY <1>0, Zenon
<1> USE DEF TypeOK, Goto
<1>still. UNCHANGED <<pc, callback, req, app, records>> => OnceInv'
  BY <1>once, Zenon DEF OnceInv, BeforeApp, AtMostOnce
<1>keys. \A c \in Calls : req[c].key \in Keys
  BY <1>type, Zenon DEF Requests
<1>1. CASE Tick
  BY <1>1, <1>still, Zenon DEF Tick
<1>2. ASSUME NEW s \in Sessions, CreateSession(s)
      PROVE  OnceInv'
  BY <1>2, <1>still, Zenon DEF CreateSession
<1>3. ASSUME NEW c \in Calls, NEW p \in Calls \cup {NoCall}, Arrive(c, p)
      PROVE  OnceInv'
  <2>1. OnceStep(c)
    BY <1>type, <1>3, Zenon DEF OnceStep, BeforeApp, Arrive
  <2> QED
    BY <1>type, <1>once, <2>1, OnceFrame, Zenon
<1>4. ASSUME NEW c \in Calls, Step(c)
      PROVE  OnceInv'
  <2> DEFINE k == req[c].key
  <2>1. k \in Keys /\ req[c].content \in Contents
    BY <1>type, Zenon DEF Requests
  <2>2. CASE AcquireFlight(c)
    <3>1. /\ pc[c] = "acquire"
          /\ pc'[c] \in {"lookup", "done", "peek", "wait"}
          /\ \A d \in Calls : d # c => pc'[d] = pc[d]
          /\ UNCHANGED <<app, req, records, callback>>
      BY <1>type, <2>2, Zenon DEF AcquireFlight, Join
    <3>2. OnceStep(c)
      BY <3>1, Zenon DEF OnceStep, BeforeApp
    <3> QED
      BY <1>type, <1>once, <3>2, OnceFrame, Zenon
  <2>3. CASE Peek(c)
    <3>1. OnceStep(c)
      BY <1>type, <2>3, Zenon DEF OnceStep, BeforeApp, Peek
    <3> QED
      BY <1>type, <1>once, <3>1, OnceFrame, Zenon
  <2>4. CASE WaitForOriginal(c)
    <3>1. OnceStep(c)
      BY <1>type, <2>4, Zenon DEF OnceStep, BeforeApp, WaitForOriginal
    <3> QED
      BY <1>type, <1>once, <3>1, OnceFrame, Zenon
  <2>5. CASE BeginCallback(c)
    <3>1. CASE pc[c] = "app"
      <4>1. /\ app' = [app EXCEPT ![c] = "called"]
            /\ callback' = [callback EXCEPT ![c] = TRUE]
            /\ ~callback[c]
            /\ UNCHANGED <<pc, req, records>>
        BY <2>5, <3>1, Zenon DEF BeginCallback
      <4>2. \A d \in Calls : req[d].key = k => app[d] = "none"
        BY <1>once, <3>1, <4>1, Zenon DEF OnceInv, BeforeApp
      <4>3. \A d \in Calls : pc[d] \in {"afterClaim", "app"} /\ d # c
                             => req[d].key # k
        BY <1>leads, <3>1 DEF OwnInv, Leading, Stages
      <4>4. records[k] # Absent
        BY <1>leads, <3>1 DEF OwnInv, Claimed, Absent
      <4>5. /\ app'[c] = "called" /\ callback'[c]
            /\ \A d \in Calls : d # c =>
                  app'[d] = app[d] /\ callback'[d] = callback[d]
        BY <1>type, <4>1, Zenon
      <4> HIDE DEF TypeOK
      <4>6. ~BeforeApp(c)' /\ \A d \in Calls : BeforeApp(d)' => BeforeApp(d)
        BY <3>1, <4>1, <4>5, Zenon DEF BeforeApp
      <4>7. \A d \in Calls : BeforeApp(d)' => app'[d] = "none"
        BY <1>once, <4>5, <4>6, Zenon DEF OnceInv
      <4>8. \A d \in Calls : pc'[d] = "app" /\ callback'[d] => app'[d] # "none"
        BY <1>once, <4>1, <4>5, Zenon DEF OnceInv
      <4>9. \A d \in Calls : app'[d] # "none" => records'[req'[d].key] # Absent
        BY <1>once, <4>1, <4>4, <4>5, Zenon DEF OnceInv
      <4>10. ASSUME NEW d \in Calls, NEW e \in Calls,
                    pc'[d] \in {"afterClaim", "app"}, BeforeApp(d)',
                    req'[e].key = req'[d].key
             PROVE  app'[e] = "none"
        <5>1. d # c /\ BeforeApp(d) /\ pc[d] \in {"afterClaim", "app"}
          BY <4>1, <4>6, <4>10, Zenon
        <5>2. e # c /\ app[e] = "none"
          BY <1>once, <4>1, <4>3, <4>10, <5>1, Zenon DEF OnceInv
        <5> QED
          BY <4>5, <5>2, Zenon
      <4>11. AtMostOnce'
        BY <1>once, <4>1, <4>2, <4>5 DEF OnceInv, AtMostOnce
      <4> QED
        BY <4>7, <4>8, <4>9, <4>10, <4>11, Zenon DEF OnceInv, Absent
    <3>2. CASE pc[c] # "app"
      <4>1. /\ callback' = [callback EXCEPT ![c] = TRUE]
            /\ UNCHANGED <<app, pc, req, records>>
        BY <2>5, <3>2, Zenon DEF BeginCallback
      <4>2. OnceStep(c)
        BY <1>type, <3>2, <4>1, Zenon DEF OnceStep, BeforeApp
      <4> QED
        BY <1>type, <1>once, <4>2, OnceFrame, Zenon
    <3> QED
      BY <3>1, <3>2, Zenon
  <2>6. CASE CallbackFails(c)
    <3>1. OnceStep(c)
      BY <1>type, <2>6, Zenon DEF OnceStep, BeforeApp, CallbackFails, Return
    <3> QED
      BY <1>type, <1>once, <3>1, OnceFrame, Zenon
  <2>7. CASE LookupReturns(c)
    <3>1. OnceStep(c)
      BY <1>type, <2>7, Zenon DEF OnceStep, BeforeApp, LookupReturns, Return
    <3> QED
      BY <1>type, <1>once, <3>1, OnceFrame, Zenon
  <2>8. CASE ClaimFindsRecord(c)
    <3>1. OnceStep(c)
      BY <1>type, <2>8, Zenon DEF OnceStep, BeforeApp, ClaimFindsRecord, Return
    <3> QED
      BY <1>type, <1>once, <3>1, OnceFrame, Zenon
  <2>9. CASE ClaimGranted(c)
    <3>1. /\ pc[c] = "claim"
          /\ ~Held(k)
          /\ records' = [records EXCEPT ![k] =
                            Record("processing", req[c].content)]
          /\ Goto(c, "afterClaim")
          /\ callback' = [callback EXCEPT ![c] = FALSE]
          /\ UNCHANGED <<req, app>>
      BY <2>9, Zenon DEF ClaimGranted, Return
    <3>2. records[k].state # "completed"
      BY <1>0, <2>9, GrantedIsFresh, Zenon
    <3>3. records[k] = Absent
      BY <1>type, <2>1, <3>1, <3>2, Zenon DEF Held, Records
    <3>4. \A d \in Calls : req[d].key = k => app[d] = "none"
      BY <1>once, <3>3, Zenon DEF OnceInv
    <3>5. records'[k] # Absent /\ \A j \in Keys : j # k => records'[j] = records[j]
      BY <1>type, <2>1, <3>1, Zenon DEF Record, Absent
    <3>6. /\ pc'[c] = "afterClaim" /\ ~callback'[c]
          /\ \A d \in Calls : d # c =>
                pc'[d] = pc[d] /\ callback'[d] = callback[d]
      BY <1>type, <3>1, Zenon
    <3> HIDE DEF TypeOK
    <3>7. \A d \in Calls : d # c => (BeforeApp(d)' => BeforeApp(d))
      BY <3>6, Zenon DEF BeforeApp
    <3>8. \A d \in Calls : BeforeApp(d)' => app'[d] = "none"
      BY <1>once, <3>1, <3>4, <3>7, Zenon DEF OnceInv
    <3>9. \A d \in Calls : pc'[d] = "app" /\ callback'[d] => app'[d] # "none"
      BY <1>once, <3>1, <3>6, Zenon DEF OnceInv
    <3>10. \A d \in Calls : app'[d] # "none" => records'[req'[d].key] # Absent
      BY <1>once, <1>keys, <3>1, <3>5, Zenon DEF OnceInv
    <3>11. ASSUME NEW d \in Calls, NEW e \in Calls,
                  pc'[d] \in {"afterClaim", "app"}, BeforeApp(d)',
                  req'[e].key = req'[d].key
           PROVE  app'[e] = "none"
      <4>1. CASE d = c
        BY <3>1, <3>4, <3>11, <4>1, Zenon
      <4>2. CASE d # c
        BY <1>once, <3>1, <3>6, <3>7, <3>11, <4>2, Zenon DEF OnceInv
      <4> QED
        BY <4>1, <4>2, Zenon
    <3>12. AtMostOnce'
      BY <1>once, <3>1, Zenon DEF OnceInv, AtMostOnce
    <3> QED
      BY <3>8, <3>9, <3>10, <3>11, <3>12, Zenon DEF OnceInv, Absent
  <2>10. CASE InjectorPasses(c)
    <3>1. /\ \/ pc[c] = "afterClaim" /\ pc'[c] = "app"
             \/ pc[c] = "afterApp" /\ pc'[c] = "complete"
             \/ pc[c] = "afterComplete" /\ pc'[c] = "finish"
          /\ callback'[c] = FALSE
      BY <1>type, <2>10, Zenon DEF InjectorPasses, Return
    <3>2. /\ \A d \in Calls : d # c =>
                pc'[d] = pc[d] /\ callback'[d] = callback[d]
          /\ UNCHANGED <<app, req, records>>
      BY <1>type, <2>10, Zenon DEF InjectorPasses, Return
    <3>3. OnceStep(c)
      BY <3>1, <3>2, Zenon DEF OnceStep, BeforeApp
    <3> QED
      BY <1>type, <1>once, <3>3, OnceFrame, Zenon
  <2>11. CASE AppSucceeds(c) \/ AppFails(c)
    <3>1. /\ pc[c] = "app" /\ callback[c]
          /\ pc'[c] \in {"afterApp", "finish"}
          /\ app'[c] # "none"
      BY <1>type, <2>11, Zenon DEF AppSucceeds, AppFails, Return
    <3>2. /\ \A d \in Calls : d # c =>
                /\ pc'[d] = pc[d] /\ callback'[d] = callback[d]
                /\ app'[d] = app[d]
          /\ UNCHANGED <<req, records>>
      BY <1>type, <2>11, Zenon DEF AppSucceeds, AppFails, Return
    <3>3. app[c] # "none"
      BY <1>once, <3>1, Zenon DEF OnceInv
    <3>4. OnceStep(c)
      BY <3>1, <3>2, <3>3, Zenon DEF OnceStep, BeforeApp
    <3> QED
      BY <1>type, <1>once, <3>4, OnceFrame, Zenon
  <2>12. CASE CompleteReturns(c)
    <3>1. /\ records' = [records EXCEPT ![k] =
                            Record("completed", records[k].content)]
          /\ pc[c] = "complete" /\ Goto(c, "afterComplete")
          /\ callback' = [callback EXCEPT ![c] = FALSE]
          /\ UNCHANGED <<req, app>>
      BY <2>12, Zenon DEF CompleteReturns, Return
    <3>2. records'[k] # Absent /\ \A j \in Keys : j # k => records'[j] = records[j]
      BY <1>type, <2>1, <3>1, Zenon DEF Record, Absent
    <3>3. /\ pc'[c] = "afterComplete"
          /\ \A d \in Calls : d # c =>
                pc'[d] = pc[d] /\ callback'[d] = callback[d]
      BY <1>type, <3>1, Zenon
    <3>4. OnceStep(c)
      BY <3>1, <3>2, <3>3, Zenon DEF OnceStep, BeforeApp
    <3> QED
      BY <1>type, <1>once, <3>4, OnceFrame, Zenon
  <2>13. CASE FinishFlight(c)
    <3>1. OnceStep(c)
      BY <1>type, <2>13, Zenon DEF OnceStep, BeforeApp, FinishFlight
    <3> QED
      BY <1>type, <1>once, <3>1, OnceFrame, Zenon
  <2> QED
    BY <1>4, <2>2, <2>3, <2>4, <2>5, <2>6, <2>7, <2>8, <2>9,
       <2>10, <2>11, <2>12, <2>13, Zenon DEF Step
<1>5. ASSUME NEW c \in Calls, WaitCancelled(c)
      PROVE  OnceInv'
  <2>1. OnceStep(c)
    BY <1>type, <1>5, Zenon DEF OnceStep, BeforeApp, WaitCancelled
  <2> QED
    BY <1>type, <1>once, <2>1, OnceFrame, Zenon
<1>6. ASSUME NEW k \in Keys, Abort(k)
      PROVE  OnceInv'
  <2>1. /\ \A c \in Calls : req[c].key = k => app[c] = "none"
        /\ \A j \in Keys : j # k => records'[j] = records[j]
        /\ UNCHANGED <<pc, callback, req, app>>
    BY <1>type, <1>6, Zenon DEF Abort
  <2> HIDE DEF TypeOK
  <2>2. \A c \in Calls : app[c] # "none" => records'[req[c].key] # Absent
    BY <1>once, <1>keys, <2>1, Zenon DEF OnceInv
  <2> QED
    BY <1>once, <2>1, <2>2, Zenon DEF OnceInv, BeforeApp, AtMostOnce
<1>7. CASE UNCHANGED vars
  BY <1>7, <1>still, Zenon DEF vars
<1> QED
  BY <1>0, <1>1, <1>2, <1>3, <1>4, <1>5, <1>6, <1>7, Zenon DEF Next

\* Reachable states satisfy the invariants that hold whatever the TTLs are.
LEMMA Invariance == Spec => [](TypeOK /\ OwnInv /\ AckInv /\ TimeInv)
<1>1. Init => OwnInv /\ AckInv /\ TimeInv
  <2> SUFFICES ASSUME Init
               PROVE  OwnInv /\ AckInv /\ TimeInv
    BY Zenon
  <2> USE DEF Init
  <2>1. OwnInv
    BY Zenon DEF OwnInv, Leading, Stages, Claimed
  <2>2. AckInv
    <3>1. \A c \in Calls : /\ pc[c] = "idle" /\ app[c] = "none"
                          /\ ~flightAck[c] /\ reply[c] = "none"
      BY Zenon
    <3>2. \A k \in Keys : records[k].state # "completed"
      BY Zenon DEF Absent
    <3> HIDE DEF Init
    <3> QED
      BY <3>1, <3>2, Zenon DEF AckInv, AckMeansApplied
  <2>3. TimeInv
    BY TTLAssumption, BoundAssumption
    DEF TimeInv, BeforeClaim, Claimed, Live, Absent
  <2> QED
    BY <2>1, <2>2, <2>3, Zenon
<1> QED
  BY <1>1, TypeCorrect, OwnInductive, AckInductive, TimeInductive, PTL
  DEF Spec

\* An ACK enqueued by handleSend, from whichever of its four sources, always
\* stands for an application call that accepted this identity and content.
THEOREM AckSound == Spec => []AckMeansApplied
<1>1. AckInv => AckMeansApplied
  BY Zenon DEF AckInv
<1> QED
  BY <1>1, Invariance, PTL

\* When the record of a completed SEND is kept at least as long as a Session
\* lives plus the longest time a handler takes from its clock sample to its
\* Claim, the application is called at most once per SEND identity.
THEOREM SendAtMostOnce ==
    ASSUME DedupTTL >= SessionResumeTTL + MaxDelay
    PROVE  Spec => []AtMostOnce
<1>1. Init => OnceInv
  BY Zenon DEF Init, OnceInv, BeforeApp, AtMostOnce
<1>2. TypeOK /\ OwnInv /\ TimeInv /\ OnceInv /\ [Next]_vars => OnceInv'
  BY OnceInductive, Zenon
<1>3. OnceInv => AtMostOnce
  BY Zenon DEF OnceInv
<1> QED
  BY <1>1, <1>2, <1>3, Invariance, PTL DEF Spec

\* Under the same assumption no Claim ever deletes or rebinds a COMPLETED
\* record: every later retry of a live Session still finds its stored ACK.
THEOREM CompletedStays ==
    ASSUME DedupTTL >= SessionResumeTTL + MaxDelay
    PROVE  Spec => CompletedIsFinal
<1>1. ASSUME TypeOK, OwnInv, TimeInv, [Next]_vars,
             NEW k \in Keys, records[k].state = "completed"
      PROVE  records'[k] = records[k]
  <2> USE DEF TypeOK
  <2>1. ASSUME NEW c \in Calls, ClaimGranted(c), req[c].key = k
        PROVE  FALSE
    BY <1>1, <2>1, GrantedIsFresh, Zenon
  <2>2. ASSUME NEW c \in Calls, CompleteReturns(c)
        PROVE  req[c].key # k
    BY <1>1, <2>2, Zenon DEF CompleteReturns
  <2>3. CASE \E c \in Calls : Step(c)
    <3>1. PICK c \in Calls : Step(c)
      BY <2>3, Zenon
    <3>2. CASE ClaimGranted(c)
      BY <1>1, <2>1, <3>2, Zenon DEF ClaimGranted
    <3>3. CASE CompleteReturns(c)
      BY <1>1, <2>2, <3>3, Zenon DEF CompleteReturns
    <3>4. CASE ~ClaimGranted(c) /\ ~CompleteReturns(c)
      BY <3>1, <3>4, Zenon
      DEF Step, AcquireFlight, Peek, WaitForOriginal, BeginCallback,
          CallbackFails, LookupReturns, ClaimFindsRecord, InjectorPasses,
          AppSucceeds, AppFails, FinishFlight
    <3> QED
      BY <3>2, <3>3, <3>4, Zenon
  <2>4. CASE \E j \in Keys : Abort(j)
    BY <1>1, <2>4, Zenon DEF Abort
  <2> QED
    BY <1>1, <2>3, <2>4, Zenon
    DEF Next, vars, Tick, CreateSession, Arrive, WaitCancelled
<1>2. TypeOK /\ OwnInv /\ TimeInv /\ [Next]_vars =>
         [\A k \in Keys : records[k].state = "completed"
                             => records'[k] = records[k]]_vars
  BY <1>1, Zenon
<1> QED
  BY <1>2, Invariance, PTL DEF Spec, CompletedIsFinal

=============================================================================
