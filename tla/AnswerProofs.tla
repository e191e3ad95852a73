---------------------------- MODULE AnswerProofs ----------------------------
(***************************************************************************)
(* The readers of EventSync preserve ConnInv: every answer makes good what *)
(* its WELCOME promises, and leaves the gate ready for the next request.   *)
(***************************************************************************)
EXTENDS ConnectionInvariants, EventLogProofs

-----------------------------------------------------------------------------
(* What stands behind a member of a queue.                                 *)

\* What stands behind a member once the first is taken.
LEMMA LaterTail ==
    ASSUME NEW q, Sequence(q), q # <<>>
    PROVE  /\ Later(q, 1) = Range(Tail(q))
           /\ \A i \in 1..Len(Tail(q)) : Later(Tail(q), i) = Later(q, i + 1)
<1>1. PICK t : t = Tail(q)
  BY Zenon
<1>2. /\ Len(q) \in Nat \ {0} /\ Sequence(t) /\ Len(t) = Len(q) - 1
      /\ \A n \in 1..Len(q) - 1 : t[n] = q[n + 1]
  BY <1>1, SeqTail, Zenon
<1>3. ASSUME NEW i \in 0..Len(t)
      PROVE  {t[j] : j \in i + 1..Len(t)} = {q[j] : j \in i + 2..Len(q)}
  <2>1. ASSUME NEW j \in i + 1..Len(t)
        PROVE  j + 1 \in i + 2..Len(q) /\ t[j] = q[j + 1]
    BY <1>2
  <2>2. ASSUME NEW j \in i + 2..Len(q)
        PROVE  j - 1 \in i + 1..Len(t) /\ t[j - 1] = q[j]
    <3>1. j - 1 \in i + 1..Len(t) /\ j - 1 \in 1..Len(q) - 1
          /\ (j - 1) + 1 = j
      BY <1>2
    <3> QED
      BY <1>2, <3>1, Zenon
  <2>3. ASSUME NEW x \in {t[j] : j \in i + 1..Len(t)}
        PROVE  x \in {q[j] : j \in i + 2..Len(q)}
    BY <2>1, Zenon
  <2>4. ASSUME NEW x \in {q[j] : j \in i + 2..Len(q)}
        PROVE  x \in {t[j] : j \in i + 1..Len(t)}
    <3>1. PICK j \in i + 2..Len(q) : x = q[j]
      BY Zenon
    <3> QED
      BY <2>2, <3>1, Zenon
  <2> QED
    BY <2>3, <2>4, Zenon
<1>4. Later(q, 1) = Range(t)
  <2>1. Range(t) = {t[j] : j \in 1..Len(t)}
    BY <1>2, SeqFields, Zenon DEF Range
  <2>2. 0 \in 0..Len(t) /\ 0 + 1 = 1 /\ 0 + 2 = 1 + 1
    BY <1>2
  <2>3. {t[j] : j \in 0 + 1..Len(t)} = {q[j] : j \in 0 + 2..Len(q)}
    BY <1>3, <2>2, Zenon
  <2> QED
    BY <2>1, <2>2, <2>3, Zenon DEF Later
<1>5. ASSUME NEW i \in 1..Len(t)
      PROVE  Later(t, i) = Later(q, i + 1)
  <2>1. i \in 0..Len(t) /\ i + 2 = (i + 1) + 1
    BY <1>2
  <2> QED
    BY <1>3, <2>1, Zenon DEF Later
<1> QED
  BY <1>1, <1>4, <1>5, Zenon

\* What stands behind the members of two sequences put together.
LEMMA LaterConcat ==
    ASSUME NEW p, Sequence(p), NEW q, Sequence(q)
    PROVE  /\ \A i \in 1..Len(p) : Later(p \o q, i) = Later(p, i) \cup Range(q)
           /\ \A i \in 1..Len(q) : Later(p \o q, Len(p) + i) = Later(q, i)
<1>1. PICK r : r = p \o q
  BY Zenon
<1>2. /\ Len(p) \in Nat /\ Len(q) \in Nat /\ Len(r) = Len(p) + Len(q)
      /\ \A n \in 1..Len(p) : r[n] = p[n]
      /\ \A n \in 1..Len(q) : r[Len(p) + n] = q[n]
  BY <1>1, SeqConcat, SeqFields
<1>3. Range(q) = {q[j] : j \in 1..Len(q)}
  BY SeqFields, Zenon DEF Range
<1>4. PICK P, Q \in Nat : P = Len(p) /\ Q = Len(q)
  BY <1>2, Zenon
<1>5. ASSUME NEW i \in 1..P
      PROVE  {r[j] : j \in i + 1..P + Q} =
                {p[j] : j \in i + 1..P} \cup {q[j] : j \in 1..Q}
  <2>1. ASSUME NEW j \in i + 1..P + Q
        PROVE  \/ j \in i + 1..P /\ r[j] = p[j]
               \/ j - P \in 1..Q /\ r[j] = q[j - P]
    <3>1. j \in 1..P \/ j - P \in 1..Q
      OBVIOUS
    <3>2. CASE j \in 1..P
      BY <1>2, <1>4, <3>2
    <3>3. CASE j - P \in 1..Q
      <4>1. P + (j - P) = j
        OBVIOUS
      <4> QED
        BY <1>2, <1>4, <3>3, <4>1, Zenon
    <3> QED
      BY <3>1, <3>2, <3>3, Zenon
  <2>2. ASSUME NEW j \in i + 1..P
        PROVE  j \in i + 1..P + Q /\ r[j] = p[j]
    BY <1>2, <1>4
  <2>3. ASSUME NEW j \in 1..Q
        PROVE  P + j \in i + 1..P + Q /\ r[P + j] = q[j]
    BY <1>2, <1>4
  <2> QED
    BY <2>1, <2>2, <2>3
<1>6. ASSUME NEW i \in 1..Q
      PROVE  {r[j] : j \in P + i + 1..P + Q} = {q[j] : j \in i + 1..Q}
  <2>1. ASSUME NEW j \in P + i + 1..P + Q
        PROVE  j - P \in i + 1..Q /\ r[j] = q[j - P]
    <3>1. j - P \in i + 1..Q /\ j - P \in 1..Q /\ P + (j - P) = j
      OBVIOUS
    <3> QED
      BY <1>2, <1>4, <3>1, Zenon
  <2>2. ASSUME NEW j \in i + 1..Q
        PROVE  P + j \in P + i + 1..P + Q /\ r[P + j] = q[j]
    <3>1. P + j \in P + i + 1..P + Q /\ j \in 1..Q
      OBVIOUS
    <3> QED
      BY <1>2, <1>4, <3>1, Zenon
  <2> QED
    BY <2>1, <2>2
<1>7. ASSUME NEW i \in 1..Len(p)
      PROVE  Later(r, i) = Later(p, i) \cup Range(q)
  BY <1>2, <1>3, <1>4, <1>5, Zenon DEF Later
<1>8. ASSUME NEW i \in 1..Len(q)
      PROVE  Later(r, Len(p) + i) = Later(q, i)
  BY <1>2, <1>4, <1>6, Zenon DEF Later
<1> QED
  BY <1>1, <1>7, <1>8, Zenon

-----------------------------------------------------------------------------
(* Promises and what follows them.                                         *)

\* What comes later breaks no promise, unless it is a WELCOME.
LEMMA PromiseStays ==
    ASSUME NEW w, NEW S, NEW T, Promise(w, S), S \subseteq T, NoWelcome(T \ S)
    PROVE  Promise(w, T)
  BY Zenon DEF Promise, NoWelcome

\* Frames without a WELCOME promise nothing.
LEMMA NothingPromised ==
    ASSUME NEW q, Sequence(q), NoWelcome(Range(q)), NEW S
    PROVE  Answered(q, S)
  BY SeqFields, Zenon DEF Answered, Promise, NoWelcome

\* Frames put together keep the promises they make together.
LEMMA AnsweredConcat ==
    ASSUME NEW p, Sequence(p), NEW q, Sequence(q), Answered(p, Range(q)),
           Answered(q, {})
    PROVE  Answered(p \o q, {})
<1>1. PICK r : r = p \o q
  BY Zenon
<1>2. /\ Len(p) \in Nat /\ Len(q) \in Nat /\ Len(r) = Len(p) + Len(q)
      /\ \A i \in 1..Len(p) : r[i] = p[i]
      /\ \A i \in 1..Len(q) : r[Len(p) + i] = q[i]
  BY <1>1, SeqConcat, SeqFields
<1>3. /\ \A i \in 1..Len(p) : Later(r, i) = Later(p, i) \cup Range(q)
      /\ \A i \in 1..Len(q) : Later(r, Len(p) + i) = Later(q, i)
  BY <1>1, LaterConcat
<1>4. \A S : S \cup {} = S
  BY Zenon
<1>5. ASSUME NEW i \in 1..Len(r)
      PROVE  Promise(r[i], Later(r, i))
  <2>1. CASE i \in 1..Len(p)
    BY <1>2, <1>3, <2>1, Zenon DEF Answered
  <2>2. ASSUME NEW j \in 1..Len(q), i = Len(p) + j
        PROVE  Promise(r[i], Later(r, i))
    <3>1. r[i] = q[j] /\ Later(r, i) = Later(q, j) \cup {}
      BY <1>2, <1>3, <2>2, Zenon
    <3>2. Promise(q[j], Later(q, j) \cup {})
      BY Zenon DEF Answered
    <3> QED
      BY <3>1, <3>2, Zenon
  <2>3. i \in 1..Len(p) \/ \E j \in 1..Len(q) : i = Len(p) + j
    <3>1. i \in 1..Len(p) \/ i - Len(p) \in 1..Len(q)
      BY <1>2
    <3>2. i = Len(p) + (i - Len(p))
      BY <1>2
    <3> QED
      BY <3>1, <3>2, Zenon
  <2> QED
    BY <2>1, <2>2, <2>3, Zenon
<1> QED
  BY <1>1, <1>4, <1>5, Zenon DEF Answered

\* The first frame is taken.
LEMMA AnsweredTail ==
    ASSUME NEW q, Sequence(q), q # <<>>, Answered(q, {})
    PROVE  Promise(Head(q), Range(Tail(q))) /\ Answered(Tail(q), {})
<1>1. PICK t : t = Tail(q)
  BY Zenon
<1>2. /\ Len(q) \in Nat \ {0} /\ Head(q) = q[1] /\ Len(t) = Len(q) - 1
      /\ \A i \in 1..Len(q) - 1 : t[i] = q[i + 1]
  BY <1>1, SeqTail, Zenon
<1>3. /\ Later(q, 1) = Range(t)
      /\ \A i \in 1..Len(t) : Later(t, i) = Later(q, i + 1)
  BY <1>1, LaterTail, Zenon
<1>4. \A S : S \cup {} = S
  BY Zenon
<1>5. Promise(Head(q), Range(t))
  BY <1>2, <1>3, <1>4 DEF Answered
<1>6. ASSUME NEW i \in 1..Len(t)
      PROVE  Promise(t[i], Later(t, i) \cup {})
  <2>1. i + 1 \in 1..Len(q) /\ i \in 1..Len(q) - 1
    BY <1>2
  <2> QED
    BY <1>2, <1>3, <2>1, Zenon DEF Answered
<1> QED
  BY <1>1, <1>5, <1>6, Zenon DEF Answered

\* A WELCOME in front of frames that hold what it promises.
LEMMA WelcomeFirst ==
    ASSUME NEW w, NEW q, Sequence(q), NEW S, NoWelcome(Range(q)),
           Promise(w, Range(q) \cup S)
    PROVE  Answered(<<w>> \o q, S)
<1>0. PICK p : p = <<w>>
  BY Zenon
<1>1. PICK r : r = p \o q
  BY Zenon
<1>2. Sequence(p)
  BY <1>0, SeqSmall, Zenon
<1>3. Len(p) = 1 /\ p[1] = w
  BY <1>0, SeqSmall, Zenon
<1>4. /\ Len(q) \in Nat /\ Len(r) = 1 + Len(q) /\ r[1] = w
      /\ \A i \in 1..Len(q) : r[1 + i] = q[i] /\ q[i] \in Range(q)
  <2>1. /\ Len(r) = Len(p) + Len(q)
        /\ \A i \in 1..Len(p) : r[i] = p[i]
        /\ \A i \in 1..Len(q) : r[Len(p) + i] = q[i]
    BY <1>1, <1>2, SeqConcat
  <2> QED
    BY <1>3, <2>1, SeqFields
<1>5. Later(p, 1) = {}
  BY <1>3 DEF Later
<1>6. Later(r, 1) = Range(q)
  <2>1. \A i \in 1..Len(p) : Later(r, i) = Later(p, i) \cup Range(q)
    BY <1>1, <1>2, LaterConcat
  <2> QED
    BY <1>3, <1>5, <2>1
<1>7. ASSUME NEW i \in 1..Len(r)
      PROVE  Promise(r[i], Later(r, i) \cup S)
  <2>1. CASE i = 1
    BY <1>4, <1>6, <2>1, Zenon
  <2>2. CASE i - 1 \in 1..Len(q)
    <3>1. r[1 + (i - 1)] = q[i - 1] /\ q[i - 1] \in Range(q)
      BY <1>4, <2>2, Zenon
    <3>2. 1 + (i - 1) = i
      BY <1>4
    <3> QED
      BY <3>1, <3>2, Zenon DEF Promise, NoWelcome
  <2> QED
    BY <1>4, <2>1, <2>2
<1> QED
  BY <1>0, <1>1, <1>7, Zenon DEF Answered

-----------------------------------------------------------------------------
(* Readers and gates.                                                      *)

\* A reader that has settled is at rest or about to apply its result.
LEMMA SettledRests ==
    ASSUME NEW r, NEW a,
           (\E s : Settled(r, a, s)) \/ (\E f : Accepts(r, a, f))
    PROVE  r.step \in {"idle", "stopped", "apply"}
  BY DEF Settled, Accepts, Stopped, Idle

\* The client resumes a Session that has settled.
LEMMA SettledAccepts ==
    ASSUME NEW r, NEW a, NEW f, f.type = "RESUME", Settled(r, a, f.session)
    PROVE  Accepts(r, a, f)
<1>1. CASE r.step = "apply" /\ r.result = Result("ready", f.session)
  <2>1. Applied(a, r.result) = [state |-> "READY", session |-> f.session]
    BY <1>1 DEF Applied, Result
  <2> QED
    BY <1>1, <2>1 DEF Accepts, GateAdmits
<1> QED
  BY <1>1 DEF Settled, Accepts, GateAdmits

\* A gate a refusal does not close admits the request again.
LEMMA RefusedAgain ==
    ASSUME NEW r, r.step \in {"stream", "query"}, NEW a \in Gates,
           Handled(r, a), NEW b, b = Applied(a, Result("none", NoSession)),
           b.state # "CLOSED"
    PROVE  GateAdmits(b, Request(r))
<1>1. a.state # "RESUMING"
  BY DEF Applied, Result, Gates
<1>2. b = a
  BY <1>1 DEF Applied, Result
<1> QED
  BY <1>1, <1>2, Zenon DEF Handled

\* The reader of connection g has a request to handle.
Busy(g) ==
    reader[g].step \in Steps \/ (reader[g] = Idle /\ toServer[g] # <<>>)

\* So the client has sent it and has not seen the answer.
LEMMA BusyConnection ==
    ASSUME ConnInv, NEW g \in Generations, Busy(g)
    PROVE  /\ ~(g > generation)
           /\ reader[g].step \in Steps => toServer[g] = <<>>
           /\ g = generation =>
                 /\ state \notin {"CONNECTING", "CONNECTED"}
                 /\ ~Welcomed /\ NoWelcome(Range(toClient))
<1>1. reader[g].step \in Steps =>
         reader[g].step \notin {"idle", "stopped", "apply"}
  BY Zenon DEF Steps
<1>2. ~Fresh(g)
  BY <1>1 DEF Busy, Fresh, Idle
<1>3. reader[g].step \in Steps => toServer[g] = <<>>
  BY <1>1, SettledRests, Zenon DEF ConnInv, TransitInv
<1>4. g = generation => \A s : ~Done(s)
  BY <1>1, SettledRests, Zenon DEF Busy, Done
<1> QED
  BY <1>2, <1>3, <1>4, Zenon
     DEF ConnInv, FreshInv, WelcomeInv, ReadyInv, NoWelcome

\* The reader of connection g has taken its request and is at r now, or is to
\* take the request again.
Advances(g, r) ==
    /\ reader' = [reader EXCEPT ![g] = r]
    /\ \/ toServer'[g] = <<>>
       \/ r = Idle /\ \E f : toServer'[g] = <<f>> /\ GateAdmits(gate'[g], f)
    /\ Handled(r, gate'[g])
    /\ \A h \in Generations :
          h # g => toServer'[h] = toServer[h] /\ gate'[h] = gate[h]
    /\ r.step = "snapshot" => Promises(r.batch)

\* It goes on with the request, fails, or enqueues answer q.
GoesOn(g, r) ==
    /\ toClient' = toClient
    /\ \/ g # generation
       \/ r.step \in {"stream", "replay", "snapshot"}
       \/ r.step = "apply" /\ r.err
       \/ r = Stopped
       \/ Waits => Waits'

Answers(r, q) ==
    /\ toClient' = toClient \o q
    /\ Sequence(q) /\ Answered(q, {})
    /\ r.step = "apply"
    /\ \E f \in Range(q) : f.type \in {"ERROR", "WELCOME"}
    /\ \A f \in Range(q) :
          f.type = "WELCOME" => r.result = Result("ready", f.session)

-----------------------------------------------------------------------------
(* One reader moves.                                                       *)

\* Connections other than the client's.
LEMMA OtherReader ==
    ASSUME SyncInv, ConnInv, UNCHANGED clientVars, NEW g \in Generations,
           Busy(g), NEW r, Advances(g, r), toClient' = toClient,
           g # generation
    PROVE  ConnInv'
<1>0. UNCHANGED <<state, generation, sessionID, lastSeq, recovery>>
  BY Zenon DEF clientVars, sessionVars, transientVars
<1>1. /\ reader'[g] = r
      /\ \A h \in Generations : h # g => reader'[h] = reader[h]
  BY Zenon DEF Advances, SyncInv, ReaderInv
<1>2. generation \in Generations =>
         /\ UNCHANGED <<reader[generation], toServer[generation],
                        gate[generation]>>
         /\ \A s : Done(s)' <=> Done(s)
  BY <1>0, <1>1, Zenon DEF Advances, Done
<1>3. FreshInv'
  BY <1>0, <1>1, <1>2, BusyConnection, Zenon
     DEF ConnInv, FreshInv, Fresh, Advances
<1>4. TransitInv'
  BY <1>1, Zenon DEF ConnInv, TransitInv, Advances, Accepts
<1>5. WelcomeInv'
  <2>1. toClient = <<>> \/ generation \in Generations
    BY Zenon DEF ConnInv, FreshInv
  <2> QED
    BY <1>2, <2>1, SeqSmall, Zenon DEF ConnInv, WelcomeInv
<1>6. ReadyInv'
  BY <1>0, <1>2, Zenon DEF ConnInv, ReadyInv, FreshInv, Welcomed, Acked
<1>7. BatchInv' /\ HandledInv'
  BY <1>1, Zenon DEF ConnInv, BatchInv, HandledInv, Handled, Advances
<1>8. ResumeInv'
  BY <1>0, <1>2, Zenon
     DEF ConnInv, ResumeInv, FreshInv, Acked, Waits, ConnectionFailed
<1> QED
  BY <1>3, <1>4, <1>5, <1>6, <1>7, <1>8, Zenon DEF ConnInv

\* The client's connection.
LEMMA CurrentReader ==
    ASSUME SyncInv, ConnInv, UNCHANGED clientVars, NEW g \in Generations,
           Busy(g), NEW r, Advances(g, r), g = generation,
           GoesOn(g, r) \/ \E q : Answers(r, q)
    PROVE  ConnInv'
<1>0. UNCHANGED <<state, generation, sessionID, lastSeq, recovery>>
  BY Zenon DEF clientVars, sessionVars, transientVars
<1>1. /\ reader'[g] = r
      /\ \A h \in Generations : h # g => reader'[h] = reader[h]
  BY Zenon DEF Advances, SyncInv, ReaderInv
<1>2. /\ ~(g > generation) /\ state \notin {"CONNECTING", "CONNECTED"}
      /\ ~Welcomed /\ NoWelcome(Range(toClient))
  BY BusyConnection, Zenon
<1>3. FreshInv'
  BY <1>0, <1>1, <1>2, Zenon DEF ConnInv, FreshInv, Fresh, Advances
<1>4. TransitInv' /\ BatchInv' /\ HandledInv'
  BY <1>1, Zenon DEF ConnInv, TransitInv, BatchInv, HandledInv, Handled,
     Advances, Accepts
<1>5. ReadyInv'
  BY <1>0, <1>2, Zenon DEF ReadyInv, Welcomed, Acked
<1>6. CASE GoesOn(g, r)
  <2>1. WelcomeInv'
    BY <1>2, <1>6, Zenon DEF ConnInv, WelcomeInv, GoesOn, NoWelcome
  <2>2. ResumeInv'
    BY <1>0, <1>1, <1>2, <1>6, Zenon
       DEF ConnInv, ResumeInv, Welcomed, Acked, Waits, ConnectionFailed, GoesOn
  <2> QED
    BY <1>3, <1>4, <1>5, <2>1, <2>2, Zenon DEF ConnInv
<1>7. ASSUME NEW q, Answers(r, q)
      PROVE  ConnInv'
  <2>1. Range(toClient') = Range(toClient) \cup Range(q)
    BY <1>7, SeqConcat, Zenon DEF Answers, SyncInv, FrameInv
  <2>2. Answered(toClient', {})
    BY <1>2, <1>7, NothingPromised, AnsweredConcat, Zenon
       DEF Answers, SyncInv, FrameInv
  <2>3. \A f \in Range(toClient') : f.type = "WELCOME" => Done(f.session)'
    <3>1. r # Idle
      <4>1. r.step = "apply"
        BY <1>7, Zenon DEF Answers
      <4> QED
        BY <4>1 DEF Idle
    <3> QED
      BY <1>0, <1>1, <1>2, <1>7, <2>1, <3>1, Zenon
         DEF Answers, NoWelcome, Advances, Done, Settled
  <2>4. ResumeInv'
    BY <1>0, <1>2, <1>7, <2>1, Zenon DEF Answers, ResumeInv, Welcomed, Acked,
       Waits
  <2> QED
    BY <1>3, <1>4, <1>5, <2>2, <2>3, <2>4, Zenon DEF ConnInv, WelcomeInv
<1> QED
  BY <1>6, <1>7, Zenon

\* The reader goes on with its request, or fails without an answer.
LEMMA ReaderGoesOn ==
    ASSUME SyncInv, ConnInv, UNCHANGED clientVars, NEW g \in Generations,
           Busy(g), NEW r, Advances(g, r), toClient' = toClient,
           \/ r.step \in {"stream", "replay", "snapshot"}
           \/ r.step = "apply" /\ r.err
           \/ r = Stopped
           \/ Waits => Waits'
    PROVE  ConnInv'
  BY OtherReader, CurrentReader, Zenon DEF GoesOn

\* Outcome o answers a request.
Fits(o) ==
    /\ Sequence(o.frames) /\ Answered(o.frames, {})
    /\ \E f \in Range(o.frames) : f.type \in {"ERROR", "WELCOME"}
    /\ \A f \in Range(o.frames) :
          f.type = "WELCOME" => o.result = Result("ready", f.session)

\* The request of connection g is taken, or was taken before.
Takes(g) ==
    /\ toServer'[g] = <<>>
    /\ \A h \in Generations :
          h # g => toServer'[h] = toServer[h] /\ gate'[h] = gate[h]

\* The reader goes on to applyResult with its answer.
LEMMA ReaderFinishes ==
    ASSUME SyncInv, ConnInv, UNCHANGED clientVars, NEW g \in Generations,
           Busy(g), Takes(g), NEW o, Fits(o), Finish(g, o)
    PROVE  ConnInv'
<1>1. PICK r : /\ reader' = [reader EXCEPT ![g] = r]
               /\ r.step = "apply" /\ r.err \in BOOLEAN
               /\ r.err <=> g \notin open
               /\ \/ r.result = o.result
                  \/ r.err /\ r.result = Result("none", NoSession)
  BY FinishIs
<1>2. Enqueue(g, o.frames)
  BY FinishIs, Zenon
<1>3. Advances(g, r)
  BY <1>1, Zenon DEF Advances, Takes, Handled
<1>4. CASE toClient' = toClient /\ (g # generation \/ r.err)
  BY <1>1, <1>3, <1>4, OtherReader, CurrentReader, Zenon DEF GoesOn
<1>5. CASE g = generation /\ g \in open
  <2>1. Answers(r, o.frames)
    BY <1>1, <1>2, <1>5, Zenon DEF Enqueue, Answers, Fits
  <2> QED
    BY <1>3, <1>5, <2>1, CurrentReader, Zenon
<1> QED
  BY <1>1, <1>2, <1>4, <1>5, Zenon DEF Enqueue

\* The one request in transit is taken.
LEMMA RequestTaken ==
    ASSUME SyncInv, ConnInv, NEW g \in Generations, toServer[g] # <<>>,
           toServer' = [toServer EXCEPT ![g] = Tail(@)],
           \A h \in Generations : h # g => gate'[h] = gate[h]
    PROVE  Takes(g)
<1>1. PICK f : toServer[g] = <<f>>
  BY Zenon DEF ConnInv, TransitInv
<1>2. Tail(<<f>>) = <<>>
  OBVIOUS
<1> QED
  BY <1>1, <1>2, Zenon DEF Takes, SyncInv, RequestInv

-----------------------------------------------------------------------------
(* What the handlers answer.                                               *)

\* An ERROR answers every request.
LEMMA ErrorFits ==
    ASSUME NEW t, NEW code, NEW kind
    PROVE  Fits(ErrorOutcome(t, code, kind))
<1>1. PICK f : f = ErrorFrame(t, code)
  BY Zenon
<1>2. ErrorOutcome(t, code, kind).frames = <<f>> /\ f.type = "ERROR"
  BY <1>1, Zenon DEF ErrorOutcome, Outcome, ErrorFrame
<1>3. Sequence(<<f>>) /\ Range(<<f>>) = {f}
  BY SeqSmall, Zenon
<1>4. NoWelcome(Range(<<f>>))
  BY <1>2, <1>3, Zenon DEF NoWelcome
<1>5. Answered(<<f>>, {})
  BY <1>3, <1>4, NothingPromised, Zenon
<1> QED
  BY <1>2, <1>3, <1>5, Zenon DEF Fits

\* So does a NEW WELCOME a HELLO.
LEMMA HelloFits ==
    ASSUME NEW s, NEW negotiated
    PROVE  Fits(HelloOutcome(s, negotiated))
<1>1. PICK o : o = HelloOutcome(s, negotiated)
  BY Zenon
<1>2. CASE o = Outcome(<<NewWelcome(s, negotiated.accepted)>>,
                       Result("ready", s))
  <2>1. PICK f : f = NewWelcome(s, negotiated.accepted)
    BY Zenon
  <2>2. /\ o.frames = <<f>> /\ o.result = Result("ready", s)
        /\ f.type = "WELCOME" /\ f.mode = "NEW" /\ f.session = s
    BY <1>2, <2>1, Zenon DEF Outcome, NewWelcome
  <2>3. /\ Sequence(<<f>>) /\ Range(<<f>>) = {f} /\ Len(<<f>>) = 1
        /\ <<f>>[1] = f
    BY SeqSmall, Zenon
  <2>4. Later(<<f>>, 1) = {}
    BY <2>3 DEF Later
  <2>5. Promise(f, {})
    BY <2>2, Zenon DEF Promise, NoWelcome
  <2>6. Answered(<<f>>, {})
    BY <2>3, <2>4, <2>5 DEF Answered
  <2> QED
    BY <1>1, <2>2, <2>3, <2>6, Zenon DEF Fits
<1> QED
  BY <1>1, <1>2, HelloCases, ErrorFits, Zenon

\* A RESUME is answered by an ERROR, or by a WELCOME and the replay it
\* promises; the snapshot it may promise is still to come.
LEMMA ResumeAnswers ==
    ASSUME DataTyped, StoreInv, NEW r, r.session \in Sessions, r.lastSeq \in Nat, NEW o,
           o = ResumeOutcome(r)
    PROVE  \/ Fits(o) /\ o.result.kind # "ready"
           \/ /\ o.result = Result("ready", r.session)
              /\ Sequence(o.frames)
              /\ \E f \in Range(o.frames) : f.type = "WELCOME"
              /\ \A f \in Range(o.frames) :
                    f.type = "WELCOME" => f.session = r.session
              /\ \A S : /\ NoWelcome(S)
                        /\ r.namespaces # {} =>
                              \E f \in S : f.type = "STATE_SNAPSHOT"
                        => Answered(o.frames, S)
<1>1. CASE \E code : \E kind \in {"none", "close"} :
              o = ErrorOutcome(r.session, code, kind)
  <2>1. PICK code, kind : /\ kind \in {"none", "close"}
                          /\ o = ErrorOutcome(r.session, code, kind)
    BY <1>1, Zenon
  <2>2. o.result.kind = kind
    BY <2>1 DEF ErrorOutcome, Outcome, Result
  <2> QED
    BY <2>1, <2>2, ErrorFits, Zenon
<1>2. ASSUME NEW events \in Seq(Range(store[r.session].events)),
             Contiguous(events, r.lastSeq),
             r.lastSeq + Len(events) = r.replayTo,
             NEW w, w = ResumedWelcome(r), NEW q,
             q = [n \in 1..Len(events) |-> EventFrame(r.session, events[n])],
             o = Outcome(<<w>> \o q, Result("ready", r.session))
      PROVE  /\ o.result = Result("ready", r.session)
             /\ Sequence(o.frames)
             /\ \E f \in Range(o.frames) : f.type = "WELCOME"
             /\ \A f \in Range(o.frames) :
                   f.type = "WELCOME" => f.session = r.session
             /\ \A S : /\ NoWelcome(S)
                       /\ r.namespaces # {} =>
                             \E f \in S : f.type = "STATE_SNAPSHOT"
                       => Answered(o.frames, S)
  <2>1. o.frames = <<w>> \o q /\ o.result = Result("ready", r.session)
    BY <1>2 DEF Outcome
  <2>2. /\ w.type = "WELCOME" /\ w.mode = "RESUMED" /\ w.session = r.session
        /\ w.resumeFrom = r.lastSeq + 1 /\ w.replayTo = r.replayTo
        /\ w.namespaces = r.namespaces
    BY <1>2, Zenon DEF ResumedWelcome
  <2>3. Sequence(q) /\ Len(q) = Len(events)
    <3>1. PICK S : S = {EventFrame(r.session, e) :
                           e \in Range(store[r.session].events)}
      BY Zenon
    <3>2. q \in Seq(S) /\ Len(q) = Len(events)
      BY <1>2, <3>1
    <3> QED
      BY <3>2, SeqOver, Zenon
  <2>4. \A n \in 1..Len(q) : q[n].type = "EVENT" /\ q[n].seq = r.lastSeq + n
    BY <1>2, <2>3 DEF EventFrame, Contiguous
  <2>5. /\ Len(q) \in Nat /\ DOMAIN q = 1..Len(q)
        /\ \A n \in 1..Len(q) : q[n] \in Range(q)
        /\ \A f \in Range(q) : \E n \in 1..Len(q) : f = q[n]
    BY <2>3, SeqFields, Zenon
  <2>6. ASSUME NEW f \in Range(q)
        PROVE  f.type = "EVENT"
    <3>1. PICK n \in 1..Len(q) : f = q[n]
      BY <2>5, Zenon
    <3> QED
      BY <2>4, <3>1, Zenon
  <2>7. /\ Sequence(<<w>>) /\ Range(<<w>>) = {w}
        /\ Sequence(o.frames) /\ Range(o.frames) = {w} \cup Range(q)
    <3>1. Sequence(<<w>>) /\ Range(<<w>>) = {w}
      BY SeqSmall, Zenon
    <3>2. PICK p : p = <<w>>
      BY Zenon
    <3>3. Sequence(p \o q) /\ Range(p \o q) = Range(p) \cup Range(q)
      BY <2>3, <3>1, <3>2, SeqConcat, Zenon
    <3> QED
      BY <2>1, <3>1, <3>2, <3>3, Zenon
  <2>8. w.replayTo >= w.resumeFrom =>
           \E f \in Range(q) : f.type = "EVENT" /\ f.seq = w.replayTo
    <3> SUFFICES ASSUME r.replayTo >= r.lastSeq + 1
                 PROVE  \E f \in Range(q) : f.type = "EVENT"
                                            /\ f.seq = r.replayTo
      BY <2>2, Zenon
    <3>1. Len(q) \in 1..Len(q) /\ r.lastSeq + Len(q) = r.replayTo
      BY <1>2, <2>3, <2>5
    <3> QED
      BY <2>4, <2>5, <3>1, Zenon
  <2>9. ASSUME NEW S, NoWelcome(S),
               r.namespaces # {} => \E f \in S : f.type = "STATE_SNAPSHOT"
        PROVE  Answered(o.frames, S)
    <3>1. NoWelcome(Range(q)) /\ NoWelcome(Range(q) \cup S)
      BY <2>6, <2>9, Zenon DEF NoWelcome
    <3>2. Promise(w, Range(q) \cup S)
      BY <2>2, <2>8, <2>9, <3>1 DEF Promise
    <3> QED
      BY <2>1, <2>3, <3>1, <3>2, WelcomeFirst, Zenon
  <2> QED
    BY <2>1, <2>2, <2>6, <2>7, <2>9, Zenon
<1> QED
  BY <1>1, <1>2, ResumeCases, Zenon

-----------------------------------------------------------------------------
(* The steps of a reader.                                                  *)

\* handleHello.
LEMMA HelloConn ==
    ASSUME SyncInv, ConnInv, NEW g \in Generations, NEW s,
           ReceiveHello(g, s)
    PROVE  ConnInv'
<1>1. PICK o : o = HelloOutcome(s, Negotiate(Registry,
                                             Head(toServer[g]).offers))
  BY Zenon
<1>2. /\ UNCHANGED clientVars /\ gate' = gate /\ reader[g] = Idle
      /\ toServer[g] # <<>> /\ toServer' = [toServer EXCEPT ![g] = Tail(@)]
      /\ Finish(g, o)
  BY <1>1, Zenon DEF ReceiveHello
<1>3. Busy(g) /\ Takes(g) /\ Fits(o)
  BY <1>1, <1>2, RequestTaken, HelloFits, Zenon DEF Busy
<1> QED
  BY <1>2, <1>3, ReaderFinishes, Zenon

\* handleResume up to its runStream.
LEMMA ResumeConn ==
    ASSUME SyncInv, ConnInv, NEW g \in Generations, ReceiveResume(g)
    PROVE  ConnInv'
<1>1. PICK f : f = Head(toServer[g])
  BY Zenon
<1>2. /\ UNCHANGED clientVars /\ reader[g] = Idle
      /\ toServer[g] # <<>> /\ toServer' = [toServer EXCEPT ![g] = Tail(@)]
      /\ gate' = [gate EXCEPT ![g].state =
                     IF @ = "READY" THEN "RESUMING" ELSE @]
  BY Zenon DEF ReceiveResume
<1>3. Busy(g) /\ Takes(g)
  <2>1. \A h \in Generations : h # g => gate'[h] = gate[h]
    BY <1>2, Zenon DEF SyncInv, ServerInv
  <2> QED
    BY <1>2, <2>1, RequestTaken, Zenon DEF Busy
<1>4. ASSUME NEW code, NEW kind,
             Finish(g, ErrorOutcome(f.session, code, kind))
      PROVE  ConnInv'
  <2>1. PICK o : o = ErrorOutcome(f.session, code, kind)
    BY Zenon
  <2>2. Fits(o) /\ Finish(g, o)
    BY <1>4, <2>1, ErrorFits, Zenon
  <2> QED
    BY <1>2, <1>3, <2>2, ReaderFinishes, Zenon
<1>5. ASSUME NEW r,
             r = [step |-> "stream", session |-> f.session,
                  lastSeq |-> f.lastSeq, namespaces |-> f.namespaces],
             reader' = [reader EXCEPT ![g] = r], toClient' = toClient
      PROVE  ConnInv'
  <2>1. r.step = "stream" /\ Request(r).type = "RESUME"
    BY <1>5 DEF Request
  <2>2. Handled(r, gate'[g])
    <3>1. /\ gate[g] \in Gates
          /\ gate'[g] = [gate[g] EXCEPT !.state =
                            IF @ = "READY" THEN "RESUMING" ELSE @]
      BY <1>2, Zenon DEF SyncInv, ServerInv
    <3>2. gate[g].state \in {"AWAITING_HANDSHAKE", "READY"}
      BY Zenon DEF ReceiveResume, Admits
    <3> QED
      BY <2>1, <3>1, <3>2 DEF Handled, GateAdmits, Gates
  <2>3. Advances(g, r)
    BY <1>3, <1>5, <2>1, <2>2, Zenon DEF Advances, Takes
  <2> QED
    BY <1>2, <1>3, <1>5, <2>1, <2>3, ReaderGoesOn, Zenon
<1>6. \/ \E code : \E kind : Finish(g, ErrorOutcome(f.session, code, kind))
      \/ /\ reader' = [reader EXCEPT
                ![g] = [step |-> "stream", session |-> f.session,
                        lastSeq |-> f.lastSeq, namespaces |-> f.namespaces]]
         /\ toClient' = toClient
  BY <1>1, Zenon DEF ReceiveResume
<1> QED
  BY <1>4, <1>5, <1>6, Zenon

\* A reader that has taken its request moves on.
LEMMA MovesOn ==
    ASSUME SyncInv, ConnInv, UNCHANGED <<clientVars, gate, toServer>>,
           NEW g \in Generations, reader[g].step \in Steps
    PROVE  Busy(g) /\ Takes(g)
<1>1. Busy(g)
  BY Zenon DEF Busy
<1> QED
  BY <1>1, BusyConnection, Zenon DEF Takes

\* The lane admits the request.
LEMMA LaneConn ==
    ASSUME SyncInv, ConnInv, NEW g \in Generations, EnterLane(g)
    PROVE  ConnInv'
<1>1. UNCHANGED <<clientVars, gate, toServer>> /\ toClient' = toClient
      /\ reader[g].step \in Steps
  BY Zenon DEF EnterLane, Steps
<1>2. PICK r : r = [step |-> "replay", session |-> reader[g].session,
                    lastSeq |-> reader[g].lastSeq,
                    namespaces |-> reader[g].namespaces,
                    replayTo |-> Store!CurrentSeq(reader[g].session)]
  BY Zenon
<1>3. reader' = [reader EXCEPT ![g] = r] /\ r.step = "replay"
  BY <1>2, Zenon DEF EnterLane
<1>4. Busy(g) /\ Takes(g)
  BY <1>1, MovesOn, Zenon
<1>5. Advances(g, r)
  BY <1>3, <1>4, Zenon DEF Advances, Takes, Handled
<1> QED
  BY <1>1, <1>3, <1>4, <1>5, ReaderGoesOn, Zenon

\* It refuses the request: the caller stops, or hands it to the gate again.
LEMMA RefuseConn ==
    ASSUME SyncInv, ConnInv, NEW g \in Generations, RefuseLane(g)
    PROVE  ConnInv'
<1>1. PICK a, b, f : /\ a = gate[g] /\ f = Request(reader[g])
                     /\ b = Applied(a, Result("none", NoSession))
  BY Zenon
<1>2. /\ UNCHANGED <<clientVars, generation>> /\ toClient' = toClient
      /\ reader[g].step \in {"stream", "query"} /\ reader[g].step \in Steps
      /\ gate' = [gate EXCEPT ![g] = b]
  BY <1>1, Zenon DEF RefuseLane, Steps, clientVars, sessionVars
<1>3. a \in Gates /\ Handled(reader[g], a) /\ gate'[g] = b
      /\ \A h \in Generations : h # g => gate'[h] = gate[h]
  BY <1>1, <1>2, Zenon DEF SyncInv, ServerInv, ConnInv, HandledInv
<1>4. Busy(g) /\ toServer[g] = <<>>
  BY <1>2, BusyConnection, Zenon DEF Busy
<1>5. CASE reader' = [reader EXCEPT ![g] = Stopped] /\ toServer' = toServer
  <2>1. PICK r : r = Stopped
    BY Zenon
  <2>2. r.step = "stopped"
    BY <2>1, Zenon DEF Stopped
  <2>3. Advances(g, r)
    BY <1>3, <1>4, <1>5, <2>1, <2>2, Zenon DEF Advances, Handled
  <2> QED
    BY <1>2, <1>4, <2>1, <2>3, ReaderGoesOn, Zenon
<1>6. CASE /\ reader' = [reader EXCEPT ![g] = Idle] /\ b.state # "CLOSED"
           /\ toServer' = [toServer EXCEPT ![g] = <<f>> \o @]
  <2>1. PICK r : r = Idle
    BY Zenon
  <2>2. r.step = "idle"
    BY <2>1, Zenon DEF Idle
  <2>3. <<f>> \o <<>> = <<f>>
    OBVIOUS
  <2>4. /\ toServer'[g] = <<f>>
        /\ \A h \in Generations : h # g => toServer'[h] = toServer[h]
    BY <1>4, <1>6, <2>3, Zenon DEF SyncInv, RequestInv
  <2>5. GateAdmits(b, f)
    <3>1. PICK q : q = reader[g]
      BY Zenon
    <3>2. /\ q.step \in {"stream", "query"} /\ Handled(q, a)
          /\ f = Request(q)
      BY <1>1, <1>2, <1>3, <3>1, Zenon
    <3> QED
      BY <1>1, <1>3, <1>6, <3>2, RefusedAgain
  <2>6. Advances(g, r)
    BY <1>3, <1>6, <2>1, <2>2, <2>4, <2>5, Zenon DEF Advances, Handled
  <2>7. ASSUME g = generation, Waits
        PROVE  Waits'
    <3>1. CASE reader[g].step = "stream"
      <4>1. f.type = "RESUME" /\ Range(<<f>>) = {f}
        BY <1>1, <3>1, SeqSmall, Zenon DEF Request
      <4> QED
        BY <1>2, <2>4, <2>7, <4>1, Zenon DEF Waits
    <3>2. CASE reader[g].step = "query"
      <4>1. Range(<<>>) = {}
        BY SeqSmall, Zenon
      <4>2. reader[g] # Stopped
        BY <3>2 DEF Stopped
      <4>3. \E e \in Range(toClient) : e.type \in {"ERROR", "WELCOME"}
        BY <1>4, <2>7, <3>2, <4>1, <4>2, Zenon DEF Waits, ConnectionFailed
      <4> QED
        BY <1>2, <4>3, Zenon DEF Waits
    <3> QED
      BY <1>2, <3>1, <3>2, Zenon
  <2> QED
    BY <1>2, <1>4, <2>6, <2>7, OtherReader, CurrentReader, Zenon DEF GoesOn
<1> QED
  BY <1>1, <1>2, <1>3, <1>5, <1>6, Zenon DEF RefuseLane

\* handleResume from CurrentSeq to its batch or to the provider.
LEMMA AnswerConn ==
    ASSUME DataTyped, SyncInv, ConnInv, NEW g \in Generations, AnswerResume(g)
    PROVE  ConnInv'
<1>1. PICK r, o : r = reader[g] /\ o = ResumeOutcome(r)
  BY Zenon
<1>2. UNCHANGED <<clientVars, gate, toServer>> /\ r.step = "replay"
  BY <1>1, Zenon DEF AnswerResume
<1>3. r.session \in Sessions /\ r.lastSeq \in Nat
  BY <1>1, <1>2, ClientAssumption
     DEF SyncInv, ReaderInv, ReaderOK, Steps
<1>4. Busy(g) /\ Takes(g)
  BY <1>1, <1>2, MovesOn, Zenon DEF Steps
<1>5. \/ Fits(o) /\ o.result.kind # "ready"
      \/ /\ o.result = Result("ready", r.session) /\ Sequence(o.frames)
         /\ \E f \in Range(o.frames) : f.type = "WELCOME"
         /\ \A f \in Range(o.frames) :
               f.type = "WELCOME" => f.session = r.session
         /\ \A S : /\ NoWelcome(S)
                   /\ r.namespaces # {} =>
                         \E f \in S : f.type = "STATE_SNAPSHOT"
                   => Answered(o.frames, S)
  BY <1>1, <1>3, ResumeAnswers DEF SyncInv
<1>6. CASE /\ Finish(g, o)
           /\ ~(o.result.kind = "ready" /\ r.namespaces # {})
  <2>1. Fits(o)
    <3>1. CASE o.result = Result("ready", r.session)
      <4>1. r.namespaces = {} /\ NoWelcome({})
        BY <1>6, <3>1 DEF Result, NoWelcome
      <4> QED
        BY <1>5, <3>1, <4>1, Zenon DEF Fits
    <3> QED
      BY <1>5, <3>1, Zenon
  <2> QED
    BY <1>2, <1>4, <1>6, <2>1, ReaderFinishes, Zenon
<1>7. ASSUME NEW q,
             q = [step |-> "snapshot", session |-> r.session,
                  batch |-> o.frames,
                  states |-> ProviderSnapshot(r.namespaces)],
             reader' = [reader EXCEPT ![g] = q], toClient' = toClient,
             o.result.kind = "ready"
      PROVE  ConnInv'
  <2>1. q.step = "snapshot" /\ q.batch = o.frames
    BY <1>7, Zenon
  <2>2. ASSUME NEW f, f.type = "STATE_SNAPSHOT"
        PROVE  Answered(o.frames, {f})
    <3>1. NoWelcome({f})
      BY <2>2, Zenon DEF NoWelcome
    <3> QED
      BY <1>5, <1>7, <2>2, <3>1, Zenon
  <2>3. Promises(q.batch)
    BY <1>5, <1>7, <2>1, <2>2, Zenon DEF Promises
  <2>4. Advances(g, q)
    BY <1>4, <1>7, <2>1, <2>3, Zenon DEF Advances, Takes, Handled
  <2> QED
    BY <1>2, <1>4, <1>7, <2>1, <2>4, ReaderGoesOn, Zenon
<1> QED
  BY <1>1, <1>6, <1>7, Zenon DEF AnswerResume, LeaveLane

\* handleResume from the provider to its batch.
LEMMA SnapshotConn ==
    ASSUME SyncInv, ConnInv, NEW g \in Generations, AnswerResumeWithState(g)
    PROVE  ConnInv'
<1>1. PICK r : r = reader[g]
  BY Zenon
<1>2. UNCHANGED <<clientVars, gate, toServer>> /\ r.step = "snapshot"
  BY <1>1, Zenon DEF AnswerResumeWithState
<1>3. BatchOK(r.batch, r.session) /\ Promises(r.batch)
  BY <1>1, <1>2, Zenon DEF SyncInv, ReaderInv, ReaderOK, ConnInv, BatchInv
<1>4. Busy(g) /\ Takes(g)
  BY <1>1, <1>2, MovesOn, Zenon DEF Steps
<1>5. PICK f : f = SnapshotFrame(r.session, NoSession,
                                 Accumulate(r.states).objects)
  BY Zenon
<1>6. ASSUME NEW o, Finish(g, o),
             o = Outcome(Append(r.batch, f), Result("ready", r.session))
      PROVE  ConnInv'
  <2>1. o.frames = Append(r.batch, f) /\ o.result = Result("ready", r.session)
    BY <1>6, Zenon DEF Outcome
  <2>2. f.type = "STATE_SNAPSHOT"
    BY <1>5, Zenon DEF SnapshotFrame
  <2>3. PICK q : q = <<f>>
    BY Zenon
  <2>4. Sequence(q) /\ Range(q) = {f} /\ Sequence(r.batch)
    BY <1>3, <2>3, SeqSmall, Zenon DEF BatchOK
  <2>5. Append(r.batch, f) = r.batch \o q
    <3>1. r.batch \in Seq(Range(r.batch) \cup {f})
      BY <2>4, SeqIn, Zenon
    <3> QED
      BY <2>3, <3>1
  <2>6. Answered(r.batch \o q, {})
    <3>1. Answered(r.batch, Range(q)) /\ NoWelcome(Range(q))
      BY <1>3, <2>2, <2>4, Zenon DEF Promises, NoWelcome
    <3> QED
      BY <2>4, <3>1, NothingPromised, AnsweredConcat, Zenon
  <2>7. /\ Sequence(o.frames)
        /\ Range(o.frames) = Range(r.batch) \cup {f}
    <3>1. o.frames = r.batch \o <<f>>
      BY <2>1, <2>3, <2>5, Zenon
    <3> QED
      BY <2>4, <3>1, SeqSnoc, Zenon
  <2>8. Fits(o)
    <3>1. Answered(o.frames, {})
      BY <2>1, <2>5, <2>6, Zenon
    <3>2. \E w \in Range(o.frames) : w.type = "WELCOME"
      BY <1>3, <2>7, Zenon DEF Promises
    <3>3. \A w \in Range(o.frames) :
             w.type = "WELCOME" => o.result = Result("ready", w.session)
      BY <1>3, <2>1, <2>2, <2>7, Zenon DEF BatchOK
    <3> QED
      BY <2>7, <3>1, <3>2, <3>3, Zenon DEF Fits
  <2> QED
    BY <1>2, <1>4, <1>6, <2>8, ReaderFinishes, Zenon
<1>7. ASSUME NEW o, Finish(g, o),
             o = ErrorOutcome(r.session, "STATE_UNAVAILABLE", "close")
      PROVE  ConnInv'
  BY <1>2, <1>4, <1>7, ErrorFits, ReaderFinishes, Zenon
<1> QED
  BY <1>1, <1>5, <1>6, <1>7, Zenon
     DEF AnswerResumeWithState, ResumeBatch, LeaveLane

\* applyResult: the gate then admits what it was to admit.
LEMMA ApplyConn ==
    ASSUME SyncInv, ConnInv, NEW g \in Generations, ApplyResult(g)
    PROVE  ConnInv'
<1>0. UNCHANGED <<state, generation, sessionID, lastSeq, recovery, toServer,
                  toClient>>
  BY Zenon DEF ApplyResult, clientVars, sessionVars, transientVars
<1>1. PICK r, a : r = reader[g] /\ a = gate[g]
  BY Zenon
<1>2. /\ r.step = "apply" /\ r # Idle /\ r # Stopped
      /\ reader'[g] = IF r.err THEN Stopped ELSE Idle
      /\ gate'[g] = Applied(a, r.result)
      /\ \A h \in Generations :
            h # g => reader'[h] = reader[h] /\ gate'[h] = gate[h]
  BY <1>1 DEF ApplyResult, SyncInv, ReaderInv, ServerInv, Idle, Stopped
<1>3. \A f : Accepts(r, a, f) => Accepts(reader'[g], gate'[g], f)
  BY <1>2, Zenon DEF Accepts, Stopped, Idle
<1>4. \A s : Settled(r, a, s) => Settled(reader'[g], gate'[g], s)
  <2>1. \A s : Applied(a, Result("ready", s))
                  = [state |-> "READY", session |-> s]
    BY Zenon DEF Applied, Result
  <2> QED
    BY <1>2, <2>1, Zenon DEF Settled
<1>5. \A h \in Generations : Fresh(h) => Fresh(h)'
  BY <1>0, <1>1, <1>2, Zenon DEF Fresh
<1>6. generation \in Generations => \A s : Done(s) => Done(s)'
  BY <1>0, <1>1, <1>2, <1>4, Zenon DEF Done
<1>7. FreshInv' /\ TransitInv'
  BY <1>0, <1>1, <1>2, <1>3, <1>5, Zenon DEF ConnInv, FreshInv, TransitInv
<1>8. WelcomeInv'
  <2>1. toClient = <<>> \/ generation \in Generations
    BY Zenon DEF ConnInv, FreshInv
  <2> QED
    BY <1>0, <1>6, <2>1, SeqSmall, Zenon DEF ConnInv, WelcomeInv
<1>9. ReadyInv'
  BY <1>0, <1>6, Zenon DEF ConnInv, ReadyInv, FreshInv, Welcomed, Acked
<1>10. BatchInv' /\ HandledInv'
  BY <1>2 DEF ConnInv, BatchInv, HandledInv, Handled, Idle, Stopped
<1>11. ResumeInv'
  <2>1. state = "RESUMING" /\ Waits => Waits'
    BY <1>0, <1>1, <1>2, Zenon
       DEF ConnInv, FreshInv, Waits, ConnectionFailed, Idle, Stopped
  <2> QED
    BY <1>0, <2>1, Zenon DEF ConnInv, ResumeInv, Acked
<1> QED
  BY <1>7, <1>8, <1>9, <1>10, <1>11, Zenon DEF ConnInv

=============================================================================
