--------------------------- MODULE EventLogProofs ---------------------------
(***************************************************************************)
(* Facts that the proofs about StateSync share: about sequences, about the *)
(* logs the store retains, about the client's stream as a piece of the log *)
(* published for its Session, about requests and the readers that answer   *)
(* them.                                                                   *)
(***************************************************************************)
EXTENDS SyncInvariants, TLAPS

\* What the loops over retained EVENTs and State Objects return.
DataTyped ==
    /\ \A S : \A events \in Seq(S) : \A after, through :
          Store!Collected(events, after, through) \in Seq(S)
    /\ \A objects \in Seq(StateObjects) :
          Accumulate(objects).objects \in Seq(StateObjects)
    /\ CommitInv => \A namespaces :
          ProviderSnapshot(namespaces) \in Seq(StateObjects)

-----------------------------------------------------------------------------
(* Sequences.                                                              *)

\* The members of a sequence are those of the set it is over.
LEMMA SeqOver ==
    ASSUME NEW S, NEW q \in Seq(S)
    PROVE  Sequence(q) /\ Range(q) \subseteq S /\ Len(q) \in Nat
  BY DEF Sequence, Range

\* A sequence is one over its members.
LEMMA SeqFields ==
    ASSUME NEW q, Sequence(q)
    PROVE  /\ Len(q) \in Nat /\ DOMAIN q = 1..Len(q) /\ q \in Seq(Range(q))
           /\ \A n \in 1..Len(q) : q[n] \in Range(q)
           /\ \A e \in Range(q) : \E n \in 1..Len(q) : e = q[n]
<1>1. PICK S : q \in Seq(S)
  BY Zenon DEF Sequence
<1>2. /\ Len(q) \in Nat /\ DOMAIN q = 1..Len(q)
      /\ \A n \in 1..Len(q) : q[n] \in Range(q)
      /\ \A e \in Range(q) : \E n \in 1..Len(q) : e = q[n]
  BY <1>1 DEF Range
<1>3. q \in Seq(Range(q))
  BY <1>1, <1>2
<1> QED
  BY <1>2, <1>3, Zenon

\* A sequence over a set that has all its members.
LEMMA SeqIn ==
    ASSUME NEW q, Sequence(q), NEW S, Range(q) \subseteq S
    PROVE  q \in Seq(S)
  BY SeqFields

\* The empty sequence and sequences of one.
LEMMA SeqSmall ==
    /\ Sequence(<<>>) /\ Range(<<>>) = {} /\ Len(<<>>) = 0
    /\ \A e : Sequence(<<e>>) /\ Range(<<e>>) = {e} /\ Len(<<e>>) = 1
              /\ <<e>>[1] = e
<1>1. PICK S : S = {}
  BY Zenon
<1>2. <<>> \in Seq(S)
  OBVIOUS
<1>3. ASSUME NEW e
      PROVE  Sequence(<<e>>) /\ Range(<<e>>) = {e} /\ Len(<<e>>) = 1
             /\ <<e>>[1] = e
  <2>1. PICK T : T = {e}
    BY Zenon
  <2>2. <<e>> \in Seq(T)
    BY <2>1
  <2>3. Range(<<e>>) = {e}
    BY DEF Range
  <2> QED
    BY <2>2, <2>3, Zenon DEF Sequence
<1> QED
  BY <1>2, <1>3 DEF Sequence, Range

\* Append.
LEMMA SeqAppend ==
    ASSUME NEW q, Sequence(q), NEW e
    PROVE  /\ Sequence(Append(q, e)) /\ Len(Append(q, e)) = Len(q) + 1
           /\ Range(Append(q, e)) = Range(q) \cup {e}
           /\ \A n \in 1..Len(q) : Append(q, e)[n] = q[n]
           /\ Append(q, e)[Len(q) + 1] = e
<1>1. q \in Seq(Range(q)) /\ Len(q) \in Nat
  BY SeqFields, Zenon
<1>2. PICK S : S = Range(q) \cup {e}
  BY Zenon
<1>3. q \in Seq(S)
  BY <1>1, <1>2
<1>4. PICK r : r = Append(q, e)
  BY Zenon
<1>5. /\ r \in Seq(S) /\ Len(r) = Len(q) + 1
      /\ \A n \in 1..Len(q) : r[n] = q[n]
      /\ r[Len(q) + 1] = e
  BY <1>2, <1>3, <1>4
<1>6. Range(r) = S
  <2>1. Range(r) \subseteq S
    BY <1>5, SeqOver, Zenon
  <2>2. ASSUME NEW x \in S PROVE x \in Range(r)
    <3>1. Sequence(r)
      BY <1>5, Zenon DEF Sequence
    <3>2. \A n \in 1..Len(r) : r[n] \in Range(r)
      BY <3>1, SeqFields, Zenon
    <3>3. CASE x = e
      BY <1>1, <1>5, <3>2, <3>3
    <3>4. CASE x \in Range(q)
      <4>1. PICK n \in 1..Len(q) : x = q[n]
        BY <3>4, SeqFields, Zenon
      <4> QED
        BY <1>1, <1>5, <3>2, <4>1
    <3> QED
      BY <1>2, <3>3, <3>4, Zenon
  <2> QED
    BY <2>1, <2>2, Zenon
<1> QED
  BY <1>2, <1>4, <1>5, <1>6, Zenon DEF Sequence

\* Concatenation.
LEMMA SeqConcat ==
    ASSUME NEW p, Sequence(p), NEW q, Sequence(q)
    PROVE  /\ Sequence(p \o q) /\ Len(p \o q) = Len(p) + Len(q)
           /\ Range(p \o q) = Range(p) \cup Range(q)
           /\ \A n \in 1..Len(p) : (p \o q)[n] = p[n]
           /\ \A n \in 1..Len(q) : (p \o q)[Len(p) + n] = q[n]
<1>1. /\ p \in Seq(Range(p)) /\ Len(p) \in Nat
      /\ q \in Seq(Range(q)) /\ Len(q) \in Nat
  BY SeqFields, Zenon
<1>2. PICK S : S = Range(p) \cup Range(q)
  BY Zenon
<1>3. p \in Seq(S) /\ q \in Seq(S)
  BY <1>1, <1>2
<1>4. PICK r : r = p \o q
  BY Zenon
<1>5. /\ r \in Seq(S) /\ Len(r) = Len(p) + Len(q)
      /\ \A n \in 1..Len(p) : r[n] = p[n]
      /\ \A n \in 1..Len(q) : r[Len(p) + n] = q[n]
  BY <1>3, <1>4
<1>6. Range(r) = S
  <2>1. Range(r) \subseteq S
    BY <1>5, SeqOver, Zenon
  <2>2. ASSUME NEW x \in S PROVE x \in Range(r)
    <3>1. Sequence(r)
      BY <1>5, Zenon DEF Sequence
    <3>2. \A n \in 1..Len(r) : r[n] \in Range(r)
      BY <3>1, SeqFields, Zenon
    <3>3. CASE x \in Range(p)
      <4>1. PICK n \in 1..Len(p) : x = p[n]
        BY <3>3, SeqFields, Zenon
      <4> QED
        BY <1>1, <1>5, <3>2, <4>1
    <3>4. CASE x \in Range(q)
      <4>1. PICK n \in 1..Len(q) : x = q[n]
        BY <3>4, SeqFields, Zenon
      <4> QED
        BY <1>1, <1>5, <3>2, <4>1
    <3> QED
      BY <1>2, <3>3, <3>4, Zenon
  <2> QED
    BY <2>1, <2>2, Zenon
<1> QED
  BY <1>2, <1>4, <1>5, <1>6, Zenon DEF Sequence

\* One element at the end.
LEMMA SeqSnoc ==
    ASSUME NEW c, Sequence(c), NEW x, NEW d, d = c \o <<x>>
    PROVE  /\ Sequence(d) /\ Len(d) = Len(c) + 1
           /\ Range(d) = Range(c) \cup {x} /\ d[Len(c) + 1] = x
<1>1. c \in Seq(Range(c))
  BY SeqFields, Zenon
<1>2. PICK S : S = Range(c) \cup {x}
  BY Zenon
<1>3. c \in Seq(S) /\ x \in S
  BY <1>1, <1>2
<1>4. d = Append(c, x)
  BY <1>3
<1>5. /\ Sequence(Append(c, x)) /\ Len(Append(c, x)) = Len(c) + 1
      /\ Range(Append(c, x)) = Range(c) \cup {x}
      /\ Append(c, x)[Len(c) + 1] = x
  BY SeqAppend, Zenon
<1> QED
  BY <1>4, <1>5, Zenon

\* Taking the first of a sequence.
LEMMA SeqTail ==
    ASSUME NEW q, Sequence(q), q # <<>>
    PROVE  /\ Len(q) \in Nat \ {0} /\ Head(q) = q[1] /\ Head(q) \in Range(q)
           /\ Sequence(Tail(q)) /\ Len(Tail(q)) = Len(q) - 1
           /\ \A n \in 1..Len(q) - 1 : Tail(q)[n] = q[n + 1]
           /\ Range(q) = Range(Tail(q)) \cup {Head(q)}
<1>1. PICK S : q \in Seq(S)
  BY Zenon DEF Sequence
<1>2. PICK r : r = Tail(q)
  BY Zenon
<1>3. /\ Len(q) \in Nat \ {0} /\ Head(q) = q[1]
      /\ r \in Seq(S) /\ Len(r) = Len(q) - 1
      /\ \A n \in 1..Len(q) - 1 : r[n] = q[n + 1]
  BY <1>1, <1>2
<1>4. Sequence(r)
  BY <1>3, Zenon DEF Sequence
<1>5. Head(q) \in Range(q)
  BY <1>3, SeqFields
<1>6. Range(q) = Range(r) \cup {Head(q)}
  <2>1. ASSUME NEW x \in Range(q) PROVE x \in Range(r) \cup {Head(q)}
    <3>1. PICK n \in 1..Len(q) : x = q[n]
      BY SeqFields, Zenon
    <3>2. CASE n = 1
      BY <1>3, <3>1, <3>2, Zenon
    <3>3. CASE n # 1
      <4>1. n - 1 \in 1..Len(r) /\ r[n - 1] = q[n]
        BY <1>3, <3>1, <3>3
      <4> QED
        BY <1>4, <3>1, <4>1, SeqFields, Zenon
    <3> QED
      BY <3>2, <3>3, Zenon
  <2>2. ASSUME NEW x \in Range(r) PROVE x \in Range(q)
    <3>1. PICK n \in 1..Len(r) : x = r[n]
      BY <1>4, SeqFields, Zenon
    <3>2. n + 1 \in 1..Len(q) /\ q[n + 1] = x
      BY <1>3, <3>1
    <3> QED
      BY <3>2, SeqFields, Zenon
  <2> QED
    BY <1>5, <2>1, <2>2, Zenon
<1> QED
  BY <1>2, <1>3, <1>4, <1>5, <1>6, Zenon

\* Sequences that agree everywhere are the same.
LEMMA SeqSame ==
    ASSUME NEW p, Sequence(p), NEW q, Sequence(q), Len(p) = Len(q),
           \A n \in 1..Len(p) : p[n] = q[n]
    PROVE  p = q
<1>1. /\ p \in Seq(Range(p)) /\ DOMAIN p = 1..Len(p)
      /\ q \in Seq(Range(q)) /\ DOMAIN q = 1..Len(q)
  BY SeqFields, Zenon
<1>2. PICK S : S = Range(p) \cup Range(q)
  BY Zenon
<1>3. p \in Seq(S) /\ q \in Seq(S)
  BY <1>1, <1>2
<1> QED
  BY <1>1, <1>3

\* Nothing agrees with everything.
LEMMA AgreesEmpty ==
    ASSUME NEW all, Len(all) \in Nat, NEW from \in Nat, from <= Len(all)
    PROVE  Agrees(<<>>, from, all)
  BY DEF Agrees

\* A longer log.
LEMMA AgreesGrows ==
    ASSUME NEW b, Len(b) \in Nat, NEW from \in Nat, NEW all, NEW more,
           Len(all) \in Nat, Len(more) \in Nat, Agrees(b, from, all),
           Len(all) <= Len(more), \A n \in 1..Len(all) : more[n] = all[n]
    PROVE  Agrees(b, from, more)
<1>1. from + Len(b) <= Len(more)
  BY DEF Agrees
<1>2. ASSUME NEW n \in 1..Len(b) PROVE b[n] = more[from + n]
  <2>1. from + n \in 1..Len(all)
    BY DEF Agrees
  <2> QED
    BY <2>1, Zenon DEF Agrees
<1> QED
  BY <1>1, <1>2, Zenon DEF Agrees

\* Two adjacent pieces of a log.
LEMMA AgreesConcat ==
    ASSUME NEW S, NEW d \in Seq(S), NEW b \in Seq(S), NEW all,
           Len(all) \in Nat, Agrees(d, 0, all), Agrees(b, Len(d), all)
    PROVE  Agrees(d \o b, 0, all)
<1>1. PICK j : j = d \o b
  BY Zenon
<1>2. /\ Len(j) = Len(d) + Len(b) /\ Len(d) \in Nat /\ Len(b) \in Nat
      /\ (\A n \in 1..Len(d) : j[n] = d[n])
      /\ \A n \in 1..Len(b) : j[Len(d) + n] = b[n]
  BY <1>1, SeqOver, SeqConcat
<1>3. ASSUME NEW n \in 1..Len(j) PROVE j[n] = all[0 + n]
  <2>1. CASE n \in 1..Len(d)
    BY <1>2, <2>1, Zenon DEF Agrees
  <2>2. CASE n \notin 1..Len(d)
    <3>1. PICK m \in 1..Len(b) : n = Len(d) + m
      <4>1. PICK D, B \in Nat : D = Len(d) /\ B = Len(b)
        BY <1>2, Zenon
      <4>2. n \in 1..(D + B) /\ n \notin 1..D
        BY <1>2, <2>2, <4>1, Zenon
      <4>3. n - D \in 1..B /\ n = D + (n - D)
        BY <4>2
      <4> QED
        BY <4>1, <4>3, Zenon
    <3>2. j[n] = b[m] /\ b[m] = all[Len(d) + m]
      <4>1. j[Len(d) + m] = b[m]
        BY <1>2, Zenon
      <4>2. b[m] = all[Len(d) + m]
        BY Zenon DEF Agrees
      <4> QED
        BY <3>1, <4>1, <4>2, Zenon
    <3> QED
      BY <1>2, <3>1, <3>2
  <2> QED
    BY <2>1, <2>2, Zenon
<1>4. 0 + Len(j) <= Len(all)
  BY <1>2 DEF Agrees
<1> QED
  BY <1>1, <1>3, <1>4, Zenon DEF Agrees

\* A piece of a log with the next EVENT.
LEMMA AgreesAppend ==
    ASSUME NEW S, NEW b \in Seq(S), NEW from \in Nat, NEW all,
           Len(all) \in Nat, Agrees(b, from, all),
           from + Len(b) + 1 <= Len(all), NEW e, e = all[from + Len(b) + 1]
    PROVE  Agrees(Append(b, e), from, all)
<1>1. PICK j : j = Append(b, e)
  BY Zenon
<1>2. /\ Len(j) = Len(b) + 1 /\ Len(b) \in Nat
      /\ (\A n \in 1..Len(b) : j[n] = b[n]) /\ j[Len(b) + 1] = e
  BY <1>1, SeqOver, SeqAppend
<1>3. ASSUME NEW n \in 1..Len(j) PROVE j[n] = all[from + n]
  <2>1. CASE n \in 1..Len(b)
    BY <1>2, <2>1, Zenon DEF Agrees
  <2>2. CASE n = Len(b) + 1
    <3>1. from + n = from + Len(b) + 1
      BY <1>2, <2>2
    <3> QED
      BY <1>2, <2>2, <3>1, Zenon
  <2> QED
    BY <1>2, <2>1, <2>2
<1>4. from + Len(j) <= Len(all)
  BY <1>2
<1> QED
  BY <1>1, <1>3, <1>4, Zenon DEF Agrees

-----------------------------------------------------------------------------
(* Logs that retain a suffix.                                              *)

\* The numbers of a log.
LEMMA LogNumbers ==
    ASSUME NEW log, NEW all, LogOK(log, all)
    PROVE  /\ FirstOf(log) \in Nat \ {0} /\ Len(all) \in 0..MaxSeq
           /\ Len(all) \in Nat /\ Len(log.events) \in Nat
           /\ log.floor \in Nat /\ log.current \in Nat /\ MaxSeq \in Nat
           /\ FirstOf(log) <= Len(all) + 1 /\ log.current = Len(all)
           /\ Len(log.events) = Len(all) + 1 - FirstOf(log)
<1>1. /\ log.floor \in 0..MaxSeq /\ log.current \in 0..MaxSeq
      /\ log.events \in Seq(Events) /\ all \in Seq(Events)
      /\ log.current = Len(all)
  BY Zenon DEF LogOK, Logs
<1>2. /\ FirstOf(log) <= Len(all) + 1
      /\ Len(log.events) = Len(all) + 1 - FirstOf(log)
  BY <1>1, Zenon DEF LogOK
<1> QED
  BY <1>1, <1>2, ClientAssumption DEF FirstOf

\* A retained EVENT is the one published under its sequence.
LEMMA LogEvents ==
    ASSUME NEW log, NEW all, LogOK(log, all), NEW e \in Range(log.events)
    PROVE  e \in Events /\ e.seq \in 1..Len(all) /\ all[e.seq] = e
<1>1. log.events \in Seq(Events)
  BY Zenon DEF LogOK, Logs
<1>2. PICK n \in 1..Len(log.events) : e = log.events[n]
  BY <1>1, SeqOver, SeqFields, Zenon
<1>3. e = all[FirstOf(log) + n - 1]
  BY <1>2, Zenon DEF LogOK
<1>4. FirstOf(log) + n - 1 \in 1..Len(all)
  BY <1>2, LogNumbers
<1> QED
  BY <1>3, <1>4 DEF LogOK

\* Sequence more is all with e behind it.
Extends(more, all, e) ==
    /\ more \in Seq(Events) /\ Len(more) = Len(all) + 1
    /\ \A n \in 1..Len(all) : more[n] = all[n]
    /\ more[Len(all) + 1] = e

\* Append of an identity not used before.
LEMMA LogAppend ==
    ASSUME NEW log, NEW all, LogOK(log, all), NEW e, e.seq = Len(all) + 1,
           NEW more, Extends(more, all, e), NEW next \in Logs,
           Extends(next.events, log.events, e), next.floor = log.floor,
           next.current = Len(all) + 1, next.ids = log.ids \cup {e.id}
    PROVE  LogOK(next, more) /\ Last(next.events) = e
<1>0. PICK F \in Nat \ {0}, L \in Nat, C \in Nat :
         /\ F = FirstOf(log) /\ L = Len(log.events) /\ C = Len(all)
         /\ log.current = C /\ F <= C + 1 /\ L = C + 1 - F
  BY LogNumbers, Zenon
<1>1. /\ log.current \in 0..MaxSeq /\ log.current = Len(all)
      /\ log.events \in Seq(Events) /\ all \in Seq(Events)
  BY Zenon DEF LogOK, Logs
<1>2. FirstOf(next) = FirstOf(log)
  BY Zenon DEF FirstOf
<1>3. /\ more \in Seq(Events) /\ Len(more) = Len(all) + 1
      /\ (\A n \in 1..Len(all) : more[n] = all[n])
      /\ more[Len(all) + 1] = e
  BY Zenon DEF Extends
<1>4. PICK events : events = next.events
  BY Zenon
<1>5. /\ Len(events) = Len(log.events) + 1 /\ events \in Seq(Events)
      /\ (\A n \in 1..Len(log.events) : events[n] = log.events[n])
      /\ events[Len(log.events) + 1] = e
  BY <1>4, Zenon DEF Extends
<1>6. Last(events) = e
  BY <1>5, Zenon DEF Last
<1>7. \A n \in 1..Len(more) : more[n].seq = n /\ more[n].id \in next.ids
  <2> SUFFICES ASSUME NEW n \in 1..Len(more)
               PROVE  more[n].seq = n /\ more[n].id \in next.ids
    BY Zenon
  <2>1. CASE n \in 1..Len(all)
    BY <1>3, <2>1, Zenon DEF LogOK
  <2>2. CASE n = Len(all) + 1
    BY <1>1, <1>3, <2>2, Zenon
  <2> QED
    BY <1>1, <1>3, <2>1, <2>2
<1>8. /\ FirstOf(next) <= next.current + 1
       /\ Len(events) = next.current + 1 - FirstOf(next)
  <2>1. FirstOf(next) = F /\ next.current = C + 1 /\ Len(events) = L + 1
    BY <1>0, <1>2, <1>5, Zenon
  <2>2. F <= C + 1 /\ L = C + 1 - F
    BY <1>0, Zenon
  <2>3. F <= (C + 1) + 1 /\ L + 1 = (C + 1) + 1 - F
    BY <2>2
  <2> QED
    BY <2>1, <2>3, Zenon
<1>9. ASSUME NEW n \in 1..Len(events)
       PROVE  events[n] = more[FirstOf(next) + n - 1]
  <2>1. CASE n \in 1..Len(log.events)
    <3>1. FirstOf(log) + n - 1 \in 1..Len(all)
      BY <2>1, LogNumbers
    <3> QED
      BY <1>2, <1>3, <1>5, <2>1, <3>1, Zenon DEF LogOK
  <2>2. CASE n = Len(log.events) + 1
    <3>1. FirstOf(log) + n - 1 = Len(all) + 1
      BY <2>2, LogNumbers
    <3> QED
      BY <1>2, <1>3, <1>5, <2>2, <3>1, Zenon
  <2> QED
    BY <1>5, <2>1, <2>2, LogNumbers
<1> QED
  BY <1>1, <1>3, <1>4, <1>6, <1>7, <1>8, <1>9, Zenon DEF LogOK

\* What PruneBefore leaves of a log.
LEMMA LogPrune ==
    ASSUME NEW log, NEW all, LogOK(log, all), NEW point \in 0..MaxSeq,
           NEW first,
           first = IF log.current # MaxSeq /\ point > log.current + 1
                   THEN log.current + 1 ELSE point,
           NEW next,
           next = [log EXCEPT
                      !.events = SubSeq(@, Store!Pruned(@, first) + 1, Len(@)),
                      !.floor = IF first > @ THEN first ELSE @]
    PROVE  LogOK(next, all)
\* The index the loop of PruneBefore stops at.
<1>1. ASSUME first \in Nat, first <= log.current + 1
      PROVE  Store!Pruned(log.events, first) =
                IF first > FirstOf(log) THEN first - FirstOf(log) ELSE 0
  <2> USE <1>1
  <2> DEFINE events == log.events
             k == IF first > FirstOf(log) THEN first - FirstOf(log) ELSE 0
             P(i) == /\ \A n \in 1..i : ~Store!Retained(events[n], first)
                     /\ i = Len(events) \/ Store!Retained(events[i + 1], first)
  <2>0. PICK F \in Nat \ {0}, L \in Nat, C \in Nat :
           /\ F = FirstOf(log) /\ L = Len(log.events) /\ C = Len(all)
           /\ log.current = C /\ F <= C + 1 /\ L = C + 1 - F
    BY LogNumbers, Zenon
  <2>1. \A n \in 1..Len(events) : events[n].seq = FirstOf(log) + n - 1
    <3> SUFFICES ASSUME NEW n \in 1..Len(events)
                 PROVE  events[n].seq = FirstOf(log) + n - 1
      BY Zenon
    <3>1. events[n] = all[FirstOf(log) + n - 1]
      BY Zenon DEF LogOK
    <3>2. F + n - 1 \in 1..C
      BY <2>0
    <3> QED
      BY <2>0, <3>1, <3>2, Zenon DEF LogOK
  <2>2. k \in 0..Len(events)
    BY <2>0
  <2>3. P(k)
    <3>1. \A n \in 1..k : ~Store!Retained(events[n], first)
      <4> SUFFICES ASSUME NEW n \in 1..k PROVE ~(events[n].seq >= first)
        BY Zenon DEF Store!Retained
      <4>1. n \in 1..L /\ events[n].seq = F + n - 1
        BY <2>0, <2>1, <2>2
      <4> QED
        BY <2>0, <4>1
    <3>2. k = Len(events) \/ Store!Retained(events[k + 1], first)
      <4> SUFFICES ASSUME k # L PROVE events[k + 1].seq >= first
        BY <2>0, Zenon DEF Store!Retained
      <4>1. k + 1 \in 1..L
        BY <2>0, <2>2
      <4>2. events[k + 1].seq = F + (k + 1) - 1
        BY <2>0, <2>1, <4>1, Zenon
      <4> QED
        BY <2>0, <2>2, <4>1, <4>2
    <3> QED
      BY <3>1, <3>2, Zenon
  <2>4. ASSUME NEW i \in 0..Len(events), P(i)
        PROVE  i = k
    <3>1. i \in 0..L /\ k \in 0..L
      BY <2>0, <2>2, Zenon
    <3>2. i = 0 \/ ~(F + i - 1 >= first)
      <4>1. CASE i # 0
        <5>1. i \in 1..i /\ i \in 1..Len(events)
          BY <2>0, <3>1, <4>1
        <5>2. ~(events[i].seq >= first)
          BY <2>4, <5>1, Zenon DEF Store!Retained
        <5> QED
          BY <2>0, <2>1, <5>1, <5>2, Zenon
      <4> QED
        BY <4>1, Zenon
    <3>3. i = L \/ F + i >= first
      <4>1. CASE i # L
        <5>1. i + 1 \in 1..Len(events)
          BY <2>0, <3>1, <4>1
        <5>2. events[i + 1].seq >= first
          BY <2>0, <2>4, <4>1, Zenon DEF Store!Retained
        <5>3. events[i + 1].seq = F + (i + 1) - 1
          BY <2>0, <2>1, <5>1, Zenon
        <5> QED
          BY <2>0, <3>1, <5>2, <5>3
      <4> QED
        BY <4>1, Zenon
    <3> QED
      BY <2>0, <3>1, <3>2, <3>3
  <2>5. PICK i : i = CHOOSE j \in 0..Len(events) : P(j)
    BY Zenon
  <2>6. i \in 0..Len(events) /\ P(i)
    <3> HIDE DEF P, events, k
    <3> QED
      BY <2>2, <2>3, <2>5, Zenon
  <2>7. Store!Pruned(events, first) = i
    BY <2>5, Zenon DEF Store!Pruned
  <2> HIDE DEF P
  <2> QED
    BY <2>4, <2>6, <2>7, Zenon
<1>2. PICK F \in Nat \ {0}, L \in Nat, C \in Nat :
         /\ F = FirstOf(log) /\ L = Len(log.events) /\ C = Len(all)
         /\ log.current = C /\ F <= C + 1 /\ L = C + 1 - F /\ C <= MaxSeq
  BY LogNumbers
<1>3. first \in Nat /\ first <= log.current + 1 /\ first \in 0..MaxSeq
  <2>1. first = IF C # MaxSeq /\ point > C + 1 THEN C + 1 ELSE point
    BY <1>2, Zenon
  <2>2. MaxSeq \in Nat /\ point \in 0..MaxSeq
    BY ClientAssumption, Zenon
  <2> QED
    BY <1>2, <2>1, <2>2
<1>4. PICK k \in Nat :
         k = IF first > FirstOf(log) THEN first - FirstOf(log) ELSE 0
  BY <1>2, <1>3
<1>5. Store!Pruned(log.events, first) = k
  BY <1>3, <1>4, <1>1, Zenon
<1>6. k \in 0..Len(log.events)
  BY <1>2, <1>3, <1>4
<1>7. PICK events : events = SubSeq(log.events, k + 1, Len(log.events))
  BY Zenon
<1>8. log.events \in Seq(Events) /\ log \in Logs
  BY Zenon DEF LogOK, Logs
<1>9. /\ events \in Seq(Events) /\ Len(events) = Len(log.events) - k
      /\ \A n \in 1..Len(events) : events[n] = log.events[k + n]
  <2>1. PICK q : q = log.events
    BY Zenon
  <2>2. /\ q \in Seq(Events) /\ k \in 0..Len(q) /\ Len(q) \in Nat
        /\ events = SubSeq(q, k + 1, Len(q))
    BY <1>6, <1>7, <1>8, <2>1
  <2>3. /\ events \in Seq(Events) /\ Len(events) = Len(q) - k
        /\ \A n \in 1..Len(events) : events[n] = q[k + n]
    BY <2>2
  <2> QED
    BY <2>1, <2>3, Zenon
<1>10. PICK floor : floor = IF first > log.floor THEN first ELSE log.floor
  BY Zenon
<1>11. floor \in 0..MaxSeq
  BY <1>3, <1>8, <1>10, Zenon DEF Logs
<1>12. /\ next.events = events /\ next.floor = floor /\ next \in Logs
       /\ next.current = log.current /\ next.ids = log.ids
  BY <1>5, <1>7, <1>8, <1>9, <1>10, <1>11, Zenon DEF Logs
<1>13. FirstOf(next) = FirstOf(log) + k
  <2>1. FirstOf(next) = IF floor = 0 THEN 1 ELSE floor
    BY <1>12 DEF FirstOf
  <2>2. PICK old \in Nat : old = log.floor
    BY <1>8, ClientAssumption DEF Logs
  <2>3. F = IF old = 0 THEN 1 ELSE old
    BY <1>2, <2>2, Zenon DEF FirstOf
  <2>4. floor = IF first > old THEN first ELSE old
    BY <1>10, <2>2, Zenon
  <2>5. k = IF first > F THEN first - F ELSE 0
    BY <1>2, <1>4, Zenon
  <2>6. (IF floor = 0 THEN 1 ELSE floor) = F + k
    BY <1>3, <2>3, <2>4, <2>5
  <2> QED
    BY <1>2, <2>1, <2>6, Zenon
<1>14. /\ FirstOf(next) <= next.current + 1
       /\ Len(next.events) = next.current + 1 - FirstOf(next)
  <2>1. /\ FirstOf(next) = F + k /\ next.current = C
        /\ Len(next.events) = L - k /\ k \in 0..L
    BY <1>2, <1>6, <1>9, <1>12, <1>13, Zenon
  <2>2. k <= L /\ F <= C + 1 /\ L = C + 1 - F
    BY <1>2, <2>1
  <2>3. F + k <= C + 1 /\ L - k = C + 1 - (F + k)
    BY <2>2
  <2> QED
    BY <2>1, <2>3, Zenon
<1>15. ASSUME NEW n \in 1..Len(next.events)
       PROVE  next.events[n] = all[FirstOf(next) + n - 1]
  <2>1. k + n \in 1..Len(log.events)
    <3>1. n \in 1..(L - k) /\ k \in 0..L
      BY <1>2, <1>6, <1>9, <1>12, Zenon
    <3> QED
      BY <1>2, <3>1
  <2>2. log.events[k + n] = all[FirstOf(log) + (k + n) - 1]
    BY <2>1, Zenon DEF LogOK
  <2>3. FirstOf(log) + (k + n) - 1 = FirstOf(next) + n - 1
    BY <1>2, <1>6, <1>13
  <2> QED
    BY <1>9, <1>12, <2>2, <2>3, Zenon
<1> QED
  BY <1>12, <1>14, <1>15, Zenon DEF LogOK

-----------------------------------------------------------------------------
(* The client's stream and the published logs.                             *)

\* The log of a Session.
LEMMA PublishedLog ==
    ASSUME StoreInv, NEW s \in Sessions
    PROVE  IsLog(published[s]) /\ Len(published[s]) \in 0..MaxSeq
           /\ Len(published[s]) \in Nat /\ published[s] \in Seq(Events)
<1>1. LogOK(store[s], published[s])
  BY Zenon DEF StoreInv
<1> QED
  BY <1>1, LogNumbers, Zenon DEF LogOK, IsLog

\* The Session is given up, or the stream stays in its log and loses nothing.
StreamGrows(all) ==
    \/ sessionID' = NoSession
    \/ /\ sessionID' = sessionID /\ Follows(all)'
       /\ Len(delivered') >= Len(delivered)

\* The client's position and its sequences.
LEMMA StreamNumbers ==
    ASSUME StreamInv
    PROVE  /\ lastSeq \in Nat /\ Len(delivered) = lastSeq
           /\ delivered \in Seq(Events) /\ recovery.buffer \in Seq(Events)
           /\ Len(recovery.buffer) \in Nat
<1>1. /\ lastSeq \in 0..MaxSeq /\ Len(delivered) = lastSeq
      /\ delivered \in Seq(Events) /\ recovery.buffer \in Seq(Events)
  BY Zenon DEF StreamInv, DeliveredInOrder, Recoveries
<1> QED
  BY <1>1

\* The client keeps what it has, or drops its buffer, while the log grows.
LEMMA QuietFollows ==
    ASSUME StreamInv, NEW all, NEW more, Len(all) \in Nat, Len(more) \in Nat,
           Len(all) <= Len(more), \A n \in 1..Len(all) : more[n] = all[n],
           Follows(all), UNCHANGED <<delivered, lastSeq>>,
           recovery'.buffer \in {recovery.buffer, <<>>}
    PROVE  Follows(more)' /\ Len(delivered') >= Len(delivered)
<1>1. /\ lastSeq \in Nat /\ Len(delivered) = lastSeq
      /\ Len(recovery.buffer) \in Nat
  BY StreamNumbers, Zenon
<1>2. Agrees(delivered, 0, more) /\ Agrees(recovery.buffer, lastSeq, more)
  BY <1>1, AgreesGrows, Zenon DEF Follows
<1>3. Agrees(<<>>, lastSeq, more)
  <2>1. lastSeq <= Len(more)
    BY <1>1, <1>2 DEF Agrees
  <2> QED
    BY <1>1, <2>1, AgreesEmpty, Zenon
<1> QED
  BY <1>1, <1>2, <1>3 DEF Follows

\* The same for a log that does not grow.
LEMMA SameFollows ==
    ASSUME StreamInv, NEW all, IsLog(all), Follows(all),
           UNCHANGED <<sessionID, delivered, lastSeq>>,
           recovery'.buffer \in {recovery.buffer, <<>>}
    PROVE  StreamGrows(all)
<1>1. Len(all) \in Nat
  BY DEF IsLog
<1> QED
  BY <1>1, QuietFollows DEF StreamGrows

\* What a step may do to the client's stream.
StreamMoves ==
    \/ sessionID' = NoSession
    \/ sessionID = NoSession /\ delivered' = delivered
    \/ sessionID' = sessionID /\ Len(delivered') >= Len(delivered)

\* The client keeps what it has or drops its buffer.
LEMMA QuietAgrees ==
    ASSUME ClientInv, StoreInv, StreamAgrees, published' = published,
           UNCHANGED <<sessionID, delivered, lastSeq>>,
           recovery'.buffer \in {recovery.buffer, <<>>}
    PROVE  StreamAgrees' /\ StreamMoves
<1>1. CASE sessionID = NoSession
  BY <1>1, Zenon DEF StreamAgrees, StreamMoves
<1>2. CASE sessionID # NoSession
  <2>1. PICK all : all = published[sessionID]
    BY Zenon
  <2>2. IsLog(all) /\ Follows(all)
    BY <1>2, <2>1, PublishedLog, Zenon DEF ClientInv, SessionInv, StreamAgrees
  <2>3. StreamGrows(all)
    BY <2>2, SameFollows, Zenon DEF ClientInv
  <2> QED
    BY <1>2, <2>1, <2>3, Zenon DEF StreamGrows, StreamAgrees, StreamMoves
<1> QED
  BY <1>1, <1>2, Zenon

\* A step that leaves the client alone.
LEMMA ClientRests ==
    ASSUME ClientInv, UNCHANGED clientVars
    PROVE  ClientInv'
<1> UNCHANGED <<state, generation, sessionVars, transientVars>>
  BY Zenon DEF clientVars
<1>1. StreamInv' /\ SessionInv'
  BY Zenon DEF ClientInv, StreamInv, SessionInv, DeliveredInOrder, WindowOK,
         IdentityWindow, HeartbeatIsCurrent, CleanWithoutSession, sessionVars,
         transientVars
<1>2. CacheInv' /\ PendingInv'
  BY Zenon DEF ClientInv, CacheInv, PendingInv, sessionVars, transientVars
<1> QED
  BY <1>1, <1>2, Zenon DEF ClientInv

\* A step that moves the client's stream is one of EventStream.
LEMMA StreamRefines ==
    ASSUME ClientInv, ClientInv', StoreInv, StreamAgrees, StreamAgrees',
           published' = published, StreamMoves
    PROVE  [Stream!StreamNext]_(Stream!streamVars)
<1>1. /\ delivered \in Seq(Events) /\ delivered' \in Seq(Events)
      /\ sessionID' \in Sessions \cup {NoSession}
  BY Zenon DEF ClientInv, StreamInv, SessionInv
<1>2. CASE sessionID' = NoSession
  <2>1. delivered' = <<>>
    <3>1. lastSeq' = 0 /\ Len(delivered') = lastSeq'
      BY <1>2, Zenon DEF ClientInv, SessionInv, StreamInv, CleanWithoutSession,
                  DeliveredInOrder
    <3> QED
      BY <1>1, <3>1
  <2>2. Stream!GiveUp
    BY <1>2, <2>1, Zenon DEF Stream!GiveUp
  <2> QED
    BY <2>2, Zenon DEF Stream!StreamNext
<1>3. CASE /\ sessionID = NoSession /\ delivered' = delivered
           /\ sessionID' # NoSession
  <2>1. Stream!Begin(sessionID')
    BY <1>3, Zenon DEF Stream!Begin
  <2> QED
    BY <1>1, <1>3, <2>1, Zenon DEF Stream!StreamNext
<1>4. CASE /\ sessionID' = sessionID /\ sessionID # NoSession
           /\ Len(delivered') >= Len(delivered)
  <2>1. PICK all : all = published[sessionID]
    BY Zenon
  <2>2. all \in Seq(Events) /\ sessionID \in Sessions
    BY <1>4, <2>1, PublishedLog, Zenon DEF ClientInv, SessionInv
  <2>3. PICK old, new \in Nat : old = Len(delivered) /\ new = Len(delivered')
    BY <1>1
  <2>4. /\ new <= Len(all) /\ \A n \in 1..new : delivered'[n] = all[n]
    BY <1>4, <2>1, <2>3 DEF StreamAgrees, Follows, Agrees
  <2>5. /\ old <= Len(all) /\ \A n \in 1..old : delivered[n] = all[n]
    BY <1>4, <2>1, <2>3 DEF StreamAgrees, Follows, Agrees
  <2>6. CASE new = old
    <3>1. delivered' = delivered
      BY <1>1, <2>3, <2>4, <2>5, <2>6, SeqOver, SeqSame, Zenon
    <3> QED
      BY <1>4, <3>1, Zenon DEF Stream!streamVars
  <2>7. CASE new # old
    <3>1. new > old /\ new \in 1..Len(all) /\ Len(all) \in Nat
          /\ DOMAIN all = 1..Len(all)
      BY <1>4, <2>2, <2>3, <2>4, <2>7
    <3>2. PICK q : q = SubSeq(all, 1, new)
      BY Zenon
    <3>3. /\ q \in Seq(Events) /\ Len(q) = new
          /\ \A n \in 1..new : q[n] = all[n]
      BY <2>2, <3>1, <3>2
    <3>4. delivered' = q
      BY <1>1, <2>3, <2>4, <3>3, SeqOver, SeqSame, Zenon
    <3>5. Stream!Receive
      BY <1>4, <2>1, <2>3, <3>1, <3>2, <3>4, Zenon DEF Stream!Receive
    <3> QED
      BY <3>5, Zenon DEF Stream!StreamNext
  <2> QED
    BY <2>6, <2>7, Zenon
<1>5. CASE sessionID = NoSession /\ sessionID' = NoSession
  BY <1>2, <1>5, Zenon
<1> QED
  BY <1>2, <1>3, <1>4, <1>5, Zenon DEF StreamMoves

-----------------------------------------------------------------------------
(* Requests.                                                               *)

\* What a call of the client sends.
SendsOK == \A a \in actions' : a.do = "SendFrame" => RequestOK(a.frame)

\* What is transmitted is a request the client made.
LEMMA TransmitKeeps ==
    ASSUME RequestInv, SendsOK, Transmit
    PROVE  RequestInv'
<1>1. CASE toServer' = toServer
  BY <1>1, Zenon DEF RequestInv
<1>2. ASSUME NEW f \in {a.frame : a \in {b \in actions' : b.do = "SendFrame"}},
             toServer' = [toServer EXCEPT ![generation'] = Append(@, f)]
      PROVE  RequestInv'
  <2>1. RequestOK(f)
    BY <1>2, Zenon DEF SendsOK
  <2>2. DOMAIN toServer' = Generations
    BY <1>2, Zenon DEF RequestInv
  <2>3. ASSUME NEW g \in Generations
        PROVE  /\ Sequence(toServer'[g])
               /\ \A e \in Range(toServer'[g]) : RequestOK(e)
    <3>1. toServer'[g] \in {toServer[g], Append(toServer[g], f)}
      BY <1>2, Zenon DEF RequestInv
    <3>2. /\ Sequence(Append(toServer[g], f))
          /\ Range(Append(toServer[g], f)) = Range(toServer[g]) \cup {f}
      BY SeqAppend, Zenon DEF RequestInv
    <3> QED
      BY <2>1, <3>1, <3>2, Zenon DEF RequestInv
  <2> QED
    BY <2>2, <2>3, Zenon DEF RequestInv, RequestOK
<1> QED
  BY <1>1, <1>2, Zenon DEF Transmit

\* A RESUME names the position of the client's stream.
LEMMA RecoverySends ==
    ASSUME ClientInv, NEW ns, NEW gap, BeginRecovery(ns, gap)
    PROVE  SendsOK
<1>1. RequestOK(ResumeFrame(ns))
  BY Zenon DEF RequestOK, ResumeFrame, ClientInv, StreamInv
<1> QED
  BY <1>1 DEF BeginRecovery, SendsOK, SendFrame

\* A reader takes the first request of its connection.
LEMMA ReceiveKeeps ==
    ASSUME RequestInv, NEW g \in Generations, toServer[g] # <<>>,
           toServer' = [toServer EXCEPT ![g] = Tail(@)]
    PROVE  RequestInv' /\ RequestOK(Head(toServer[g]))
<1>1. /\ Sequence(Tail(toServer[g])) /\ Head(toServer[g]) \in Range(toServer[g])
      /\ Range(Tail(toServer[g])) \subseteq Range(toServer[g])
  BY SeqTail, Zenon DEF RequestInv
<1>2. DOMAIN toServer' = Generations
  BY Zenon DEF RequestInv
<1>3. \A h \in Generations :
         toServer'[h] = IF h = g THEN Tail(toServer[g]) ELSE toServer[h]
  BY Zenon DEF RequestInv
<1> QED
  BY <1>1, <1>2, <1>3, Zenon DEF RequestInv, RequestOK

-----------------------------------------------------------------------------
(* What is enqueued.                                                       *)

\* The step of ReplayReachesLatest.
EnqueuesLatest ==
    \A n \in DOMAIN toClient' :
        LET f == toClient'[n]
        IN  /\ n > Len(toClient)
            /\ f.type = "WELCOME" /\ f.mode = "RESUMED"
            => f.replayTo = Len(published[f.session])

\* A step that enqueues nothing enqueues no short replay.
LEMMA NothingEnqueued ==
    ASSUME FrameInv, toClient' = toClient, published' = published
    PROVE  FrameInv' /\ EnqueuesLatest
<1>1. DOMAIN toClient = 1..Len(toClient) /\ Len(toClient) \in Nat
  BY SeqFields, Zenon DEF FrameInv
<1>2. EnqueuesLatest
  BY <1>1 DEF EnqueuesLatest
<1> QED
  BY <1>2, Zenon DEF FrameInv, GoodFrame

\* A batch that replays all published EVENTs may be enqueued.
LEMMA EnqueueKeeps ==
    ASSUME FrameInv, NEW g, NEW q, NEW s, BatchOK(q, s), Enqueue(g, q),
           published' = published
    PROVE  FrameInv' /\ EnqueuesLatest
<1>1. CASE toClient' = toClient
  BY <1>1, NothingEnqueued, Zenon
<1>2. CASE toClient' = toClient \o q
  <2>1. PICK c, d : c = toClient /\ d = toClient'
    BY Zenon
  <2>2. /\ Sequence(d) /\ Len(d) = Len(c) + Len(q)
        /\ Range(d) = Range(c) \cup Range(q)
        /\ \A n \in 1..Len(q) : d[Len(c) + n] = q[n]
    BY <1>2, <2>1, SeqConcat DEF FrameInv, BatchOK
  <2>3. /\ Len(c) \in Nat /\ Len(q) \in Nat /\ DOMAIN d = 1..Len(d)
        /\ \A n \in 1..Len(q) : q[n] \in Range(q)
    BY <2>1, <2>2, SeqFields, Zenon DEF FrameInv, BatchOK
  <2>4. ASSUME NEW n \in DOMAIN d, n > Len(c)
        PROVE  d[n] \in Range(q)
    <3>1. n - Len(c) \in 1..Len(q) /\ n = Len(c) + (n - Len(c))
      BY <2>2, <2>3, <2>4
    <3>2. d[Len(c) + (n - Len(c))] = q[n - Len(c)] /\ q[n - Len(c)] \in Range(q)
      BY <2>2, <2>3, <3>1, Zenon
    <3> QED
      BY <3>1, <3>2, Zenon
  <2>5. EnqueuesLatest
    BY <2>1, <2>4, Zenon DEF EnqueuesLatest, BatchOK
  <2>6. \A f \in Range(d) : GoodFrame(f)
    BY <2>1, <2>2, Zenon DEF FrameInv, BatchOK
  <2> QED
    BY <2>1, <2>2, <2>5, <2>6, Zenon DEF FrameInv, GoodFrame
<1> QED
  BY <1>1, <1>2, Zenon DEF Enqueue

-----------------------------------------------------------------------------
(* The lane and the readers.                                               *)

\* A step of the reader of connection g that leaves the logs alone and takes
\* the lane from no other reader.
LEMMA ReaderKeeps ==
    ASSUME ReaderInv, NEW g \in Generations, NEW r,
           reader' = [reader EXCEPT ![g] = r], published' = published,
           \A s \in Sessions, h \in Generations :
              h # g /\ lane[s] = h => lane'[s] = h,
           ReaderOK(r, g)'
    PROVE  ReaderInv'
<1>1. DOMAIN reader' = Generations
  BY Zenon DEF ReaderInv
<1>2. ASSUME NEW h \in Generations
      PROVE  ReaderOK(reader[h], h)'
  <2>1. CASE h = g
    <3>1. reader'[h] = r
      BY <2>1, Zenon DEF ReaderInv
    <3> QED
      BY <2>1, <3>1, Zenon DEF ReaderOK, BatchOK, GoodFrame
  <2>2. CASE h # g
    <3>1. PICK q : q = reader[h]
      BY Zenon
    <3>2. reader'[h] = q
      BY <2>2, <3>1, Zenon DEF ReaderInv
    <3>3. ReaderOK(q, h)
      BY <3>1, Zenon DEF ReaderInv
    <3>4. ReaderOK(q, h)'
      BY <2>2, <3>3, Zenon DEF ReaderOK, BatchOK, GoodFrame, Steps
    <3> QED
      BY <3>2, <3>4, Zenon DEF ReaderOK, BatchOK, GoodFrame
  <2> QED
    BY <2>1, <2>2, Zenon
<1> QED
  BY <1>1, <1>2, Zenon DEF ReaderInv

\* A reader that neither waits for the lane nor holds it.
LEMMA FreeReader ==
    ASSUME NEW r, NEW g, r.step \in {"idle", "stopped", "apply"},
           r.step = "apply" => r.result \in Results /\ r.err \in BOOLEAN
    PROVE  ReaderOK(r, g)'
  BY Zenon DEF ReaderOK, Steps

\* What the reader takes to applyResult, and what is enqueued and closed.
LEMMA FinishIs ==
    ASSUME NEW g, NEW o, Finish(g, o)
    PROVE  /\ Enqueue(g, o.frames) /\ open' \subseteq open
           /\ \E r : /\ reader' = [reader EXCEPT ![g] = r]
                     /\ r.step = "apply" /\ r.err \in BOOLEAN
                     /\ r.err <=> g \notin open
                     /\ \/ r.result = o.result
                        \/ r.err /\ r.result = Result("none", NoSession)
<1>1. PICK failed \in BOOLEAN : failed = (g \notin open)
  BY Zenon
<1>2. PICK result :
         result = IF failed /\ o.result.kind = "ready"
                  THEN Result("none", NoSession) ELSE o.result
  BY Zenon
<1>3. PICK r : r = [step |-> "apply", result |-> result, err |-> failed]
  BY Zenon
<1>4. reader' = [reader EXCEPT ![g] = r]
  BY <1>1, <1>2, <1>3, Zenon DEF Finish
<1>5. r.step = "apply" /\ r.result = result /\ r.err = failed
  BY <1>3, Zenon
<1>6. Enqueue(g, o.frames) /\ open' \subseteq open
  BY Zenon DEF Finish
<1> QED
  BY <1>1, <1>2, <1>4, <1>5, <1>6, Zenon

\* A request of Session s may be answered with outcome o.
OutcomeOK(o, s) == BatchOK(o.frames, s) /\ o.result \in Results

\* The reader of connection g finishes and holds no lane afterwards.
LEMMA FinishKeeps ==
    ASSUME ReaderInv, FrameInv, ServerInv, NEW g \in Generations,
           NEW o, NEW s, OutcomeOK(o, s), Finish(g, o), published' = published,
           \A t \in Sessions, h \in Generations :
              h # g /\ lane[t] = h => lane'[t] = h
    PROVE  /\ ReaderInv' /\ FrameInv' /\ EnqueuesLatest
           /\ open' \subseteq Generations
<1>1. PICK r : /\ reader' = [reader EXCEPT ![g] = r]
               /\ r.step = "apply" /\ r.err \in BOOLEAN
               /\ r.result = o.result \/ r.result = Result("none", NoSession)
  BY FinishIs
<1>2. Enqueue(g, o.frames) /\ open' \subseteq open
  BY FinishIs, Zenon
<1>3. r.result \in Results
  BY <1>1 DEF OutcomeOK, Result, Results
<1>4. ReaderOK(r, g)'
  BY <1>1, <1>3, FreeReader
<1>5. ReaderInv'
  BY <1>1, <1>4, ReaderKeeps, Zenon
<1>6. FrameInv' /\ EnqueuesLatest
  BY <1>2, EnqueueKeeps, Zenon DEF OutcomeOK
<1> QED
  BY <1>2, <1>5, <1>6, Zenon DEF ServerInv

-----------------------------------------------------------------------------
(* The accumulator of a snapshot.                                          *)

\* An accumulator holds State Objects.
LEMMA AddObjectType ==
    ASSUME NEW acc \in Snapshots, NEW o \in StateObjects
    PROVE  AddObject(acc, o) \in Snapshots
<1> DEFINE comma      == IF acc.objects = <<>> THEN 0 ELSE 1
           additional == DataBytes[o.value.data] + comma
           full       == \/ acc.full
                         \/ Len(acc.objects) >= SnapshotMaxObjects
                         \/ additional > SnapshotMaxBytes - acc.bytes
<1>1. additional \in Int
  <2>1. o.value.data \in Data
    BY Zenon DEF StateObjects, Values
  <2> QED
    BY <2>1, MergeAssumption
<1>2. Append(acc.objects, o) \in Seq(StateObjects)
  BY DEF Snapshots
<1>3. AddObject(acc, o) = IF full THEN [acc EXCEPT !.full = TRUE]
                          ELSE [acc EXCEPT !.objects = Append(@, o),
                                           !.bytes = @ + additional]
  BY Zenon DEF AddObject
<1> HIDE DEF comma, additional, full
<1>4. CASE full
  BY <1>3, <1>4, Zenon DEF Snapshots
<1>5. CASE ~full
  <2>1. AddObject(acc, o) = [acc EXCEPT !.objects = Append(acc.objects, o),
                                        !.bytes = acc.bytes + additional]
    BY <1>3, <1>5, Zenon DEF Snapshots
  <2>2. acc.bytes + additional \in Int
    BY <1>1 DEF Snapshots
  <2> QED
    BY <1>2, <2>1, <2>2, Zenon DEF Snapshots
<1> QED
  BY <1>4, <1>5, Zenon

\* The accumulator starts empty.
LEMMA NewAccumulatorType == NewAccumulator \in Snapshots
<1>1. PICK e \in BOOLEAN :
         e = (SnapshotMaxObjects = 0 \/ BaseBytes > SnapshotMaxBytes)
  BY Zenon
<1>2. NewAccumulator = [objects |-> <<>>, bytes |-> BaseBytes, full |-> e]
  BY <1>1, Zenon DEF NewAccumulator
<1>3. <<>> \in Seq(StateObjects)
  OBVIOUS
<1> QED
  BY <1>2, <1>3 DEF Snapshots, BaseBytes

-----------------------------------------------------------------------------
(* Answers.                                                                *)

\* A batch of one frame that replays nothing.
LEMMA SingleBatch ==
    ASSUME NEW f, NEW s, FrameOK(f), f.type # "EVENT",
           f.type = "WELCOME" => f.session = s /\ f.mode # "RESUMED"
    PROVE  BatchOK(<<f>>, s)
  BY SeqSmall DEF BatchOK, GoodFrame

\* An ERROR promises no replay.
LEMMA ErrorOutcomeOK ==
    ASSUME NEW s, NEW t, NEW code, NEW kind \in {"none", "close", "abandon"}
    PROVE  OutcomeOK(ErrorOutcome(t, code, kind), s)
<1>1. PICK f : f = ErrorFrame(t, code)
  BY Zenon
<1>2. ErrorOutcome(t, code, kind).frames = <<f>>
  BY <1>1, Zenon DEF ErrorOutcome, Outcome
<1>3. f.type = "ERROR" /\ FrameOK(f)
  BY <1>1, Zenon DEF ErrorFrame, FrameOK
<1>4. ErrorOutcome(t, code, kind).result \in Results
  BY Zenon DEF ErrorOutcome, Outcome, Result, Results
<1> QED
  BY <1>2, <1>3, <1>4, SingleBatch, Zenon DEF OutcomeOK

\* A HELLO is answered by an ERROR or a NEW WELCOME.
LEMMA HelloCases ==
    ASSUME NEW s, NEW negotiated
    PROVE  \/ \E code : \E kind \in {"none", "close"} :
                 HelloOutcome(s, negotiated) = ErrorOutcome(NoSession, code, kind)
           \/ HelloOutcome(s, negotiated) =
                 Outcome(<<NewWelcome(s, negotiated.accepted)>>,
                         Result("ready", s))
<1>1. PICK code, kind :
         /\ code = negotiated.error
         /\ kind = IF ClosesConnection(code) THEN "close" ELSE "none"
  BY Zenon
<1>2. kind \in {"none", "close"}
  BY <1>1, Zenon
<1>3. CASE code # "none"
  <2>1. HelloOutcome(s, negotiated) = ErrorOutcome(NoSession, code, kind)
    BY <1>1, <1>3, Zenon DEF HelloOutcome
  <2> QED
    BY <1>2, <2>1, Zenon
<1>4. CASE code = "none" /\ s \in created
  <2>1. HelloOutcome(s, negotiated) =
           ErrorOutcome(NoSession, "INTERNAL", "none")
    BY <1>1, <1>4, Zenon DEF HelloOutcome
  <2> QED
    BY <2>1, Zenon
<1>5. CASE code = "none" /\ s \notin created
  BY <1>1, <1>5, Zenon DEF HelloOutcome
<1> QED
  BY <1>3, <1>4, <1>5, Zenon

\* Either may be sent.
LEMMA HelloOutcomeOK ==
    ASSUME NEW s \in Sessions, NEW negotiated
    PROVE  OutcomeOK(HelloOutcome(s, negotiated), s)
<1>1. CASE HelloOutcome(s, negotiated) =
              Outcome(<<NewWelcome(s, negotiated.accepted)>>,
                      Result("ready", s))
  <2>1. PICK f : f = NewWelcome(s, negotiated.accepted)
    BY Zenon
  <2>2. f.type = "WELCOME" /\ f.mode = "NEW" /\ f.session = s /\ FrameOK(f)
    BY <2>1, Zenon DEF NewWelcome, FrameOK
  <2>3. HelloOutcome(s, negotiated).frames = <<f>>
    BY <1>1, <2>1 DEF Outcome
  <2>4. HelloOutcome(s, negotiated).result \in Results
    BY <1>1 DEF Outcome, Result, Results
  <2> QED
    BY <2>2, <2>3, <2>4, SingleBatch, Zenon DEF OutcomeOK
<1> QED
  BY <1>1, HelloCases, ErrorOutcomeOK, Zenon

\* What handleResume answers with: an ERROR, or WELCOME and the EVENTs from
\* the client's position to replay_to.
LEMMA ResumeCases ==
    ASSUME DataTyped, StoreInv, NEW r, r.session \in Sessions
    PROVE  \/ \E code : \E kind \in {"none", "close"} :
                 ResumeOutcome(r) = ErrorOutcome(r.session, code, kind)
           \/ \E events \in Seq(Range(store[r.session].events)) :
                 /\ Contiguous(events, r.lastSeq)
                 /\ r.lastSeq + Len(events) = r.replayTo
                 /\ ResumeOutcome(r) =
                       Outcome(<<ResumedWelcome(r)>> \o
                               [n \in 1..Len(events) |->
                                   EventFrame(r.session, events[n])],
                               Result("ready", r.session))
\* A replay returns EVENTs the store retains.
<1>1. ASSUME NEW s \in Sessions, NEW after, NEW through, NEW maxEvents,
             NEW maxBytes
      PROVE  Store!Replay(s, after, through, maxEvents, maxBytes).events
                \in Seq(Range(store[s].events))
  <2>1. store[s].events \in Seq(Range(store[s].events))
    BY SeqOver, SeqFields, Zenon DEF StoreInv, LogOK, Logs
  <2>2. PICK out : out = Store!Collected(store[s].events, after, through)
    BY Zenon
  <2>3. out \in Seq(Range(store[s].events))
    BY <2>1, <2>2, Zenon DEF DataTyped
  <2>4. PICK a \in BOOLEAN :
           a = (through < after \/ through - after > maxEvents)
    BY Zenon
  <2>5. PICK b \in BOOLEAN :
           b = (store[s].floor > 0 /\ after < store[s].floor - 1)
    BY Zenon
  <2>6. PICK c : c = (Store!Bytes(out) > maxBytes)
    BY Zenon
  <2>7. PICK d \in BOOLEAN : d = (Len(out) # through - after)
    BY Zenon
  <2>8. Store!Replay(s, after, through, maxEvents, maxBytes) =
           CASE a -> Store!Failed("limit")
             [] b -> Store!Failed("unavailable")
             [] c -> Store!Failed("limit")
             [] d -> Store!Failed("unavailable")
             [] OTHER -> [error |-> "none", events |-> out]
    BY <2>2, <2>4, <2>5, <2>6, <2>7, Zenon DEF Store!Replay
  <2>9. CASE a \/ b \/ c \/ d
    <3>1. PICK error : Store!Replay(s, after, through, maxEvents, maxBytes) =
                          Store!Failed(error)
      BY <2>8, <2>9, Zenon
    <3> QED
      BY <3>1 DEF Store!Failed
  <2>10. CASE ~a /\ ~b /\ ~c /\ ~d
    BY <2>3, <2>8, <2>10
  <2> QED
    BY <2>9, <2>10, Zenon
<1> DEFINE s == r.session
<1>2. PICK replay :
         replay = Store!Replay(s, r.lastSeq, r.replayTo,
                               ServerMaxReplayEvents, ServerMaxReplayBytes)
  BY Zenon
<1>3. replay.events \in Seq(Range(store[s].events))
  BY <1>2, <1>1, Zenon
<1>4. PICK frames : frames = [n \in 1..Len(replay.events) |->
                                 EventFrame(s, replay.events[n])]
  BY Zenon
<1>5a. PICK a : a = (r.lastSeq > r.replayTo)
  BY Zenon
<1>5b. PICK b \in BOOLEAN :
          b = (\/ r.lastSeq = MaxSeq
               \/ r.replayTo - r.lastSeq > ServerMaxReplayEvents
               \/ replay.error # "none")
  BY Zenon
<1>5c. PICK c \in BOOLEAN :
          c = (\/ ~Contiguous(replay.events, r.lastSeq)
               \/ r.lastSeq + Len(replay.events) # r.replayTo)
  BY Zenon
<1>6. ResumeOutcome(r) =
         CASE a -> ErrorOutcome(s, "PROTOCOL_VIOLATION", "close")
           [] b -> ErrorOutcome(s, "SYNC_REQUIRED", "none")
           [] c -> ErrorOutcome(s, "INTERNAL", "close")
           [] OTHER -> Outcome(<<ResumedWelcome(r)>> \o frames,
                               Result("ready", s))
  BY <1>2, <1>4, <1>5a, <1>5b, <1>5c, Zenon DEF ResumeOutcome
<1>7. CASE a \/ b \/ c
  <2>1. \/ ResumeOutcome(r) = ErrorOutcome(s, "PROTOCOL_VIOLATION", "close")
        \/ ResumeOutcome(r) = ErrorOutcome(s, "SYNC_REQUIRED", "none")
        \/ ResumeOutcome(r) = ErrorOutcome(s, "INTERNAL", "close")
    BY <1>6, <1>7, Zenon
  <2> QED
    BY <2>1, Zenon
<1>8. CASE ~a /\ ~b /\ ~c
  <2>1. ResumeOutcome(r) = Outcome(<<ResumedWelcome(r)>> \o frames,
                                   Result("ready", s))
    BY <1>6, <1>8, Zenon
  <2>2. Contiguous(replay.events, r.lastSeq)
        /\ r.lastSeq + Len(replay.events) = r.replayTo
    BY <1>5c, <1>8, Zenon
  <2> QED
    BY <1>3, <1>4, <2>1, <2>2, Zenon
<1> QED
  BY <1>7, <1>8, Zenon

=============================================================================
