------------------------ MODULE ClientProtocolProofs ------------------------
(***************************************************************************)
(* Proofs about ClientProtocol for any frames, sequence bound, limits and  *)
(* connections.  StreamInv follows the EVENT stream: what is buffered      *)
(* continues what was delivered, without a hole, and nothing is buffered   *)
(* outside a Resume; with it goes the window of identities kept for what   *)
(* was delivered.  SessionInv follows the Session and the heartbeat,       *)
(* CacheInv the State cache and its accounts, PendingInv what is pending.  *)
(* Before them come the facts about loops and sums they need.              *)
(***************************************************************************)
EXTENDS ClientInvariants, Functions, NaturalsInduction, WellFoundedInduction,
        FiniteSetTheorems, TLAPS

-----------------------------------------------------------------------------
(* Induction over the data. The library's induction theorems take the      *)
(* property as an operator, which the provers do not instantiate; here it  *)
(* is a set, and the step of a recursive function is a function.           *)

\* Induction over the natural numbers, for a property given as a set.
LEMMA SetInduction ==
    ASSUME NEW S, 0 \in S, \A n \in Nat : n \in S => n + 1 \in S
    PROVE  Nat \subseteq S
\* A set of natural numbers that is not empty has a least element.
<1>1. ASSUME NEW T \in SUBSET Nat, T # {}
      PROVE  \E n \in T : \A m \in T : n <= m
  <2> USE <1>1
  <2> DEFINE R == {pair \in Nat \X Nat : pair[1] < pair[2]}
  <2>1. IsWellFoundedOn(R, Nat)
    BY NatLessThanWellFounded, Zenon DEF OpToRel
  <2>2. PICK x \in T : \A y \in T : ~ (<<y, x>> \in R)
    <3> HIDE DEF R
    <3> QED
      BY <2>1, WFMin, Zenon
  <2>3. \A y \in T : ~(y < x)
    BY <2>2, Zenon
  <2> QED
    BY <2>3
<1>2. SUFFICES ASSUME NEW k \in Nat, k \notin S
               PROVE  FALSE
  BY Zenon
<1> PICK n \in Nat \ S : \A m \in Nat \ S : n <= m
  <2>1. Nat \ S # {} /\ Nat \ S \in SUBSET Nat
    BY <1>2, Zenon
  <2> QED
    BY <2>1, <1>1, Zenon
<1>4. n # 0 /\ n - 1 \in Nat
  OBVIOUS
<1>5. n - 1 \in S
  BY <1>4
<1> QED
  BY <1>4, <1>5

\* f is the history of a loop over 1..n that starts with base.
Runs(f, base, step, n) ==
    f[0] = base /\ \A i \in 1..n : f[i] = step[<<f[i - 1], i>>]

\* A loop over 1..n computes something.
LEMMA LoopExists ==
    ASSUME NEW T, NEW base \in T, NEW n \in Nat,
           NEW step \in [T \X (1..n) -> T]
    PROVE  \E f \in [0..n -> T] : Runs(f, base, step, n)
<1> DEFINE P(k) == \E f \in [0..k -> T] : Runs(f, base, step, k)
           S == {k \in Nat : k <= n => P(k)}
<1>1. 0 \in S
  <2>1. PICK f : f = [i \in 0..0 |-> base]
    BY Zenon
  <2>2. f \in [0..0 -> T] /\ Runs(f, base, step, 0)
    BY <2>1 DEF Runs
  <2> QED
    BY <2>2, Zenon
<1>2. ASSUME NEW k \in Nat, k \in S
      PROVE  k + 1 \in S
  <2>1. SUFFICES ASSUME k + 1 <= n
                 PROVE  P(k + 1)
    OBVIOUS
  <2>2. PICK f \in [0..k -> T] : Runs(f, base, step, k)
    BY <1>2, <2>1
  <2>3. PICK h : h = [i \in 0..(k + 1) |->
                         IF i = k + 1 THEN step[<<f[k], k + 1>>] ELSE f[i]]
    BY Zenon
  <2>4. f[k] \in T /\ <<f[k], k + 1>> \in T \X (1..n)
    BY <2>1
  <2>5. step[<<f[k], k + 1>>] \in T
    BY <2>4, Zenon
  <2>6. h \in [0..(k + 1) -> T]
    BY <2>3, <2>5
  <2> h[0] = base /\ h[k + 1] = step[<<f[k], k + 1>>]
      /\ \A i \in 0..k : h[i] = f[i]
    BY <2>2, <2>3 DEF Runs
  <2>8. ASSUME NEW i \in 1..(k + 1)
        PROVE  h[i] = step[<<h[i - 1], i>>]
    <3>1. CASE i = k + 1
      BY <3>1
    <3>2. CASE i \in 1..k
      <4>1. i \in 0..k /\ i - 1 \in 0..k
        BY <3>2
      <4> QED
        BY <2>2, <3>2, <4>1, Zenon DEF Runs
    <3> QED
      BY <3>1, <3>2
  <2> QED
    BY <2>6, <2>8, Zenon DEF Runs
<1>3. Nat \subseteq S
  <2> HIDE DEF S
  <2> QED
    BY <1>1, <1>2, SetInduction, Zenon
<1> QED
  BY <1>3

\* What holds before a loop and is kept by every turn holds throughout.
LEMMA LoopStays ==
    ASSUME NEW T, NEW n \in Nat, NEW f, f[0] \in T,
           \A i \in 1..n : f[i - 1] \in T => f[i] \in T
    PROVE  \A i \in 0..n : f[i] \in T
<1> DEFINE S == {i \in Nat : i <= n => f[i] \in T}
<1>1. 0 \in S
  BY Zenon
<1>2. \A i \in Nat : i \in S => i + 1 \in S
  <2> SUFFICES ASSUME NEW i \in Nat, i \in S, i + 1 <= n
               PROVE  f[i + 1] \in T
    OBVIOUS
  <2>1. i + 1 \in 1..n /\ (i + 1) - 1 = i
    OBVIOUS
  <2>2. f[i] \in T
    OBVIOUS
  <2> QED
    BY <2>1, <2>2, Zenon
<1>3. Nat \subseteq S
  <2> HIDE DEF S
  <2> QED
    BY <1>1, <1>2, SetInduction, Zenon
<1> QED
  BY <1>3

\* g gives the sum of f over every subset of S.
Sums(g, f, S) ==
    /\ g \in [SUBSET S -> Nat]
    /\ g[{}] = 0
    /\ \A s \in SUBSET S : \A x \in s : g[s] = f[x] + g[s \ {x}]

-----------------------------------------------------------------------------
(* Sums.                                                                   *)

\* Finite sets have such sums.
LEMMA SumsExist ==
    ASSUME NEW S, IsFiniteSet(S), NEW f, \A x \in S : f[x] \in Nat
    PROVE  \E g : Sums(g, f, S)
<1> DEFINE P(T) == \E g : Sums(g, f, T)
           K == {k \in Nat : \A T \in SUBSET S : Cardinality(T) = k => P(T)}
<1>0. \A T \in SUBSET S : IsFiniteSet(T) /\ Cardinality(T) \in Nat
  BY FS_Subset, FS_CardinalityType, Zenon
<1>1. 0 \in K
  <2> SUFFICES ASSUME NEW T \in SUBSET S, Cardinality(T) = 0
               PROVE  P(T)
    BY Zenon
  <2>1. T = {}
    BY <1>0, FS_EmptySet, Zenon
  <2>2. PICK g : g = [s \in SUBSET {} |-> 0]
    BY Zenon
  <2>3. Sums(g, f, {})
    BY <2>2, Zenon DEF Sums
  <2> QED
    BY <2>1, <2>3, Zenon
<1>2. ASSUME NEW k \in Nat, k \in K
      PROVE  k + 1 \in K
  <2> SUFFICES ASSUME NEW T \in SUBSET S, Cardinality(T) = k + 1
               PROVE  P(T)
    OBVIOUS
  <2>1. PICK y : y \in T
    BY <1>0, FS_EmptySet
  <2>2. Cardinality(T \ {y}) = k /\ T \ {y} \in SUBSET S
    <3>1. Cardinality(T \ {y}) = Cardinality(T) - 1
      BY <1>0, <2>1, FS_RemoveElement, Zenon
    <3> QED
      BY <3>1
  <2>3. PICK h : Sums(h, f, T \ {y})
    BY <1>2, <2>2, Zenon
  <2>4. PICK g : g = [s \in SUBSET T |-> IF y \in s THEN f[y] + h[s \ {y}]
                                                    ELSE h[s]]
    BY Zenon
  <2>5. /\ \A s \in SUBSET T : s \ {y} \in SUBSET (T \ {y})
        /\ \A s \in SUBSET T : y \notin s => s \in SUBSET (T \ {y})
    BY Zenon
  <2>6. g \in [SUBSET T -> Nat]
    <3>1. f[y] \in Nat
      BY <2>1, Zenon
    <3>2. \A s \in SUBSET T : h[s \ {y}] \in Nat /\ (y \notin s => h[s] \in Nat)
      BY <2>3, <2>5, Zenon DEF Sums
    <3> QED
      BY <2>4, <3>1, <3>2
  <2>7. g[{}] = 0
    BY <2>3, <2>4, Zenon DEF Sums
  <2>8. ASSUME NEW s \in SUBSET T, NEW x \in s
        PROVE  g[s] = f[x] + g[s \ {x}]
    <3>1. CASE x = y
      <4>1. g[s \ {x}] = h[s \ {y}]
        BY <2>4, <3>1, Zenon
      <4> QED
        BY <2>4, <3>1, <4>1, Zenon
    <3>2. CASE x # y /\ y \notin s
      <4>1. g[s] = h[s] /\ g[s \ {x}] = h[s \ {x}]
        BY <2>4, <3>2, Zenon
      <4>2. h[s] = f[x] + h[s \ {x}]
        BY <2>3, <2>5, <3>2, Zenon DEF Sums
      <4> QED
        BY <4>1, <4>2, Zenon
    <3>3. CASE x # y /\ y \in s
      <4>1. g[s] = f[y] + h[s \ {y}]
        BY <2>4, <3>3, Zenon
      <4>2. g[s \ {x}] = f[y] + h[(s \ {x}) \ {y}]
        BY <2>4, <3>3, Zenon
      <4>3. (s \ {x}) \ {y} = (s \ {y}) \ {x}
        BY Zenon
      <4>4. s \ {y} \in SUBSET (T \ {y}) /\ x \in s \ {y}
        BY <3>3, Zenon
      <4>5. h[s \ {y}] = f[x] + h[(s \ {y}) \ {x}]
        BY <2>3, <4>4, Zenon DEF Sums
      <4>6. (s \ {y}) \ {x} \in SUBSET (T \ {y})
        BY <4>4, Zenon
      <4>7. f[x] \in Nat /\ f[y] \in Nat /\ h[(s \ {y}) \ {x}] \in Nat
        <5>1. h[(s \ {y}) \ {x}] \in Nat
          BY <2>3, <4>6, Zenon DEF Sums
        <5>2. x \in S /\ y \in S
          BY <2>1, Zenon
        <5> QED
          BY <5>1, <5>2, Zenon
      <4>8. PICK r \in Nat : r = h[(s \ {y}) \ {x}]
        BY <4>7, Zenon
      <4>9. g[s] = f[y] + (f[x] + r) /\ g[s \ {x}] = f[y] + r
        BY <4>1, <4>2, <4>3, <4>5, <4>8, Zenon
      <4> QED
        BY <4>7, <4>9
    <3> QED
      BY <3>1, <3>2, <3>3, Zenon
  <2>9. Sums(g, f, T)
    BY <2>6, <2>7, <2>8, Zenon DEF Sums
  <2> QED
    BY <2>9, Zenon
<1>3. Nat \subseteq K
  <2> HIDE DEF K
  <2> QED
    BY <1>1, <1>2, SetInduction, Zenon
<1> QED
  <2>1. S \in SUBSET S
    BY Zenon
  <2> QED
    BY <1>0, <1>3, <2>1, Zenon

\* The community module's sum is that one.
LEMMA SumIs ==
    ASSUME NEW S, IsFiniteSet(S), NEW f, NEW g, Sums(g, f, S)
    PROVE  SumFunctionOnSet(f, S) = g[S]
<1> DEFINE pick(s) == CHOOSE x \in s : TRUE
           Rec(h) == h = [s \in SUBSET S |->
                             IF s = {} THEN 0
                             ELSE f[pick(s)] + h[s \ {pick(s)}]]
<1>1. \A s \in SUBSET S : s # {} => pick(s) \in s
  BY Zenon
<1>2. Rec(g)
  <2>1. g = [s \in SUBSET S |-> g[s]]
    BY Zenon DEF Sums
  <2>2. \A s \in SUBSET S : g[s] = IF s = {} THEN 0
                                   ELSE f[pick(s)] + g[s \ {pick(s)}]
    <3> HIDE DEF pick
    <3> QED
      BY <1>1, Zenon DEF Sums
  <2> QED
    <3> HIDE DEF pick
    <3> QED
      BY <2>1, <2>2, Zenon
<1>3. PICK iter : iter = CHOOSE h : Rec(h)
  BY Zenon
<1>4. Rec(iter)
  <2> HIDE DEF Rec
  <2> QED
    BY <1>2, <1>3, Zenon
<1>5. SumFunctionOnSet(f, S) = iter[S]
  BY <1>3, Zenon DEF SumFunctionOnSet, FoldFunctionOnSet, MapThenFoldSet
<1> DEFINE K == {k \in Nat : \A s \in SUBSET S :
                    Cardinality(s) = k => iter[s] = g[s]}
<1> \A T \in SUBSET S : IsFiniteSet(T) /\ Cardinality(T) \in Nat
  BY FS_Subset, FS_CardinalityType, Zenon
<1>7. 0 \in K
  <2> SUFFICES ASSUME NEW s \in SUBSET S, Cardinality(s) = 0
               PROVE  iter[s] = g[s]
    BY Zenon
  <2>1. s = {}
    BY FS_EmptySet, Zenon
  <2>2. iter[s] = 0
    <3> HIDE DEF pick
    <3> QED
      BY <1>4, <2>1, Zenon
  <2> QED
    BY <2>1, <2>2, Zenon DEF Sums
<1>8. ASSUME NEW k \in Nat, k \in K
      PROVE  k + 1 \in K
  <2> SUFFICES ASSUME NEW s \in SUBSET S, Cardinality(s) = k + 1
               PROVE  iter[s] = g[s]
    OBVIOUS
  <2>1. s # {}
    BY FS_EmptySet
  <2>2. PICK x \in s : x = pick(s)
    BY <1>1, <2>1, Zenon
  <2>3. iter[s] = f[x] + iter[s \ {x}]
    <3> HIDE DEF pick
    <3> QED
      BY <1>4, <2>1, <2>2, Zenon
  <2>4. Cardinality(s \ {x}) = k /\ s \ {x} \in SUBSET S
    <3>1. IsFiniteSet(s)
      BY Zenon
    <3>2. Cardinality(s \ {x}) = Cardinality(s) - 1
      BY <3>1, FS_RemoveElement, Zenon
    <3> QED
      BY <3>2
  <2>5. iter[s \ {x}] = g[s \ {x}]
    BY <1>8, <2>4, Zenon
  <2> QED
    BY <2>3, <2>5, Zenon DEF Sums
<1>9. Nat \subseteq K
  <2> HIDE DEF K
  <2> QED
    BY <1>7, <1>8, SetInduction, Zenon
<1> QED
  <2>1. S \in SUBSET S
    BY Zenon
  <2> QED
    BY <1>5, <1>9, <2>1, Zenon

\* The sum over the empty set.
LEMMA SumEmpty ==
    ASSUME NEW f
    PROVE  SumFunctionOnSet(f, {}) = 0
<1>1. IsFiniteSet({})
  BY FS_EmptySet, Zenon
<1>2. PICK g : Sums(g, f, {})
  BY <1>1, SumsExist, Zenon
<1> QED
  BY <1>1, <1>2, SumIs, Zenon DEF Sums

\* One element can be taken out of a sum.
LEMMA SumRemove ==
    ASSUME NEW S, IsFiniteSet(S), NEW f, \A y \in S : f[y] \in Nat,
           NEW x \in S
    PROVE  /\ SumFunctionOnSet(f, S) = f[x] + SumFunctionOnSet(f, S \ {x})
           /\ SumFunctionOnSet(f, S \ {x}) \in Nat
<1> PICK g : Sums(g, f, S)
  BY SumsExist, Zenon
<1> PICK h : h = [s \in SUBSET (S \ {x}) |-> g[s]]
  BY Zenon
<1>3. Sums(h, f, S \ {x})
  <2>1. \A s \in SUBSET (S \ {x}) : s \in SUBSET S
    BY Zenon
  <2>2. h \in [SUBSET (S \ {x}) -> Nat] /\ h[{}] = 0
    BY <2>1, Zenon DEF Sums
  <2>3. ASSUME NEW s \in SUBSET (S \ {x}), NEW y \in s
        PROVE  h[s] = f[y] + h[s \ {y}]
    <3>1. h[s] = g[s] /\ h[s \ {y}] = g[s \ {y}]
      BY Zenon
    <3> QED
      BY <2>1, <3>1, Zenon DEF Sums
  <2> QED
    BY <2>2, <2>3, Zenon DEF Sums
<1>4. IsFiniteSet(S \ {x})
  BY FS_RemoveElement, Zenon
<1>5. SumFunctionOnSet(f, S) = g[S]
  BY SumIs, Zenon
<1>6. SumFunctionOnSet(f, S \ {x}) = h[S \ {x}]
  BY <1>3, <1>4, SumIs, Zenon
<1>7. g[S] = f[x] + g[S \ {x}] /\ g[S \ {x}] = h[S \ {x}] /\ h[S \ {x}] \in Nat
  <2> S \in SUBSET S /\ S \ {x} \in SUBSET (S \ {x})
    BY Zenon
  <2>2. g[S] = f[x] + g[S \ {x}]
    BY Zenon DEF Sums
  <2>3. h[S \ {x}] \in Nat
    BY <1>3, Zenon DEF Sums
  <2> QED
    BY <2>2, <2>3, Zenon
<1> QED
  BY <1>5, <1>6, <1>7, Zenon

\* A sum of natural numbers is one.
LEMMA SumType ==
    ASSUME NEW S, IsFiniteSet(S), NEW f, \A y \in S : f[y] \in Nat
    PROVE  SumFunctionOnSet(f, S) \in Nat
<1>1. PICK g : Sums(g, f, S)
  BY SumsExist, Zenon
<1>2. S \in SUBSET S
  BY Zenon
<1>3. g[S] \in Nat
  BY <1>1, <1>2, Zenon DEF Sums
<1> QED
  BY <1>1, <1>3, SumIs, Zenon

\* Functions that agree on the set have the same sum.
LEMMA SumCongruent ==
    ASSUME NEW S, IsFiniteSet(S), NEW f, \A y \in S : f[y] \in Nat,
           NEW h, \A y \in S : h[y] = f[y]
    PROVE  SumFunctionOnSet(h, S) = SumFunctionOnSet(f, S)
<1>1. PICK g : Sums(g, f, S)
  BY SumsExist, Zenon
<1>2. Sums(g, h, S)
  BY <1>1, Zenon DEF Sums
<1> QED
  BY <1>1, <1>2, SumIs, Zenon

-----------------------------------------------------------------------------
(* Lemmas about the data.                                                  *)

\* Succ is the next sequence unless it wraps.
LEMMA SuccNext ==
    ASSUME NEW n \in 0..MaxSeq, Succ(n) > n
    PROVE  Succ(n) = n + 1 /\ n + 1 \in 1..MaxSeq
<1>1. CASE n = MaxSeq
  BY <1>1, ClientAssumption DEF Succ
<1>2. CASE n < MaxSeq
  BY <1>2, ClientAssumption DEF Succ
<1> QED
  BY <1>1, <1>2, ClientAssumption

\* The recovery of a client that has none.
LEMMA NoRecoveryType ==
    /\ NoRecovery \in Recoveries
    /\ NoRecovery.buffer = <<>>
    /\ ~NoRecovery.eventsComplete
<1>1. <<>> \in Seq(Events)
  OBVIOUS
<1>2. 0 \in 0..MaxSeq
  BY ClientAssumption
<1>3. {} \in SUBSET Namespaces
  BY Zenon
<1> QED
  BY <1>1, <1>2, <1>3, Zenon DEF NoRecovery, Recoveries

\* No identity is kept for an empty stream.
LEMMA EmptyWindow ==
    /\ Empty \in IdMaps /\ DOMAIN Empty = {}
    /\ {n \in 1..0 : n + EventIdentityWindow > 0} = {}
<1>1. Empty \in [{} -> EventIDs]
  BY Zenon DEF Empty
<1>2. {} \in SUBSET Int
  BY Zenon
<1> QED
  BY <1>1, <1>2 DEF IdMaps, Empty

\* Nothing is buffered for an empty buffer.
LEMMA EmptyContinues == \A last : Continues(<<>>, last)
  BY DEF Continues

\* Deliver hands out EVENTs that continue the stream.
LEMMA DeliverContinues ==
    ASSUME lastSeq \in 0..MaxSeq, delivered \in Seq(Events), DeliveredInOrder,
           NEW b \in Seq(Events), Continues(b, lastSeq), Deliver(b)
    PROVE  /\ lastSeq' = lastSeq + Len(b)
           /\ lastSeq' \in 0..MaxSeq
           /\ delivered' \in Seq(Events)
           /\ DeliveredInOrder'
<1>1. Len(b) \in Nat /\ Len(delivered) = lastSeq
  BY DEF DeliveredInOrder
<1>2. lastSeq' = lastSeq + Len(b) /\ lastSeq' \in 0..MaxSeq
  <2>1. CASE b = <<>>
    BY <2>1 DEF Deliver
  <2>2. CASE b # <<>>
    <3> Len(b) \in 1..Len(b) /\ Last(b) = b[Len(b)]
      BY <2>2 DEF Last
    <3>2. b[Len(b)].seq = lastSeq + Len(b) /\ b[Len(b)].seq \in 1..MaxSeq
      <4>1. b[Len(b)] \in Events
        OBVIOUS
      <4> QED
        BY <4>1, Zenon DEF Continues, Events
    <3> QED
      BY <2>2, <3>2, ClientAssumption DEF Deliver
  <2> QED
    BY <2>1, <2>2, Zenon
<1>3. delivered' = delivered \o b
  BY Zenon DEF Deliver
<1> /\ delivered' \in Seq(Events)
    /\ Len(delivered') = lastSeq + Len(b)
    /\ \A n \in 1..lastSeq : delivered'[n] = delivered[n]
    /\ \A n \in 1..Len(b) : delivered'[lastSeq + n] = b[n]
  <2>1. delivered \o b \in Seq(Events)
    OBVIOUS
  <2>2. Len(delivered \o b) = Len(delivered) + Len(b)
    OBVIOUS
  <2>3. \A n \in 1..Len(delivered) : (delivered \o b)[n] = delivered[n]
    OBVIOUS
  <2>4. \A n \in 1..Len(b) : (delivered \o b)[Len(delivered) + n] = b[n]
    OBVIOUS
  <2> QED
    BY <1>1, <1>3, <2>1, <2>2, <2>3, <2>4, Zenon
<1>5. \A n \in 1..lastSeq' : delivered'[n].seq = n
  <2> SUFFICES ASSUME NEW n \in 1..lastSeq'
               PROVE  delivered'[n].seq = n
    BY Zenon
  <2>1. CASE n \in 1..lastSeq
    BY <2>1, Zenon DEF DeliveredInOrder
  <2>2. CASE n \notin 1..lastSeq
    <3>1. PICK m \in 1..Len(b) : n = lastSeq + m
      BY <1>1, <1>2, <2>2
    <3> QED
      BY <3>1, Zenon DEF Continues
  <2> QED
    BY <2>1, <2>2, Zenon
<1> QED
  BY <1>2, <1>5, Zenon DEF DeliveredInOrder

\* The stream and a Resume in progress are as they were.
QuietStream ==
    /\ UNCHANGED <<lastSeq, delivered, eventIDs, recovery>>
    /\ state' = "RESUMING" <=> state = "RESUMING"

-----------------------------------------------------------------------------
(* What the steps do to the EVENT stream.                                  *)

\* Steps that leave the stream alone keep StreamInv.
LEMMA QuietKeeps ==
    ASSUME StreamInv, QuietStream
    PROVE  StreamInv'
<1>1. WindowOK' /\ DeliveredInOrder'
  BY Zenon DEF StreamInv, QuietStream, DeliveredInOrder, WindowOK,
     IdentityWindow
<1> QED
  BY <1>1, Zenon DEF StreamInv, QuietStream, Continues

\* A Resume begins or ends, with nothing buffered.
ResetStream ==
    /\ UNCHANGED <<lastSeq, delivered, eventIDs>>
    /\ recovery' \in Recoveries
    /\ recovery'.buffer = <<>>
    /\ ~recovery'.eventsComplete
    /\ state' # "RESUMING" => recovery' = NoRecovery

\* Steps that drop the buffer keep StreamInv.
LEMMA ResetKeeps ==
    ASSUME StreamInv, ResetStream
    PROVE  StreamInv'
<1>1. Continues(recovery'.buffer, lastSeq')
  BY EmptyContinues, Zenon DEF ResetStream
<1>2. DeliveredInOrder' /\ WindowOK'
  BY Zenon DEF StreamInv, ResetStream, DeliveredInOrder, WindowOK,
     IdentityWindow
<1>3. /\ lastSeq' \in 0..MaxSeq /\ delivered' \in Seq(Events)
      /\ recovery' \in Recoveries
      /\ state' # "RESUMING" => recovery' = NoRecovery
  BY Zenon DEF StreamInv, ResetStream
<1>4. ~recovery'.eventsComplete
  BY Zenon DEF ResetStream
<1> QED
  BY <1>1, <1>2, <1>3, <1>4, Zenon DEF StreamInv, Continues

\* ResetConnectionTransient, into a state other than RESUMING.
LEMMA TransientReset ==
    ASSUME ResetConnectionTransient,
           UNCHANGED <<lastSeq, delivered, eventIDs>>
    PROVE  ResetStream
  BY NoRecoveryType, Zenon DEF ResetConnectionTransient, ResetStream

\* beginRecoveryLocked.
LEMMA RecoveryBegins ==
    ASSUME NEW namespaces \in SUBSET Namespaces, NEW gap \in BOOLEAN,
           BeginRecovery(namespaces, gap)
    PROVE  ResetStream
\* The recovery that beginRecoveryLocked leaves.
<1>1. ASSUME NEW r,
             r = [NoRecovery EXCEPT !.namespaces = namespaces, !.gap = gap]
      PROVE  r \in Recoveries /\ r.buffer = <<>> /\ ~r.eventsComplete
  <2> USE <1>1
  <2>1. <<>> \in Seq(Events)
    OBVIOUS
  <2>2. 0 \in 0..MaxSeq
    BY ClientAssumption
  <2> QED
    BY <2>1, <2>2, Zenon DEF NoRecovery, Recoveries
<1>2. recovery' = [NoRecovery EXCEPT !.namespaces = namespaces, !.gap = gap]
      /\ state' = "RESUMING"
  BY Zenon DEF BeginRecovery
<1>3. UNCHANGED <<lastSeq, delivered, eventIDs>>
  BY Zenon DEF BeginRecovery, sessionVars
<1>4. /\ recovery' \in Recoveries /\ recovery'.buffer = <<>>
      /\ ~recovery'.eventsComplete
  BY <1>2, <1>1, Zenon
<1> QED
  BY <1>2, <1>3, <1>4, Zenon DEF ResetStream

\* EVENTs that continue the stream are delivered and no Resume goes on.
DeliverStream ==
    /\ \E b \in Seq(Events) : Continues(b, lastSeq) /\ Deliver(b)
    /\ recovery' = NoRecovery

\* Steps that deliver EVENTs in order keep StreamInv.
LEMMA DeliverKeeps ==
    ASSUME StreamInv, DeliverStream
    PROVE  StreamInv'
\* rememberEventLocked yields identities by sequence.
<1>1. ASSUME NEW ids \in IdMaps, NEW e \in Events
      PROVE  /\ RememberEvent(ids, e) \in IdMaps
             /\ \A n : n \in DOMAIN RememberEvent(ids, e) <=>
                        \/ n \in DOMAIN ids /\ n # e.seq - EventIdentityWindow
                        \/ n = e.seq
             /\ \A n \in DOMAIN RememberEvent(ids, e) :
                   RememberEvent(ids, e)[n] = IF n = e.seq THEN e.id ELSE ids[n]
  <2>1. e.seq \in Int /\ e.id \in EventIDs
    BY ClientAssumption DEF Events
  <2>2. PICK held \in SUBSET Int : ids \in [held -> EventIDs]
    BY Zenon DEF IdMaps
  <2> DEFINE kept == (held \ {e.seq - EventIdentityWindow}) \cup {e.seq}
             out == [n \in kept |-> IF n = e.seq THEN e.id ELSE ids[n]]
  <2>3. RememberEvent(ids, e) = out
    BY <2>2, Zenon DEF RememberEvent
  <2>4. out \in [kept -> EventIDs] /\ kept \in SUBSET Int
    BY <2>1, <2>2, Zenon
  <2>5. out \in IdMaps
    <3> HIDE DEF out, kept
    <3> QED
      BY <2>4, Zenon DEF IdMaps
  <2> QED
    BY <2>2, <2>3, <2>5, Zenon
\* The loop over the EVENTs handed out, turn by turn.
<1>2. ASSUME NEW ids \in IdMaps, NEW events \in Seq(Events)
      PROVE  \E f : /\ f[0] = ids
                    /\ \A i \in 1..Len(events) :
                          f[i] = RememberEvent(f[i - 1], events[i])
                    /\ Remembered(ids, events) = f[Len(events)]
  <2> DEFINE n == Len(events)
             P(g) == g = [i \in 0..n |->
                             IF i = 0 THEN ids
                             ELSE RememberEvent(g[i - 1], events[i])]
             step == [p \in IdMaps \X (1..n) |-> RememberEvent(p[1], events[p[2]])]
  <2>1. n \in Nat /\ \A i \in 1..n : events[i] \in Events
    OBVIOUS
  <2>2. step \in [IdMaps \X (1..n) -> IdMaps]
    <3> SUFFICES ASSUME NEW p \in IdMaps \X (1..n)
                 PROVE  RememberEvent(p[1], events[p[2]]) \in IdMaps
      BY Zenon
    <3>1. p[1] \in IdMaps /\ events[p[2]] \in Events
      BY <2>1, Zenon
    <3> QED
      BY <3>1, <1>1, Zenon
  <2>3. PICK h \in [0..n -> IdMaps] : Runs(h, ids, step, n)
    <3> HIDE DEF n, step
    <3> QED
      BY <2>1, <2>2, LoopExists, Zenon
  <2>4. \A i \in 1..n : h[i] = RememberEvent(h[i - 1], events[i])
    <3> SUFFICES ASSUME NEW i \in 1..n
                 PROVE  h[i] = RememberEvent(h[i - 1], events[i])
      BY Zenon
    <3>1. h[i - 1] \in IdMaps
      BY <2>1, <2>3
    <3>2. <<h[i - 1], i>> \in IdMaps \X (1..n)
      BY <3>1, Zenon
    <3>3. h[i] = step[<<h[i - 1], i>>]
      BY <2>3, Zenon DEF Runs
    <3> QED
      BY <3>2, <3>3, Zenon
  <2>5. P(h)
    <3> HIDE DEF n
    <3>1. h = [i \in 0..n |-> h[i]]
      BY <2>3, Zenon
    <3>2. h[0] = ids
      BY <2>3, Zenon DEF Runs
    <3>3. \A i \in 0..n : h[i] = IF i = 0 THEN ids
                                 ELSE RememberEvent(h[i - 1], events[i])
      BY <2>1, <2>4, <3>2
    <3> QED
      BY <3>1, <3>3, Zenon
  <2>6. PICK f : f = CHOOSE g : P(g)
    BY Zenon
  <2>7. P(f)
    <3> HIDE DEF P
    <3> QED
      BY <2>5, <2>6, Zenon
  <2>8. Remembered(ids, events) = f[n]
    BY <2>6, Zenon DEF Remembered
  <2>9. f[0] = ids /\ \A i \in 1..n : f[i] = RememberEvent(f[i - 1], events[i])
    <3> HIDE DEF n
    <3> QED
      BY <2>1, <2>7
  <2> QED
    BY <2>8, <2>9, Zenon
\* Handing out EVENTs that continue the stream moves the window along.
<1>3. ASSUME lastSeq \in 0..MaxSeq, delivered \in Seq(Events),
             DeliveredInOrder, eventIDs \in IdMaps, IdentityWindow,
             NEW b \in Seq(Events), Continues(b, lastSeq), Deliver(b),
             lastSeq' = lastSeq + Len(b)
      PROVE  eventIDs' \in IdMaps /\ IdentityWindow'
  <2> USE <1>3
  <2> DEFINE all == delivered \o b
             In(m, n) == m \in 1..n /\ m + EventIdentityWindow > n
  <2>1. PICK f : /\ f[0] = eventIDs
                 /\ \A i \in 1..Len(b) : f[i] = RememberEvent(f[i - 1], b[i])
                 /\ Remembered(eventIDs, b) = f[Len(b)]
    BY <1>2, Zenon
  <2>2. eventIDs' = f[Len(b)] /\ delivered' = all /\ Len(b) \in Nat
    BY <2>1 DEF Deliver
  <2>3. /\ \A n \in 1..lastSeq : all[n] = delivered[n]
        /\ \A n \in 1..Len(b) : all[lastSeq + n] = b[n]
    BY DEF DeliveredInOrder
  <2> DEFINE Q(i) == /\ f[i] \in IdMaps
                     /\ \A n : n \in DOMAIN f[i] <=> In(n, lastSeq + i)
                     /\ \A n \in DOMAIN f[i] : f[i][n] = all[n].id
             S == {i \in Nat : i <= Len(b) => Q(i)}
  <2>4. 0 \in S
    <3> HIDE DEF all
    <3>1. \A n \in DOMAIN eventIDs : n \in 1..lastSeq
      BY Zenon DEF IdentityWindow
    <3> QED
      BY <2>1, <2>3, <3>1 DEF IdentityWindow
  <2>5. ASSUME NEW i \in Nat, i \in S
        PROVE  i + 1 \in S
    <3> SUFFICES ASSUME i + 1 <= Len(b)
                 PROVE  Q(i + 1)
      <4> HIDE DEF Q
      <4> QED
        OBVIOUS
    <3>1. Q(i)
      <4> HIDE DEF Q
      <4> QED
        BY <2>2, <2>5
    <3>2. PICK e \in Events : e = b[i + 1]
      BY <2>2
    <3>3. e.seq = lastSeq + (i + 1) /\ all[lastSeq + (i + 1)] = e
      <4> HIDE DEF all
      <4>1. i + 1 \in 1..Len(b)
        BY <2>2
      <4>2. /\ b[i + 1].seq = lastSeq + (i + 1)
            /\ all[lastSeq + (i + 1)] = b[i + 1]
        BY <2>3, <4>1, Zenon DEF Continues
      <4> QED
        BY <3>2, <4>2, Zenon
    <3>4. f[i + 1] = RememberEvent(f[i], e)
      BY <2>1, <2>2, <3>2
    <3>5. PICK old \in IdMaps : old = f[i]
      BY <3>1, Zenon
    <3>6. PICK new : new = RememberEvent(old, e)
      BY Zenon
    <3>7. /\ new \in IdMaps
          /\ \A n : n \in DOMAIN new <=>
                     \/ n \in DOMAIN old /\ n # e.seq - EventIdentityWindow
                     \/ n = e.seq
          /\ \A n \in DOMAIN new : new[n] = IF n = e.seq THEN e.id ELSE old[n]
      <4>1. new \in IdMaps
        BY <3>6, <1>1, Zenon
      <4>2. \A n : n \in DOMAIN new <=>
                     \/ n \in DOMAIN old /\ n # e.seq - EventIdentityWindow
                     \/ n = e.seq
        BY <3>6, <1>1, Zenon
      <4>3. \A n \in DOMAIN new : new[n] = IF n = e.seq THEN e.id ELSE old[n]
        BY <3>6, <1>1, Zenon
      <4> QED
        BY <4>1, <4>2, <4>3, Zenon
    <3>8. \A n : n \in DOMAIN new <=> In(n, lastSeq + (i + 1))
      <4>1. PICK k \in Nat : k = lastSeq + i
        OBVIOUS
      <4>2. PICK s \in Nat : s = k + 1
        OBVIOUS
      <4>3. e.seq = s /\ lastSeq + (i + 1) = s
        BY <3>3, <4>1, <4>2
      <4>4. \A n : In(n, s) <=>
                   \/ In(n, k) /\ n # s - EventIdentityWindow
                   \/ n = s
        BY <4>2, ClientAssumption
      <4> HIDE DEF In
      <4>5. \A n : n \in DOMAIN old <=> In(n, k)
        BY <3>1, <3>5, <4>1, Zenon
      <4>6. \A n : n \in DOMAIN new <=>
                   \/ n \in DOMAIN old /\ n # s - EventIdentityWindow
                   \/ n = s
        BY <3>7, <4>3, Zenon
      <4>7. \A n : n \in DOMAIN new <=> In(n, s)
        BY <4>4, <4>5, <4>6, Zenon
      <4> QED
        BY <4>3, <4>7, Zenon
    <3>9. \A n \in DOMAIN new : new[n] = all[n].id
      <4> HIDE DEF all
      <4> QED
        BY <3>1, <3>3, <3>5, <3>7, Zenon
    <3>10. f[i + 1] = new
      BY <3>4, <3>5, <3>6, Zenon
    <3> QED
      <4> HIDE DEF all, In
      <4> QED
        BY <3>7, <3>8, <3>9, <3>10, Zenon
  <2>6. Nat \subseteq S
    <3> HIDE DEF S
    <3> QED
      BY <2>4, <2>5, SetInduction, Zenon
  <2>7. Q(Len(b))
    <3> HIDE DEF Q
    <3> QED
      BY <2>2, <2>6
  <2> QED
    <3> HIDE DEF all
    <3> QED
      BY <2>2, <2>7, Zenon DEF IdentityWindow
<1>4. PICK b \in Seq(Events) : Continues(b, lastSeq) /\ Deliver(b)
  BY Zenon DEF DeliverStream
<1>5. /\ lastSeq' \in 0..MaxSeq /\ delivered' \in Seq(Events)
      /\ DeliveredInOrder' /\ lastSeq' = lastSeq + Len(b)
  BY <1>4, DeliverContinues, Zenon DEF StreamInv
<1>6. /\ recovery' = NoRecovery /\ recovery' \in Recoveries
      /\ recovery'.buffer = <<>> /\ ~recovery'.eventsComplete
  BY NoRecoveryType, Zenon DEF DeliverStream
<1>7. Continues(recovery'.buffer, lastSeq')
  BY <1>6, EmptyContinues, Zenon
<1>8. WindowOK'
  BY <1>4, <1>5, <1>3, Zenon DEF StreamInv, WindowOK
<1> QED
  BY <1>5, <1>6, <1>7, <1>8, Zenon DEF StreamInv, Continues

\* abandonSessionLocked.
AbandonStream ==
    /\ lastSeq' = 0 /\ eventIDs' = Empty /\ delivered' = <<>>
    /\ recovery' = NoRecovery

-----------------------------------------------------------------------------
(* The handlers.                                                           *)

\* The fields of the frames a peer can send.
LEMMA FrameFields ==
    ASSUME NEW f \in Frames
    PROVE  FrameOK(f)
<1>1. Batches \subseteq Seq(StateObjects)
  <2>1. \A o \in StateObjects : <<o>> \in Seq(StateObjects)
    OBVIOUS
  <2>2. \A b \in StateObjects \X StateObjects : b \in Seq(StateObjects)
    <3>1. \A o, p \in StateObjects : <<o, p>> \in Seq(StateObjects)
      OBVIOUS
    <3>2. \A b \in StateObjects \X StateObjects :
             \E o, p \in StateObjects : b = <<o, p>>
      OBVIOUS
    <3> QED
      BY <3>1, <3>2, Zenon
  <2>3. <<>> \in Seq(StateObjects)
    OBVIOUS
  <2> QED
    BY <2>1, <2>2, <2>3, Zenon DEF Batches
<1>2. /\ f.type = "EVENT" => f.seq \in 1..MaxSeq /\ f.id \in EventIDs
      /\ f.type = "WELCOME" /\ f.mode = "NEW" => f.session \in Sessions
      /\ f.type = "WELCOME" /\ f.mode = "RESUMED" => f.replayTo \in 0..MaxSeq
      /\ f.type \in {"STATE_SNAPSHOT", "STATE_UPDATE"} => f.objects \in Batches
  BY Zenon DEF Frames
<1> QED
  BY <1>1, <1>2, Zenon DEF FrameOK

\* The buffer with the next EVENT of the replay.
LEMMA BufferGrows ==
    ASSUME StreamInv, NEW f, FrameOK(f), f.type = "EVENT", ReplayExpected(f)
    PROVE  LET buffer == Append(recovery.buffer, EventOf(f))
           IN  /\ buffer \in Seq(Events)
               /\ Continues(buffer, lastSeq)
               /\ lastSeq + Len(buffer) = f.seq
<1> DEFINE old == recovery.buffer
           buffer == Append(old, EventOf(f))
<1> old \in Seq(Events) /\ lastSeq \in Nat
  BY DEF StreamInv, Recoveries
<1>2. EventOf(f) \in Events /\ EventOf(f).seq = f.seq
  BY Zenon DEF FrameOK, EventOf, Events
<1>3. f.seq = lastSeq + Len(old) + 1
  BY Zenon DEF ReplayExpected
<1>4. Continues(old, lastSeq)
  BY Zenon DEF StreamInv
<1> HIDE DEF old
<1> /\ buffer \in Seq(Events) /\ Len(buffer) = Len(old) + 1
    /\ \A n \in 1..Len(old) : buffer[n] = old[n]
    /\ buffer[Len(old) + 1] = EventOf(f)
  BY <1>2
<1>6. Continues(buffer, lastSeq)
  <2> HIDE DEF buffer
  <2> SUFFICES ASSUME NEW n \in 1..Len(buffer)
               PROVE  buffer[n].seq = lastSeq + n
    BY Zenon DEF Continues
  <2>1. CASE n \in 1..Len(old)
    BY <1>4, <2>1, Zenon DEF Continues
  <2>2. CASE n = Len(old) + 1
    BY <1>2, <1>3, <2>2
  <2> QED
    BY <2>1, <2>2
<1>7. lastSeq + Len(buffer) = f.seq
  BY <1>3
<1> QED
  BY <1>6, <1>7, Zenon DEF old

\* HandleIncoming keeps the stream, whatever frame arrives.
LEMMA IncomingKeeps ==
    ASSUME StreamInv, NEW g, NEW f, FrameOK(f), HandleIncoming(g, f)
    PROVE  StreamInv'
\* The recovery after a replayed EVENT was buffered.
<1>1. ASSUME NEW r \in Recoveries, NEW b \in Seq(Events), NEW n \in Nat,
             NEW e \in BOOLEAN
      PROVE  [r EXCEPT !.buffer = b, !.bytes = n, !.eventsComplete = e]
                \in Recoveries
  BY Zenon DEF Recoveries
\* Abandoning the Session starts an empty stream.
<1>2. ASSUME AbandonStream
      PROVE  StreamInv'
  <2> USE <1>2
  <2>1. /\ recovery' = NoRecovery /\ recovery' \in Recoveries
        /\ recovery'.buffer = <<>> /\ ~recovery'.eventsComplete
    BY NoRecoveryType, Zenon DEF AbandonStream
  <2>2. Continues(recovery'.buffer, lastSeq')
    BY <2>1, EmptyContinues, Zenon
  <2>3. lastSeq' \in 0..MaxSeq
    BY ClientAssumption DEF AbandonStream
  <2>4. DeliveredInOrder' /\ delivered' \in Seq(Events)
    BY DEF AbandonStream, DeliveredInOrder
  <2>5. WindowOK'
    BY EmptyWindow, Zenon DEF AbandonStream, WindowOK, IdentityWindow
  <2> QED
    BY <2>1, <2>2, <2>3, <2>4, <2>5, Zenon DEF StreamInv, Continues
\* stopReplayLocked keeps StreamInv.
<1>3. ASSUME StopRecovery
      PROVE  StreamInv'
  <2> USE <1>3
  <2>1. /\ ResetConnectionTransient
        /\ UNCHANGED <<lastSeq, delivered, eventIDs>>
    BY Zenon DEF StopRecovery, sessionVars
  <2> QED
    BY <2>1, TransientReset, ResetKeeps, Zenon
\* A replayed EVENT is rejected, buffered or completes the replay.
<1>4. ASSUME f.type = "EVENT", HandleReplayEvent(f)
      PROVE  StreamInv'
  <2> USE <1>4
  <2> DEFINE buffer == Append(recovery.buffer, EventOf(f))
             bytes  == recovery.bytes + EventBytes[f.id]
             fits   == Len(buffer) <= MaxReplayEvents /\ bytes <= MaxReplayBytes
  <2> /\ buffer \in Seq(Events) /\ Continues(buffer, lastSeq)
      /\ lastSeq + Len(buffer) = f.seq
    BY BufferGrows, Zenon DEF HandleReplayEvent
  <2>2. ReplayExpected(f) /\ state = "RESUMING"
    BY Zenon DEF HandleReplayEvent, ReplayExpected
  <2>3. CASE ~fits
    BY <2>3, <1>3, Zenon DEF HandleReplayEvent
  <2>4. CASE fits /\ ~EndsReplay(f)
    <3>1. recovery' = [recovery EXCEPT !.buffer = buffer, !.bytes = bytes,
             !.eventsComplete = recovery.eventsComplete
                                \/ f.seq = recovery.replayTo]
          /\ state' = state
      BY <2>4, Zenon DEF HandleReplayEvent, StreamInv, Recoveries
    <3> UNCHANGED <<lastSeq, delivered, eventIDs>>
      BY <2>4, Zenon DEF HandleReplayEvent, sessionVars
    <3>3. recovery \in Recoveries /\ bytes \in Nat
      BY ClientAssumption DEF FrameOK, StreamInv, Recoveries
    <3>4. PICK e \in BOOLEAN : e = (recovery.eventsComplete
                                    \/ f.seq = recovery.replayTo)
      BY Zenon
    <3> /\ recovery' \in Recoveries
        /\ recovery'.buffer = buffer
        /\ recovery'.replayTo = recovery.replayTo
        /\ recovery'.eventsComplete = e
      <4> HIDE DEF buffer, bytes
      <4>1. recovery' = [recovery EXCEPT !.buffer = buffer, !.bytes = bytes,
                                         !.eventsComplete = e]
        BY <3>1, <3>4, Zenon
      <4>2. recovery \in Recoveries /\ buffer \in Seq(Events) /\ bytes \in Nat
        BY <3>3, Zenon
      <4>3. /\ recovery'.buffer = buffer
            /\ recovery'.replayTo = recovery.replayTo
            /\ recovery'.eventsComplete = e
        BY <4>1, <4>2, Zenon DEF Recoveries
      <4>4. recovery' \in Recoveries
        <5>1. [recovery EXCEPT !.buffer = buffer, !.bytes = bytes,
                               !.eventsComplete = e] \in Recoveries
          BY <4>2, <1>1, Zenon
        <5> QED
          BY <4>1, <5>1, Zenon
      <4> QED
        BY <4>3, <4>4, Zenon
    <3>6. ~recovery.eventsComplete
      BY <2>2, <3>3 DEF StreamInv, ReplayExpected, Recoveries
    <3>7. recovery'.eventsComplete =>
             lastSeq' + Len(recovery'.buffer) = recovery'.replayTo
      <4>1. recovery'.eventsComplete => f.seq = recovery.replayTo
        BY <3>4, <3>6, Zenon
      <4> QED
        BY <4>1, Zenon
    <3>8. Continues(recovery'.buffer, lastSeq')
      BY Zenon
    <3>9. /\ lastSeq' \in 0..MaxSeq /\ delivered' \in Seq(Events)
          /\ DeliveredInOrder' /\ state' = "RESUMING" /\ WindowOK'
      BY <2>2, <3>1, Zenon DEF StreamInv, DeliveredInOrder, WindowOK,
                              IdentityWindow
    <3> QED
      BY <3>7, <3>8, <3>9, Zenon DEF StreamInv, Continues
  <2>5. CASE fits /\ EndsReplay(f)
    <3>1. Deliver(buffer) /\ FinishRecovery
      BY <2>5, Zenon DEF HandleReplayEvent
    <3>2. recovery' = NoRecovery
      BY <3>1, Zenon DEF FinishRecovery, ResetConnectionTransient
    <3> QED
      BY <3>1, <3>2, DeliverKeeps, Zenon DEF DeliverStream
  <2> QED
    BY <2>3, <2>4, <2>5, Zenon
\* handleEventLocked.
<1>5. ASSUME HandleEvent(f)
      PROVE  StreamInv'
  <2> USE <1>5
  <2>1. f.type = "EVENT"
    BY Zenon DEF HandleEvent
  <2>2. CASE DiscardEvent(f)
    BY <2>2, QuietKeeps, Zenon DEF DiscardEvent, QuietStream, sessionVars,
                            transientVars
  <2>3. CASE HandleReplayEvent(f)
    BY <2>1, <2>3, <1>4, Zenon
  <2>4. CASE HandleLiveEvent(f)
    <3>1. CASE BeginRecovery({}, TRUE)
      BY <3>1, RecoveryBegins, ResetKeeps, Zenon
    <3>2. CASE IsNext(f) /\ Deliver(<<EventOf(f)>>) /\ UNCHANGED transientVars
      <4>1. f.seq = lastSeq + 1
        BY <2>4, <3>2, SuccNext, Zenon DEF StreamInv, HandleLiveEvent, IsNext
      <4>2. EventOf(f) \in Events /\ EventOf(f).seq = lastSeq + 1
        BY <2>1, <4>1, Zenon DEF FrameOK, EventOf, Events
      <4>3. <<EventOf(f)>> \in Seq(Events) /\ Continues(<<EventOf(f)>>, lastSeq)
        BY <4>2 DEF Continues
      <4>4. recovery' = NoRecovery
        BY <2>4, <3>2, Zenon DEF HandleLiveEvent, StreamInv, transientVars
      <4> QED
        BY <3>2, <4>3, <4>4, DeliverKeeps, Zenon DEF DeliverStream
    <3> QED
      BY <2>4, <3>1, <3>2, Zenon DEF HandleLiveEvent
  <2> QED
    BY <2>2, <2>3, <2>4, Zenon DEF HandleEvent
\* The WELCOME of a Resume.
<1>6. ASSUME f.type = "WELCOME", HandleResumedWelcome(f)
      PROVE  StreamInv'
  <2> USE <1>6
  <2>1. f.replayTo \in 0..MaxSeq /\ state = "RESUMING"
    BY Zenon DEF FrameOK, HandleResumedWelcome, Acknowledges
  <2>2. CASE StopRecovery
    BY <2>2, <1>3, Zenon
  <2>3. CASE FinishRecovery /\ UNCHANGED <<generation, sessionVars>>
    <3>1. /\ ResetConnectionTransient
          /\ UNCHANGED <<lastSeq, delivered, eventIDs>>
      BY <2>3, Zenon DEF FinishRecovery, sessionVars
    <3> QED
      BY <3>1, TransientReset, ResetKeeps, Zenon
  <2>4. CASE /\ recovery' = [NoRecovery EXCEPT
                                !.replayTo = f.replayTo,
                                !.namespaces = recovery.namespaces,
                                !.eventsComplete = (f.replayTo = lastSeq)]
             /\ UNCHANGED <<state, generation, sessionVars, pendingPing,
                            stateQueries>>
    <3> /\ UNCHANGED <<lastSeq, delivered, eventIDs>>
        /\ state' = "RESUMING"
      BY <2>1, <2>4, Zenon DEF sessionVars
    <3>2. recovery.namespaces \in SUBSET Namespaces
      BY Zenon DEF StreamInv, Recoveries
    <3>3. PICK e \in BOOLEAN : e = (f.replayTo = lastSeq)
      BY Zenon
    <3> /\ recovery' \in Recoveries /\ recovery'.buffer = <<>>
        /\ recovery'.replayTo = f.replayTo /\ recovery'.eventsComplete = e
      <4>1. recovery' = [NoRecovery EXCEPT
                            !.replayTo = f.replayTo,
                            !.namespaces = recovery.namespaces,
                            !.eventsComplete = e]
        BY <2>4, <3>3, Zenon
      <4> QED
        <5>1. <<>> \in Seq(Events)
          OBVIOUS
        <5> QED
          BY <2>1, <3>2, <4>1, <5>1, Zenon DEF NoRecovery, Recoveries
    <3>5. recovery'.eventsComplete => f.replayTo = lastSeq
      BY <3>3, Zenon
    <3>6. recovery'.eventsComplete =>
             lastSeq' + Len(recovery'.buffer) = recovery'.replayTo
      BY <3>5 DEF StreamInv
    <3>7. Continues(recovery'.buffer, lastSeq')
      BY EmptyContinues, Zenon
    <3>8. /\ lastSeq' \in 0..MaxSeq /\ delivered' \in Seq(Events)
          /\ DeliveredInOrder' /\ WindowOK'
      BY Zenon DEF StreamInv, DeliveredInOrder, WindowOK, IdentityWindow
    <3> QED
      BY <3>6, <3>7, <3>8, Zenon DEF StreamInv, Continues
  <2> QED
    BY <2>2, <2>3, <2>4, Zenon DEF HandleResumedWelcome
\* handleResumeStateSnapshotLocked.
<1>7. ASSUME HandleResumeStateSnapshot(f)
      PROVE  StreamInv'
  <2> USE <1>7
  <2>1. Deliver(recovery.buffer) /\ recovery' = NoRecovery
    BY Zenon DEF HandleResumeStateSnapshot, FinishRecovery,
       ResetConnectionTransient
  <2>2. recovery.buffer \in Seq(Events) /\ Continues(recovery.buffer, lastSeq)
    BY Zenon DEF StreamInv, Recoveries
  <2> QED
    BY <2>1, <2>2, DeliverKeeps, Zenon DEF DeliverStream
\* handleErrorLocked keeps StreamInv.
<1>8. ASSUME HandleError(f)
      PROVE  StreamInv'
  <2> USE <1>8
  <2>1. CASE AbandonsSession(f.code)
    <3>1. AbandonSession /\ ResetConnectionTransient
      BY <2>1, Zenon DEF HandleError
    <3> QED
      BY <3>1, <1>2, Zenon DEF AbandonSession, ResetConnectionTransient,
                                AbandonStream
  <2>2. CASE ~AbandonsSession(f.code)
    <3>1. UNCHANGED <<lastSeq, delivered, eventIDs>>
      BY <2>2, Zenon DEF HandleError, sessionVars
    <3>2. CASE ResetConnectionTransient
      BY <3>1, <3>2, TransientReset, ResetKeeps, Zenon
    <3>3. CASE UNCHANGED <<state, pendingPing, recovery>>
      BY <3>1, <3>3, QuietKeeps, Zenon DEF QuietStream
    <3> QED
      BY <3>2, <3>3, Zenon DEF HandleError
  <2> QED
    BY <2>1, <2>2, Zenon
<1> USE DEF sessionVars, transientVars, QuietStream
<1>9. CASE HandleIncomingFailure
  BY <1>9, <1>3, QuietKeeps, Zenon DEF HandleIncomingFailure
<1>10. CASE HandleInvalidError(f)
  BY <1>10, TransientReset, ResetKeeps, Zenon DEF HandleInvalidError
<1>11. CASE HandleNewWelcome(f)
  BY <1>11, QuietKeeps, Zenon DEF HandleNewWelcome
<1>12. CASE f.type = "WELCOME" /\ HandleResumedWelcome(f)
  BY <1>12, <1>6, Zenon
<1>13. CASE HandlePong(g, f)
  BY <1>13, QuietKeeps, Zenon DEF HandlePong
<1>14. CASE HandleAck(f)
  BY <1>14, QuietKeeps, Zenon DEF HandleAck
<1>15. CASE HandleEvent(f)
  BY <1>15, <1>5, Zenon
<1>16. CASE HandleStateSnapshot(f)
  BY <1>16, QuietKeeps, Zenon DEF HandleStateSnapshot
<1>17. CASE HandleResumeStateSnapshot(f)
  BY <1>17, <1>7, Zenon
<1>18. CASE HandleStateUpdate(f)
  BY <1>18, QuietKeeps, Zenon DEF HandleStateUpdate
<1>19. CASE HandleError(f)
  BY <1>19, <1>8, Zenon
<1> QED
  BY <1>9, <1>10, <1>11, <1>12, <1>13, <1>14, <1>15, <1>16, <1>17, <1>18,
     <1>19, Zenon
     DEF HandleIncoming

\* What a client may do, whoever its peer is.
ClientStep ==
    \/ BeginConnect
    \/ RetryPending
    \/ \E m \in Msgs : EnqueueSend(m)
    \/ \E q \in Queries, ids \in SUBSET Identities : QueryState(q, ids)
    \/ \E g : \/ TransportConnected(g) \/ StartSession(g) \/ Disconnect(g)
              \/ \E ns \in SUBSET Namespaces : Resume(g, ns)
              \/ \E p \in Pings : SendPing(g, p)
              \/ CheckHeartbeat(g)
              \/ \E f : FrameOK(f) /\ HandleIncoming(g, f)
    \/ UNCHANGED clientVars

\* The client of Spec takes such steps.
LEMMA NextIsStep ==
    ASSUME [Next]_clientVars
    PROVE  ClientStep
  BY FrameFields, Zenon DEF Next, ClientStep

\* Every step of the client keeps StreamInv.
LEMMA StreamStep ==
    ASSUME StreamInv, ClientStep
    PROVE  StreamInv'
<1> USE DEF sessionVars, transientVars, QuietStream
<1>1. CASE BeginConnect
  BY <1>1, TransientReset, ResetKeeps, Zenon DEF BeginConnect
<1>2. CASE RetryPending
  BY <1>2, QuietKeeps, Zenon DEF RetryPending
<1>3. ASSUME NEW m \in Msgs, EnqueueSend(m) PROVE StreamInv'
  BY <1>3, QuietKeeps, Zenon DEF EnqueueSend
<1>4. ASSUME NEW q, NEW ids, QueryState(q, ids) PROVE StreamInv'
  BY <1>4, QuietKeeps, Zenon DEF QueryState
<1>5. ASSUME NEW g, TransportConnected(g) PROVE StreamInv'
  BY <1>5, QuietKeeps, Zenon DEF TransportConnected
<1>6. ASSUME NEW g, StartSession(g) PROVE StreamInv'
  BY <1>6, QuietKeeps, Zenon DEF StartSession
<1>7. ASSUME NEW g, NEW ns \in SUBSET Namespaces, Resume(g, ns)
      PROVE  StreamInv'
  BY <1>7, RecoveryBegins, ResetKeeps, Zenon DEF Resume
<1>8. ASSUME NEW g, Disconnect(g) PROVE StreamInv'
  BY <1>8, TransientReset, ResetKeeps, Zenon DEF Disconnect
<1>9. ASSUME NEW g, NEW p, SendPing(g, p) PROVE StreamInv'
  BY <1>9, QuietKeeps, Zenon DEF SendPing
<1>10. ASSUME NEW g, CheckHeartbeat(g) PROVE StreamInv'
  BY <1>10, QuietKeeps, TransientReset, ResetKeeps, Zenon DEF CheckHeartbeat
<1>11. ASSUME NEW g, NEW f, FrameOK(f), HandleIncoming(g, f)
       PROVE  StreamInv'
  BY <1>11, IncomingKeeps, Zenon
<1>12. CASE UNCHANGED clientVars
  BY <1>12, QuietKeeps, Zenon DEF clientVars
<1> QED
  BY <1>1, <1>2, <1>3, <1>4, <1>5, <1>6, <1>7, <1>8, <1>9, <1>10, <1>11,
     <1>12, Zenon DEF ClientStep

\* A new client has an empty stream.
LEMMA StreamInit ==
    ASSUME Init
    PROVE  StreamInv
<1>1. /\ recovery = NoRecovery /\ recovery \in Recoveries
      /\ recovery.buffer = <<>> /\ ~recovery.eventsComplete
  BY NoRecoveryType, Zenon DEF Init
<1>2. Continues(recovery.buffer, lastSeq)
  BY <1>1, EmptyContinues, Zenon
<1>3. lastSeq \in 0..MaxSeq
  BY ClientAssumption DEF Init
<1>4. DeliveredInOrder /\ delivered \in Seq(Events)
  BY DEF Init, DeliveredInOrder
<1>5. WindowOK
  BY EmptyWindow, Zenon DEF Init, WindowOK, IdentityWindow
<1> QED
  BY <1>1, <1>2, <1>3, <1>4, <1>5, Zenon DEF StreamInv

\* What the client has delivered and buffered is one gapless stream, for any
\* frames a peer sends.
THEOREM StreamInvariant == Spec => []StreamInv
<1>1. StreamInv /\ [Next]_clientVars => StreamInv'
  BY StreamStep, NextIsStep, Zenon
<1> QED
  BY <1>1, StreamInit, PTL DEF Spec

\* handleEventLocked and handleResumeStateSnapshotLocked give the Application
\* the EVENTs 1, 2, ... of its Session, each once and in order, for any
\* sequence bound, limits and frames.
THEOREM EventsInOrder == Spec => []DeliveredInOrder
<1>1. StreamInv => DeliveredInOrder
  BY Zenon DEF StreamInv
<1> QED
  BY <1>1, StreamInvariant, PTL

\* rememberEventLocked keeps exactly the identities of the last
\* EventIdentityWindow EVENTs delivered, for any window and any mixture of
\* live EVENTs and replays.
THEOREM WindowIsExact == Spec => []IdentityWindow
<1>1. StreamInv => IdentityWindow
  BY Zenon DEF StreamInv, WindowOK
<1> QED
  BY <1>1, StreamInvariant, PTL

\* A Resume hands its whole replay to the Application in the step that makes
\* the client READY, or nothing at all, for any frames and limits.
THEOREM ReplayIsAtomic == Spec => ReplayAllOrNothing
<1> DEFINE P == state = "RESUMING" /\ delivered' # delivered =>
                   \/ state' = "READY" /\ lastSeq' = recovery.replayTo
                   \/ sessionID' = NoSession
<1>1. ASSUME StreamInv, NEW g, NEW f, FrameOK(f), HandleIncoming(g, f),
             state = "RESUMING", delivered' # delivered
      PROVE  P
  <2> USE <1>1 DEF sessionVars, transientVars
  <2>1. CASE HandleEvent(f)
    <3>1. HandleReplayEvent(f) /\ f.type = "EVENT"
      BY <2>1, Zenon DEF HandleEvent, DiscardEvent, HandleLiveEvent
    <3> /\ Deliver(Append(recovery.buffer, EventOf(f))) /\ FinishRecovery
        /\ EndsReplay(f) /\ ReplayExpected(f)
      BY <3>1, Zenon DEF HandleReplayEvent, StopRecovery
    <3>3. /\ Append(recovery.buffer, EventOf(f)) \in Seq(Events)
          /\ Continues(Append(recovery.buffer, EventOf(f)), lastSeq)
          /\ lastSeq + Len(Append(recovery.buffer, EventOf(f))) = f.seq
      BY <3>1, BufferGrows, Zenon
    <3>4. lastSeq' = f.seq
      BY <3>3, DeliverContinues, Zenon DEF StreamInv
    <3> QED
      BY <3>4, Zenon DEF EndsReplay, FinishRecovery
  <2>2. CASE HandleResumeStateSnapshot(f)
    <3>1. Deliver(recovery.buffer) /\ FinishRecovery /\ recovery.eventsComplete
      BY <2>2, Zenon DEF HandleResumeStateSnapshot, ResumeSnapshotExpected
    <3>2. recovery.buffer \in Seq(Events)
      BY Zenon DEF StreamInv, Recoveries
    <3>3. lastSeq' = lastSeq + Len(recovery.buffer)
      BY <3>1, <3>2, DeliverContinues, Zenon DEF StreamInv
    <3> QED
      BY <3>1, <3>3, Zenon DEF StreamInv, FinishRecovery
  <2>3. CASE HandleError(f)
    BY <2>3, Zenon DEF HandleError, AbandonSession
  <2>4. CASE \/ HandleIncomingFailure \/ HandleInvalidError(f)
             \/ HandleNewWelcome(f) \/ HandleResumedWelcome(f)
             \/ HandlePong(g, f) \/ HandleAck(f)
             \/ HandleStateSnapshot(f) \/ HandleStateUpdate(f)
    BY <2>4, Zenon DEF HandleIncomingFailure, StopRecovery, HandleInvalidError,
                HandleNewWelcome, HandleResumedWelcome, HandlePong, HandleAck,
                HandleStateSnapshot, HandleStateUpdate
  <2> QED
    BY <2>1, <2>2, <2>3, <2>4, Zenon DEF HandleIncoming
<1>2. ASSUME StreamInv, [Next]_clientVars
      PROVE  [P]_clientVars
  <2> SUFFICES ASSUME Next, state = "RESUMING", delivered' # delivered
               PROVE  P
    BY <1>2, Zenon
  <2>1. PICK g \in 1..generation : \E f \in Frames : HandleIncoming(g, f)
    BY Zenon DEF Next, BeginConnect, RetryPending, EnqueueSend, QueryState,
           TransportConnected, StartSession, Resume, BeginRecovery,
           Disconnect, SendPing, CheckHeartbeat, sessionVars
  <2> QED
    BY <1>1, <1>2, <2>1, FrameFields, Zenon
<1> QED
  BY <1>2, StreamInvariant, PTL DEF Spec, ReplayAllOrNothing

-----------------------------------------------------------------------------
(* The State cache.                                                        *)

\* What a cache holds, and its entries.
LEMMA CacheFields ==
    ASSUME NEW cache \in Caches
    PROVE  /\ DOMAIN cache \subseteq Identities
           /\ \A i \in DOMAIN cache : /\ cache[i] \in Values
                                      /\ cache[i].data \in Data
                                      /\ cache[i].version \in 1..MaxVersion
           /\ cache = [i \in DOMAIN cache |-> cache[i]]
<1>1. PICK held \in SUBSET Identities : cache \in [held -> Values]
  BY Zenon DEF Caches
<1>2. \A v \in Values : v.data \in Data /\ v.version \in 1..MaxVersion
  BY Zenon DEF Values
<1> QED
  BY <1>1, <1>2, Zenon

\* The sizes of a cache are numbers, and their sum is CacheBytes.
LEMMA SizeFields ==
    ASSUME NEW cache, Finite(cache)
    PROVE  /\ \A i \in DOMAIN cache : Size(cache)[i] \in Nat
           /\ CacheBytes(cache) = SumFunctionOnSet(Size(cache), DOMAIN cache)
           /\ CacheBytes(cache) \in Nat
<1>1. \A i \in DOMAIN cache : Size(cache)[i] \in Nat
  BY CacheFields, MergeAssumption, Zenon DEF Finite, Size
<1>2. CacheBytes(cache) = SumFunctionOnSet(Size(cache), DOMAIN cache)
  BY Zenon DEF CacheBytes, SumFunction, SumFunctionOnSet, FoldFunction, Size
<1>3. SumFunctionOnSet(Size(cache), DOMAIN cache) \in Nat
  BY <1>1, SumType, Zenon DEF Finite
<1> QED
  BY <1>1, <1>2, <1>3, Zenon

\* No entry of cache is lost or replaced but by a later version.
Raises(cache, next) ==
    \A i \in DOMAIN cache :
        /\ i \in DOMAIN next
        /\ next[i] = cache[i] \/ next[i].version > cache[i].version

Accumulators == [ok : BOOLEAN, cache : {c \in Caches : IsFiniteSet(DOMAIN c)},
                 bytes : Int]

\* One turn keeps the accounts and raises versions only.
LEMMA MergeOneKeeps ==
    ASSUME NEW acc \in Accumulators, NEW object \in StateObjects
    PROVE  /\ MergeOne(acc, object) \in Accumulators
           /\ Accounted(acc.cache, acc.bytes) =>
                 /\ Accounted(MergeOne(acc, object).cache,
                              MergeOne(acc, object).bytes)
                 /\ Raises(acc.cache, MergeOne(acc, object).cache)
\* Storing a value.
<1>1. ASSUME NEW cache \in Caches, NEW i \in Identities, NEW v \in Values
      PROVE  /\ Put(cache, i, v) \in Caches
             /\ DOMAIN Put(cache, i, v) = DOMAIN cache \cup {i}
             /\ Put(cache, i, v)[i] = v
             /\ \A j \in DOMAIN cache \ {i} : Put(cache, i, v)[j] = cache[j]
  <2>1. PICK held \in SUBSET Identities : cache \in [held -> Values]
    BY Zenon DEF Caches
  <2>2. PICK out : out = [j \in held \cup {i} |-> IF j = i THEN v ELSE cache[j]]
    BY Zenon
  <2>3. out \in [held \cup {i} -> Values] /\ held \cup {i} \in SUBSET Identities
    BY <2>1, <2>2, Zenon
  <2>4. Put(cache, i, v) = out
    BY <2>1, <2>2, Zenon DEF Put
  <2>5. out \in Caches
    BY <2>3, Zenon DEF Caches
  <2> QED
    BY <2>1, <2>2, <2>4, <2>5, Zenon
\* NextBytes keeps the byte count exact.
<1>2. ASSUME NEW cache, Finite(cache)
      PROVE  LET next == Put(cache, object.identity, object.value)
             IN  /\ Finite(next)
                 /\ NextBytes(cache, CacheBytes(cache), object) = CacheBytes(next)
  <2> USE <1>2
  <2> DEFINE i == object.identity
             v == object.value
  <2>1. i \in Identities /\ v \in Values /\ v.data \in Data
    BY Zenon DEF StateObjects, Values
  <2>2. PICK next : next = Put(cache, i, v)
    BY Zenon
  <2>3. /\ next \in Caches /\ DOMAIN next = DOMAIN cache \cup {i} /\ next[i] = v
        /\ \A j \in DOMAIN cache \ {i} : next[j] = cache[j]
    <3>1. cache \in Caches
      BY Zenon DEF Finite
    <3> HIDE DEF i, v
    <3>2. /\ Put(cache, i, v) \in Caches
          /\ DOMAIN Put(cache, i, v) = DOMAIN cache \cup {i}
          /\ Put(cache, i, v)[i] = v
          /\ \A j \in DOMAIN cache \ {i} : Put(cache, i, v)[j] = cache[j]
      BY <2>1, <3>1, <1>1, Zenon
    <3> QED
      BY <2>2, <3>2, Zenon
  <2>4. Finite(next)
    <3>1. IsFiniteSet(DOMAIN cache \cup {i})
      BY FS_AddElement, Zenon DEF Finite
    <3> QED
      BY <2>3, <3>1, Zenon DEF Finite
  <2> DEFINE rest == DOMAIN cache \ {i}
  <2>5. DOMAIN next \ {i} = rest /\ i \in DOMAIN next /\ IsFiniteSet(rest)
    <3>1. IsFiniteSet(rest)
      BY FS_RemoveElement, Zenon DEF Finite
    <3> QED
      BY <2>3, <3>1, Zenon
  <2>6. /\ \A j \in rest : Size(next)[j] = Size(cache)[j]
        /\ Size(next)[i] = DataBytes[v.data]
        /\ DataBytes[v.data] \in Nat
    BY <2>1, <2>3, MergeAssumption, Zenon DEF Size
  <2>7. CacheBytes(next) = DataBytes[v.data] + SumFunctionOnSet(Size(next), rest)
    <3>1. \A j \in DOMAIN next : Size(next)[j] \in Nat
      BY <2>4, SizeFields, Zenon
    <3>2. SumFunctionOnSet(Size(next), DOMAIN next) =
             Size(next)[i] + SumFunctionOnSet(Size(next), DOMAIN next \ {i})
      BY <2>4, <2>5, <3>1, SumRemove, Zenon DEF Finite
    <3> QED
      BY <2>4, <2>5, <2>6, <3>2, SizeFields, Zenon
  <2>8. PICK r \in Nat : r = SumFunctionOnSet(Size(cache), rest)
    <3>1. \A j \in rest : Size(cache)[j] \in Nat
      BY SizeFields, Zenon
    <3> QED
      BY <2>5, <3>1, SumType, Zenon
  <2>9. SumFunctionOnSet(Size(next), rest) = r
    <3>1. \A j \in rest : Size(cache)[j] \in Nat
      BY SizeFields, Zenon
    <3> QED
      BY <2>5, <2>6, <2>8, <3>1, SumCongruent, Zenon
  <2>10. CASE i \in DOMAIN cache
    <3>1. CacheBytes(cache) = Size(cache)[i] + r
      <4>1. \A j \in DOMAIN cache : Size(cache)[j] \in Nat
        BY SizeFields, Zenon
      <4>2. SumFunctionOnSet(Size(cache), DOMAIN cache) =
               Size(cache)[i] + SumFunctionOnSet(Size(cache), rest)
        BY <2>10, <4>1, SumRemove, Zenon DEF Finite
      <4> QED
        BY <2>8, <4>2, SizeFields, Zenon
    <3>2. Size(cache)[i] = DataBytes[cache[i].data] /\ Size(cache)[i] \in Nat
      BY <2>10, SizeFields, Zenon DEF Size
    <3>3. NextBytes(cache, CacheBytes(cache), object) =
             DataBytes[v.data] + (CacheBytes(cache) - DataBytes[cache[i].data])
      BY <2>10, Zenon DEF NextBytes
    <3>4. NextBytes(cache, CacheBytes(cache), object) = DataBytes[v.data] + r
      BY <2>6, <3>1, <3>2, <3>3
    <3> QED
      BY <2>2, <2>4, <2>7, <2>9, <3>4, Zenon
  <2>11. CASE i \notin DOMAIN cache
    <3>1. rest = DOMAIN cache
      BY <2>11, Zenon
    <3>2. CacheBytes(cache) = r
      BY <2>8, <3>1, SizeFields, Zenon
    <3>3. NextBytes(cache, CacheBytes(cache), object) = DataBytes[v.data] + r
      BY <2>11, <3>2, Zenon DEF NextBytes
    <3> QED
      BY <2>2, <2>4, <2>7, <2>9, <3>3, Zenon
  <2> QED
    BY <2>10, <2>11, Zenon
\* One turn of the loop is refused, changes nothing or stores the object.
<1>3. LET i    == object.identity
          next == [ok    |-> TRUE,
                   cache |-> Put(acc.cache, i, object.value),
                   bytes |-> NextBytes(acc.cache, acc.bytes, object)]
      IN  \/ MergeOne(acc, object) = acc
          \/ MergeOne(acc, object) = [acc EXCEPT !.ok = FALSE]
          \/ /\ MergeOne(acc, object) = next
             /\ i \in DOMAIN acc.cache =>
                   ApplyStateObject(acc.cache[i], object.value) = "applied"
             /\ Cardinality(DOMAIN next.cache) <= MaxStateObjects
             /\ next.bytes <= MaxStateBytes
  <2> DEFINE i      == object.identity
             held   == i \in DOMAIN acc.cache
             result == IF held THEN ApplyStateObject(acc.cache[i], object.value)
                               ELSE "applied"
             next   == [ok    |-> TRUE,
                        cache |-> Put(acc.cache, i, object.value),
                        bytes |-> NextBytes(acc.cache, acc.bytes, object)]
             fits   == /\ Cardinality(DOMAIN next.cache) <= MaxStateObjects
                       /\ next.bytes <= MaxStateBytes
  <2>1. MergeOne(acc, object) =
           CASE ~acc.ok \/ result = "duplicate" -> acc
             [] result = "applied" /\ fits      -> next
             [] OTHER                           -> [acc EXCEPT !.ok = FALSE]
    BY Zenon DEF MergeOne
  <2>2. result = "applied" => (held => ApplyStateObject(acc.cache[i], object.value)
                                       = "applied")
    BY Zenon
  <2> HIDE DEF result, next, fits, held
  <2>3. \/ MergeOne(acc, object) = acc
        \/ MergeOne(acc, object) = [acc EXCEPT !.ok = FALSE]
        \/ MergeOne(acc, object) = next /\ result = "applied" /\ fits
    BY <2>1, Zenon
  <2> QED
    BY <2>2, <2>3, Zenon DEF next, fits, held
\* Only a later version is applied over a cached one.
<1>4. ASSUME NEW current \in Values, NEW incoming \in Values,
             ApplyStateObject(current, incoming) = "applied"
      PROVE  incoming.version > current.version
  BY <1>4, Zenon DEF ApplyStateObject, Values
<1>5. PICK out : out = MergeOne(acc, object)
  BY Zenon
<1>6. /\ acc.cache \in Caches /\ IsFiniteSet(DOMAIN acc.cache) /\ acc.bytes \in Int
      /\ Finite(acc.cache)
  BY Zenon DEF Accumulators, Finite
<1>7. Raises(acc.cache, acc.cache)
  BY Zenon DEF Raises
<1>8. CASE out = acc
  BY <1>5, <1>7, <1>8, Zenon
<1>9. CASE out = [acc EXCEPT !.ok = FALSE]
  <2>1. out \in Accumulators /\ out.cache = acc.cache /\ out.bytes = acc.bytes
    BY <1>9, Zenon DEF Accumulators
  <2> QED
    BY <1>5, <1>7, <2>1, Zenon
<1>10. ASSUME NEW i, i = object.identity,
             out = [ok    |-> TRUE,
                    cache |-> Put(acc.cache, i, object.value),
                    bytes |-> NextBytes(acc.cache, acc.bytes, object)],
             i \in DOMAIN acc.cache =>
                 ApplyStateObject(acc.cache[i], object.value) = "applied",
             Cardinality(DOMAIN out.cache) <= MaxStateObjects,
             out.bytes <= MaxStateBytes
      PROVE  /\ out \in Accumulators
             /\ Accounted(acc.cache, acc.bytes) =>
                   Accounted(out.cache, out.bytes) /\ Raises(acc.cache, out.cache)
  <2>1. i \in Identities /\ object.value \in Values
        /\ DataBytes[object.value.data] \in Nat
    BY <1>10, MergeAssumption, Zenon DEF StateObjects, Values
  <2>2. PICK c : c = Put(acc.cache, i, object.value)
    BY Zenon
  <2>3. PICK b : b = NextBytes(acc.cache, acc.bytes, object)
    BY Zenon
  <2>4. out = [ok |-> TRUE, cache |-> c, bytes |-> b]
    BY <1>10, <2>2, <2>3, Zenon
  <2>5. /\ c \in Caches /\ DOMAIN c = DOMAIN acc.cache \cup {i}
        /\ c[i] = object.value
        /\ \A j \in DOMAIN acc.cache \ {i} : c[j] = acc.cache[j]
    <3>1. PICK a \in Caches : a = acc.cache
      BY <1>6, Zenon
    <3>2. PICK v \in Values : v = object.value
      BY <2>1, Zenon
    <3>3. /\ c \in Caches /\ DOMAIN c = DOMAIN a \cup {i} /\ c[i] = v
          /\ \A j \in DOMAIN a \ {i} : c[j] = a[j]
      <4>1. c = Put(a, i, v) /\ i \in Identities
        BY <2>1, <2>2, <3>1, <3>2, Zenon
      <4> QED
        BY <4>1, <1>1
    <3> QED
      BY <3>1, <3>2, <3>3, Zenon
  <2>6. Finite(c) /\ (acc.bytes = CacheBytes(acc.cache) => b = CacheBytes(c))
    BY <1>6, <1>10, <2>2, <2>3, <1>2, Zenon
  <2>7. b \in Int
    <3>1. i \in DOMAIN acc.cache => DataBytes[acc.cache[i].data] \in Nat
      BY <1>6, CacheFields, MergeAssumption, Zenon
    <3>2. b = DataBytes[object.value.data] +
                 IF i \in DOMAIN acc.cache
                 THEN acc.bytes - DataBytes[acc.cache[i].data] ELSE acc.bytes
      BY <1>10, <2>3, Zenon DEF NextBytes
    <3> QED
      BY <1>6, <2>1, <3>1, <3>2
  <2>8. out \in Accumulators /\ out.cache = c /\ out.bytes = b
    BY <2>4, <2>6, <2>7, Zenon DEF Accumulators, Finite
  <2>9. Raises(acc.cache, c)
    <3>1. i \in DOMAIN acc.cache => c[i].version > acc.cache[i].version
      BY <1>6, <1>10, <2>1, <2>5, CacheFields, <1>4, Zenon
    <3> QED
      BY <2>5, <3>1, Zenon DEF Raises
  <2> QED
    BY <1>10, <2>6, <2>8, <2>9, Zenon DEF Accounted
<1> QED
  BY <1>5, <1>8, <1>9, <1>10, <1>3, Zenon

\* applyStateObjectsLocked keeps the accounts and raises versions only.
LEMMA MergeKeeps ==
    ASSUME NEW cache, NEW bytes, Accounted(cache, bytes),
           NEW objects \in Seq(StateObjects)
    PROVE  LET merged == ApplyStateObjects(cache, bytes, objects)
           IN  /\ Accounted(merged.cache, merged.bytes)
               /\ Raises(cache, merged.cache)
\* Two merges in a row.
<1>1. ASSUME NEW a \in Caches, NEW b \in Caches, NEW c \in Caches,
             Raises(a, b), Raises(b, c)
      PROVE  Raises(a, c)
  <2> USE <1>1
  <2> SUFFICES ASSUME NEW i \in DOMAIN a
               PROVE  /\ i \in DOMAIN c
                      /\ c[i] = a[i] \/ c[i].version > a[i].version
    BY Zenon DEF Raises
  <2>1. i \in DOMAIN b /\ (b[i] = a[i] \/ b[i].version > a[i].version)
    BY Zenon DEF Raises
  <2>2. i \in DOMAIN c /\ (c[i] = b[i] \/ c[i].version > b[i].version)
    BY <2>1, Zenon DEF Raises
  <2>3. /\ a[i].version \in Int /\ b[i].version \in Int /\ c[i].version \in Int
    <3>1. \A d \in Caches : \A j \in DOMAIN d : d[j].version \in 1..MaxVersion
      BY CacheFields, Zenon
    <3> QED
      BY <2>1, <2>2, <3>1
  <2> QED
    BY <2>1, <2>2, <2>3
<1> DEFINE n == Len(objects)
           start == [ok |-> TRUE, cache |-> cache, bytes |-> bytes]
           P(g) == g = [i \in 0..n |->
                           IF i = 0 THEN start
                           ELSE MergeOne(g[i - 1], objects[i])]
           step == [p \in Accumulators \X (1..n) |->
                       MergeOne(p[1], objects[p[2]])]
<1>2. n \in Nat /\ \A i \in 1..n : objects[i] \in StateObjects
  OBVIOUS
<1>3. start \in Accumulators /\ start.cache = cache /\ start.bytes = bytes
  <2>1. bytes \in Int /\ cache \in Caches /\ IsFiniteSet(DOMAIN cache)
    BY SizeFields DEF Accounted, Finite
  <2> QED
    BY <2>1, Zenon DEF Accumulators
<1>7. PICK f : f = CHOOSE g : P(g)
  BY Zenon
<1> DEFINE R(m) == IF m.ok THEN m
                   ELSE [ok |-> FALSE, cache |-> cache, bytes |-> bytes]
           merged == f[n]
<1>9. ApplyStateObjects(cache, bytes, objects) = R(merged)
  <2>1. ApplyStateObjects(cache, bytes, objects) = R((CHOOSE g : P(g))[n])
    BY Zenon DEF ApplyStateObjects
  <2> HIDE DEF R, P
  <2> QED
    BY <1>7, <2>1, Zenon
<1> HIDE DEF start
<1>4. step \in [Accumulators \X (1..n) -> Accumulators]
  <2> SUFFICES ASSUME NEW p \in Accumulators \X (1..n)
               PROVE  MergeOne(p[1], objects[p[2]]) \in Accumulators
    BY Zenon
  <2>1. p[1] \in Accumulators /\ objects[p[2]] \in StateObjects
    BY <1>2, Zenon
  <2> QED
    BY <2>1, MergeOneKeeps, Zenon
<1>5. PICK h \in [0..n -> Accumulators] : Runs(h, start, step, n)
  <2> HIDE DEF n, step
  <2> QED
    BY <1>2, <1>3, <1>4, LoopExists, Zenon
<1>6. P(h)
  <2>1. h = [i \in 0..n |-> h[i]] /\ h[0] = start
    BY <1>5, Zenon DEF Runs
  <2>2. ASSUME NEW i \in 1..n
        PROVE  h[i] = MergeOne(h[i - 1], objects[i])
    <3>1. <<h[i - 1], i>> \in Accumulators \X (1..n)
      <4>1. i - 1 \in 0..n
        BY <1>2
      <4>2. h[i - 1] \in Accumulators
        BY <4>1, Zenon
      <4> QED
        BY <4>2, Zenon
    <3>2. h[i] = step[<<h[i - 1], i>>]
      BY <1>5, Zenon DEF Runs
    <3> QED
      BY <3>1, <3>2, Zenon
  <2>3. \A i \in 0..n : h[i] = IF i = 0 THEN start
                               ELSE MergeOne(h[i - 1], objects[i])
    <3> HIDE DEF n
    <3> QED
      BY <1>2, <2>1, <2>2
  <2> QED
    <3> HIDE DEF n
    <3> QED
      BY <2>1, <2>3, Zenon
<1>8. P(f)
  <2> HIDE DEF P
  <2> QED
    BY <1>6, <1>7, Zenon
<1>10. f[0] = start /\ \A i \in 1..n : f[i] = MergeOne(f[i - 1], objects[i])
  <2> HIDE DEF n
  <2> QED
    BY <1>2, <1>8
<1> DEFINE Q(i) == /\ f[i] \in Accumulators
                   /\ Accounted(f[i].cache, f[i].bytes)
                   /\ Raises(cache, f[i].cache)
           S == {i \in Nat : i <= n => Q(i)}
<1> HIDE DEF n
<1>11. 0 \in S
  BY <1>3, <1>10, Zenon DEF Raises
<1>12. ASSUME NEW i \in Nat, i \in S
       PROVE  i + 1 \in S
  <2> SUFFICES ASSUME i + 1 <= n
               PROVE  Q(i + 1)
    <3> HIDE DEF Q
    <3> QED
      OBVIOUS
  <2>1. Q(i)
    <3> HIDE DEF Q
    <3> QED
      BY <1>2, <1>12
  <2>2. PICK object \in StateObjects : object = objects[i + 1]
    BY <1>2
  <2>3. PICK old \in Accumulators : old = f[i]
    BY <2>1, Zenon
  <2>4. PICK new : new = MergeOne(old, object)
    BY Zenon
  <2>5. f[i + 1] = new
    BY <1>2, <1>10, <2>2, <2>3, <2>4
  <2>6. Accounted(old.cache, old.bytes) /\ Raises(cache, old.cache)
    BY <2>1, <2>3, Zenon
  <2>7. /\ new \in Accumulators /\ Accounted(new.cache, new.bytes)
        /\ Raises(old.cache, new.cache)
    BY <2>4, <2>6, MergeOneKeeps, Zenon
  <2>8. Raises(cache, new.cache)
    <3>1. cache \in Caches /\ old.cache \in Caches /\ new.cache \in Caches
      BY <2>6, <2>7, Zenon DEF Accounted, Finite
    <3> QED
      BY <2>6, <2>7, <3>1, <1>1, Zenon
  <2> QED
    BY <2>5, <2>7, <2>8, Zenon
<1>13. Nat \subseteq S
  <2> HIDE DEF S
  <2> QED
    BY <1>11, <1>12, SetInduction, Zenon
<1>14. Q(n)
  <2> HIDE DEF Q
  <2> QED
    BY <1>2, <1>13
<1>15. Raises(cache, cache)
  BY Zenon DEF Raises
<1> QED
  <2>1. PICK r : r = ApplyStateObjects(cache, bytes, objects)
    BY Zenon
  <2>2. CASE merged.ok
    <3>1. r = f[n]
      BY <1>9, <2>1, <2>2, Zenon
    <3> QED
      BY <1>14, <2>1, <3>1, Zenon
  <2>3. CASE ~merged.ok
    <3>1. r.cache = cache /\ r.bytes = bytes
      BY <1>9, <2>1, <2>3
    <3> QED
      BY <1>15, <2>1, <3>1, Zenon
  <2> QED
    BY <2>2, <2>3, Zenon

\* The Session is kept, and what belongs to it changes only while there is
\* one; the heartbeat and the state are as they were, or reset.
SameSession ==
    /\ sessionID' = sessionID
    /\ \/ sessionID # NoSession
       \/ UNCHANGED <<lastSeq, eventIDs, outbox, stateSync, stateObjects,
                      stateBytes>>

Quiet ==
    /\ SameSession
    /\ UNCHANGED <<state, generation, pendingPing, recovery>>

\* The connection's transient state goes; a state with a Session needs one.
Reset ==
    /\ SameSession
    /\ state' \in States \ {"SUSPECT", "HANDSHAKING"}
    /\ state' \in {"READY", "RESUMING"} => sessionID # NoSession
    /\ pendingPing' = NoPing
    /\ generation' \in Nat
    /\ sessionID = NoSession => recovery' = NoRecovery

-----------------------------------------------------------------------------
(* The Session and the heartbeat.                                          *)

\* Steps that leave Session and heartbeat alone keep SessionInv.
LEMMA QuietSession ==
    ASSUME SessionInv, Quiet
    PROVE  SessionInv'
<1>1. HeartbeatIsCurrent'
  BY Zenon DEF SessionInv, Quiet, HeartbeatIsCurrent
<1>2. CleanWithoutSession'
  BY DEF SessionInv, Quiet, SameSession, CleanWithoutSession
<1> QED
  BY <1>1, <1>2, Zenon DEF SessionInv, Quiet, SameSession

\* Steps that reset the connection's state keep SessionInv.
LEMMA ResetSession ==
    ASSUME SessionInv, Reset
    PROVE  SessionInv'
<1>1. HeartbeatIsCurrent'
  BY Zenon DEF Reset, HeartbeatIsCurrent
<1>2. CleanWithoutSession'
  BY DEF SessionInv, Reset, SameSession, CleanWithoutSession
<1> QED
  BY <1>1, <1>2, Zenon DEF SessionInv, Reset, SameSession

\* A Session in the states that use it.
LEMMA HasSession ==
    ASSUME SessionInv, state \in {"READY", "SUSPECT", "RESUMING"}
    PROVE  sessionID # NoSession
  BY Zenon DEF SessionInv, CleanWithoutSession

\* beginRecoveryLocked keeps SessionInv.
LEMMA BeginSession ==
    ASSUME SessionInv, sessionID # NoSession, NEW ns, NEW gap,
           BeginRecovery(ns, gap)
    PROVE  SessionInv'
<1>1. Reset
  BY Zenon DEF BeginRecovery, Reset, SameSession, sessionVars, States,
     SessionInv
<1> QED
  BY <1>1, ResetSession, Zenon

\* HandleIncoming keeps SessionInv.
LEMMA IncomingSession ==
    ASSUME SessionInv, StreamInv, NEW g, NEW f, FrameOK(f),
           HandleIncoming(g, f)
    PROVE  SessionInv'
\* stopReplayLocked keeps SessionInv.
<1>1. ASSUME StopRecovery
      PROVE  SessionInv'
  <2> USE <1>1
  <2>1. Reset
    BY Zenon DEF StopRecovery, ResetConnectionTransient, Reset, SameSession,
           sessionVars, States, SessionInv
  <2> QED
    BY <2>1, ResetSession, Zenon
\* The end of a Resume, with or without EVENTs and State delivered.
<1>2. ASSUME sessionID # NoSession, FinishRecovery, sessionID' = sessionID,
             generation' = generation
      PROVE  SessionInv'
  <2> USE <1>2
  <2>1. Reset
    BY Zenon DEF FinishRecovery, ResetConnectionTransient, Reset, SameSession,
           States, SessionInv
  <2> QED
    BY <2>1, ResetSession, Zenon
\* handleErrorLocked keeps SessionInv.
<1>3. ASSUME HandleError(f)
      PROVE  SessionInv'
  <2> USE <1>3
  <2>1. CASE AbandonsSession(f.code)
    <3> /\ AbandonSession /\ ResetConnectionTransient
        /\ state' = "DISCONNECTED" /\ generation' = generation
      BY <2>1, Zenon DEF HandleError
    <3>2. HeartbeatIsCurrent'
      BY Zenon DEF ResetConnectionTransient, HeartbeatIsCurrent
    <3>3. CleanWithoutSession'
      BY Zenon DEF AbandonSession, ResetConnectionTransient,
         CleanWithoutSession
    <3> QED
      BY <3>2, <3>3, Zenon DEF SessionInv, AbandonSession, States
  <2>2. CASE ~AbandonsSession(f.code)
    <3>1. UNCHANGED sessionVars /\ generation' = generation
      BY <2>2, Zenon DEF HandleError
    <3>2. CASE state' = "DISCONNECTED" /\ ResetConnectionTransient
      <4>1. Reset
        BY <3>1, <3>2, Zenon DEF ResetConnectionTransient, Reset, SameSession,
                          sessionVars, States, SessionInv
      <4> QED
        BY <4>1, ResetSession, Zenon
    <3>3. CASE UNCHANGED <<state, pendingPing, recovery>>
      <4>1. Quiet
        BY <3>1, <3>3, Zenon DEF Quiet, SameSession, sessionVars
      <4> QED
        BY <4>1, QuietSession, Zenon
    <3> QED
      BY <3>2, <3>3, Zenon DEF HandleError
  <2> QED
    BY <2>1, <2>2, Zenon
\* handleEventLocked keeps SessionInv.
<1>4. ASSUME HandleEvent(f)
      PROVE  SessionInv'
  <2> USE <1>4
  <2> sessionID # NoSession
    BY HasSession, Zenon DEF HandleEvent, DiscardEvent, HandleReplayEvent,
                      ReplayExpected, HandleLiveEvent
  <2>2. CASE DiscardEvent(f)
    <3>1. Quiet
      BY <2>2, Zenon DEF DiscardEvent, Quiet, SameSession, sessionVars,
         transientVars
    <3> QED
      BY <3>1, QuietSession, Zenon
  <2>3. CASE HandleReplayEvent(f)
    <3>1. CASE StopRecovery
      BY <3>1, <1>1, Zenon
    <3>2. CASE UNCHANGED <<state, generation, sessionVars, pendingPing,
                           stateQueries>>
      <4>1. HeartbeatIsCurrent'
        BY <3>2, Zenon DEF SessionInv, HeartbeatIsCurrent
      <4>2. CleanWithoutSession'
        BY <3>2, Zenon DEF CleanWithoutSession, sessionVars
      <4> QED
        BY <3>2, <4>1, <4>2, Zenon DEF SessionInv, sessionVars
    <3>3. CASE FinishRecovery /\ UNCHANGED <<generation, sessionID>>
      BY <3>3, <1>2, Zenon
    <3> QED
      BY <2>3, <3>1, <3>2, <3>3, Zenon DEF HandleReplayEvent
  <2>4. CASE HandleLiveEvent(f)
    <3>1. CASE BeginRecovery({}, TRUE)
      BY <3>1, BeginSession, Zenon
    <3>2. CASE UNCHANGED <<state, generation, sessionID, transientVars>>
      <4>1. Quiet
        BY <3>2, Zenon DEF Quiet, SameSession, transientVars
      <4> QED
        BY <4>1, QuietSession, Zenon
    <3> QED
      BY <2>4, <3>1, <3>2, Zenon DEF HandleLiveEvent
  <2> QED
    BY <2>2, <2>3, <2>4, Zenon DEF HandleEvent
<1> USE DEF sessionVars, transientVars
<1>5. CASE HandleIncomingFailure
  <2>1. CASE StopRecovery
    BY <2>1, <1>1, Zenon
  <2>2. CASE UNCHANGED <<state, generation, sessionVars, transientVars>>
    <3>1. Quiet
      BY <2>2, Zenon DEF Quiet, SameSession
    <3> QED
      BY <3>1, QuietSession, Zenon
  <2> QED
    BY <1>5, <2>1, <2>2, Zenon DEF HandleIncomingFailure
<1>6. CASE HandleInvalidError(f)
  <2>1. Reset
    BY <1>6, Zenon DEF HandleInvalidError, ResetConnectionTransient, Reset,
                SameSession, States, SessionInv
  <2> QED
    BY <2>1, ResetSession, Zenon
<1>7. CASE HandleNewWelcome(f)
  <2>1. /\ state = "HANDSHAKING" /\ state' = "READY"
        /\ sessionID' = f.session
        /\ UNCHANGED <<generation, pendingPing>>
    BY <1>7, Zenon DEF HandleNewWelcome
  <2>2. sessionID' \in Sessions /\ sessionID' # NoSession
    BY <1>7, ClientAssumption, Zenon DEF FrameOK, HandleNewWelcome
  <2>3. HeartbeatIsCurrent'
    BY <2>1, Zenon DEF SessionInv, HeartbeatIsCurrent
  <2>4. CleanWithoutSession'
    BY <2>2, Zenon DEF CleanWithoutSession
  <2> QED
    BY <2>1, <2>2, <2>3, <2>4, Zenon DEF SessionInv, States
<1>8. CASE f.type = "WELCOME" /\ HandleResumedWelcome(f)
  <2>1. sessionID # NoSession
    BY <1>8, HasSession, Zenon DEF HandleResumedWelcome
  <2>2. CASE StopRecovery
    BY <2>2, <1>1, Zenon
  <2>3. CASE FinishRecovery /\ UNCHANGED <<generation, sessionVars>>
    BY <2>1, <2>3, <1>2, Zenon
  <2>4. CASE UNCHANGED <<state, generation, sessionVars, pendingPing,
                         stateQueries>>
    <3>1. HeartbeatIsCurrent'
      BY <2>4, Zenon DEF SessionInv, HeartbeatIsCurrent
    <3>2. CleanWithoutSession'
      BY <2>1, <2>4, Zenon DEF CleanWithoutSession
    <3> QED
      BY <2>4, <3>1, <3>2, Zenon DEF SessionInv
  <2> QED
    BY <1>8, <2>2, <2>3, <2>4, Zenon DEF HandleResumedWelcome
<1>9. CASE HandlePong(g, f)
  <2>1. sessionID # NoSession
    BY <1>9, HasSession, Zenon DEF HandlePong
  <2>2. HeartbeatIsCurrent'
    BY <1>9, Zenon DEF HandlePong, SessionInv, HeartbeatIsCurrent
  <2>3. CleanWithoutSession'
    BY <1>9, <2>1, Zenon DEF HandlePong, CleanWithoutSession
  <2> QED
    BY <1>9, <2>2, <2>3, Zenon DEF HandlePong, SessionInv, States
<1>10. CASE HandleAck(f)
  <2>1. Quiet
    BY <1>10, HasSession, Zenon DEF HandleAck, Quiet, SameSession
  <2> QED
    BY <2>1, QuietSession, Zenon
<1>11. CASE HandleEvent(f)
  BY <1>11, <1>4, Zenon
<1>12. CASE HandleStateSnapshot(f)
  <2>1. Quiet
    BY <1>12, HasSession, Zenon DEF HandleStateSnapshot, SnapshotExpected,
       Quiet,
                            SameSession
  <2> QED
    BY <2>1, QuietSession, Zenon
<1>13. CASE HandleResumeStateSnapshot(f)
  <2>1. sessionID # NoSession
    BY <1>13, HasSession, Zenon DEF HandleResumeStateSnapshot,
       ResumeSnapshotExpected
  <2> QED
    BY <1>13, <2>1, <1>2, Zenon DEF HandleResumeStateSnapshot
<1>14. CASE HandleStateUpdate(f)
  <2>1. Quiet
    BY <1>14, HasSession, Zenon DEF HandleStateUpdate, UpdateExpected, Quiet,
                             SameSession
  <2> QED
    BY <2>1, QuietSession, Zenon
<1>15. CASE HandleError(f)
  BY <1>15, <1>3, Zenon
<1> QED
  BY <1>5, <1>6, <1>7, <1>8, <1>9, <1>10, <1>11, <1>12, <1>13, <1>14, <1>15,
     Zenon
     DEF HandleIncoming

\* Every step of the client keeps SessionInv.
LEMMA SessionStep ==
    ASSUME SessionInv, StreamInv, ClientStep
    PROVE  SessionInv'
<1> USE DEF sessionVars, transientVars
<1>1. CASE BeginConnect
  <2>1. Reset
    BY <1>1 DEF BeginConnect, ResetConnectionTransient, Reset, SameSession,
                States, SessionInv
  <2> QED
    BY <2>1, ResetSession, Zenon
<1>2. CASE RetryPending
  BY <1>2, QuietSession, Zenon DEF RetryPending, Quiet, SameSession
<1>3. ASSUME NEW m \in Msgs, EnqueueSend(m) PROVE SessionInv'
  BY <1>3, HasSession, QuietSession, Zenon DEF EnqueueSend, Quiet, SameSession
<1>4. ASSUME NEW q, NEW ids, QueryState(q, ids) PROVE SessionInv'
  BY <1>4, QuietSession, Zenon DEF QueryState, Quiet, SameSession
<1>5. ASSUME NEW g, TransportConnected(g) \/ StartSession(g)
      PROVE  SessionInv'
  <2> /\ UNCHANGED <<generation, sessionVars, transientVars>>
      /\ state \in {"CONNECTING", "CONNECTED"}
      /\ state' \in {"CONNECTED", "HANDSHAKING"}
      /\ state' = "HANDSHAKING" => sessionID = NoSession
    BY <1>5, Zenon DEF TransportConnected, StartSession
  <2>2. HeartbeatIsCurrent'
    BY Zenon DEF SessionInv, HeartbeatIsCurrent
  <2>3. CleanWithoutSession'
    BY Zenon DEF SessionInv, CleanWithoutSession
  <2> QED
    BY <2>2, <2>3, Zenon DEF SessionInv, States
<1>6. ASSUME NEW g, NEW ns \in SUBSET Namespaces, Resume(g, ns)
      PROVE  SessionInv'
  BY <1>6, BeginSession, Zenon DEF Resume
<1>7. ASSUME NEW g, Disconnect(g) PROVE SessionInv'
  <2>1. Reset
    BY <1>7, Zenon DEF Disconnect, ResetConnectionTransient, Reset,
       SameSession,
                States, SessionInv
  <2> QED
    BY <2>1, ResetSession, Zenon
<1>8. ASSUME NEW g, NEW p, SendPing(g, p) PROVE SessionInv'
  <2>1. HeartbeatIsCurrent'
    BY <1>8, Zenon DEF SendPing, SessionInv, HeartbeatIsCurrent
  <2>2. CleanWithoutSession'
    BY <1>8, Zenon DEF SendPing, SessionInv, CleanWithoutSession
  <2> QED
    BY <1>8, <2>1, <2>2, Zenon DEF SendPing, SessionInv
<1>9. ASSUME NEW g, CheckHeartbeat(g) PROVE SessionInv'
  <2>1. CASE state = "READY" /\ state' = "SUSPECT" /\ UNCHANGED transientVars
    <3>1. HeartbeatIsCurrent'
      BY <1>9, <2>1, Zenon DEF CheckHeartbeat, SessionInv, HeartbeatIsCurrent
    <3>2. CleanWithoutSession'
      BY <1>9, <2>1, HasSession, Zenon DEF CheckHeartbeat, CleanWithoutSession
    <3> QED
      BY <1>9, <2>1, <3>1, <3>2, Zenon DEF CheckHeartbeat, SessionInv, States
  <2>2. CASE state' = "DISCONNECTED" /\ ResetConnectionTransient
    <3>1. Reset
      BY <1>9, <2>2, Zenon DEF CheckHeartbeat, ResetConnectionTransient, Reset,
                        SameSession, States, SessionInv
    <3> QED
      BY <3>1, ResetSession, Zenon
  <2> QED
    BY <1>9, <2>1, <2>2, Zenon DEF CheckHeartbeat
<1>10. ASSUME NEW g, NEW f, FrameOK(f), HandleIncoming(g, f)
       PROVE  SessionInv'
  BY <1>10, IncomingSession, Zenon
<1>11. CASE UNCHANGED clientVars
  BY <1>11, QuietSession, Zenon DEF clientVars, Quiet, SameSession
<1> QED
  BY <1>1, <1>2, <1>3, <1>4, <1>5, <1>6, <1>7, <1>8, <1>9, <1>10, <1>11, Zenon
     DEF ClientStep

\* A new client has no Session and no heartbeat.
LEMMA SessionInit ==
    ASSUME Init
    PROVE  SessionInv
<1>1. HeartbeatIsCurrent
  BY Zenon DEF Init, HeartbeatIsCurrent
<1>2. CleanWithoutSession
  BY Zenon DEF Init, CleanWithoutSession
<1> QED
  BY <1>1, <1>2, Zenon DEF Init, SessionInv, States

\* The Session, the heartbeat and the connection state of a client agree, for
\* any frames a peer sends.
THEOREM SessionInvariant == Spec => []SessionInv
<1>1. Init => StreamInv /\ SessionInv
  BY StreamInit, SessionInit, Zenon
<1>2. StreamInv /\ SessionInv /\ [Next]_clientVars
         => (StreamInv /\ SessionInv)'
  BY StreamStep, SessionStep, NextIsStep, Zenon
<1> QED
  BY <1>1, <1>2, PTL DEF Spec

\* An outstanding PING is always the current connection's and a SUSPECT client
\* always has one (SendPing, CheckHeartbeat, handlePongLocked and every reset).
THEOREM HeartbeatIsSound == Spec => []HeartbeatIsCurrent
<1>1. SessionInv => HeartbeatIsCurrent
  BY Zenon DEF SessionInv
<1> QED
  BY <1>1, SessionInvariant, PTL

\* abandonSessionLocked leaves nothing of a Session, and nothing of a Session
\* appears while there is none.
THEOREM SessionsDoNotLeak == Spec => []CleanWithoutSession
<1>1. SessionInv => CleanWithoutSession
  BY Zenon DEF SessionInv
<1> QED
  BY <1>1, SessionInvariant, PTL

\* The accounts stay exact and, within a Session, versions only rise.
CacheStep ==
    /\ CacheInv'
    /\ sessionID' = sessionID => Raises(stateObjects, stateObjects')

-----------------------------------------------------------------------------
(* The accounts of the State cache.                                        *)

\* An empty cache.
LEMMA EmptyAccounted ==
    Accounted(EmptyCache, 0) /\ DOMAIN EmptyCache = {}
<1> DOMAIN EmptyCache = {}
  BY Zenon DEF EmptyCache
<1>2. EmptyCache \in Caches
  <2>1. EmptyCache \in [{} -> Values] /\ {} \in SUBSET Identities
    BY Zenon DEF EmptyCache
  <2> QED
    BY <2>1, Zenon DEF Caches
<1>3. Finite(EmptyCache)
  BY <1>2, FS_EmptySet, Zenon DEF Finite
<1>4. CacheBytes(EmptyCache) = 0
  BY <1>3, SizeFields, SumEmpty, Zenon
<1> QED
  BY <1>3, <1>4, FS_EmptySet, MergeAssumption DEF Accounted

\* Every step of the client keeps the accounts.
LEMMA CacheSteps ==
    ASSUME SessionInv, CacheInv, ClientStep
    PROVE  CacheStep
\* Steps that leave the cache alone.
<1>1. ASSUME UNCHANGED <<stateObjects, stateBytes>>
      PROVE  CacheStep
  BY <1>1, Zenon DEF CacheInv, CacheStep, Raises
\* Frames that carry State Objects.
<1>2. ASSUME NEW f, FrameOK(f), f.type \in {"STATE_SNAPSHOT", "STATE_UPDATE"},
             Merge(f)
      PROVE  CacheStep
  <2> USE <1>2
  <2>1. f.objects \in Seq(StateObjects)
    BY Zenon DEF FrameOK
  <2>2. PICK m : m = ApplyStateObjects(stateObjects, stateBytes, f.objects)
    BY Zenon
  <2>3. stateObjects' = m.cache /\ stateBytes' = m.bytes
    BY <2>2, Zenon DEF Merge, Merged
  <2>4. Accounted(m.cache, m.bytes) /\ Raises(stateObjects, m.cache)
    BY <2>1, <2>2, MergeKeeps, Zenon DEF CacheInv
  <2> QED
    BY <2>3, <2>4, Zenon DEF CacheInv, CacheStep
\* handleErrorLocked empties the cache with the Session or leaves it alone.
<1>3. ASSUME NEW f, HandleError(f)
      PROVE  CacheStep
  <2> USE <1>3
  <2>1. CASE AbandonsSession(f.code)
    <3>1. AbandonSession
      BY <2>1, Zenon DEF HandleError
    <3>2. stateObjects' = EmptyCache /\ stateBytes' = 0 /\ sessionID' = NoSession
      BY <3>1, Zenon DEF AbandonSession
    <3>3. sessionID' = sessionID => stateObjects = EmptyCache
      BY <3>2, Zenon DEF SessionInv, CleanWithoutSession
    <3> QED
      BY <3>2, <3>3, EmptyAccounted, Zenon DEF CacheInv, CacheStep, Raises
  <2>2. CASE ~AbandonsSession(f.code)
    BY <2>2, <1>1, Zenon DEF HandleError, sessionVars
  <2> QED
    BY <2>1, <2>2, Zenon
\* HandleIncoming keeps the accounts, whatever frame arrives.
<1>4. ASSUME NEW g, NEW f, FrameOK(f), HandleIncoming(g, f)
      PROVE  CacheStep
  <2> USE <1>4
  <2> USE DEF sessionVars, transientVars
  <2>1. CASE HandleIncomingFailure
    BY <2>1, <1>1, Zenon DEF HandleIncomingFailure, StopRecovery
  <2>2. CASE HandleInvalidError(f)
    BY <2>2, <1>1, Zenon DEF HandleInvalidError
  <2>3. CASE HandleNewWelcome(f)
    BY <2>3, <1>1, Zenon DEF HandleNewWelcome
  <2>4. CASE HandleResumedWelcome(f)
    BY <2>4, <1>1, Zenon DEF HandleResumedWelcome, StopRecovery
  <2>5. CASE HandlePong(g, f)
    BY <2>5, <1>1, Zenon DEF HandlePong
  <2>6. CASE HandleAck(f)
    BY <2>6, <1>1, Zenon DEF HandleAck
  <2>7. CASE HandleEvent(f)
    BY <2>7, <1>1, Zenon DEF HandleEvent, DiscardEvent, HandleReplayEvent,
                            StopRecovery, HandleLiveEvent, BeginRecovery
  <2>8. CASE HandleStateSnapshot(f)
    BY <2>8, <1>2, Zenon DEF HandleStateSnapshot
  <2>9. CASE HandleResumeStateSnapshot(f)
    BY <2>9, <1>2, Zenon DEF HandleResumeStateSnapshot
  <2>10. CASE HandleStateUpdate(f)
    BY <2>10, <1>2, Zenon DEF HandleStateUpdate
  <2>11. CASE HandleError(f)
    BY <2>11, <1>3, Zenon
  <2> QED
    BY <2>1, <2>2, <2>3, <2>4, <2>5, <2>6, <2>7, <2>8, <2>9, <2>10, <2>11,
       Zenon
       DEF HandleIncoming
<1> USE DEF sessionVars, transientVars
<1>5. ASSUME NEW g, NEW f, FrameOK(f), HandleIncoming(g, f) PROVE CacheStep
  BY <1>5, <1>4, Zenon
<1>6. CASE ~\E g, f : FrameOK(f) /\ HandleIncoming(g, f)
  <2>1. UNCHANGED <<stateObjects, stateBytes>>
    BY <1>6, Zenon DEF ClientStep, clientVars, BeginConnect, RetryPending,
                EnqueueSend, QueryState, TransportConnected, StartSession,
                Resume, BeginRecovery, Disconnect, SendPing, CheckHeartbeat
  <2> QED
    BY <2>1, <1>1, Zenon
<1> QED
  BY <1>5, <1>6, Zenon

-----------------------------------------------------------------------------
(* Types.                                                                  *)

\* Every step of the client keeps PendingInv.
LEMMA PendingStep ==
    ASSUME PendingInv, ClientStep
    PROVE  PendingInv'
\* Steps that add no request.
<1>1. ASSUME generation' = generation, stateSync' \in {stateSync, FALSE},
             outbox' \subseteq outbox, pendingPing' \in {pendingPing, NoPing},
             \/ stateQueries' = stateQueries
             \/ stateQueries' = Empty
             \/ \E q : stateQueries' = [p \in DOMAIN stateQueries \ {q} |->
                                           stateQueries[p]]
      PROVE  PendingInv'
  BY <1>1, Zenon DEF PendingInv, Empty
\* HandleIncoming adds no request.
<1>2. ASSUME NEW g, NEW f, HandleIncoming(g, f)
      PROVE  PendingInv'
  <2> USE <1>2
  <2> USE DEF sessionVars, transientVars, ResetConnectionTransient
  <2>1. CASE HandleIncomingFailure
    BY <2>1, <1>1, Zenon DEF HandleIncomingFailure, StopRecovery
  <2>2. CASE HandleInvalidError(f)
    BY <2>2, <1>1, Zenon DEF HandleInvalidError
  <2>3. CASE HandleNewWelcome(f)
    <3>1. stateSync' \in BOOLEAN
      BY <2>3 DEF HandleNewWelcome, StateSyncEnabled
    <3> QED
      BY <2>3, <3>1, Zenon DEF HandleNewWelcome, PendingInv
  <2>4. CASE HandleResumedWelcome(f)
    BY <2>4, <1>1, Zenon DEF HandleResumedWelcome, StopRecovery,
                               FinishRecovery
  <2>5. CASE HandlePong(g, f)
    BY <2>5, <1>1, Zenon DEF HandlePong
  <2>6. CASE HandleAck(f)
    BY <2>6, <1>1, Zenon DEF HandleAck
  <2>7. CASE HandleEvent(f)
    BY <2>7, <1>1, Zenon DEF HandleEvent, DiscardEvent, HandleReplayEvent,
              StopRecovery, FinishRecovery, HandleLiveEvent, BeginRecovery
  <2>8. CASE HandleStateSnapshot(f)
    BY <2>8, <1>1, Zenon DEF HandleStateSnapshot
  <2>9. CASE HandleResumeStateSnapshot(f)
    BY <2>9, <1>1, Zenon DEF HandleResumeStateSnapshot, FinishRecovery
  <2>10. CASE HandleStateUpdate(f)
    BY <2>10, <1>1, Zenon DEF HandleStateUpdate
  <2>11. CASE HandleError(f)
    BY <2>11, <1>1, Zenon DEF HandleError, AbandonSession
  <2> QED
    BY <2>1, <2>2, <2>3, <2>4, <2>5, <2>6, <2>7, <2>8, <2>9, <2>10, <2>11,
       Zenon
       DEF HandleIncoming
<1> USE DEF sessionVars, transientVars, ResetConnectionTransient
<1>3. CASE BeginConnect
  <2>1. generation' \in 0..MaxGeneration
    BY <1>3, ClientAssumption DEF BeginConnect, PendingInv
  <2> QED
    BY <1>3, <2>1, Zenon DEF BeginConnect, PendingInv, Empty
<1>4. CASE RetryPending
  BY <1>4, <1>1, Zenon DEF RetryPending
<1>5. ASSUME NEW m \in Msgs, EnqueueSend(m) PROVE PendingInv'
  BY <1>5, Zenon DEF EnqueueSend, PendingInv
<1>6. ASSUME NEW q \in Queries, NEW ids \in SUBSET Identities,
             QueryState(q, ids)
      PROVE  PendingInv'
  BY <1>6, Zenon DEF QueryState, PendingInv
<1>7. ASSUME NEW g, \/ TransportConnected(g) \/ StartSession(g)
                    \/ Disconnect(g) \/ CheckHeartbeat(g)
      PROVE  PendingInv'
  BY <1>7, <1>1, Zenon DEF TransportConnected, StartSession, Disconnect,
                             CheckHeartbeat
<1>8. ASSUME NEW g, NEW ns, Resume(g, ns) PROVE PendingInv'
  BY <1>8, <1>1, Zenon DEF Resume, BeginRecovery
<1>9. ASSUME NEW g, NEW p \in Pings, SendPing(g, p)
      PROVE  PendingInv'
  BY <1>9 DEF SendPing, PendingInv
<1>10. ASSUME NEW g, NEW f, HandleIncoming(g, f) PROVE PendingInv'
  BY <1>10, <1>2, Zenon
<1>11. CASE UNCHANGED clientVars
  BY <1>11, <1>1, Zenon DEF clientVars
<1> QED
  BY <1>3, <1>4, <1>5, <1>6, <1>7, <1>8, <1>9, <1>10, <1>11, Zenon DEF
     ClientStep

-----------------------------------------------------------------------------
(* The client as a whole.                                                  *)

\* A new client.
LEMMA ClientInit ==
    ASSUME Init
    PROVE  ClientInv
<1>1. PendingInv
  <2>1. 0 \in 0..MaxGeneration
    BY ClientAssumption
  <2>2. DOMAIN Empty = {}
    BY Zenon DEF Empty
  <2> QED
    BY <2>1, <2>2, Zenon DEF Init, PendingInv
<1>2. CacheInv
  BY EmptyAccounted, Zenon DEF Init, CacheInv
<1> QED
  BY <1>1, <1>2, StreamInit, SessionInit, Zenon DEF ClientInv

\* Every step of a client, whoever its peer is.
LEMMA ClientKeeps ==
    ASSUME ClientInv, ClientStep
    PROVE  ClientInv' /\ CacheStep
  BY StreamStep, SessionStep, CacheSteps, PendingStep, Zenon DEF ClientInv,
     CacheStep

\* The client's invariants hold together.
THEOREM ClientInvariant == Spec => []ClientInv
<1>1. ClientInv /\ [Next]_clientVars => ClientInv'
  BY ClientKeeps, NextIsStep, Zenon
<1> QED
  BY <1>1, ClientInit, PTL DEF Spec

\* applyStateObjectsLocked keeps an exact byte count of a cache within its
\* limits, for any sizes and limits and any sequence of frames of Frames, each
\* with at most two State Objects.
THEOREM StateIsAccounted == Spec => []StateAccounting
<1>1. ClientInv => StateAccounting
  BY Zenon DEF ClientInv, CacheInv, Accounted, StateAccounting
<1> QED
  BY <1>1, ClientInvariant, PTL

\* Within a Session no cached State Object is lost or goes back to an older
\* version, or changes without a newer one, for any sequence of frames of Frames.
THEOREM StateIsMonotone == Spec => StateNeverRegresses
<1> DEFINE P == sessionID' = sessionID =>
                   \A i \in DOMAIN stateObjects :
                      /\ i \in DOMAIN stateObjects'
                      /\ \/ stateObjects'[i] = stateObjects[i]
                         \/ stateObjects'[i].version > stateObjects[i].version
<1>1. ASSUME ClientInv, [Next]_clientVars
      PROVE  [P]_clientVars
  BY <1>1, NextIsStep, ClientKeeps, Zenon DEF CacheStep, Raises
<1> QED
  BY <1>1, ClientInvariant, PTL DEF Spec, StateNeverRegresses

\* The state of a client has its types, for any frames a peer sends: the EVENT
\* position stays within the sequence bound, retained identities belong to
\* sequences of the stream, and pending requests are the Application's.
LEMMA ClientTypes ==
    ASSUME ClientInv
    PROVE  TypeOK
<1>1. /\ DOMAIN eventIDs \subseteq 1..MaxSeq
      /\ \A n \in DOMAIN eventIDs : eventIDs[n] \in EventIDs
  <2>1. PICK held \in SUBSET Int : eventIDs \in [held -> EventIDs]
    BY Zenon DEF ClientInv, StreamInv, WindowOK, IdMaps
  <2>2. \A n \in DOMAIN eventIDs : n \in 1..lastSeq
    BY Zenon DEF ClientInv, StreamInv, WindowOK, IdentityWindow
  <2>3. 1..lastSeq \subseteq 1..MaxSeq
    BY ClientAssumption DEF ClientInv, StreamInv
  <2> QED
    BY <2>1, <2>2, <2>3, Zenon
<1>2. /\ DOMAIN stateObjects \subseteq Identities
      /\ \A i \in DOMAIN stateObjects : stateObjects[i] \in Values
      /\ stateBytes \in Nat
  BY CacheFields, SizeFields, Zenon DEF ClientInv, CacheInv, Accounted, Finite
<1> QED
  BY <1>1, <1>2, Zenon DEF ClientInv, StreamInv, Recoveries, SessionInv,
                           PendingInv, TypeOK

\* TypeOK, for any frames a peer sends.
THEOREM TypesHold == Spec => []TypeOK
  BY ClientTypes, ClientInvariant, PTL

=============================================================================
