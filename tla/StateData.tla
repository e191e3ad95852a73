----------------------------- MODULE StateData -----------------------------
(***************************************************************************)
(* Semantic equality of State documents (state.go).  A number is compared  *)
(* by its normal form, because documents that differ only in how a number  *)
(* is written must not count as a version conflict.                        *)
(*                                                                         *)
(* A number literal keeps what the normalisation looks at: its sign, the   *)
(* digits before and after the point, and its exponent.  Other scalars are *)
(* compared for identity and carry one token; arrays and objects hold      *)
(* scalars.                                                                *)
(***************************************************************************)
EXTENDS Integers, Sequences, Functions

Number(negative, whole, fraction, exponent) ==
    [kind |-> "number", negative |-> negative, whole |-> whole,
     fraction |-> fraction, exponent |-> exponent]

Scalar(token) == [kind |-> "scalar", token |-> token]

Array(items) == [kind |-> "array", items |-> items]

Object(fields) == [kind |-> "object", fields |-> fields]

\* Mutant: trailing zeros are removed without raising the exponent.
MutNormalize(n) ==
    LET digits == n.whole \o n.fraction
        used   == {k \in DOMAIN digits : digits[k] # 0}
        first  == CHOOSE k \in used : \A l \in used : k <= l
        last   == CHOOSE k \in used : \A l \in used : k >= l
    IN  IF used = {}
        THEN [negative |-> FALSE, coefficient |-> <<0>>, exponent |-> 0]
        ELSE [negative    |-> n.negative,
              coefficient |-> SubSeq(digits, first, last),
              exponent    |-> n.exponent - Len(n.fraction)]

\* normalizeStateJSONNumber: the digits without leading and trailing zeros,
\* and the exponent of the last one kept; every zero is the same.
Normalize(n) ==
    LET digits == n.whole \o n.fraction
        used   == {k \in DOMAIN digits : digits[k] # 0}
        first  == CHOOSE k \in used : \A l \in used : k <= l
        last   == CHOOSE k \in used : \A l \in used : k >= l
    IN  IF used = {}
        THEN [negative |-> FALSE, coefficient |-> <<0>>, exponent |-> 0]
        ELSE [negative    |-> n.negative,
              coefficient |-> SubSeq(digits, first, last),
              exponent    |-> n.exponent - Len(n.fraction)
                              + Len(digits) - last]

\* equalStateJSONValue on scalars and on documents.
EqualScalar(left, right) ==
    /\ left.kind = right.kind
    /\ \/ left.kind = "number" /\ Normalize(left) = Normalize(right)
       \/ left.kind = "scalar" /\ left = right

EqualStateData(left, right) ==
    \/ EqualScalar(left, right)
    \/ /\ left.kind = "array" /\ right.kind = "array"
       /\ Len(left.items) = Len(right.items)
       /\ \A n \in DOMAIN left.items :
             EqualScalar(left.items[n], right.items[n])
    \/ /\ left.kind = "object" /\ right.kind = "object"
       /\ DOMAIN left.fields = DOMAIN right.fields
       /\ \A key \in DOMAIN left.fields :
             EqualScalar(left.fields[key], right.fields[key])

-----------------------------------------------------------------------------
(* The reference: the number a literal denotes, scaled to an integer.      *)

\* The integer 10^scale times the literal, for exponents of at least
\* -scale once the point is removed.
Scaled(n, scale) ==
    LET digits == n.whole \o n.fraction
        integer[k \in 0..Len(digits)] ==
            IF k = 0 THEN 0 ELSE 10 * integer[k - 1] + digits[k]
        value  == integer[Len(digits)]
                  * 10 ^ (scale + n.exponent - Len(n.fraction))
    IN  IF n.negative THEN -value ELSE value

\* Two literals have one normal form exactly when they denote one number.
SameFormSameNumber(literals, scale) ==
    \A a, b \in literals :
        EqualStateData(a, b) <=> Scaled(a, scale) = Scaled(b, scale)

=============================================================================
