-------------------------- MODULE MCClientProtocol --------------------------
(* Constant values for the model-checking runs of ClientProtocol, and the  *)
(* inputs on which the algorithms it uses are compared with a reference.   *)
EXTENDS ClientProtocol

CONSTANTS e1, e2, chat, presence, msg1, msg2

MCIdentities == {<<chat, msg1>>, <<chat, msg2>>, <<presence, msg1>>}

NoIdentities == {}

MCEventBytes == (e1 :> 1) @@ (e2 :> 2)

\* 1, 1.0 and 2: the first two are one number.
One == Number(FALSE, <<1>>, <<>>, 0)

OnePointZero == Number(FALSE, <<1>>, <<0>>, 0)

Two == Number(FALSE, <<2>>, <<>>, 0)

MCData == {One, OnePointZero, Two}

MCDataBytes == (One :> 1) @@ (OnePointZero :> 3) @@ (Two :> 1)

\* state-sync, and a capability the code only negotiates.
MCOffers == <<[name |-> 2, versions |-> <<2, 1>>, required |-> FALSE],
              [name |-> StateSyncName, versions |-> <<1>>,
               required |-> FALSE]>>

-----------------------------------------------------------------------------

Literals ==
    {Number(negative, whole, fraction, exponent) :
        negative \in BOOLEAN,
        whole \in {<<0>>, <<1>>, <<1, 0>>, <<1, 2>>},
        fraction \in {<<>>, <<0>>, <<1>>, <<0, 1>>, <<1, 0>>},
        exponent \in -1..1}

VersionLists == {<<>>, <<1>>, <<3>>, <<2, 1>>, <<1, 3>>, <<2, 2>>, <<0>>}

OfferLists ==
    LET offer == [name : 1..2, versions : VersionLists, required : BOOLEAN]
    IN  {<<>>} \cup [1..1 -> offer] \cup [1..2 -> offer]

Registries ==
    UNION {[names -> {v \in VersionLists : ValidVersions(v)}] :
              names \in SUBSET (1..2)}

\* A client as NewClientProtocol makes it: the algorithms below depend on its
\* configuration only, so they are compared with their reference once.
Constructed == generation = 0

\* State documents that differ only in how a number is written are equal, and
\* no others are: normalizeStateJSONNumber loses neither sign, digits nor
\* magnitude, so an equal version is a conflict exactly when the data differs.
NumbersCompareByValue == Constructed => SameFormSameNumber(Literals, 3)

\* Whatever the client offers and the server registers, Negotiate selects the
\* highest common version of every offer, refuses only what it must, and the
\* client's validateNegotiatedAgainstOffers accepts what Negotiate returned.
NegotiationAgrees ==
    Constructed =>
        \A registry \in Registries, offers \in OfferLists :
            AgreesOn(registry, offers)

=============================================================================
