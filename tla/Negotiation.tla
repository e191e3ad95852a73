---------------------------- MODULE Negotiation ----------------------------
(***************************************************************************)
(* Capability negotiation (capability.go): the client's offers, the        *)
(* server's CapabilityRegistry, what Negotiate accepts, and the check the  *)
(* client makes of it.  Offers and accepted capabilities are lists, a      *)
(* registry is a function from names to version lists.  Of a name only     *)
(* identity and order matter, so names are numbers; version 0 stands for   *)
(* "no common version".                                                    *)
(***************************************************************************)
EXTENDS Integers, Sequences, FiniteSets, FiniteSetsExt, Functions, TLC

CONSTANTS
    MaxCapabilities, MaxCapabilityVersions   \* Limits

ASSUME NegotiationAssumption ==
    MaxCapabilities \in Nat /\ MaxCapabilityVersions \in Nat

Ascending(versions) == SortSeq(versions, <)

NamesOf(list) == {list[n].name : n \in DOMAIN list}

\* validateAndSortCapabilityVersions: a bounded, non-empty list of distinct
\* positive versions.
ValidVersions(versions) ==
    /\ Len(versions) \in 1..MaxCapabilityVersions
    /\ \A n \in DOMAIN versions : versions[n] > 0
    /\ IsInjective(versions)

\* validateAndCopyCapabilityOffers.
ValidOffers(offers) ==
    /\ Len(offers) <= MaxCapabilities
    /\ Cardinality(NamesOf(offers)) = Len(offers)
    /\ \A n \in DOMAIN offers : ValidVersions(offers[n].versions)

\* Mutant: the larger of the two versions is kept and the smaller skipped.
MutHighestCommon(client, server) ==
    LET from[i \in 0..Len(client), j \in 0..Len(server)] ==
            CASE i = 0 \/ j = 0         -> 0
              [] client[i] = server[j]  -> client[i]
              [] client[i] < server[j]  -> from[i - 1, j]
              [] OTHER                  -> from[i, j - 1]
    IN  from[Len(client), Len(server)]

\* highestCommonCapabilityVersion: two indices that walk down from the ends.
HighestCommon(client, server) ==
    LET from[i \in 0..Len(client), j \in 0..Len(server)] ==
            CASE i = 0 \/ j = 0         -> 0
              [] client[i] = server[j]  -> client[i]
              [] client[i] > server[j]  -> from[i - 1, j]
              [] OTHER                  -> from[i, j - 1]
    IN  from[Len(client), Len(server)]

\* CapabilityRegistry.Negotiate, with the error code of a refusal.
Negotiate(registry, offers) ==
    LET known(name)  == IF name \in DOMAIN registry
                        THEN Ascending(registry[name]) ELSE <<>>
        chosen       == [n \in DOMAIN offers |->
                            [name    |-> offers[n].name,
                             version |-> HighestCommon(
                                             Ascending(offers[n].versions),
                                             known(offers[n].name))]]
        refused      == \E n \in DOMAIN offers :
                            offers[n].required /\ chosen[n].version = 0
        common(c)    == c.version # 0
        byName(c, d) == c.name < d.name
    IN  CASE ~ValidOffers(offers) ->
                 [error |-> "INVALID_CAPABILITY", accepted |-> <<>>]
          [] ValidOffers(offers) /\ refused ->
                 [error |-> "UNSUPPORTED_FEATURE", accepted |-> <<>>]
          [] OTHER ->
                 [error    |-> "none",
                  accepted |-> SortSeq(SelectSeq(chosen, common), byName)]

\* ValidateNegotiatedCapabilities: positive versions in strict name order.
CanonicalCapabilities(accepted) ==
    /\ Len(accepted) <= MaxCapabilities
    /\ \A n \in DOMAIN accepted : accepted[n].version > 0
    /\ \A n \in 2..Len(accepted) : accepted[n - 1].name < accepted[n].name

\* containsCapabilityVersion: the first version not below the target.
ContainsVersion(versions, target) ==
    \E n \in DOMAIN versions :
        /\ versions[n] = target
        /\ \A k \in 1..n-1 : versions[k] < target

\* validateNegotiatedAgainstOffers, made by the client on a NEW WELCOME.
AcceptedAgainstOffers(offers, accepted) ==
    /\ ValidOffers(offers)
    /\ CanonicalCapabilities(accepted)
    /\ \A c \in Range(accepted) :
          \E o \in Range(offers) :
             o.name = c.name
             /\ ContainsVersion(Ascending(o.versions), c.version)
    /\ \A o \in Range(offers) : o.required => o.name \in NamesOf(accepted)

-----------------------------------------------------------------------------
(* State synchronisation is the one capability the code implements.        *)

StateSyncName == 1

\* stateSyncEnabled: exactly version 1 was negotiated.
StateSyncEnabled(accepted) ==
    [name |-> StateSyncName, version |-> 1] \in Range(accepted)

\* validateImplementedCapabilityOffers and -Registry, made when client and
\* server are constructed.
ImplementedOffers(offers) ==
    \A o \in Range(offers) : o.name = StateSyncName => o.versions = <<1>>

ImplementedRegistry(registry) ==
    StateSyncName \in DOMAIN registry => registry[StateSyncName] = <<1>>

-----------------------------------------------------------------------------
(* Reference.                                                              *)

\* Versions of offer o that the registry has too.
Common(registry, o) ==
    IF o.name \in DOMAIN registry
    THEN Range(o.versions) \cap Range(registry[o.name]) ELSE {}

\* Negotiate refuses exactly malformed offers and unsupported required ones.
\* Otherwise it accepts every offer with a common version, at the highest,
\* whatever the order of the lists; and the client accepts that result.
AgreesOn(registry, offers) ==
    LET result == Negotiate(registry, offers)
        usable == {o \in Range(offers) : Common(registry, o) # {}}
    IN  /\ result.error = "none" <=>
              /\ ValidOffers(offers)
              /\ \A o \in Range(offers) : o.required => o \in usable
        /\ result.error = "none" =>
              /\ Range(result.accepted) =
                    {[name |-> o.name, version |-> Max(Common(registry, o))] :
                        o \in usable}
              /\ AcceptedAgainstOffers(offers, result.accepted)

=============================================================================
