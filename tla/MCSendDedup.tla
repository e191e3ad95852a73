---------------------------- MODULE MCSendDedup ----------------------------
(* SendDedup for TLC: the calls are interchangeable.                        *)
EXTENDS SendDedup, TLC

CallSymmetry == Permutations(Calls)
=============================================================================
