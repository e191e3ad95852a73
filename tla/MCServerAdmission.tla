------------------------- MODULE MCServerAdmission -------------------------
(* Concurrent calls of Handle and Session IDs are interchangeable.         *)
EXTENDS ServerAdmission, TLC

AdmissionSymmetry == Permutations(Handlers) \cup Permutations(Sessions)

=============================================================================
