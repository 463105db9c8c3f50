------------------------------- MODULE MCAccess -------------------------------
(* Values for TLC.                                                          *)
EXTENDS Access, TLC

\* Addresses, rooms and codes are names: nothing orders them.
Alike == Permutations(Addresses) \cup Permutations(Rooms) \cup Permutations(Codes)
=============================================================================
