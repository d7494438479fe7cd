------------------------------- MODULE MCAlem -------------------------------
(***************************************************************************)
(* Alem for model checking.  Requests, users and seats are interchangeable *)
(* where no seat is special; the ids that a CHOOSE picks are not.          *)
(***************************************************************************)
EXTENDS Claims, TLC

Symmetry == Permutations(Users) \cup Permutations(Requests) \cup Permutations(Seats)
=============================================================================
