---------------------------- MODULE MCAppSession ----------------------------
(* Two screens of one ECU and one of another.                               *)
EXTENDS AppSession, TLC

CONSTANTS eA, eB, sA1, sA2, sB

MCLayout == [s \in Screens |-> IF s = sB THEN eB ELSE eA]

(* Handlers are told apart by what they do, not by their names.             *)
UserSymmetry == Permutations(Users)
=============================================================================
