----------------------------- MODULE MCElmDriver -----------------------------
(* Two CAN ECUs of one tx id and different rx ids, as the addresses 04     *)
(* and 402 have them, a third on ids of its own, one slow-init and one      *)
(* fast-init KWP2000 ECU, of which the latter shares its address with ISO8. *)
EXTENDS ElmDriver, TLC

CONSTANTS e1, e2, e3, k1, k2, i1, a1, a2, r1, r2, r3, b1, b2

MCBus     == [e \in Ecus |-> IF e \in {e1, e2, e3} THEN "can"
                             ELSE IF e = i1 THEN "iso8" ELSE "kwp"]
MCAddress == [e \in Ecus |-> IF e \in {e1, e2} THEN a1
                             ELSE IF e = e3 THEN a2
                             ELSE IF e = k1 THEN b1 ELSE b2]
MCReceive == [e \in Ecus |-> IF e = e1 THEN r1 ELSE IF e = e2 THEN r2 ELSE r3]

(* The flows run the same code and no property tells them apart.            *)
FlowSymmetry == Permutations(Flows)
=============================================================================
