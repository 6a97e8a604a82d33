----------------------------- MODULE AdapterMutex -----------------------------
(* What withAdapterLock promises (packages/session/src/guard.ts): whoever   *)
(* drives a procedure into the vehicle has it alone, from the first byte to *)
(* the last, and is never replaced half-way.  A client that finds it taken  *)
(* is turned away, so there is no queue.                                    *)
CONSTANT Clients

VARIABLE inside

Init == inside = {}

Enter(c) == inside = {} /\ inside' = {c}
Leave(c) == inside = {c} /\ inside' = {}

Next == \E c \in Clients : Enter(c) \/ Leave(c)

Spec == Init /\ [][Next]_inside
=============================================================================
