------------------------------- MODULE SlotMap -------------------------------
(***************************************************************************)
(* What the slot store promises to its callers: a scope holds at most one  *)
(* value under a key, the one written last, with a version that counts its *)
(* writes; it stays until it is deleted or its lease is over, and a write  *)
(* starts with a lease that is still running, unless it was made over a    *)
(* slot whose lease was over and which nobody had read since.              *)
(***************************************************************************)
EXTENDS Naturals

CONSTANTS Scopes, Keys, Values, None

VARIABLES slots, now

vars == <<slots, now>>

Init == slots = [s \in Scopes |-> [k \in Keys |-> None]] /\ now = 0

Lapsed(s, k) == slots[s][k] # None /\ slots[s][k].until < now

Put(s, k, v) ==
    LET new == slots'[s][k] IN
    /\ slots' = [slots EXCEPT ![s][k] = new]
    /\ new # None /\ new.val = v
    /\ new.ver = IF slots[s][k] = None THEN 1 ELSE slots[s][k].ver + 1
    /\ new.until >= now \/ Lapsed(s, k)
    /\ UNCHANGED now

Drop(s, k) == slots' = [slots EXCEPT ![s][k] = None] /\ UNCHANGED now

\* A scope is cleaned of what is over, and of nothing else, before it is read.
Clean(s) ==
    /\ slots' = [slots EXCEPT ![s] = [k \in Keys |-> IF Lapsed(s, k) THEN None ELSE @[k]]]
    /\ UNCHANGED now

Tick == now' = now + 1 /\ UNCHANGED slots

Next ==
    \/ \E s \in Scopes, k \in Keys : Drop(s, k) \/ \E v \in Values : Put(s, k, v)
    \/ \E s \in Scopes : Clean(s)
    \/ Tick

Spec == Init /\ [][Next]_vars
=============================================================================
