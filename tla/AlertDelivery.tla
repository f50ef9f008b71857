---------------------------- MODULE AlertDelivery ----------------------------
(***************************************************************************)
(* What the project promises of every path an alert takes from the engine   *)
(* to a receiver - a sink of the pipeline, a WebSocket client - in the      *)
(* abstract.  Alerts are numbered in the order they are issued; a receiver  *)
(* may miss some, but what it gets was issued, in order, and comes once.    *)
(***************************************************************************)
EXTENDS Integers, Sequences

CONSTANT Receivers

VARIABLES issued,   (* how many alerts have been issued                      *)
          got       (* what each receiver got, in order                      *)

deliveryVars == <<issued, got>>

LastOf(s) == IF s = << >> THEN 0 ELSE s[Len(s)]

(* One trade may raise several alerts.                                      *)
Issue == issued' \in Nat /\ issued' >= issued /\ UNCHANGED got

Deliver(r) ==
  \E n \in (LastOf(got[r]) + 1)..issued :
    /\ got' = [got EXCEPT ![r] = Append(@, n)]
    /\ UNCHANGED issued

DeliveryInit == issued = 0 /\ got = [r \in Receivers |-> << >>]

DeliveryNext == Issue \/ \E r \in Receivers : Deliver(r)

DeliverySpec == DeliveryInit /\ [][DeliveryNext]_deliveryVars
=============================================================================
