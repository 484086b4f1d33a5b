---------------------------- MODULE MCNonceAuth ----------------------------
(***************************************************************************)
(* Two deliveries of one request, one of a later request of that address,  *)
(* one of another address and one with a foreign signature.                *)
(***************************************************************************)
EXTENDS NonceAuth

CONSTANTS first, again, later, other, forged, alice, bob

MCAddressOf == [d \in Delivery |-> IF d = other THEN bob ELSE alice]
MCNonceOf == [d \in Delivery |-> IF d = later THEN 2 ELSE 1]
=============================================================================
