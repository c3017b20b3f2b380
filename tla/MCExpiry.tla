------------------------------ MODULE MCExpiry ------------------------------
(***************************************************************************)
(* Expiry with two ids, two handlers and a TTL of two seconds.             *)
(***************************************************************************)
EXTENDS Expiry

CONSTANTS s1, s2, h1, h2

MCIds == {s1, s2}
MCHandlers == {h1, h2}
OneHandler == {h1}
=============================================================================
