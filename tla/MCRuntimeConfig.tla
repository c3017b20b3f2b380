--------------------------- MODULE MCRuntimeConfig ---------------------------
(***************************************************************************)
(* RuntimeConfig with three requests and four updates: all fields, address  *)
(* and key without a model, a model alone, and nothing but blanks.         *)
(***************************************************************************)
EXTENDS RuntimeConfig

CONSTANTS r1, r2, r3

MCRequests == {r1, r2, r3}
MCSettings == {"x", "y"}

Bring(base_url, api_key, model) ==
  [base_url |-> base_url, api_key |-> api_key, model |-> model]

MCStartUp == Bring("x", "y", "x")

MCUpdates == {Bring("x", "x", "x"), Bring("y", "y", Absent),
              Bring(Blank, Absent, "y"), Bring(Absent, Blank, Blank)}
=============================================================================
