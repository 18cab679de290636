--------------------------- MODULE MCRebeccaClient ---------------------------
(* A small instance of RebeccaClient: two requests with all three attempts. *)
EXTENDS RebeccaClient

CONSTANTS r1, r2

MCRequests == {r1, r2}
=============================================================================
