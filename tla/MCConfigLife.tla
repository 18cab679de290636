---------------------------- MODULE MCConfigLife ----------------------------
EXTENDS ConfigLife, TLC

CONSTANTS u1, u2, p1, p2, p3

(* The seller u1 runs everything but the claim of the link by u2.          *)
Job(kind) ==
  [kind |-> kind, by |-> IF kind = "claim" THEN u2 ELSE u1,
   to |-> IF kind = "transfer" THEN u2 ELSE u1]
Mix(a, b, c) == (p1 :> Job(a)) @@ (p2 :> Job(b)) @@ (p3 :> Job(c))

MCMixes == {
  Mix("refund", "sweeper", "bonus"),
  Mix("refund", "sweeper", "refund"),
  Mix("refund", "sweeper", "claim"),
  Mix("refund", "sweeper", "renew"),
  Mix("refund", "sweeper", "delete"),
  Mix("refund", "sweeper", "transfer"),
  Mix("refund", "refund", "bonus"),
  Mix("transfer", "consent", "auto"),
  Mix("transfer", "consent", "transfer"),
  Mix("cleanup", "renew", "sync"),
  Mix("claim", "delete", "sync"),
  Mix("toggle", "refresh", "sync"),
  Mix("auto", "renew", "delete")}

MCRenewal == {Mix("refund", "sweeper", "renew")}
=============================================================================
