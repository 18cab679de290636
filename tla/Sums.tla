-------------------------------- MODULE Sums --------------------------------
(***************************************************************************)
(* Sums of money over a set of purchases, receipts, calls or ledger rows.  *)
(***************************************************************************)
EXTENDS FiniteSetsExt

(* What the elements of S amount to, each by the function f.               *)
SumOver(f, S) == MapThenSumSet(LAMBDA x : f[x], S)
=============================================================================
