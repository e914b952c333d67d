------------------------------- MODULE Tally -------------------------------
(***************************************************************************)
(* The total of a ledger, a function from a finite set of holders to       *)
(* natural amounts.  Total(f) counts the (holder, unit) pairs of f: it is  *)
(* the sum of f, stated with Cardinality so that the finite-set theorems   *)
(* apply to it and no recursion is needed.                                 *)
(***************************************************************************)
EXTENDS Naturals, FiniteSets

Units(f) == UNION { {h} \X (1 .. f[h]) : h \in DOMAIN f }

Total(f) == Cardinality(Units(f))

\* The ledger f after holder h received amount.
Credit(f, h, amount) == [f EXCEPT ![h] = @ + amount]

\* The ledger f after holder h gave amount away.
Debit(f, h, amount) == [f EXCEPT ![h] = @ - amount]
=============================================================================
