------------------------------- MODULE Escrow -------------------------------
(***************************************************************************)
(* What the down payment contract promises, without payers, fees or        *)
(* shares: a pot of tokens of which a part is locked.  Unlocked tokens may *)
(* be taken back, locked tokens may only be paid out, and no more is ever  *)
(* locked than is held.                                                    *)
(***************************************************************************)
EXTENDS Naturals

CONSTANT Cap            \* bound on one deposit

VARIABLES held,         \* tokens the pot owes to somebody
          locked,       \* the part of held reserved for a payment
          paid          \* tokens paid out of the locked part so far

escrowVars == <<held, locked, paid>>

EscrowInit == held = 0 /\ locked = 0 /\ paid = 0

PotDeposit(amount) ==
  /\ amount \in 1 .. Cap
  /\ held' = held + amount
  /\ UNCHANGED <<locked, paid>>

PotWithdraw(amount) ==
  /\ amount \in 1 .. held - locked
  /\ held' = held - amount
  /\ UNCHANGED <<locked, paid>>

PotLock(amount) ==
  /\ amount \in 1 .. held - locked
  /\ locked' = locked + amount
  /\ UNCHANGED <<held, paid>>

PotPayOut(amount) ==
  /\ amount \in 1 .. locked
  /\ held' = held - amount
  /\ locked' = locked - amount
  /\ paid' = paid + amount

EscrowNext ==
  \/ \E amount \in 1 .. Cap : PotDeposit(amount)
  \/ \E amount \in 1 .. held : PotWithdraw(amount) \/ PotLock(amount) \/ PotPayOut(amount)

EscrowSpec == EscrowInit /\ [][EscrowNext]_escrowVars
=============================================================================
