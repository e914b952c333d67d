----------------------------- MODULE DownPayment -----------------------------
(***************************************************************************)
(* blockchain/contracts/DownPayment.sol: the escrow of one shipment.       *)
(*                                                                         *)
(* Every external call is one transaction, hence one atomic action; a call *)
(* whose require fails, or whose checked arithmetic underflows, reverts    *)
(* and changes nothing, so it is an action that is not enabled.  custody   *)
(* and balanceOf are the ERC-20 token as the contract uses it: custody is  *)
(* what the token says the contract holds.                                 *)
(***************************************************************************)
EXTENDS Integers, Sequences, FiniteSets, Tally

CONSTANTS
  Accounts,             \* addresses other than the zero address and the contract
  Deployer,             \* the admin passed to the constructor
  Payee,                \* the supplier of the shipment
  InitialFeeRecipient,
  InitialBaseFee,
  InitialPercentageFee,
  InitialBalance,       \* tokens each account starts with
  Amounts,              \* amounts passed to the operations
  BaseFees,             \* arguments of updateBaseFee
  PercentageFees,       \* arguments of updatePercentageFee
  Operators,            \* accounts that may be made admin
  MaxDeposited          \* bound on totalDepositedAmount, standing for the supply

ASSUME AccountsAssumption ==
  /\ IsFiniteSet(Accounts)
  /\ Deployer \in Accounts /\ Payee \in Accounts /\ InitialFeeRecipient \in Accounts
  /\ Operators \subseteq Accounts

ASSUME AmountsAssumption ==
  /\ InitialBalance \in [Accounts -> Nat]
  /\ Amounts \subseteq Nat /\ BaseFees \subseteq Nat /\ PercentageFees \subseteq Nat
  /\ InitialBaseFee \in Nat /\ InitialPercentageFee \in 0 .. 100
  /\ MaxDeposited \in Nat

VARIABLES
  admins,               \* holders of ADMIN_ROLE
  payers,               \* _payers, an array
  depositedAmount,      \* _depositedAmount
  totalDepositedAmount,
  lockedAmount,
  releasedAmount,
  refundedAmount,       \* _refundedAmount
  totalRefundedAmount,
  feeRecipient, baseFee, percentageFee,
  custody,              \* token balance of the contract
  balanceOf             \* token balance of every other account

deposits == <<payers, depositedAmount, totalDepositedAmount>>
refunds  == <<refundedAmount, totalRefundedAmount>>
fees     == <<feeRecipient, baseFee, percentageFee>>
token    == <<custody, balanceOf>>
vars     == <<admins, deposits, lockedAmount, releasedAmount, refunds, fees, token>>

-----------------------------------------------------------------------------
\* Views.

GetFees(amount) ==
  LET base == IF amount > baseFee THEN baseFee ELSE amount
      expected == ((amount - base) * percentageFee) \div 100
  IN  IF expected > amount - base THEN amount ELSE base + expected

GetBalance == totalDepositedAmount - releasedAmount - totalRefundedAmount

\* Mutant of Proportion: the percentage is rounded up.
ProportionRoundedUp(payer) ==
  (depositedAmount[payer] * 100 + totalDepositedAmount - 1) \div totalDepositedAmount

\* Percentage of the deposits that payer made, rounded down.
Proportion(payer) == (depositedAmount[payer] * 100) \div totalDepositedAmount

GetWithdrawableAmount(payer) ==
  LET free == GetBalance - lockedAmount
  IN  IF free = 0 THEN 0 ELSE (free * Proportion(payer)) \div 100

\* Mutant of GetRefundableAmount: the proportion is taken of what is left in the
\* contract instead of what was deposited.
GetRefundableAmountOfBalance(amount, payer) ==
  IF amount = 0 \/ GetBalance = 0
  THEN 0
  ELSE (amount * ((depositedAmount[payer] * 100) \div GetBalance)) \div 100

GetRefundableAmount(amount, payer) ==
  IF amount = 0 \/ totalDepositedAmount = 0
  THEN 0
  ELSE (amount * Proportion(payer)) \div 100

Occurrences(payer) == Cardinality({i \in DOMAIN payers : payers[i] = payer})

-----------------------------------------------------------------------------
Init ==
  /\ admins = {Deployer}
  /\ payers = <<>>
  /\ depositedAmount = [a \in Accounts |-> 0] /\ totalDepositedAmount = 0
  /\ lockedAmount = 0 /\ releasedAmount = 0
  /\ refundedAmount = [a \in Accounts |-> 0] /\ totalRefundedAmount = 0
  /\ feeRecipient = InitialFeeRecipient
  /\ baseFee = InitialBaseFee /\ percentageFee = InitialPercentageFee
  /\ custody = 0 /\ balanceOf = InitialBalance

\* Mutant of Deposit: a second deposit replaces the first on the payer's account.
DepositForgettingEarlier(caller, amount, payer) ==
  /\ caller \in admins
  /\ amount > 0
  /\ amount <= balanceOf[payer]
  /\ totalDepositedAmount + amount <= MaxDeposited
  /\ payers' = IF depositedAmount[payer] = 0 THEN Append(payers, payer) ELSE payers
  /\ depositedAmount' = [depositedAmount EXCEPT ![payer] = amount]
  /\ totalDepositedAmount' = totalDepositedAmount + amount
  /\ custody' = custody + amount
  /\ balanceOf' = Debit(balanceOf, payer, amount)
  /\ UNCHANGED <<admins, lockedAmount, releasedAmount, refunds, fees>>

\* The token moves from the payer, who must own the amount; the payer is
\* pushed on the array when nothing is on its account.
Deposit(caller, amount, payer) ==
  /\ caller \in admins
  /\ amount > 0
  /\ amount <= balanceOf[payer]
  /\ totalDepositedAmount + amount <= MaxDeposited
  /\ payers' = IF depositedAmount[payer] = 0 THEN Append(payers, payer) ELSE payers
  /\ depositedAmount' = Credit(depositedAmount, payer, amount)
  /\ totalDepositedAmount' = totalDepositedAmount + amount
  /\ custody' = custody + amount
  /\ balanceOf' = Debit(balanceOf, payer, amount)
  /\ UNCHANGED <<admins, lockedAmount, releasedAmount, refunds, fees>>

\* Mutant of RemovePayer: the last entry is popped without being moved first.
RemovePayerWithoutSwap(payer) ==
  IF \E i \in DOMAIN payers : payers[i] = payer
  THEN SubSeq(payers, 1, Len(payers) - 1)
  ELSE payers

\* The first entry of payer is overwritten by the last one, which is popped.
RemovePayer(payer) ==
  LET first == CHOOSE i \in DOMAIN payers :
                 payers[i] = payer /\ \A j \in 1 .. i - 1 : payers[j] # payer
      last == Len(payers)
  IN  IF \E i \in DOMAIN payers : payers[i] = payer
      THEN [j \in 1 .. last - 1 |-> IF j = first THEN payers[last] ELSE payers[j]]
      ELSE payers

\* Mutant of Withdraw: the total of the deposits is not reduced.
WithdrawKeepingTotal(caller, amount) ==
  /\ amount > 0
  /\ amount <= GetWithdrawableAmount(caller)
  /\ amount <= custody
  /\ amount <= depositedAmount[caller]
  /\ depositedAmount' = Debit(depositedAmount, caller, amount)
  /\ payers' = IF depositedAmount'[caller] = 0 THEN RemovePayer(caller) ELSE payers
  /\ custody' = custody - amount
  /\ balanceOf' = Credit(balanceOf, caller, amount)
  /\ UNCHANGED <<admins, totalDepositedAmount, lockedAmount, releasedAmount, refunds, fees>>

Withdraw(caller, amount) ==
  /\ amount > 0
  /\ amount <= GetWithdrawableAmount(caller)
  /\ amount <= custody
  /\ amount <= depositedAmount[caller]
  /\ depositedAmount' = Debit(depositedAmount, caller, amount)
  /\ payers' = IF depositedAmount'[caller] = 0 THEN RemovePayer(caller) ELSE payers
  /\ totalDepositedAmount' = totalDepositedAmount - amount
  /\ custody' = custody - amount
  /\ balanceOf' = Credit(balanceOf, caller, amount)
  /\ UNCHANGED <<admins, lockedAmount, releasedAmount, refunds, fees>>

\* Mutant of LockFunds: funds that were already paid out count as lockable.
LockFundsUpToDeposits(caller, amount) ==
  /\ caller \in admins
  /\ amount > 0
  /\ lockedAmount + amount <= totalDepositedAmount
  /\ lockedAmount' = lockedAmount + amount
  /\ UNCHANGED <<admins, deposits, releasedAmount, refunds, fees, token>>

LockFunds(caller, amount) ==
  /\ caller \in admins
  /\ amount > 0
  /\ lockedAmount + amount <= GetBalance
  /\ lockedAmount' = lockedAmount + amount
  /\ UNCHANGED <<admins, deposits, releasedAmount, refunds, fees, token>>

\* Mutant of ReleaseFunds: the payee is paid the amount before fees.
ReleaseFundsBeforeFees(caller, amount) ==
  /\ caller \in admins
  /\ amount > 0
  /\ amount <= lockedAmount
  /\ amount <= custody
  /\ custody' = custody - amount
  /\ balanceOf' = Credit(Credit(balanceOf, feeRecipient, GetFees(amount)), Payee, amount)
  /\ lockedAmount' = lockedAmount - amount
  /\ releasedAmount' = releasedAmount + amount
  /\ UNCHANGED <<admins, deposits, refunds, fees>>

ReleaseFunds(caller, amount) ==
  /\ caller \in admins
  /\ amount > 0
  /\ amount <= lockedAmount
  /\ amount <= custody
  /\ custody' = custody - amount
  /\ balanceOf' = Credit(Credit(balanceOf, feeRecipient, GetFees(amount)),
                         Payee, amount - GetFees(amount))
  /\ lockedAmount' = lockedAmount - amount
  /\ releasedAmount' = releasedAmount + amount
  /\ UNCHANGED <<admins, deposits, refunds, fees>>

\* What the loop over the array takes out of the locked funds for each payer,
\* and the fees it keeps back.
RefundShare(amount) ==
  [a \in Accounts |-> Occurrences(a) * GetRefundableAmount(amount, a)]
RefundFees(amount) ==
  [a \in Accounts |-> Occurrences(a) * GetFees(GetRefundableAmount(amount, a))]

RefundFunds(caller, amount) ==
  LET share == RefundShare(amount)
      kept  == RefundFees(amount)
      refunded == Total(share)
  IN  /\ caller \in admins
      /\ amount > 0
      /\ amount <= lockedAmount
      /\ refunded <= lockedAmount
      /\ refunded <= custody
      /\ custody' = custody - refunded
      /\ balanceOf' = Credit([a \in Accounts |-> balanceOf[a] + (share[a] - kept[a])],
                             feeRecipient, Total(kept))
      /\ refundedAmount' = [a \in Accounts |-> refundedAmount[a] + share[a]]
      /\ totalRefundedAmount' = totalRefundedAmount + refunded
      /\ lockedAmount' = lockedAmount - refunded
      /\ UNCHANGED <<admins, deposits, releasedAmount, fees>>

Editable == lockedAmount = 0

UpdateFeeRecipient(caller, account) ==
  /\ caller \in admins /\ Editable
  /\ account # feeRecipient
  /\ feeRecipient' = account
  /\ UNCHANGED <<admins, deposits, lockedAmount, releasedAmount, refunds, token>>
  /\ UNCHANGED <<baseFee, percentageFee>>

\* Mutant of UpdateBaseFee: the modifier editable is forgotten.
UpdateBaseFeeAnytime(caller, fee) ==
  /\ caller \in admins
  /\ baseFee' = fee
  /\ UNCHANGED <<admins, deposits, lockedAmount, releasedAmount, refunds, token>>
  /\ UNCHANGED <<feeRecipient, percentageFee>>

UpdateBaseFee(caller, fee) ==
  /\ caller \in admins /\ Editable
  /\ baseFee' = fee
  /\ UNCHANGED <<admins, deposits, lockedAmount, releasedAmount, refunds, token>>
  /\ UNCHANGED <<feeRecipient, percentageFee>>

\* Mutant of UpdatePercentageFee: the fee may exceed the amount it is taken from.
UpdatePercentageFeeUnbounded(caller, fee) ==
  /\ caller \in admins /\ Editable
  /\ percentageFee' = fee
  /\ UNCHANGED <<admins, deposits, lockedAmount, releasedAmount, refunds, token>>
  /\ UNCHANGED <<feeRecipient, baseFee>>

UpdatePercentageFee(caller, fee) ==
  /\ caller \in admins /\ Editable
  /\ fee <= 100
  /\ percentageFee' = fee
  /\ UNCHANGED <<admins, deposits, lockedAmount, releasedAmount, refunds, token>>
  /\ UNCHANGED <<feeRecipient, baseFee>>

AddAdmin(caller, account) ==
  /\ caller \in admins
  /\ admins' = admins \cup {account}
  /\ UNCHANGED <<deposits, lockedAmount, releasedAmount, refunds, fees, token>>

RemoveAdmin(caller, account) ==
  /\ caller \in admins
  /\ admins' = admins \ {account}
  /\ UNCHANGED <<deposits, lockedAmount, releasedAmount, refunds, fees, token>>

Next ==
  \/ \E caller, payer \in Accounts, amount \in Amounts : Deposit(caller, amount, payer)
  \/ \E caller \in Accounts, amount \in Amounts : Withdraw(caller, amount)
  \/ \E caller \in Accounts, amount \in Amounts : LockFunds(caller, amount)
  \/ \E caller \in Accounts, amount \in Amounts : ReleaseFunds(caller, amount)
  \/ \E caller \in Accounts, amount \in Amounts : RefundFunds(caller, amount)
  \/ \E caller, account \in Accounts : UpdateFeeRecipient(caller, account)
  \/ \E caller \in Accounts, fee \in BaseFees : UpdateBaseFee(caller, fee)
  \/ \E caller \in Accounts, fee \in PercentageFees : UpdatePercentageFee(caller, fee)
  \/ \E caller \in Accounts, account \in Operators : AddAdmin(caller, account)
  \/ \E caller \in Accounts, account \in Operators : RemoveAdmin(caller, account)

Spec == Init /\ [][Next]_vars

-----------------------------------------------------------------------------
(***************************************************************************)
(* Every variable has its type; in particular no amount is negative.       *)
(***************************************************************************)
TypeOK ==
  /\ admins \subseteq Accounts
  /\ payers \in Seq(Accounts)
  /\ depositedAmount \in [Accounts -> Nat] /\ totalDepositedAmount \in Nat
  /\ lockedAmount \in Nat /\ releasedAmount \in Nat
  /\ refundedAmount \in [Accounts -> Nat] /\ totalRefundedAmount \in Nat
  /\ feeRecipient \in Accounts /\ baseFee \in Nat /\ percentageFee \in 0 .. 100
  /\ custody \in Nat /\ balanceOf \in [Accounts -> Nat]

(***************************************************************************)
(* The contract can always pay: what getBalance computes from its counters *)
(* is what the token says it holds, and it covers the locked funds, across *)
(* deposits, withdrawals that shrink the deposit total, releases and       *)
(* refunds that do not.                                                    *)
(***************************************************************************)
Solvent == custody = GetBalance /\ lockedAmount <= GetBalance

(***************************************************************************)
(* The array of payers, from which refunds are paid, holds exactly the     *)
(* accounts with something deposited, once each: push on a first deposit   *)
(* and swap-and-pop on a last withdrawal keep it so.                       *)
(***************************************************************************)
PayersAreDepositors ==
  /\ \A i, j \in DOMAIN payers : payers[i] = payers[j] => i = j
  /\ \A a \in Accounts : depositedAmount[a] > 0 <=> \E i \in DOMAIN payers : payers[i] = a

(***************************************************************************)
(* The two totals the contract keeps are the sums of the per-payer         *)
(* accounts they stand for.                                                *)
(***************************************************************************)
BooksBalance ==
  /\ Total(depositedAmount) = totalDepositedAmount
  /\ Total(refundedAmount) = totalRefundedAmount

(***************************************************************************)
(* No operation creates or destroys tokens: shares, fees and payments, all *)
(* rounded down separately, add up to what leaves the contract.            *)
(***************************************************************************)
TokensConserved == custody + Total(balanceOf) = Total(InitialBalance)

(***************************************************************************)
(* A withdrawal the contract offers never underflows the account of the    *)
(* payer, although the offer is a share of the free balance and not of the *)
(* account.                                                                *)
(***************************************************************************)
WithdrawableWithinDeposit ==
  \A a \in Accounts : GetWithdrawableAmount(a) <= depositedAmount[a]

(***************************************************************************)
(* A refund never hands out more than the amount asked for, so that the    *)
(* loop over the payers never reverts on the locked amount half-way.       *)
(***************************************************************************)
RefundFitsRequest ==
  \A amount \in Amounts : Total(RefundShare(amount)) <= amount

(***************************************************************************)
(* The fees a payment is subject to are those in force when its funds were *)
(* locked: no step changes the terms while something is locked.            *)
(***************************************************************************)
FeesFrozenWhileLocked == [][lockedAmount > 0 => UNCHANGED fees]_vars

(***************************************************************************)
(* The contract implements the abstract escrow.                            *)
(***************************************************************************)
Pot == INSTANCE Escrow WITH
  Cap    <- MaxDeposited,
  held   <- GetBalance,
  locked <- lockedAmount,
  paid   <- releasedAmount + totalRefundedAmount

ImplementsEscrow == Pot!EscrowSpec

(***************************************************************************)
(* What test/DownPayment.test.ts expects after a refund of all the locked  *)
(* funds: nothing stays locked.  It does not hold with several payers,     *)
(* whose percentages are rounded down.                                     *)
(***************************************************************************)
FullRefundUnlocksAll ==
  [][\A caller \in Accounts : RefundFunds(caller, lockedAmount) => lockedAmount' = 0]_vars
=============================================================================
