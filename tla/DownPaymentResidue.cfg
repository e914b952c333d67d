SPECIFICATION Spec
CONSTANTS
  canister = canister
  supplier = supplier
  alice = alice
  bob = bob
  Accounts <- MCAccounts
  Deployer = canister
  Payee = supplier
  InitialFeeRecipient = canister
  InitialBaseFee = 10
  InitialPercentageFee = 5
  InitialBalance <- MCBalance
  Amounts = {60, 70}
  BaseFees = {10}
  PercentageFees = {5}
  Operators = {}
  MaxDeposited = 180
CHECK_DEADLOCK FALSE
PROPERTY
  FullRefundUnlocksAll
