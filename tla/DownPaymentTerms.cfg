SPECIFICATION Spec
CONSTANTS
  canister = canister
  supplier = supplier
  alice = alice
  bob = bob
  Accounts <- MCAccounts
  Deployer = canister
  Payee = supplier
  InitialFeeRecipient = canister
  InitialBaseFee = 10
  InitialPercentageFee = 5
  InitialBalance <- MCBalance
  Amounts = {50, 100}
  BaseFees = {0, 60}
  PercentageFees = {100, 101}
  Operators <- MCOperators
  MaxDeposited = 100
CHECK_DEADLOCK FALSE
PROPERTIES
  FeesFrozenWhileLocked
  ImplementsEscrow
