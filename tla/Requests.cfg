SPECIFICATION Spec
CONSTANTS
  Lower <- MCLower
  Upper = {"ZNS"}
  Unified = {"u1"}
  Transparent = {"t1"}
  SixDigits = {"123456"}
  Digit <- MCDigit
  MaxWhole <- MCMaxWhole
  Decimals = 2
  MaxYears = 2
  MaxMemo = 12
  Forever = Forever
  None = None
  Form <- MCForm
  Challenge <- MCChallenge
  MaxRewrites = 2
INVARIANTS
  OneReading
  PaymentArrives
  AmountsAreWithinSupply
  EchoIsChallenge
