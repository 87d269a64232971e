\* All platforms, policies of up to three entries, callers of both kinds.
CONSTANTS
  GenParams <- MCGenParams
  Policies <- MCPolicies
  Platforms = {"SGX_DCAP", "TDX", "CSV"}
  Hardware <- MCHardware
  Labels <- MCLabels
  Collaterals <- MCCollaterals
  HashLen = 3
  NonceLen <- MCNonceLen
  Stoi <- MCStoi
  Callers = {"rust", "c"}
  MsgSize = 3
  DetailsSize = 2
  OutSize = 2
  JsonSizes = {1, 3}
  TextSizes = {1, 3}
  MaxParses = 1
SPECIFICATION ApiSpec
INVARIANTS TypeOK  VersionsExact WithinBuffers AnswerOwn
CHECK_DEADLOCK FALSE
