\* A policy that allows SGX or TDX.
CONSTANTS
  GenParams <- MCGenParams
  Policies <- TwoPlatforms
  Platforms = {"SGX_DCAP", "TDX", "CSV"}
  Hardware <- MCHardware
  Labels <- MCLabels
  Collaterals <- MCCollaterals
  HashLen = 3
  NonceLen <- MCNonceLen
  Stoi <- MCStoi
SPECIFICATION Spec
INVARIANTS EntriesAreAlternatives
CHECK_DEADLOCK FALSE
