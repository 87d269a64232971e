\* A policy that names the public key in the parameters.
CONSTANTS
  GenParams <- MCGenParams
  Policies <- KeyOwner
  Platforms = {"SGX_DCAP", "TDX"}
  Hardware <- MCHardware
  Labels <- MCLabels
  Collaterals <- MCCollaterals
  HashLen = 3
  NonceLen <- MCNonceLen
  Stoi <- MCStoi
SPECIFICATION Spec
INVARIANTS KeyPolicyAccepted
CHECK_DEADLOCK FALSE
