-------------------------- MODULE MCAttestationApi --------------------------
(***************************************************************************)
(* Model checking AttestationApi with the parameters, policies and         *)
(* platforms of MCAttestation.                                             *)
(***************************************************************************)
EXTENDS AttestationApi, MCAttestation
=============================================================================
