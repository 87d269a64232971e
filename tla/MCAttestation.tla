--------------------------- MODULE MCAttestation ---------------------------
(***************************************************************************)
(* Parameters, policies and platforms for model checking Attestation, with *)
(* hashes of three bytes.                                                  *)
(***************************************************************************)
EXTENDS Attestation, TLC

Upper(c) == [chars |-> <<c>>, upper |-> TRUE]
Hex(b) == [chars |-> b, upper |-> FALSE]

Param(t, n, u, k) ==
  [report_type |-> t, report_hex_nonce |-> n, hex_user_data |-> u,
   pem_public_key |-> k]

Key == Text("key")
Full == Hex(<<"b1", "b2", "b3">>)

MCGenParams ==
  {Param("Passport", Empty, u, k) :
     u \in {Empty, Text("b1"), Full, Hex(<<"b1", "b2", "b3", "b4">>)},
     k \in {Empty, Key}}
  \cup {Param("Passport", Full, Empty, Empty), Param("Passport", Full, Full, Key),
        GetRaCert("cert", "n1"), GetRaCert("cert", "n2"),
        Param("BackgroundCheck", Empty, Full, Key),
        Param("passport", Empty, Full, Key)}

MCPlatforms == {"SGX_DCAP", "TDX", "CSV"}

MCHardware ==
  [p \in MCPlatforms |->
    [f \in Attrs |-> CASE f = "ISVSVN" -> Text("2")
                       [] f = "DEBUGDISABLED" -> Text("true")
                       [] OTHER -> Text(f)]]

MCStoi == (Text("1") :> 1) @@ (Text("2") :> 2) @@ (Text("3") :> 3)

(* CSV's nonce is shorter than a hash.                                     *)
MCNonceLen == [p \in MCPlatforms |-> IF p = "CSV" THEN 1 ELSE 3]

(* Every platform's label with either version, and one no verifier is for. *)
Label(v, p) == [version |-> v, type |-> "Passport", platform |-> p]
MCLabels ==
  {Label(v, p) : v \in {kReportVersion, "2.0"}, p \in MCPlatforms}
  \cup {Label(kReportVersion, "SNP")}

(* Collateral of either vendor, with a field missing, and none.            *)
MCCollaterals ==
  {{}, IntelCollateral, IntelCollateral \ {"tcb_info"}, HygonCollateral,
   {"hsk_cert"}}

(* Entries by what they demand.                                            *)
Anything == NoAttrs
Demand(f, t) == [NoAttrs EXCEPT ![f] = t]
Version(v) == Demand("ISVSVN", Text(v))
ShortData == [chars |-> <<"b1", "00", "00">>, upper |-> TRUE]
NonceData(n) == GetRaCert("cert", n).hex_user_data

SingleEntries ==
  {Anything, Version("2"), Version("3"), Version("x"), Demand("PLATFORM", Text("TDX")),
   Demand("MRTRUSTAPP", Upper("MRTRUSTAPP")), Demand("MRBOOT", Text("other")),
   Demand("USERDATA", Full), Demand("USERDATA", ShortData),
   Demand("USERDATA", Text("b1")),
   Demand("USERDATA", NonceData("n1")), Demand("NONCE", Full),
   Demand("DEBUGDISABLED", Text("1")), Demand("DEBUGDISABLED", Upper("true")),
   Demand("DEBUGDISABLED", Text("false"))}

MCPolicies ==
  {<<e>> : e \in SingleEntries}
  \cup {<<>>, <<Version("3"), Version("1")>>, <<Version("x"), Version("2")>>,
        <<Version("3"), Demand("USERDATA", Full)>>,
        <<Demand("USERDATA", Full), Version("1")>>,
        <<Version("3"), Demand("DEBUGDISABLED", Text("false")), Anything>>}

(* A policy for TEEs of two kinds, and one for the owner of a key.         *)
TwoPlatforms ==
  {<<Demand("PLATFORM", Text("SGX_DCAP")), Demand("PLATFORM", Text("TDX"))>>}
KeyOwner == {<<Demand("PUBLICKEY", Key)>>}
=============================================================================
