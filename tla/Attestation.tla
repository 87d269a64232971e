----------------------------- MODULE Attestation -----------------------------
(***************************************************************************)
(* A report from its generation in a TEE to the verdict of the verifier:   *)
(* GenerateReport binds the caller's data into a quote, the caller carries *)
(* the report to the verifying party, possibly altered on the way, the     *)
(* verifier that the report's own label names is made, and VerifyReport    *)
(* checks the platform, parses the quote into attributes and tries the     *)
(* entries of a policy one after the other.                                *)
(*                                                                         *)
(* A text of a message is its characters up to their case (chars) and the  *)
(* case (upper): hex digits are told apart by what they decode to.  An     *)
(* attribute that is not set is the empty text.  SHA-256 is injective.     *)
(***************************************************************************)
EXTENDS Naturals, Sequences

CONSTANTS GenParams,  \* parameters callers pass to GenerateReport
          Policies,   \* policies verifying parties use
          Platforms,  \* platforms of the TEEs, a subset of the three below
          Hardware,   \* what a quote of each platform says of the TEE
          Labels,     \* what the carrier may write over a report's labels
          Collaterals,\* collateral the carrier may put into a report
          HashLen,    \* bytes of a hash and of either half of the data (32)
          NonceLen,   \* bytes of a nonce on each platform
          Stoi        \* std::stoi on the texts it parses

VARIABLES pc,       \* where the two calls are
          platform, \* platform of the TEE
          params,   \* parameters of GenerateReport
          policy,   \* policy of VerifyReport
          report,   \* the report: labels, collateral and the quote
          attrs,    \* attributes parsed from it
          entry,    \* i of the loop of VerifyAttributes
          status    \* what the call returned, or None

vars == <<pc, platform, params, policy, report, attrs, entry, status>>

None == "none"

Empty == [chars |-> <<>>, upper |-> FALSE]
Text(c) == [chars |-> <<c>>, upper |-> FALSE]

BytesToHexString(b) == [chars |-> b, upper |-> FALSE]
HexStringToBytes(t) == t.chars

EqualsIgnoreCase(s, t) == s.chars = t.chars

(* The hash of a text is that of its characters, case included, which is   *)
(* not the hash of the bytes it decodes to.                                *)
Sha256(bytes) == <<"sha256">> \o bytes
Chars(t) == <<IF t.upper THEN "upper" ELSE "lower">> \o t.chars

(* The attributes, in the order AttrsIsMatch looks at them.                *)
AttrOrder ==
  <<"PLATFORM", "PLATFORMHWVERSION", "PLATFORMSWVERSION", "SECUREFLAGS",
    "MRPLATFORM", "MRBOOT", "MRTRUSTAPP", "MRTRUSTAPPDYN", "SIGNER",
    "PRODID", "ISVSVN", "DEBUGDISABLED", "USERDATA", "PUBLICKEY", "NONCE">>
Attrs == {AttrOrder[k] : k \in DOMAIN AttrOrder}

Texts == [chars : Seq(STRING), upper : BOOLEAN]

(* What a passport report carries: the fields of Intel's collateral and    *)
(* the certificates Hygon's server answers with.                           *)
IntelCollateral ==
  {"pck_crl_issuer_chain", "root_ca_crl", "pck_crl", "tcb_info_issuer_chain",
   "tcb_info", "qe_identity_issuer_chain", "qe_identity"}
HygonCollateral == {"hsk_cert", "cek_cert"}
Fields == IntelCollateral \cup HygonCollateral

(* The platforms, and what the hardware measures on each: the version is   *)
(* the text of a number.                                                   *)
ASSUME PlatformsAssumption ==
  /\ Platforms \subseteq {"SGX_DCAP", "TDX", "CSV"}
  /\ HashLen \in Nat
  /\ \A p \in Platforms : Hardware[p] \in [Attrs -> Texts]
  /\ \A p \in Platforms :
       Hardware[p].DEBUGDISABLED \in {Text("true"), Text("false")}
  /\ "SGX_DCAP" \in Platforms => Hardware["SGX_DCAP"].ISVSVN \in DOMAIN Stoi

(* Labels are texts, and collateral has the fields of the two vendors.     *)
ASSUME AlteredAssumption ==
  /\ Labels \subseteq [version : STRING, type : STRING, platform : STRING]
  /\ \A c \in Collaterals : c \subseteq Fields

(* A text of a policy with no characters has no case, and is no number.    *)
ASSUME PoliciesAssumption ==
  /\ Policies \subseteq Seq([Attrs -> Texts])
  /\ \A q \in Policies : \A i \in 1..Len(q) : \A f \in Attrs :
       q[i][f].chars = <<>> => q[i][f] = Empty
  /\ Empty \notin DOMAIN Stoi

(* A key in PEM does not start with what marks the case of a text.         *)
ASSUME KeysAssumption ==
  \A p \in GenParams :
    /\ p.pem_public_key \in Texts
    /\ p.pem_public_key.chars = <<>>
         \/ p.pem_public_key.chars[1] \notin {"upper", "lower"}

NoReport ==
  [version |-> None, type |-> None, platform |-> None, collateral |-> {},
   layout |-> None, data |-> <<>>, broken |-> {}]
NoAttrs == [f \in Attrs |-> Empty]

Init ==
  /\ pc = "generate"
  /\ platform \in Platforms
  /\ params \in GenParams
  /\ policy = <<>>
  /\ report = NoReport
  /\ attrs = NoAttrs
  /\ entry = 1
  /\ status = None

Finish(s) == pc' = "done" /\ status' = s

-----------------------------------------------------------------------------
(* Generation.                                                             *)

kReportVersion == "1.0"
ReportTypes == {"BackgroundCheck", "Passport"}

(* The parameters of the proxies, which bind the hash of their data, and   *)
(* of the RA proxy for a nonce it is sent, outside simulation.             *)
GenRaReport(user_data) ==
  [report_type      |-> "Passport",
   report_hex_nonce |-> Empty,
   hex_user_data    |-> BytesToHexString(Sha256(user_data)),
   pem_public_key   |-> Empty]

GetRaCert(cert, nonce) == GenRaReport(<<cert, nonce>>)

(* The checks of Prepare*ReportData: one half has room for either.         *)
ParamsOk ==
  /\ Len(params.report_hex_nonce.chars) <= NonceLen[platform]
  /\ Len(params.hex_user_data.chars) <= HashLen
  /\ params.report_hex_nonce = Empty \/ params.hex_user_data = Empty

Zeros == [k \in 1..HashLen |-> "00"]

(* memcpy over the zeroed half of the report data.                         *)
Padded(bytes) == bytes \o SubSeq(Zeros, Len(bytes) + 1, HashLen)

(* The data bound by the quote: user data or nonce, and the hash of the    *)
(* key.                                                                    *)
PrepareReportData ==
  [low  |-> IF params.hex_user_data # Empty
            THEN Padded(HexStringToBytes(params.hex_user_data))
            ELSE Padded(HexStringToBytes(params.report_hex_nonce)),
   high |-> IF params.pem_public_key = Empty THEN Zeros
            ELSE Sha256(HexStringToBytes(params.pem_public_key))]

(* What size, tee_type and version make of the quotes of each platform; a  *)
(* quote of another size is "short".                                       *)
QuoteLayouts == [SGX_DCAP |-> {"quote3"}, TDX |-> {"quote4", "quote5"},
                 CSV |-> {"csv"}]
Layouts == {"quote3", "quote4", "quote5", "csv", "short"}

Report(collateral, layout) ==
  [version    |-> kReportVersion,
   type       |-> params.report_type,
   platform   |-> platform,
   collateral |-> IF params.report_type = "Passport" THEN collateral ELSE {},
   layout     |-> layout,
   data       |-> PrepareReportData,
   broken     |-> {}]

Generate(p, collateral) ==
  /\ pc = "generate" /\ platform = p
  /\ params.report_type \in ReportTypes
  /\ ParamsOk
  /\ \E y \in QuoteLayouts[p] : report' = Report(collateral, y)
  /\ pc' = "deliver"
  /\ UNCHANGED <<platform, params, policy, attrs, entry, status>>

Sgx2GenerateReport == Generate("SGX_DCAP", IntelCollateral)
TdxGenerateReport == Generate("TDX", IntelCollateral)
CsvGenerateReport == Generate("CSV", HygonCollateral)

(* A check, the device, the session MAC or the server of the collateral    *)
(* fails.                                                                  *)
GenerateError ==
  /\ pc = "generate"
  /\ Finish("generate_error")
  /\ UNCHANGED <<platform, params, policy, report, attrs, entry>>

-----------------------------------------------------------------------------
(* The way to the verifying party, outside this code.                      *)

Deliver ==
  /\ pc = "deliver"
  /\ pc' = "init"
  /\ UNCHANGED <<platform, params, policy, report, attrs, entry, status>>

(* The signatures that hold together the quote of each platform.           *)
Signatures == IF platform = "CSV" THEN {"hsk", "cek", "pek", "quote"}
                                  ELSE {"quote"}

OtherData == [low |-> Zeros, high |-> Sha256(<<"other">>)]

(* Labels and collateral are in no signature and may be anything.  A       *)
(* changed quote no longer fits its signature, nor does one with another   *)
(* certificate.                                                            *)
DeliverAltered ==
  /\ pc = "deliver"
  /\ \E l \in Labels, c \in Collaterals, y \in Layouts,
        d \in {report.data, OtherData}, b \in {{}} \cup {{k} : k \in Signatures} :
       /\ <<y, d>> # <<report.layout, report.data>> => "quote" \in b
       /\ report' = [version |-> l.version, type |-> l.type,
                     platform |-> l.platform, collateral |-> c,
                     layout |-> y, data |-> d, broken |-> b]
  /\ pc' = "init"
  /\ UNCHANGED <<platform, params, policy, attrs, entry, status>>

-----------------------------------------------------------------------------
(* Verification.  VerifierFactory::Create makes the verifier of the        *)
(* platform that the report's label names and calls its Init.              *)

creators == {"SGX_DCAP", "TDX", "CSV"}

Create(p, ok) ==
  /\ pc = "init" /\ report.platform = p
  /\ IF /\ report.version = kReportVersion /\ report.type = "Passport"
        /\ ok
     THEN pc' = "platform" /\ UNCHANGED status
     ELSE Finish("error")
  /\ UNCHANGED <<platform, params, policy, report, attrs, entry>>

(* A label that no verifier is registered for.                             *)
CreateError ==
  /\ pc = "init" /\ report.platform \notin creators
  /\ Finish("error")
  /\ UNCHANGED <<platform, params, policy, report, attrs, entry>>

(* JSON with fields of another message does not parse.  CsvInit demands    *)
(* the sizes of the quote and of both certificates.                        *)
DcapJson == report.collateral \subseteq IntelCollateral
CsvJson == report.collateral = HygonCollateral /\ report.layout = "csv"

Sgx2Init == Create("SGX_DCAP", DcapJson)
TdxInit == Create("TDX", DcapJson)
CsvInit == Create("CSV", CsvJson)

(* What the quote verification library may answer when it is asked for     *)
(* quotes of some platforms.                                               *)
QvResults(platforms) ==
  IF report.broken = {} /\ platform \in platforms
  THEN {"OK", "OUT_OF_DATE", "REVOKED", "UNSPECIFIED"}
  ELSE {"INVALID_SIGNATURE"}

(* CONFIG_NEEDED, SW_HARDENING_NEEDED and so on are taken as OUT_OF_DATE.  *)
AcceptedResults == {"OK", "OUT_OF_DATE"}

AfterPlatform(ok) ==
  /\ IF ok THEN pc' = "parse" /\ UNCHANGED status
           ELSE Finish("error")
  /\ UNCHANGED <<platform, params, policy, report, attrs, entry>>

(* InitializeCollateralData refuses an empty field.                        *)
InitializeCollateralData == IntelCollateral \subseteq report.collateral

(* sgx_qv_verify_quote is taken to accept quotes of SGX enclaves only, as  *)
(* the code that follows does not look at tee_type.                        *)
Sgx2VerifyPlatform ==
  /\ pc = "platform" /\ report.platform = "SGX_DCAP"
  /\ \E q \in QvResults({"SGX_DCAP"}) :
       AfterPlatform(InitializeCollateralData /\ q \in AcceptedResults)

(* tdx_qv_verify_quote may accept any quote of Intel's.                    *)
TdxVerifyPlatform ==
  /\ pc = "platform" /\ report.platform = "TDX"
  /\ \E q \in QvResults({"SGX_DCAP", "TDX"}) :
       AfterPlatform(InitializeCollateralData /\ q \in AcceptedResults)

(* The chain of signatures from Hygon's root key to the quote.             *)
VerifyHskCertWithHrkPubkey == "hsk" \notin report.broken
VerifyCekCertWithHskCert == {"hsk", "cek"} \cap report.broken = {}
VerifyPekCertWithCekCert == {"cek", "pek"} \cap report.broken = {}
VerifyQuoteSignature == {"pek", "quote"} \cap report.broken = {}

CsvVerifyPlatform ==
  /\ pc = "platform" /\ report.platform = "CSV"
  /\ AfterPlatform(/\ VerifyHskCertWithHrkPubkey /\ VerifyCekCertWithHskCert
                   /\ VerifyPekCertWithCekCert /\ VerifyQuoteSignature)

(* The attributes the three parsers take from the body of the quote.       *)
Sgx2Attrs == {"MRTRUSTAPP", "SIGNER", "PRODID", "ISVSVN", "DEBUGDISABLED"}
TdxAttrs == {"MRPLATFORM", "MRBOOT", "MRTRUSTAPP", "DEBUGDISABLED"}
CsvAttrs == {"PLATFORMSWVERSION", "SECUREFLAGS", "MRBOOT", "PRODID"}

BodyAttrs(p) == CASE p = "SGX_DCAP" -> Sgx2Attrs
                  [] p = "TDX" -> TdxAttrs
                  [] p = "CSV" -> CsvAttrs

(* The attributes of the quote with key_hash as that of the public key.    *)
Parsed(key_hash) ==
  [f \in Attrs |->
     CASE f = "PLATFORM"  -> Text(report.platform)
       [] f = "USERDATA"  -> BytesToHexString(report.data.low)
       [] f = "PUBLICKEY" -> BytesToHexString(key_hash)
       [] f \in BodyAttrs(report.platform) -> Hardware[platform][f]
       [] OTHER -> Empty]

(* Fault: the TDX parser does not look at tee_type and version.            *)
QuoteParsesUnchecked == report.layout # "short"

(* The checks of the size, and for TDX of tee_type and version; CsvInit    *)
(* has seen to the size of CSV's.                                          *)
QuoteParses ==
  CASE report.platform = "SGX_DCAP" -> report.layout # "short"
    [] report.platform = "TDX" -> report.layout \in {"quote4", "quote5"}
    [] OTHER -> TRUE

(* The verifying party's policy is what VerifyAttributes is called with.   *)
ParseUnifiedReport ==
  /\ pc = "parse" /\ report.platform \in {"SGX_DCAP", "TDX"}
  /\ QuoteParses
  /\ attrs' = Parsed(report.data.high)
  /\ policy' \in Policies
  /\ pc' = "attributes"
  /\ UNCHANGED <<platform, params, report, entry, status>>

ParseError ==
  /\ pc = "parse" /\ ~QuoteParses
  /\ Finish("error")
  /\ UNCHANGED <<platform, params, policy, report, attrs, entry>>

(* The nonce is the random one of the generator.  The public key is set    *)
(* twice, the second time from past the end of a vector of HASH_LEN bytes: *)
(* whatever lies there.                                                    *)
CsvParseUnifiedReport ==
  /\ pc = "parse" /\ report.platform = "CSV"
  /\ \E h \in {report.data.high, Zeros, <<"heap">>} :
       attrs' = [Parsed(h) EXCEPT !.NONCE = Text("mnonce")]
  /\ policy' \in Policies
  /\ pc' = "attributes"
  /\ UNCHANGED <<platform, params, report, entry, status>>

StrToBoolean(t) == EqualsIgnoreCase(t, Text("true")) \/ t = Text("1")

(* Fault: the expected version must be at least the actual one.            *)
IsSmallerEqualThan(actual, expected) ==
  /\ {actual, expected} \subseteq DOMAIN Stoi
  /\ Stoi[actual] <= Stoi[expected]

(* std::stoi throws on a text that is not a number, which is caught.       *)
IsGreaterEqualThan(actual, expected) ==
  /\ {actual, expected} \subseteq DOMAIN Stoi
  /\ Stoi[expected] <= Stoi[actual]

IsBoolEqual(actual, expected) ==
  StrToBoolean(expected) = StrToBoolean(actual)

(* Whether expected attribute f of an entry lets the actual one pass.      *)
Passes(f, actual, expected) ==
  \/ expected = Empty
  \/ CASE f = "ISVSVN" -> IsGreaterEqualThan(actual, expected)
       [] f = "DEBUGDISABLED" -> IsBoolEqual(actual, expected)
       [] f = "PUBLICKEY" ->
            EqualsIgnoreCase(BytesToHexString(Sha256(Chars(expected))), actual)
       [] OTHER -> EqualsIgnoreCase(expected, actual)

(* The first attribute that does not pass decides: IsStrEqual throws, the  *)
(* two other comparisons return false.                                     *)
AttrsIsMatch(actual, expected) ==
  LET Fails(k) == ~Passes(AttrOrder[k], actual[AttrOrder[k]],
                          expected[AttrOrder[k]])
      Failing == {k \in DOMAIN AttrOrder : Fails(k)}
      First == CHOOSE k \in Failing : \A j \in Failing : k <= j
  IN IF Failing = {} THEN "true"
     ELSE IF AttrOrder[First] \in {"ISVSVN", "DEBUGDISABLED"} THEN "false"
     ELSE "throw"

MatchEntry ==
  /\ pc = "attributes"
  /\ entry <= Len(policy)
  /\ AttrsIsMatch(attrs, policy[entry]) = "true"
  /\ Finish("ok")
  /\ UNCHANGED <<platform, params, policy, report, attrs, entry>>

(* Fault: the entry after a refused one is skipped.                        *)
NextEntrySkipping ==
  /\ pc = "attributes"
  /\ entry <= Len(policy)
  /\ AttrsIsMatch(attrs, policy[entry]) = "false"
  /\ entry' = entry + 2
  /\ UNCHANGED <<pc, platform, params, policy, report, attrs, status>>

NextEntry ==
  /\ pc = "attributes"
  /\ entry <= Len(policy)
  /\ AttrsIsMatch(attrs, policy[entry]) = "false"
  /\ entry' = entry + 1
  /\ UNCHANGED <<pc, platform, params, policy, report, attrs, status>>

(* The exception of IsStrEqual leaves VerifyAttributes.                    *)
EntryThrows ==
  /\ pc = "attributes"
  /\ entry <= Len(policy)
  /\ AttrsIsMatch(attrs, policy[entry]) = "throw"
  /\ Finish("error")
  /\ UNCHANGED <<platform, params, policy, report, attrs, entry>>

NoEntryLeft ==
  /\ pc = "attributes"
  /\ entry > Len(policy)
  /\ Finish("error")
  /\ UNCHANGED <<platform, params, policy, report, attrs, entry>>

Next ==
  \/ Sgx2GenerateReport \/ TdxGenerateReport \/ CsvGenerateReport
  \/ GenerateError \/ Deliver \/ DeliverAltered
  \/ Sgx2Init \/ TdxInit \/ CsvInit \/ CreateError
  \/ Sgx2VerifyPlatform \/ TdxVerifyPlatform \/ CsvVerifyPlatform
  \/ ParseUnifiedReport \/ CsvParseUnifiedReport \/ ParseError
  \/ MatchEntry \/ NextEntry \/ EntryThrows \/ NoEntryLeft

Spec == Init /\ [][Next]_vars

-----------------------------------------------------------------------------
(* Properties.                                                             *)

(* What an entry demands holds of the TEE and of the data it was asked to  *)
(* bind.  A platform cannot meet a demand on what its quotes do not say.   *)
Has(f) == f \in BodyAttrs(platform)
DebugDisabled ==
  Has("DEBUGDISABLED") /\ Hardware[platform].DEBUGDISABLED = Text("true")
Given ==
  IF params.hex_user_data # Empty THEN params.hex_user_data
                                  ELSE params.report_hex_nonce
Meets(f, t) ==
  CASE f = "PLATFORM"  -> t.chars = <<platform>>
    [] f = "USERDATA"  -> t.chars = Padded(Given.chars)
    [] f = "PUBLICKEY" -> t = params.pem_public_key
    [] f = "NONCE"     -> platform = "CSV" /\ t.chars = <<"mnonce">>
    [] f = "ISVSVN"    -> /\ Has(f) /\ t \in DOMAIN Stoi
                          /\ Stoi[t] <= Stoi[Hardware[platform][f]]
    [] f = "DEBUGDISABLED" ->
         DebugDisabled = (t.chars = <<"true">> \/ t = Text("1"))
    [] OTHER -> Has(f) /\ t.chars = Hardware[platform][f].chars
Holds(e) == \A f \in Attrs : e[f] = Empty \/ Meets(f, e[f])
SomeEntryHolds == \E i \in 1..Len(policy) : Holds(policy[i])

(* The platform and its quote were verified and the policy has been tried. *)
Tried == pc = "done" /\ attrs # NoAttrs

(* Variables hold values of their types.                                   *)
TypeOK ==
  /\ pc \in {"generate", "deliver", "init", "platform", "parse",
             "attributes", "done"}
  /\ platform \in Platforms /\ params \in GenParams
  /\ policy \in Policies \cup {<<>>}
  /\ report.layout \in Layouts \cup {None}
  /\ report.collateral \subseteq Fields
  /\ report.broken \subseteq Signatures
  /\ DOMAIN attrs = Attrs
  /\ entry \in 1..Len(policy) + 1
  /\ status \in {None, "generate_error", "error", "ok"}

(* Acceptance can be relied on: VerifyReport succeeds only if the quote is *)
(* as the TEE made it, of the platform that the report's label names, and  *)
(* every demand of one entry of the policy holds of the TEE and of the     *)
(* data GenerateReport was given.  The label chooses the verifier, and     *)
(* only the checks after it tell whether the quote is one of its platform  *)
(* (verifier_factory.h 36, tdx_verifier.cc 147, csv_verifier.cc 319).      *)
(* Nothing is said of the label of the type and of where the collateral    *)
(* came from: no signature covers them.                                    *)
VerdictSound ==
  status = "ok" =>
    /\ report.broken = {} /\ report.data = PrepareReportData
    /\ report.platform = platform
    /\ SomeEntryHolds

(* VerifyAttributes refuses no report it should accept, for policies whose *)
(* entries differ only in the minimal version and the debug flag and name  *)
(* no public key: it accepts iff some entry holds, whatever its place.     *)
SameButVersions(d, e) ==
  \A f \in Attrs \ {"ISVSVN", "DEBUGDISABLED"} : d[f] = e[f]
VersionsExact ==
  /\ Tried
  /\ \A i \in 1..Len(policy) :
       policy[i].PUBLICKEY = Empty /\ SameButVersions(policy[1], policy[i])
  => (status = "ok" <=> SomeEntryHolds)

(* The entries of a policy are alternatives: a report of a verified        *)
(* platform is accepted if some entry that names no public key holds.      *)
EntriesAreAlternatives ==
  /\ Tried
  /\ \E i \in 1..Len(policy) :
       policy[i].PUBLICKEY = Empty /\ Holds(policy[i])
  => status = "ok"

(* A policy that names the public key the report was generated for is met  *)
(* by that report.                                                         *)
KeyPolicyAccepted ==
  Tried /\ Len(policy) = 1 /\ SomeEntryHolds => status = "ok"
=============================================================================
