-------------------------- MODULE AttestationProofs --------------------------
(***************************************************************************)
(* Proofs about Attestation and AttestationApi: for all parameters,        *)
(* policies and hardware, and buffers of any size.                         *)
(***************************************************************************)
EXTENDS AttestationApi, WellFoundedInduction, TLAPS

(* The quote of a report on its way is the generated one, or something it  *)
(* was signed with no longer fits.                                         *)
QuoteFits ==
  report.broken = {} =>
    /\ report.data = PrepareReportData
    /\ report.layout \in QuoteLayouts[platform]

(* The quote is the generated one, and labelled as what it is.             *)
Intact ==
  /\ report.broken = {} /\ report.data = PrepareReportData
  /\ report.platform = platform

(* What the parsers may have made of an intact quote.                      *)
ParsedAttrs ==
  IF platform = "CSV"
  THEN \E h \in {report.data.high, Zeros, <<"heap">>} :
         attrs = [Parsed(h) EXCEPT !.NONCE = Text("mnonce")]
  ELSE attrs = Parsed(report.data.high)

(* The inductive invariant: what each stage of verification has            *)
(* established of the report.                                              *)
IInv ==
  /\ TypeOK
  /\ pc \in {"deliver", "init", "platform", "parse"} => QuoteFits
  /\ pc \in {"deliver", "parse"} => report.broken = {}
  /\ pc = "platform" /\ report.platform = "CSV" => report.layout = "csv"
  /\ pc = "parse" => report.platform \in {platform, "TDX"}
  /\ pc = "attributes" => Intact /\ ParsedAttrs
  /\ pc \notin {"attributes", "done"} => entry = 1
  /\ status = "ok" => pc = "done" /\ VerdictSound

-----------------------------------------------------------------------------
(* Attributes.                                                             *)

(* An element in front of a sequence.                                      *)
LEMMA Cons ==
  ASSUME NEW S, NEW w, NEW s \in Seq(S)
  PROVE  /\ <<w>> \o s \in Seq(S \cup {w})
         /\ Len(<<w>> \o s) = Len(s) + 1
         /\ (<<w>> \o s)[1] = w
         /\ Len(s) > 0 => (<<w>> \o s)[2] = s[1]
<1> DEFINE T == S \cup {w}
<1>1. s \in Seq(T)
  OBVIOUS
<1>2. w \in T
  OBVIOUS
<1> HIDE DEF T
<1>3. <<w>> \in Seq(T) /\ Len(<<w>>) = 1 /\ <<w>>[1] = w
  BY <1>2
<1> QED
  BY <1>1, <1>3 DEF T

(* A policy that names a public key is met by no report: the hash of the   *)
(* text of the policy is neither that of the bytes of a key nor what else  *)
(* the attribute may hold.                                                 *)
LEMMA NoKeyMatches ==
  ASSUME NEW t \in Texts, NEW h,
         \/ h = Zeros \/ h = <<"heap">>
         \/ \E p \in GenParams : h = Sha256(p.pem_public_key.chars)
  PROVE  Sha256(Chars(t)) # h
<1>1. PICK w \in {"upper", "lower"} : Chars(t) = <<w>> \o t.chars
  <2>1. CASE t.upper
    BY <2>1 DEF Chars
  <2>2. CASE ~t.upper
    BY <2>2 DEF Chars
  <2> QED
    BY <2>1, <2>2
<1>2. t.chars \in Seq(STRING)
  BY DEF Texts
<1>3. Chars(t) \in Seq(STRING \cup {w}) /\ Len(Chars(t)) >= 1 /\ Chars(t)[1] = w
  BY <1>1, <1>2, Cons
<1>4. Len(Sha256(Chars(t))) >= 2 /\ Sha256(Chars(t))[1] = "sha256"
      /\ Sha256(Chars(t))[2] = w
  BY <1>3, Cons DEF Sha256
<1>5. CASE h = Zeros
  <2>1. HashLen > 0 => h[1] = "00"
    BY <1>5, PlatformsAssumption DEF Zeros
  <2>2. Len(h) = HashLen
    BY <1>5, PlatformsAssumption DEF Zeros
  <2> QED
    BY <1>4, <2>1, <2>2, PlatformsAssumption
<1>6. CASE h = <<"heap">>
  <2>1. Len(h) = 1
    BY <1>6
  <2> QED
    BY <1>4, <2>1
<1>7. ASSUME NEW p \in GenParams, h = Sha256(p.pem_public_key.chars)
      PROVE  Sha256(Chars(t)) # h
  <2> DEFINE k == p.pem_public_key.chars
  <2>1. k \in Seq(STRING)
    BY KeysAssumption DEF Texts
  <2>2. k = <<>> \/ k[1] # w
    BY KeysAssumption
  <2>3. Len(h) = Len(k) + 1 /\ (Len(k) > 0 => h[2] = k[1])
    BY <1>7, <2>1, Cons DEF Sha256
  <2> HIDE DEF k
  <2>4. k = <<>> => Len(k) = 0
    OBVIOUS
  <2>5. k # <<>> => Len(k) > 0
    BY <2>1
  <2> QED
    BY <1>4, <2>2, <2>3, <2>4, <2>5
<1> QED
  BY <1>5, <1>6, <1>7

(* AttrsIsMatch is true only if every attribute passes.                    *)
LEMMA MatchPasses ==
  ASSUME NEW a, NEW e, AttrsIsMatch(a, e) = "true", NEW f \in Attrs
  PROVE  Passes(f, a[f], e[f])
<1>1. PICK k \in DOMAIN AttrOrder : f = AttrOrder[k]
  BY DEF Attrs
<1>2. {j \in DOMAIN AttrOrder : ~Passes(AttrOrder[j], a[AttrOrder[j]],
                                         e[AttrOrder[j]])} = {}
  BY DEF AttrsIsMatch
<1> QED
  BY <1>1, <1>2

(* A nonempty set of naturals has a least element.                         *)
LEMMA Least ==
  ASSUME NEW T, T \subseteq Nat, T # {}
  PROVE  \E x \in T : \A y \in T : x <= y
<1> DEFINE R == {ss \in Nat \X Nat : ss[1] < ss[2]}
<1>1. IsWellFoundedOn(R, Nat)
  BY NatLessThanWellFounded DEF OpToRel
<1>2. \A x, y \in Nat : y < x => <<y, x>> \in R
  OBVIOUS
<1> HIDE DEF R
<1>3. \E x \in T : \A y \in T : ~(<<y, x>> \in R)
  BY <1>1, WFMin
<1>4. PICK x \in T : \A y \in T : ~(<<y, x>> \in R)
  BY <1>3
<1>5. \A y \in T : ~(y < x)
  BY <1>2, <1>4
<1>6. \A y \in T : x <= y
  BY <1>5
<1> QED
  BY <1>6

(* AttrsIsMatch throws only for an attribute compared as a string.         *)
LEMMA ThrowFails ==
  ASSUME NEW a, NEW e, AttrsIsMatch(a, e) = "throw"
  PROVE  \E f \in Attrs \ {"ISVSVN", "DEBUGDISABLED"} : ~Passes(f, a[f], e[f])
<1> DEFINE Failing == {k \in DOMAIN AttrOrder :
                         ~Passes(AttrOrder[k], a[AttrOrder[k]], e[AttrOrder[k]])}
           First == CHOOSE k \in Failing : \A j \in Failing : k <= j
<1>1. Failing # {} /\ AttrOrder[First] \notin {"ISVSVN", "DEBUGDISABLED"}
  BY DEF AttrsIsMatch
<1>2. Failing \subseteq Nat
  BY DEF AttrOrder
<1>3. \E k \in Failing : \A j \in Failing : k <= j
  <2> HIDE DEF Failing
  <2> QED
    BY <1>1, <1>2, Least
<1>4. First \in Failing
  <2> HIDE DEF Failing
  <2> QED
    BY <1>3
<1>5. First \in DOMAIN AttrOrder
      /\ ~Passes(AttrOrder[First], a[AttrOrder[First]], e[AttrOrder[First]])
  BY <1>4
<1> HIDE DEF First
<1> QED
  BY <1>1, <1>5 DEF Attrs

(* AttrsIsMatch returns false only if some attribute does not pass.        *)
LEMMA FalseFails ==
  ASSUME NEW a, NEW e, AttrsIsMatch(a, e) = "false"
  PROVE  \E f \in Attrs : ~Passes(f, a[f], e[f])
<1>1. {k \in DOMAIN AttrOrder : ~Passes(AttrOrder[k], a[AttrOrder[k]],
                                        e[AttrOrder[k]])} # {}
  BY DEF AttrsIsMatch
<1> QED
  BY <1>1 DEF Attrs

(* The bodies of quotes say nothing of the attributes set otherwise.       *)
LEMMA BodyDisjoint ==
  ASSUME platform \in Platforms,
         NEW f \in {"PLATFORM", "USERDATA", "PUBLICKEY", "NONCE"}
  PROVE  f \notin BodyAttrs(platform)
<1>1. platform \in {"SGX_DCAP", "TDX", "CSV"}
  BY PlatformsAssumption
<1> QED
  BY <1>1 DEF BodyAttrs, Sgx2Attrs, TdxAttrs, CsvAttrs

(* What attribute f of an intact quote is after either parser.             *)
LEMMA AttrsAre ==
  ASSUME ParsedAttrs
  PROVE  \E h \in {report.data.high, Zeros, <<"heap">>} : \A f \in Attrs :
           attrs[f] = IF f = "NONCE" /\ platform = "CSV" THEN Text("mnonce")
                                                        ELSE Parsed(h)[f]
<1>1. CASE platform = "CSV"
  <2>1. PICK h \in {report.data.high, Zeros, <<"heap">>} :
          attrs = [Parsed(h) EXCEPT !.NONCE = Text("mnonce")]
    BY <1>1 DEF ParsedAttrs
  <2>2. DOMAIN Parsed(h) = Attrs
    BY DEF Parsed
  <2>3. \A f \in Attrs : attrs[f] = IF f = "NONCE" THEN Text("mnonce")
                                                   ELSE Parsed(h)[f]
    BY <2>1, <2>2
  <2> QED
    BY <1>1, <2>3
<1>2. CASE platform # "CSV"
  BY <1>2 DEF ParsedAttrs
<1> QED
  BY <1>1, <1>2

(* The debug flag the parsers made of a quote is that of the TEE.          *)
LEMMA DebugIs ==
  ASSUME platform \in Platforms, NEW v,
         v = IF Has("DEBUGDISABLED") THEN Hardware[platform].DEBUGDISABLED ELSE Empty
  PROVE  StrToBoolean(v) = DebugDisabled
<1>1. <<"false">> # <<"true">> /\ <<"false">> # <<"1">>
  <2>1. <<"false">>[1] = "false" /\ <<"true">>[1] = "true" /\ <<"1">>[1] = "1"
    OBVIOUS
  <2> QED
    BY <2>1
<1>2. CASE Has("DEBUGDISABLED")
  <2>1. v = Hardware[platform].DEBUGDISABLED
    BY <1>2
  <2>2. CASE v = Text("true")
    BY <1>2, <2>1, <2>2 DEF StrToBoolean, EqualsIgnoreCase, DebugDisabled
  <2>3. CASE v = Text("false")
    BY <1>1, <2>1, <2>3 DEF StrToBoolean, EqualsIgnoreCase, DebugDisabled, Text
  <2> QED
    BY <2>1, <2>2, <2>3, PlatformsAssumption
<1>3. CASE ~Has("DEBUGDISABLED")
  BY <1>3 DEF StrToBoolean, EqualsIgnoreCase, DebugDisabled, Text, Empty
<1> QED
  BY <1>2, <1>3

(* For every attribute but the public key, the comparison of AttrsIsMatch  *)
(* passes an expected text just if the TEE and the data it was given meet  *)
(* the demand.                                                             *)
LEMMA PassesMeets ==
  ASSUME TypeOK, Intact, ParsedAttrs, NEW f \in Attrs \ {"PUBLICKEY"},
         NEW t \in Texts, t.chars # <<>>, t # Empty
  PROVE  Passes(f, attrs[f], t) <=> Meets(f, t)
<1>1. PICK h \in {report.data.high, Zeros, <<"heap">>} : \A g \in Attrs :
        attrs[g] = IF g = "NONCE" /\ platform = "CSV" THEN Text("mnonce")
                                                     ELSE Parsed(h)[g]
  BY AttrsAre
<1>2. platform \in Platforms /\ params \in GenParams /\ report.platform = platform
  BY DEF TypeOK, Intact
<1>3. CASE f = "PLATFORM"
  <2>1. attrs[f] = Text(platform)
    BY <1>1, <1>2, <1>3, BodyDisjoint DEF Parsed
  <2> QED
    BY <1>3, <2>1 DEF Passes, EqualsIgnoreCase, Meets, Text
<1>4. CASE f = "USERDATA"
  <2>1. attrs[f].chars = report.data.low
    BY <1>1, <1>2, <1>4, BodyDisjoint DEF Parsed, BytesToHexString
  <2>2. report.data.low = Padded(Given.chars)
    BY DEF Intact, PrepareReportData, Given, HexStringToBytes
  <2> QED
    BY <1>4, <2>1, <2>2 DEF Passes, EqualsIgnoreCase, Meets
<1>5. CASE f = "NONCE"
  <2>1. CASE platform = "CSV"
    <3>1. attrs[f] = Text("mnonce")
      BY <1>1, <1>5, <2>1
    <3> QED
      BY <1>5, <2>1, <3>1 DEF Passes, EqualsIgnoreCase, Meets, Text
  <2>2. CASE platform # "CSV"
    <3>1. attrs[f] = Empty
      BY <1>1, <1>2, <1>5, <2>2, BodyDisjoint DEF Parsed
    <3> QED
      BY <1>5, <2>2, <3>1 DEF Passes, EqualsIgnoreCase, Empty, Meets
  <2> QED
    BY <2>1, <2>2
<1>6. CASE f \notin {"PLATFORM", "USERDATA", "NONCE"}
  <2>1. attrs[f] = IF Has(f) THEN Hardware[platform][f] ELSE Empty
    BY <1>1, <1>2, <1>6 DEF Parsed, Has
  <2>2. CASE f = "ISVSVN"
    <3>1. Has(f) => Hardware[platform][f] \in DOMAIN Stoi
      <4>1. Has(f) => platform = "SGX_DCAP"
        BY <1>2, <2>2, PlatformsAssumption DEF Has, BodyAttrs, TdxAttrs, CsvAttrs
      <4> QED
        BY <1>2, <2>2, <4>1, PlatformsAssumption
    <3>2. Passes(f, attrs[f], t) <=> IsGreaterEqualThan(attrs[f], t)
      BY <2>2 DEF Passes
    <3>3. Meets(f, t) <=> /\ Has(f) /\ t \in DOMAIN Stoi
                          /\ Stoi[t] <= Stoi[Hardware[platform][f]]
      BY <2>2 DEF Meets
    <3> QED
      BY <2>1, <3>1, <3>2, <3>3, PoliciesAssumption DEF IsGreaterEqualThan
  <2>3. CASE f = "DEBUGDISABLED"
    <3>1. StrToBoolean(attrs[f]) = DebugDisabled
      BY <1>2, <2>1, <2>3, DebugIs
    <3>2. StrToBoolean(t) = (t.chars = <<"true">> \/ t = Text("1"))
      BY DEF StrToBoolean, EqualsIgnoreCase, Text
    <3>3. Passes(f, attrs[f], t) <=> StrToBoolean(t) = StrToBoolean(attrs[f])
      BY <2>3 DEF Passes, IsBoolEqual
    <3>4. Meets(f, t) <=> DebugDisabled = (t.chars = <<"true">> \/ t = Text("1"))
      BY <2>3 DEF Meets
    <3> QED
      BY <3>1, <3>2, <3>3, <3>4
  <2>4. CASE f \notin {"ISVSVN", "DEBUGDISABLED"}
    <3>1. Passes(f, attrs[f], t) <=> t.chars = attrs[f].chars
      BY <1>6, <2>4 DEF Passes, EqualsIgnoreCase
    <3>2. Meets(f, t) <=> Has(f) /\ t.chars = Hardware[platform][f].chars
      BY <1>6, <2>4 DEF Meets
    <3> QED
      BY <2>1, <3>1, <3>2 DEF Empty
  <2> QED
    BY <2>2, <2>3, <2>4
<1> QED
  BY <1>3, <1>4, <1>5, <1>6

(* What policies hold.                                                     *)
LEMMA EntryTexts ==
  ASSUME TypeOK, NEW i \in 1..Len(policy), NEW f \in Attrs, policy[i][f] # Empty
  PROVE  policy[i][f] \in Texts /\ policy[i][f].chars # <<>>
BY PoliciesAssumption DEF TypeOK

(* An entry that matches holds of the TEE and the data it was given.       *)
LEMMA MatchHolds ==
  ASSUME TypeOK, Intact, ParsedAttrs, entry \in 1..Len(policy),
         AttrsIsMatch(attrs, policy[entry]) = "true"
  PROVE  Holds(policy[entry])
<1> SUFFICES ASSUME NEW f \in Attrs, policy[entry][f] # Empty
             PROVE  Meets(f, policy[entry][f])
  BY DEF Holds
<1> DEFINE t == policy[entry][f]
<1>1. t \in Texts /\ t.chars # <<>> /\ t # Empty
  BY EntryTexts
<1>2. Passes(f, attrs[f], t)
  BY MatchPasses
<1> HIDE DEF t
<1>3. CASE f = "PUBLICKEY"
  <2>1. PICK h \in {report.data.high, Zeros, <<"heap">>} : \A g \in Attrs :
          attrs[g] = IF g = "NONCE" /\ platform = "CSV" THEN Text("mnonce")
                                                       ELSE Parsed(h)[g]
    BY AttrsAre
  <2>2. platform \in Platforms /\ params \in GenParams /\ report.platform = platform
    BY DEF TypeOK, Intact
  <2>3. attrs[f].chars = h
    BY <1>3, <2>1, <2>2, BodyDisjoint DEF Parsed, BytesToHexString
  <2>4. Sha256(Chars(t)) = h
    BY <1>1, <1>2, <1>3, <2>3 DEF Passes, EqualsIgnoreCase, BytesToHexString
  <2>5. \/ h = Zeros \/ h = <<"heap">>
        \/ \E p \in GenParams : h = Sha256(p.pem_public_key.chars)
    BY <2>2 DEF Intact, PrepareReportData, HexStringToBytes
  <2> QED
    BY <1>1, <2>4, <2>5, NoKeyMatches
<1>4. CASE f # "PUBLICKEY"
  BY <1>1, <1>2, <1>4, PassesMeets DEF t
<1> QED
  BY <1>3, <1>4

(* Every attribute of an entry that holds and names no public key passes.  *)
LEMMA HoldsPasses ==
  ASSUME TypeOK, Intact, ParsedAttrs, NEW i \in 1..Len(policy),
         policy[i].PUBLICKEY = Empty, Holds(policy[i]), NEW f \in Attrs
  PROVE  Passes(f, attrs[f], policy[i][f])
<1>1. CASE policy[i][f] = Empty
  BY <1>1 DEF Passes
<1>2. CASE policy[i][f] # Empty
  <2>1. f # "PUBLICKEY"
    BY <1>2
  <2>2. Meets(f, policy[i][f])
    BY <1>2 DEF Holds
  <2>3. policy[i][f] \in Texts /\ policy[i][f].chars # <<>>
    BY <1>2, EntryTexts
  <2> QED
    BY <1>2, <2>1, <2>2, <2>3, PassesMeets
<1> QED
  BY <1>1, <1>2

-----------------------------------------------------------------------------
(* The invariant is inductive.                                             *)

(* The invariant holds at the start.                                       *)
LEMMA InvInit == Init => IInv
<1> SUFFICES ASSUME Init PROVE IInv
  OBVIOUS
<1>1. Len(policy) \in Nat
  BY DEF Init
<1>2. TypeOK
  BY <1>1 DEF Init, TypeOK, NoReport, NoAttrs
<1> QED
  BY <1>2 DEF Init, IInv, None

(* A quote whose signatures fit is of the platform of its layout.          *)
LEMMA LayoutPlatform ==
  ASSUME QuoteFits, report.broken = {}, platform \in Platforms
  PROVE  /\ report.layout = "csv" => platform = "CSV"
         /\ report.layout \in {"quote4", "quote5"} => platform = "TDX"
<1>1. platform \in {"SGX_DCAP", "TDX", "CSV"}
  BY PlatformsAssumption
<1>2. /\ QuoteLayouts["SGX_DCAP"] = {"quote3"}
      /\ QuoteLayouts["TDX"] = {"quote4", "quote5"}
      /\ QuoteLayouts["CSV"] = {"csv"}
  BY DEF QuoteLayouts
<1> QED
  BY <1>1, <1>2 DEF QuoteFits

(* What no step but the carrier's changes.                                 *)
LEMMA ReportSame ==
  ASSUME UNCHANGED <<platform, params, report>>
  PROVE  QuoteFits' = QuoteFits /\ Intact' = Intact /\ Signatures' = Signatures
BY DEF QuoteFits, Intact, PrepareReportData, Signatures

(* Every step keeps the invariant.                                         *)
LEMMA InvStep == IInv /\ [Next]_vars => IInv'
<1> SUFFICES ASSUME IInv, [Next]_vars PROVE IInv'
  OBVIOUS
<1>l. Len(policy) \in Nat /\ platform \in {"SGX_DCAP", "TDX", "CSV"}
  BY PoliciesAssumption, PlatformsAssumption DEF IInv, TypeOK
<1>1. ASSUME NEW p \in {"SGX_DCAP", "TDX", "CSV"}, NEW collateral,
             Generate(p, collateral), collateral \subseteq Fields
      PROVE  IInv'
  <2>1. PICK y \in QuoteLayouts[p] : report' = Report(collateral, y)
    BY <1>1 DEF Generate
  <2>2. /\ pc = "generate" /\ pc' = "deliver" /\ platform = p
        /\ UNCHANGED <<platform, params, policy, attrs, entry, status>>
        /\ Signatures' = Signatures /\ PrepareReportData' = PrepareReportData
    BY <1>1 DEF Generate, Signatures, PrepareReportData
  <2>3. y \in Layouts
    BY <2>1 DEF QuoteLayouts, Layouts
  <2>4. /\ report'.collateral \subseteq Fields /\ report'.broken = {}
        /\ report'.layout = y /\ report'.data = PrepareReportData
    BY <1>1, <2>1 DEF Report
  <2>5. TypeOK'
    BY <2>2, <2>3, <2>4 DEF IInv, TypeOK
  <2>6. QuoteFits'
    BY <2>1, <2>2, <2>4 DEF QuoteFits
  <2> QED
    BY <2>2, <2>4, <2>5, <2>6 DEF IInv, VerdictSound
<1>2. CASE Sgx2GenerateReport \/ TdxGenerateReport \/ CsvGenerateReport
  BY <1>1, <1>2 DEF Sgx2GenerateReport, TdxGenerateReport, CsvGenerateReport, Fields
<1>3. CASE GenerateError
  BY <1>3 DEF GenerateError, Finish, IInv, TypeOK, Signatures, None, VerdictSound
<1>4. CASE Deliver
  <2>1. pc = "deliver" /\ pc' = "init"
        /\ UNCHANGED <<platform, params, policy, report, attrs, entry, status>>
    BY <1>4 DEF Deliver
  <2> QED
    BY <2>1, ReportSame DEF IInv, TypeOK, VerdictSound
<1>5. CASE DeliverAltered
  <2>1. PICK l \in Labels, c \in Collaterals, y \in Layouts,
             d \in {report.data, OtherData}, b \in {{}} \cup {{k} : k \in Signatures} :
          /\ <<y, d>> # <<report.layout, report.data>> => "quote" \in b
          /\ report' = [version |-> l.version, type |-> l.type,
                        platform |-> l.platform, collateral |-> c,
                        layout |-> y, data |-> d, broken |-> b]
    BY <1>5 DEF DeliverAltered
  <2>2. /\ pc = "deliver" /\ pc' = "init"
        /\ UNCHANGED <<platform, params, policy, attrs, entry, status>>
        /\ Signatures' = Signatures /\ PrepareReportData' = PrepareReportData
    BY <1>5 DEF DeliverAltered, Signatures, PrepareReportData
  <2>3. c \subseteq Fields /\ b \subseteq Signatures
    BY AlteredAssumption
  <2>4. /\ report'.collateral = c /\ report'.broken = b
        /\ report'.layout = y /\ report'.data = d
    BY <2>1
  <2>5. TypeOK'
    BY <2>2, <2>3, <2>4 DEF IInv, TypeOK
  <2>6. b = {} => y = report.layout /\ d = report.data
    BY <2>1
  <2>7. QuoteFits'
    BY <2>2, <2>4, <2>6 DEF QuoteFits, IInv
  <2> QED
    BY <2>2, <2>5, <2>7 DEF IInv, VerdictSound
<1>6. ASSUME NEW p, NEW ok, Create(p, ok), p = "CSV" /\ ok => report.layout = "csv"
      PROVE  IInv'
  <2>1. UNCHANGED <<platform, params, policy, report, attrs, entry>>
        /\ pc = "init" /\ report.platform = p
    BY <1>6 DEF Create
  <2>2. \/ pc' = "platform" /\ UNCHANGED status /\ ok
        \/ pc' = "done" /\ status' = "error"
    BY <1>6 DEF Create, Finish
  <2>3. TypeOK'
    BY <2>1, <2>2, ReportSame DEF IInv, TypeOK
  <2> QED
    BY <1>6, <2>1, <2>2, <2>3, ReportSame DEF IInv, VerdictSound
<1>7. CASE Sgx2Init \/ TdxInit \/ CsvInit
  BY <1>6, <1>7 DEF Sgx2Init, TdxInit, CsvInit, CsvJson
<1>8. CASE CreateError \/ ParseError
  BY <1>8, ReportSame DEF CreateError, ParseError, Finish, IInv, TypeOK, VerdictSound
<1>9. ASSUME NEW ok, pc = "platform", AfterPlatform(ok),
             ok => report.broken = {} /\ report.platform \in {platform, "TDX"}
      PROVE  IInv'
  <2>1. UNCHANGED <<platform, params, policy, report, attrs, entry>>
    BY <1>9 DEF AfterPlatform
  <2>2. \/ pc' = "parse" /\ UNCHANGED status /\ ok
        \/ pc' = "done" /\ status' = "error"
    BY <1>9 DEF AfterPlatform, Finish
  <2>3. TypeOK'
    BY <2>1, <2>2, ReportSame DEF IInv, TypeOK
  <2> QED
    BY <1>9, <2>1, <2>2, <2>3, ReportSame DEF IInv, VerdictSound
<1>10. CASE Sgx2VerifyPlatform
  <2>1. PICK q \in QvResults({"SGX_DCAP"}) :
          AfterPlatform(InitializeCollateralData /\ q \in AcceptedResults)
    BY <1>10 DEF Sgx2VerifyPlatform
  <2>2. q \in AcceptedResults => report.broken = {} /\ platform = "SGX_DCAP"
    BY DEF AcceptedResults, QvResults
  <2> QED
    BY <1>9, <1>10, <2>1, <2>2 DEF Sgx2VerifyPlatform
<1>11. CASE TdxVerifyPlatform
  <2>1. PICK q \in QvResults({"SGX_DCAP", "TDX"}) :
          AfterPlatform(InitializeCollateralData /\ q \in AcceptedResults)
    BY <1>11 DEF TdxVerifyPlatform
  <2>2. q \in AcceptedResults => report.broken = {}
    BY DEF AcceptedResults, QvResults
  <2> QED
    BY <1>9, <1>11, <2>1, <2>2 DEF TdxVerifyPlatform
<1>12. CASE CsvVerifyPlatform
  <2> DEFINE Chain == /\ VerifyHskCertWithHrkPubkey /\ VerifyCekCertWithHskCert
                      /\ VerifyPekCertWithCekCert /\ VerifyQuoteSignature
  <2>1. report.broken \subseteq {"hsk", "cek", "pek", "quote"}
    BY DEF IInv, TypeOK, Signatures
  <2>2. Chain => report.broken = {}
    BY <2>1 DEF VerifyHskCertWithHrkPubkey, VerifyCekCertWithHskCert,
                VerifyPekCertWithCekCert, VerifyQuoteSignature
  <2>3. pc = "platform" /\ report.platform = "CSV" /\ AfterPlatform(Chain)
    BY <1>12 DEF CsvVerifyPlatform
  <2>4. report.broken = {} => platform = "CSV"
    BY <2>3, LayoutPlatform DEF IInv, TypeOK
  <2> QED
    BY <1>9, <2>2, <2>3, <2>4
<1>13. CASE ParseUnifiedReport \/ CsvParseUnifiedReport
  <2>1. /\ UNCHANGED <<platform, params, report, entry, status>>
        /\ pc = "parse" /\ pc' = "attributes" /\ policy' \in Policies
    BY <1>13 DEF ParseUnifiedReport, CsvParseUnifiedReport
  <2>i. Intact
    <3>1. report.broken = {} /\ QuoteFits /\ report.platform \in {platform, "TDX"}
      BY <2>1 DEF IInv
    <3>2. report.platform = "TDX" => platform = "TDX"
      <4>1. report.platform = "TDX" => report.layout \in {"quote4", "quote5"}
        BY <1>13 DEF ParseUnifiedReport, CsvParseUnifiedReport, QuoteParses
      <4> QED
        BY <3>1, <4>1, LayoutPlatform DEF IInv, TypeOK
    <3> QED
      BY <3>1, <3>2 DEF Intact, QuoteFits
  <2>2. ParsedAttrs' /\ DOMAIN attrs' = Attrs
    <3>1. \A h : Parsed(h)' = Parsed(h) /\ DOMAIN Parsed(h) = Attrs
      BY <2>1 DEF Parsed
    <3>2. CASE ParseUnifiedReport
      <4>1. platform' # "CSV" /\ attrs' = Parsed(report.data.high)
        BY <2>1, <2>i, <3>2 DEF ParseUnifiedReport, Intact
      <4> QED
        BY <2>1, <3>1, <4>1 DEF ParsedAttrs
    <3>3. CASE CsvParseUnifiedReport
      <4>1. PICK h \in {report.data.high, Zeros, <<"heap">>} :
              attrs' = [Parsed(h) EXCEPT !.NONCE = Text("mnonce")]
        BY <3>3 DEF CsvParseUnifiedReport
      <4>2. Zeros' = Zeros /\ Text("mnonce")' = Text("mnonce")
        BY DEF Zeros, Text
      <4>3. platform' = "CSV" /\ DOMAIN attrs' = Attrs
        BY <2>1, <2>i, <3>1, <3>3, <4>1 DEF CsvParseUnifiedReport, Intact
      <4> QED
        BY <2>1, <3>1, <4>1, <4>2, <4>3 DEF ParsedAttrs
    <3> QED
      BY <1>13, <3>2, <3>3
  <2>3. entry = 1
    BY <2>1 DEF IInv
  <2>4. TypeOK'
    <3>1. Len(policy') \in Nat
      BY <2>1, PoliciesAssumption
    <3>2. entry' \in 1..Len(policy') + 1
      BY <2>1, <2>3, <3>1
    <3> QED
      BY <2>1, <2>2, <3>2, ReportSame DEF IInv, TypeOK
  <2> QED
    BY <2>1, <2>2, <2>i, <2>4, ReportSame DEF IInv, VerdictSound
<1>14. CASE MatchEntry
  <2>1. UNCHANGED <<platform, params, policy, report, attrs, entry>>
        /\ pc = "attributes" /\ pc' = "done" /\ status' = "ok"
        /\ entry \in 1..Len(policy)
    BY <1>14, <1>l DEF MatchEntry, Finish, IInv, TypeOK
  <2>2. Holds(policy[entry])
    BY <1>14, <2>1, MatchHolds DEF MatchEntry, IInv
  <2>3. SomeEntryHolds' = SomeEntryHolds
    BY <2>1 DEF SomeEntryHolds, Holds, Meets, Has, DebugDisabled, Given
  <2>4. VerdictSound'
    BY <2>1, <2>2, <2>3, ReportSame DEF SomeEntryHolds, VerdictSound, IInv, Intact
  <2>5. TypeOK'
    BY <2>1 DEF IInv, TypeOK, Signatures
  <2> QED
    BY <2>1, <2>4, <2>5 DEF IInv
<1>15. CASE NextEntry
  <2>a. UNCHANGED <<pc, platform, params, policy, report, attrs, status>>
        /\ pc = "attributes" /\ entry <= Len(policy) /\ entry' = entry + 1
    BY <1>15 DEF NextEntry
  <2>e. entry' \in 1..Len(policy) + 1
    BY <1>l, <2>a DEF IInv, TypeOK
  <2>1. UNCHANGED <<pc, platform, params, policy, report, attrs, status>>
        /\ pc = "attributes" /\ entry' \in 1..Len(policy) + 1
    BY <2>a, <2>e
  <2>2. TypeOK' /\ ParsedAttrs'
    BY <2>1 DEF IInv, TypeOK, Signatures, ParsedAttrs, Parsed
  <2> QED
    BY <2>1, <2>2, ReportSame DEF IInv
<1>16. CASE EntryThrows \/ NoEntryLeft
  BY <1>16 DEF EntryThrows, NoEntryLeft, Finish, IInv, TypeOK, Signatures, VerdictSound
<1>17. CASE UNCHANGED vars
  <2>1. TypeOK'
    BY <1>17 DEF vars, IInv, TypeOK, Signatures
  <2>2. SomeEntryHolds' = SomeEntryHolds
    BY <1>17 DEF vars, SomeEntryHolds, Holds, Meets, Has, DebugDisabled, Given
  <2>3. ParsedAttrs' = ParsedAttrs /\ VerdictSound' = VerdictSound
    BY <1>17, <2>2 DEF vars, ParsedAttrs, Parsed, VerdictSound, PrepareReportData
  <2> QED
    BY <1>17, <2>1, <2>3, ReportSame DEF vars, IInv
<1> QED
  BY <1>2, <1>3, <1>4, <1>5, <1>7, <1>8, <1>10, <1>11, <1>12, <1>13, <1>14, <1>15,
     <1>16, <1>17
  DEF Next

(* Variables have their types: signatures that no longer fit are those of  *)
(* the platform, and the loop of VerifyAttributes stays in the policy.     *)
THEOREM AttestationType == Spec => []TypeOK
<1>1. IInv => TypeOK
  BY DEF IInv
<1> QED
  BY <1>1, InvInit, InvStep, PTL DEF Spec

(* VerifyReport accepts only what a verifying party may rely on, for all   *)
(* parameters, policies, hardware and lengths of hashes.                   *)
THEOREM VerdictIsSound == Spec => []VerdictSound
<1>1. IInv => VerdictSound
  BY DEF IInv, VerdictSound
<1> QED
  BY <1>1, InvInit, InvStep, PTL DEF Spec

-----------------------------------------------------------------------------
(* VerifyAttributes is exact.                                              *)

(* Of the entries that name no public key none that was tried holds, and   *)
(* before the policy is tried there are no attributes.                     *)
TriedInv ==
  /\ pc \in {"generate", "deliver", "init", "platform", "parse"} =>
       attrs = NoAttrs /\ entry = 1
  /\ pc = "attributes" =>
       \A j \in 1..(entry - 1) : policy[j].PUBLICKEY = Empty => ~Holds(policy[j])
  /\ VersionsExact

(* Whether an entry holds depends on the TEE and the parameters alone.     *)
LEMMA HoldsSame ==
  ASSUME UNCHANGED <<platform, params, policy>>
  PROVE  /\ \A i : Holds(policy[i])' <=> Holds(policy[i])
         /\ SomeEntryHolds' <=> SomeEntryHolds
<1>1. \A f, t : Meets(f, t)' <=> Meets(f, t)
  BY DEF Meets, Has, DebugDisabled, Given
<1>2. \A i : Holds(policy[i])' <=> Holds(policy[i])
  BY <1>1 DEF Holds
<1> QED
  BY <1>2 DEF SomeEntryHolds

(* No entry has been tried at the start.                                   *)
LEMMA TriedInit == Init => TriedInv
BY DEF Init, TriedInv, VersionsExact, Tried

(* An entry is left only once it was tried.                                *)
LEMMA TriedStep == IInv /\ IInv' /\ TriedInv /\ [Next]_vars => TriedInv'
<1> SUFFICES ASSUME IInv, IInv', TriedInv, [Next]_vars PROVE TriedInv'
  OBVIOUS
<1> DEFINE Before == {"generate", "deliver", "init", "platform", "parse"}
<1>l. Len(policy) \in Nat /\ entry \in 1..Len(policy) + 1
  BY PoliciesAssumption DEF IInv, TypeOK
<1>1. ASSUME pc \in Before, pc' \in Before \cup {"done"}, UNCHANGED <<attrs, entry>>
      PROVE  TriedInv'
  <2>1. attrs' = NoAttrs /\ entry' = 1
    BY <1>1 DEF TriedInv
  <2>2. ~Tried'
    BY <2>1 DEF Tried, NoAttrs
  <2> QED
    BY <1>1, <2>1, <2>2 DEF TriedInv, VersionsExact, NoAttrs
<1>2. CASE \/ Sgx2GenerateReport \/ TdxGenerateReport \/ CsvGenerateReport
           \/ GenerateError \/ Deliver \/ DeliverAltered
  BY <1>1, <1>2 DEF Sgx2GenerateReport, TdxGenerateReport, CsvGenerateReport,
     Generate, GenerateError, Deliver, DeliverAltered, Finish
<1>3. CASE \/ Sgx2Init \/ TdxInit \/ CsvInit \/ CreateError \/ ParseError
           \/ Sgx2VerifyPlatform \/ TdxVerifyPlatform \/ CsvVerifyPlatform
  BY <1>1, <1>3 DEF Sgx2Init, TdxInit, CsvInit, Create, CreateError, ParseError,
     Sgx2VerifyPlatform, TdxVerifyPlatform, CsvVerifyPlatform, AfterPlatform, Finish
<1>4. CASE ParseUnifiedReport \/ CsvParseUnifiedReport
  <2>1. pc = "parse" /\ pc' = "attributes" /\ entry' = entry
    BY <1>4 DEF ParseUnifiedReport, CsvParseUnifiedReport
  <2>2. entry' = 1
    BY <2>1 DEF TriedInv
  <2>3. ~Tried'
    BY <2>1 DEF Tried
  <2>4. VersionsExact'
    BY <2>3 DEF VersionsExact
  <2>5. 1..(entry' - 1) = {}
    BY <2>2
  <2> QED
    BY <2>1, <2>4, <2>5 DEF TriedInv
<1>5. CASE MatchEntry
  <2>1. pc' = "done" /\ status' = "ok"
    BY <1>5 DEF MatchEntry, Finish
  <2> QED
    BY <2>1 DEF TriedInv, VersionsExact, IInv, VerdictSound
<1>6. CASE NextEntry
  <2>1. /\ pc = "attributes" /\ pc' = pc /\ entry \in 1..Len(policy)
        /\ entry' = entry + 1 /\ UNCHANGED <<platform, params, policy>>
        /\ AttrsIsMatch(attrs, policy[entry]) = "false"
    BY <1>6, <1>l DEF NextEntry
  <2>2. TypeOK /\ Intact /\ ParsedAttrs
    BY <2>1 DEF IInv
  <2>3. policy[entry].PUBLICKEY = Empty => ~Holds(policy[entry])
    <3>1. PICK f \in Attrs : ~Passes(f, attrs[f], policy[entry][f])
      BY <2>1, FalseFails
    <3> QED
      BY <2>1, <2>2, <3>1, HoldsPasses
  <2>4. \A j \in 1..entry : policy[j].PUBLICKEY = Empty => ~Holds(policy[j])
    <3> SUFFICES ASSUME NEW j \in 1..entry, policy[j].PUBLICKEY = Empty
                 PROVE  ~Holds(policy[j])
      OBVIOUS
    <3>1. j = entry \/ j \in 1..(entry - 1)
      BY <2>1
    <3> QED
      BY <2>1, <2>3, <3>1 DEF TriedInv
  <2>5. \A j \in 1..(entry' - 1) : policy'[j].PUBLICKEY = Empty => ~Holds(policy[j])'
    <3>1. entry' - 1 = entry
      BY <2>1
    <3> QED
      BY <2>1, <2>4, <3>1, HoldsSame
  <2> QED
    BY <2>1, <2>5 DEF TriedInv, VersionsExact, Tried
<1>7. CASE EntryThrows
  <2>1. /\ pc = "attributes" /\ pc' = "done" /\ entry \in 1..Len(policy)
        /\ status' = "error" /\ UNCHANGED <<platform, params, policy>>
        /\ AttrsIsMatch(attrs, policy[entry]) = "throw"
    BY <1>7, <1>l DEF EntryThrows, Finish
  <2>2. TypeOK /\ Intact /\ ParsedAttrs
    BY <2>1 DEF IInv
  <2>3. PICK f \in Attrs \ {"ISVSVN", "DEBUGDISABLED"} :
          ~Passes(f, attrs[f], policy[entry][f])
    BY <2>1, ThrowFails
  <2>4. ASSUME NEW i \in 1..Len(policy), Holds(policy[i]),
               policy[i].PUBLICKEY = Empty,
               SameButVersions(policy[1], policy[i]),
               SameButVersions(policy[1], policy[entry])
        PROVE  FALSE
    <3>1. policy[i][f] = policy[entry][f]
      BY <2>4 DEF SameButVersions
    <3> QED
      BY <2>2, <2>3, <2>4, <3>1, HoldsPasses
  <2>5. (\A i \in 1..Len(policy) :
           policy[i].PUBLICKEY = Empty /\ SameButVersions(policy[1], policy[i]))
        => ~SomeEntryHolds
    BY <2>1, <2>4 DEF SomeEntryHolds
  <2>6. VersionsExact'
    BY <2>1, <2>5, HoldsSame DEF VersionsExact, SameButVersions
  <2> QED
    BY <2>1, <2>6 DEF TriedInv
<1>8. CASE NoEntryLeft
  <2>1. /\ pc = "attributes" /\ pc' = "done" /\ entry = Len(policy) + 1
        /\ status' = "error" /\ UNCHANGED <<platform, params, policy>>
    BY <1>8, <1>l DEF NoEntryLeft, Finish
  <2>2. \A j \in 1..Len(policy) : policy[j].PUBLICKEY = Empty => ~Holds(policy[j])
    <3>1. entry - 1 = Len(policy)
      BY <1>l, <2>1
    <3> QED
      BY <2>1, <3>1 DEF TriedInv
  <2>3. VersionsExact'
    BY <2>1, <2>2, HoldsSame DEF VersionsExact, SameButVersions, SomeEntryHolds
  <2> QED
    BY <2>1, <2>3 DEF TriedInv
<1>9. CASE UNCHANGED vars
  <2>1. UNCHANGED <<pc, attrs, entry, status, platform, params, policy>>
    BY <1>9 DEF vars
  <2>2. VersionsExact'
    BY <2>1, HoldsSame DEF TriedInv, VersionsExact, Tried, SameButVersions, NoAttrs
  <2>3. \A j : policy'[j] = policy[j] /\ (Holds(policy[j])' <=> Holds(policy[j]))
    BY <2>1, HoldsSame
  <2> QED
    BY <2>1, <2>2, <2>3 DEF TriedInv, NoAttrs
<1> QED
  BY <1>2, <1>3, <1>4, <1>5, <1>6, <1>7, <1>8, <1>9 DEF Next

(* A policy whose entries differ in versions and the debug flag only and   *)
(* names no public key is decided exactly: the report of a verified        *)
(* platform is accepted if and only if some entry holds, for policies of   *)
(* any length and any texts.                                               *)
THEOREM VersionsAreExact == Spec => []VersionsExact
<1>1. TriedInv => VersionsExact
  BY DEF TriedInv
<1>2. Spec => []IInv
  BY InvInit, InvStep, PTL DEF Spec
<1> QED
  BY <1>1, <1>2, TriedInit, TriedStep, PTL DEF Spec
=============================================================================
