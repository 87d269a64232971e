------------------------- MODULE AttestationApiProofs -------------------------
(***************************************************************************)
(* Proofs about AttestationApi, for buffers, texts and JSON of any size.   *)
(***************************************************************************)
EXTENDS AttestationProofs

-----------------------------------------------------------------------------
(* The interface implements Attestation.                                   *)

(* Every step of the interface is a step of Attestation.                   *)
LEMMA ApiStep == [ApiNext]_<<vars, avars>> => [Next]_vars
<1>1. CASE GenerateAttestationReport
  BY <1>1 DEF GenerateAttestationReport, Next
<1>2. CASE Arrive
  BY <1>2 DEF Arrive, Next
<1>3. CASE ParseAttributesFromReport
  BY <1>3 DEF ParseAttributesFromReport
<1>4. CASE AttestationReportVerify
  BY <1>4 DEF AttestationReportVerify, Verifying, Next
<1>5. CASE UNCHANGED <<vars, avars>>
  BY <1>5
<1> QED
  BY <1>1, <1>2, <1>3, <1>4, <1>5 DEF ApiNext

(* Calling attestation through the C interface, parsing the attributes in  *)
(* between, adds no behaviour: the report and the verdict evolve as in     *)
(* Attestation.                                                            *)
THEOREM ApiImplements == ApiSpec => Spec
<1>1. ApiInit => Init
  BY DEF ApiInit
<1> QED
  BY <1>1, ApiStep, PTL DEF ApiSpec, Spec

(* A verdict that reaches a caller of the C interface is sound.            *)
THEOREM ApiVerdictIsSound == ApiSpec => []VerdictSound
BY ApiImplements, VerdictIsSound, PTL

(* A caller of the C interface is refused no report that a policy of       *)
(* versions should accept.                                                 *)
THEOREM ApiVersionsAreExact == ApiSpec => []VersionsExact
BY ApiImplements, VersionsAreExact, PTL

-----------------------------------------------------------------------------
(* Strings.                                                                *)

(* strlen stays in the buffer and finds the first terminator, if any.      *)
LEMMA strlenFinds ==
  ASSUME NEW n \in Nat, NEW b, b.chars \in [1..n -> Nat]
  PROVE  /\ strlen(b) \in 0..n
         /\ strlen(b) < n => b.chars[strlen(b) + 1] = NUL
         /\ \A i \in 1..strlen(b) : b.chars[i] # NUL
<1>1. Size(b) = n
  BY DEF Size
<1> DEFINE Ends == {k \in 1..n : b.chars[k] = NUL}
<1>2. \E m \in 0..Size(b) : /\ m < Size(b) => b.chars[m + 1] = NUL
                            /\ \A i \in 1..m : b.chars[i] # NUL
  <2>1. CASE Ends = {}
    <3>1. \A i \in 1..n : b.chars[i] # NUL
      BY <2>1
    <3>2. n \in 0..Size(b) /\ ~(n < Size(b))
      BY <1>1
    <3> QED
      BY <3>1, <3>2
  <2>2. CASE Ends # {}
    <3>1. PICK k \in Ends : \A j \in Ends : k <= j
      <4>1. Ends \subseteq Nat
        OBVIOUS
      <4> HIDE DEF Ends
      <4> QED
        BY <2>2, <4>1, Least
    <3>2. k - 1 \in 0..Size(b) /\ b.chars[(k - 1) + 1] = NUL
      BY <1>1, <3>1
    <3>3. \A i \in 1..(k - 1) : b.chars[i] # NUL
      BY <3>1
    <3> QED
      BY <3>2, <3>3
  <2> QED
    BY <2>1, <2>2
<1> QED
  BY <1>1, <1>2 DEF strlen

(* A buffer of n bytes, with a length within it, and one of at most size.  *)
Fits(b, n) == b \in [chars : [1..n -> Nat], len : 0..n]
IsBuffer(b, size) == \E n \in 0..size : Fits(b, n)

(* A buffer that a call has returned holds a string and its length.        *)
IsString(b) == b.len > 0 => b.chars[b.len] = NUL /\ b.len = strlen(b) + 1

(* A buffer of m equal characters.                                         *)
LEMMA FilledBuffer ==
  ASSUME NEW size \in Nat, NEW m \in 0..size, NEW c \in Nat
  PROVE  IsBuffer(Filled(m, c), size)
BY DEF Filled, IsBuffer, Fits

(* strncpy stays within its buffer.                                        *)
LEMMA strncpyBuffer ==
  ASSUME NEW size \in Nat, NEW b, IsBuffer(b, size), NEW n \in Nat, NEW c \in Nat
  PROVE  IsBuffer(strncpy(b, n, c), size)
<1>1. PICK m \in 0..size : Fits(b, m)
  BY DEF IsBuffer
<1>2. Fits(strncpy(b, n, c), m)
  BY <1>1 DEF Fits, strncpy, NUL
<1> QED
  BY <1>2 DEF IsBuffer

(* What ending the string in a buffer does: the terminator is put before   *)
(* strlen looks for it.                                                    *)
LEMMA EndedIs ==
  ASSUME NEW m \in Nat, NEW b, Fits(b, m), b.len > 0
  PROVE  /\ Ended(b).chars = [b.chars EXCEPT ![b.len] = NUL]
         /\ Fits(Ended(b), m)
         /\ strlen(Ended(b)) \in Nat /\ strlen(Ended(b)) < b.len
         /\ Ended(b).len = strlen(Ended(b)) + 1
         /\ Ended(b).chars[Ended(b).len] = NUL
         /\ \A i \in 1..strlen(Ended(b)) : Ended(b).chars[i] # NUL
<1> DEFINE e == [b EXCEPT !.chars[b.len] = NUL]
           r == [e EXCEPT !.len = strlen(e) + 1]
<1>1. b.len \in 1..m /\ b.chars \in [1..m -> Nat] /\ NUL \in Nat
  BY DEF Fits, NUL
<1>2. e = [chars |-> [b.chars EXCEPT ![b.len] = NUL], len |-> b.len]
  <2>1. b = [chars |-> b.chars, len |-> b.len]
    BY DEF Fits
  <2>2. \A w, k : [[chars |-> w, len |-> k] EXCEPT !.chars[k] = NUL]
                  = [chars |-> [w EXCEPT ![k] = NUL], len |-> k]
    OBVIOUS
  <2> QED
    BY <2>1, <2>2
<1> HIDE DEF e
<1>3. e.chars = [b.chars EXCEPT ![b.len] = NUL] /\ e.len = b.len
  BY <1>2
<1>4. e.chars \in [1..m -> Nat] /\ e.chars[b.len] = NUL
  BY <1>1, <1>3
<1>5. /\ strlen(e) \in 0..m
      /\ strlen(e) < m => e.chars[strlen(e) + 1] = NUL
      /\ \A i \in 1..strlen(e) : e.chars[i] # NUL
  BY <1>4, strlenFinds
<1>6. strlen(e) < b.len
  BY <1>1, <1>4, <1>5
<1>7. strlen(e) + 1 \in 1..m /\ e.chars[strlen(e) + 1] = NUL
  BY <1>1, <1>5, <1>6
<1>8. r = [chars |-> e.chars, len |-> strlen(e) + 1]
  <2> DEFINE k == strlen(e) + 1
  <2> HIDE DEF k
  <2> SUFFICES [e EXCEPT !.len = k] = [chars |-> e.chars, len |-> k]
    BY DEF k
  <2> QED
    BY <1>2
<1>9. Ended(b) = r
  BY DEF Ended, e
<1> HIDE DEF r
<1>10. strlen(r) = strlen(e)
  BY <1>8 DEF strlen, Size
<1>11. r.chars = e.chars /\ r.len = strlen(e) + 1
       /\ Fits(r, m)
  <2>1. strlen(e) + 1 \in 0..m
    BY <1>7
  <2> HIDE DEF e
  <2> QED
    BY <1>4, <1>8, <2>1 DEF Fits
<1> QED
  BY <1>3, <1>5, <1>6, <1>7, <1>9, <1>10, <1>11

(* Ending a buffer stays within it and leaves a string.                    *)
LEMMA EndedBuffer ==
  ASSUME NEW size \in Nat, NEW b, IsBuffer(b, size)
  PROVE  IsBuffer(Ended(b), size) /\ IsString(Ended(b))
<1>1. PICK m \in 0..size : Fits(b, m)
  BY DEF IsBuffer
<1>2. CASE b.len = 0
  BY <1>2 DEF Ended, IsString
<1>3. CASE b.len > 0
  <2>1. m \in Nat
    OBVIOUS
  <2>2. /\ Fits(Ended(b), m) /\ Ended(b).len = strlen(Ended(b)) + 1
        /\ Ended(b).chars[Ended(b).len] = NUL
    BY <1>1, <1>3, <2>1, EndedIs
  <2> QED
    BY <2>2 DEF IsBuffer, IsString
<1> QED
  BY <1>1, <1>2, <1>3 DEF Fits

(* The output of a call stays within its buffer.                           *)
LEMMA OutputBuffer ==
  ASSUME NEW b, IsBuffer(b, OutSize), NEW n \in Nat, n <= b.len, NEW c \in Nat
  PROVE  IsBuffer(Output(b, n, c), OutSize)
<1>1. PICK m \in 0..OutSize : Fits(b, m)
  BY DEF IsBuffer
<1>2. Fits(Output(b, n, c), m)
  BY <1>1 DEF Fits, Output
<1> QED
  BY <1>2 DEF IsBuffer

-----------------------------------------------------------------------------
(* The buffers of the callers.                                             *)

BufferInv ==
  /\ IsBuffer(msg, MsgSize) /\ IsBuffer(details, DetailsSize)
  /\ IsBuffer(out, OutSize)
  /\ last.call \in Nat
  /\ Returned => IsString(msg) /\ IsString(details)

(* The buffers that a caller passes keep their sizes.                      *)
LEMMA GivenBuffers ==
  ASSUME BufferInv
  PROVE  /\ IsBuffer(GivenMsg, MsgSize) /\ IsBuffer(GivenDetails, DetailsSize)
         /\ IsBuffer(GivenOut, OutSize)
<1>1. NUL \in Nat /\ 0 \in 0..DetailsSize /\ MsgSize \in 0..MsgSize
      /\ OutSize \in 0..OutSize /\ {MsgSize, DetailsSize, OutSize} \subseteq Nat
  BY SizesAssumption DEF NUL
<1> QED
  BY <1>1, FilledBuffer DEF BufferInv, GivenMsg, GivenDetails, GivenOut

(* Both ends of a call return strings.                                     *)
LEMMA CallEnds ==
  ASSUME BufferInv, Succeeds \/ Fails
  PROVE  /\ IsBuffer(msg, MsgSize)' /\ IsBuffer(details, DetailsSize)'
         /\ IsString(msg)' /\ IsString(details)'
         /\ last'.call \in Nat
<1>s. MsgSize \in Nat /\ DetailsSize \in Nat /\ TextSizes \subseteq Nat
  BY SizesAssumption
<1>g. IsBuffer(GivenMsg, MsgSize) /\ IsBuffer(GivenDetails, DetailsSize)
      /\ Call \in Nat
  BY GivenBuffers DEF BufferInv, Call
<1>1. CASE Succeeds
  <2>1. msg' = Ended(GivenMsg) /\ details' = Ended(GivenDetails) /\ last'.call = Call
    BY <1>1 DEF Succeeds
  <2>2. IsBuffer(msg', MsgSize) /\ IsString(msg')
    BY <1>s, <1>g, <2>1, EndedBuffer
  <2>3. IsBuffer(details', DetailsSize) /\ IsString(details')
    BY <1>s, <1>g, <2>1, EndedBuffer
  <2> QED
    BY <1>g, <2>1, <2>2, <2>3
<1>2. CASE Fails
  <2>1. PICK ex \in Exceptions, n \in TextSizes : Throws(ex, n)
    BY <1>2 DEF Fails
  <2>2. n \in Nat
    BY <1>s
  <2>3. /\ IsBuffer(strncpy(GivenMsg, n, Call), MsgSize)
        /\ IsBuffer(strncpy(GivenDetails, n, Call), DetailsSize)
    BY <1>s, <1>g, <2>2, strncpyBuffer
  <2>4. msg' = Ended(strncpy(GivenMsg, n, Call)) /\ last'.call = Call
    BY <2>1 DEF Throws
  <2>5. \/ details' = Ended(GivenDetails)
        \/ details' = Ended(strncpy(GivenDetails, n, Call))
    BY <2>1 DEF Throws
  <2>6. IsBuffer(msg', MsgSize) /\ IsString(msg')
    BY <1>s, <2>3, <2>4, EndedBuffer
  <2>7. IsBuffer(details', DetailsSize) /\ IsString(details')
    BY <1>s, <1>g, <2>3, <2>5, EndedBuffer
  <2> QED
    BY <1>g, <2>4, <2>6, <2>7
<1> QED
  BY <1>1, <1>2

(* The buffers at the start.                                               *)
LEMMA BufferInit == ApiInit => BufferInv
<1> SUFFICES ASSUME ApiInit PROVE BufferInv
  OBVIOUS
<1>1. /\ MsgSize \in Nat /\ DetailsSize \in Nat /\ OutSize \in Nat
      /\ MsgSize \in 0..MsgSize /\ DetailsSize \in 0..DetailsSize
      /\ OutSize \in 0..OutSize
  BY SizesAssumption
<1>2. PICK c \in Memory(caller) : /\ msg = Filled(MsgSize, c)
                                 /\ details = Filled(DetailsSize, c)
                                 /\ out = Filled(OutSize, c)
  BY DEF ApiInit
<1>3. c \in Nat
  BY DEF Memory, NUL
<1>4. last.call = 1
  BY DEF ApiInit, NoCall
<1> QED
  BY <1>1, <1>2, <1>3, <1>4, FilledBuffer DEF BufferInv, Returned

(* A call with output that succeeds, and a call that fails.                *)
LEMMA OutputEnds ==
  ASSUME BufferInv,
         (\E n \in JsonSizes : SucceedsWith(n)) \/ (Fails /\ out' = GivenOut)
  PROVE  BufferInv'
<1>1. IsBuffer(GivenOut, OutSize) /\ Call \in Nat
  BY GivenBuffers DEF BufferInv, Call
<1>2. IsBuffer(out', OutSize)
  <2>1. CASE \E n \in JsonSizes : SucceedsWith(n)
    <3>1. PICK n \in JsonSizes : n <= GivenOut.len /\ out' = Output(GivenOut, n, Call)
      BY <2>1 DEF SucceedsWith
    <3> QED
      BY <1>1, <3>1, OutputBuffer, SizesAssumption
  <2>2. CASE out' = GivenOut
    BY <1>1, <2>2
  <2> QED
    BY <2>1, <2>2
<1>3. Succeeds \/ Fails
  BY DEF SucceedsWith
<1> QED
  BY <1>2, <1>3, CallEnds DEF BufferInv

(* A step of AttestationReportVerify that does not return leaves the call  *)
(* running.                                                                *)
LEMMA StillRunning ==
  ASSUME Verifying, status' = None
  PROVE  pc' \in {"platform", "parse", "attributes"}
BY DEF Verifying, Sgx2Init, TdxInit, CsvInit, Create, CreateError,
  Sgx2VerifyPlatform, TdxVerifyPlatform, CsvVerifyPlatform, AfterPlatform,
  ParseUnifiedReport, CsvParseUnifiedReport, ParseError, MatchEntry, NextEntry, EntryThrows, NoEntryLeft, Finish, None

(* No call leaves its buffers.                                             *)
LEMMA BufferStep == BufferInv /\ [ApiNext]_<<vars, avars>> => BufferInv'
<1> SUFFICES ASSUME BufferInv, [ApiNext]_<<vars, avars>> PROVE BufferInv'
  OBVIOUS
<1>1. CASE GenerateAttestationReport \/ ParseAttributesFromReport
  <2>1. (\E n \in JsonSizes : SucceedsWith(n)) \/ (Fails /\ out' = GivenOut)
    BY <1>1 DEF GenerateAttestationReport, ParseAttributesFromReport
  <2> QED
    BY <2>1, OutputEnds
<1>2. CASE Arrive
  <2>1. /\ MsgSize \in Nat /\ DetailsSize \in Nat /\ OutSize \in Nat
        /\ MsgSize \in 0..MsgSize /\ DetailsSize \in 0..DetailsSize
        /\ OutSize \in 0..OutSize
    BY SizesAssumption
  <2>2. PICK c \in Memory(caller') : /\ msg' = Filled(MsgSize, c)
                                    /\ details' = Filled(DetailsSize, c)
                                    /\ out' = Filled(OutSize, c)
    BY <1>2 DEF Arrive
  <2>3. c \in Nat
    BY DEF Memory, NUL
  <2>4. IsBuffer(msg', MsgSize) /\ IsBuffer(details', DetailsSize)
        /\ IsBuffer(out', OutSize)
    BY <2>1, <2>2, <2>3, FilledBuffer
  <2>5. last'.call = 1
    BY <1>2 DEF Arrive, NoCall
  <2> QED
    BY <2>4, <2>5 DEF BufferInv, Returned
<1>3. CASE AttestationReportVerify
  <2>1. CASE status' = None
    <3>1. /\ msg' = GivenMsg /\ details' = GivenDetails /\ out' = out
          /\ last'.call = last.call
      BY <1>3, <2>1 DEF AttestationReportVerify, Running, NoCall, None
    <3>2. ~Returned'
      BY <1>3, <2>1, StillRunning DEF AttestationReportVerify, Returned
    <3>3. IsBuffer(msg', MsgSize) /\ IsBuffer(details', DetailsSize)
          /\ IsBuffer(out', OutSize)
      BY <3>1, GivenBuffers DEF BufferInv
    <3> QED
      BY <3>1, <3>2, <3>3 DEF BufferInv
  <2>2. CASE status' # None
    <3>1. (Succeeds \/ Fails) /\ out' = out
      BY <1>3, <2>2 DEF AttestationReportVerify, None
    <3>2. IsBuffer(out', OutSize)
      BY <3>1 DEF BufferInv
    <3> QED
      BY <3>1, <3>2, CallEnds DEF BufferInv
  <2> QED
    BY <2>1, <2>2
<1>4. CASE UNCHANGED <<vars, avars>>
  <2>1. UNCHANGED <<msg, details, out, last, pc>>
    BY <1>4 DEF vars, avars
  <2> QED
    BY <2>1 DEF BufferInv, Returned
<1> QED
  BY <1>1, <1>2, <1>3, <1>4 DEF ApiNext

(* Whatever the sizes of buffers, texts and JSON, and however often a      *)
(* caller passes the same buffers, calls stay within them and end their    *)
(* strings.                                                                *)
THEOREM ApiWithinBuffers == ApiSpec => []WithinBuffers
<1>1. BufferInv => WithinBuffers
  <2> SUFFICES ASSUME BufferInv PROVE WithinBuffers
    OBVIOUS
  <2>1. msg.len <= MsgSize /\ details.len <= DetailsSize /\ out.len <= OutSize
    BY SizesAssumption DEF BufferInv, IsBuffer, Fits
  <2> QED
    BY <2>1 DEF BufferInv, IsString, WithinBuffers
<1> QED
  BY <1>1, BufferInit, BufferStep, PTL DEF ApiSpec

-----------------------------------------------------------------------------
(* The answer of a call.                                                   *)

(* A length is zero for an empty buffer only.                              *)
Whole(b) == b.len = 0 => Size(b) = 0

(* A text copied into a buffer and ended is a prefix of the text, all of   *)
(* it if it fits a buffer that was empty.                                  *)
LEMMA CopiedText ==
  ASSUME NEW size \in Nat, NEW b, IsBuffer(b, size), Whole(b),
         NEW n \in Nat, NEW c \in Nat, c # NUL
  PROVE  LET r == Ended(strncpy(b, n, c))
         IN  /\ \A i \in 1..strlen(r) : r.chars[i] = c
             /\ b.len > 0 => strlen(r) = n \/ strlen(r) + 1 = b.len
             /\ Whole(r)
<1>1. PICK m \in 0..size : Fits(b, m)
  BY DEF IsBuffer
<1> DEFINE s == strncpy(b, n, c)
           r == Ended(s)
<1>2. s = [chars |-> [i \in 1..m |-> IF i > b.len THEN b.chars[i]
                                     ELSE IF i <= n THEN c ELSE NUL],
           len   |-> b.len]
  <2> DEFINE F == [i \in DOMAIN b.chars |-> IF i > b.len THEN b.chars[i]
                                           ELSE IF i <= n THEN c ELSE NUL]
  <2>1. F = [i \in 1..m |-> IF i > b.len THEN b.chars[i]
                            ELSE IF i <= n THEN c ELSE NUL]
    BY <1>1 DEF Fits
  <2>2. s = [b EXCEPT !.chars = F]
    BY DEF strncpy
  <2> HIDE DEF F, s
  <2>3. s = [chars |-> F, len |-> b.len]
    BY <1>1, <2>2 DEF Fits
  <2> QED
    BY <2>1, <2>3
<1>3. Fits(s, m) /\ s.len = b.len
  BY <1>1, <1>2 DEF Fits, NUL
<1>4. \A i \in 1..m : i <= b.len => s.chars[i] = IF i <= n THEN c ELSE NUL
  BY <1>1, <1>2 DEF Fits
<1> HIDE DEF s
<1>5. CASE b.len = 0
  <2>1. r = s /\ m = 0
    BY <1>1, <1>3, <1>5 DEF Fits, Ended, Whole, Size
  <2>2. r.chars \in [1..m -> Nat] /\ r.len = 0
    BY <1>3, <1>5, <2>1 DEF Fits
  <2> HIDE DEF r
  <2>3. strlen(r) \in 0..m /\ Size(r) = 0
    BY <2>1, <2>2, strlenFinds DEF Size
  <2> QED
    BY <1>5, <2>1, <2>3 DEF Whole, r, s
<1>6. CASE b.len > 0
  <2> DEFINE k == strlen(r)
  <2>1. /\ r.chars = [s.chars EXCEPT ![b.len] = NUL]
        /\ k \in Nat /\ k < b.len /\ r.len = k + 1 /\ r.chars[k + 1] = NUL
        /\ \A i \in 1..k : r.chars[i] # NUL
    BY <1>3, <1>6, EndedIs
  <2> HIDE DEF r
  <2>2. b.len \in 1..m /\ m \in Nat
    BY <1>1, <1>6 DEF Fits
  <2> HIDE DEF k
  <2>3. \A i \in 1..m : i < b.len => r.chars[i] = IF i <= n THEN c ELSE NUL
    <3> SUFFICES ASSUME NEW i \in 1..m, i < b.len
                 PROVE  r.chars[i] = IF i <= n THEN c ELSE NUL
      OBVIOUS
    <3>1. s.chars \in [1..m -> Nat] /\ i # b.len /\ i <= b.len
      BY <1>3, <2>2 DEF Fits
    <3>2. r.chars[i] = s.chars[i]
      BY <2>1, <3>1
    <3> QED
      BY <1>4, <3>1, <3>2
  <2>4. \A i \in 1..k : r.chars[i] = c /\ i <= n
    BY <2>1, <2>2, <2>3
  <2>5. k <= n
    BY <2>1, <2>4
  <2>6. k = n \/ k + 1 = b.len
    <3>1. SUFFICES ASSUME k < n, k + 1 < b.len PROVE FALSE
      BY <2>1, <2>2, <2>5
    <3>2. r.chars[k + 1] = c
      BY <2>1, <2>2, <2>3, <3>1
    <3> QED
      BY <2>1, <3>2
  <2>7. Whole(r)
    BY <2>1 DEF Whole
  <2> QED
    BY <2>4, <2>6, <2>7 DEF k, r, s
<1> QED
  BY <1>1, <1>5, <1>6 DEF Fits

(* Ending a string leaves a buffer whole.                                  *)
LEMMA EndedWhole ==
  ASSUME NEW size \in Nat, NEW b, IsBuffer(b, size), Whole(b)
  PROVE  Whole(Ended(b))
<1>1. PICK m \in 0..size : Fits(b, m)
  BY DEF IsBuffer
<1>2. CASE b.len = 0
  BY <1>2 DEF Ended
<1>3. CASE b.len > 0
  <2>m. m \in Nat
    OBVIOUS
  <2>1. Ended(b).len = strlen(Ended(b)) + 1 /\ strlen(Ended(b)) \in Nat
    BY <1>1, <1>3, <2>m, EndedIs
  <2> QED
    BY <2>1 DEF Whole
<1> QED
  BY <1>1, <1>2, <1>3 DEF Fits

AnswerInv ==
  /\ caller \in Callers
  /\ Whole(msg) /\ Whole(details)
  /\ AnswerOwn

(* A new buffer, and the buffers a caller passes, are whole.               *)
LEMMA FilledWhole ==
  ASSUME NEW size \in Nat, NEW c
  PROVE  Whole(Filled(size, c)) /\ Filled(size, c).len = size
BY DEF Filled, Whole, Size

(* The buffers that the next caller passes are whole too.                  *)
LEMMA GivenWhole ==
  ASSUME Whole(msg), Whole(details)
  PROVE  /\ Whole(GivenMsg) /\ Whole(GivenDetails)
         /\ caller = "rust" => GivenMsg.len = MsgSize
<1>1. MsgSize \in Nat /\ 0 \in Nat
  BY SizesAssumption
<1> QED
  BY <1>1, FilledWhole DEF GivenMsg, GivenDetails

(* A cleared buffer holds the empty string, before and after it is ended.  *)
LEMMA ClearedEmpty ==
  ASSUME NEW n \in Nat
  PROVE  strlen(Filled(n, NUL)) = 0 /\ strlen(Ended(Filled(n, NUL))) = 0
<1> DEFINE b == Filled(n, NUL)
<1>1. b.chars = [i \in 1..n |-> NUL] /\ b.len = n /\ Fits(b, n)
  BY DEF Filled, Fits, NUL
<1> HIDE DEF b
<1>2. b.chars \in [1..n -> Nat] /\ \A i \in 1..n : b.chars[i] = NUL
  BY <1>1 DEF NUL
<1>3. strlen(b) \in 0..n /\ \A i \in 1..strlen(b) : b.chars[i] # NUL
  BY <1>2, strlenFinds
<1>4. strlen(b) = 0
  BY <1>2, <1>3
<1>5. CASE n = 0
  BY <1>1, <1>4, <1>5 DEF Ended, b
<1>6. CASE n > 0
  <2>1. /\ Ended(b).chars = [b.chars EXCEPT ![b.len] = NUL]
        /\ strlen(Ended(b)) \in Nat /\ strlen(Ended(b)) < n
        /\ \A i \in 1..strlen(Ended(b)) : Ended(b).chars[i] # NUL
    BY <1>1, <1>6, EndedIs
  <2>2. \A i \in 1..n : Ended(b).chars[i] = NUL
    BY <1>2, <2>1
  <2>3. strlen(Ended(b)) = 0
    BY <2>1, <2>2
  <2> QED
    BY <1>4, <2>3 DEF b
<1> QED
  BY <1>5, <1>6

(* What the binding reads when no text was written.                        *)
Clear == caller = "rust" => strlen(msg) = 0 /\ strlen(details) = 0

(* A call that succeeds, and one that fails.                               *)
LEMMA SucceedsAnswer ==
  ASSUME BufferInv, Whole(msg), Whole(details), Succeeds, caller' = caller
  PROVE  Whole(msg)' /\ Whole(details)' /\ last'.code = 0 /\ Clear'
<1>1. MsgSize \in Nat /\ DetailsSize \in Nat
  BY SizesAssumption
<1>2. IsBuffer(GivenMsg, MsgSize) /\ IsBuffer(GivenDetails, DetailsSize)
  BY GivenBuffers
<1>3. Whole(GivenMsg) /\ Whole(GivenDetails)
  BY GivenWhole
<1>4. Whole(Ended(GivenMsg)) /\ Whole(Ended(GivenDetails))
  BY <1>1, <1>2, <1>3, EndedWhole
<1>5. msg' = Ended(GivenMsg) /\ details' = Ended(GivenDetails) /\ last'.code = 0
  BY DEF Succeeds
<1>6. Whole(msg') /\ Whole(details')
  BY <1>4, <1>5
<1>7. caller = "rust" => strlen(msg') = 0 /\ strlen(details') = 0
  BY <1>1, <1>5, ClearedEmpty DEF GivenMsg, GivenDetails
<1>8. Clear'
  BY <1>7 DEF Clear, strlen, Size
<1> QED
  BY <1>5, <1>6, <1>8 DEF Whole, Size

(* A call that fails answers with its own status and text.                 *)
LEMMA FailsAnswer ==
  ASSUME BufferInv, Whole(msg), Whole(details), Fails, caller \in Callers,
         caller' = caller
  PROVE  Whole(msg)' /\ Whole(details)' /\ AnswerOwn'
<1>1. MsgSize \in Nat /\ DetailsSize \in Nat /\ TextSizes \subseteq Nat
      /\ (caller = "rust" => MsgSize > 0)
  BY SizesAssumption
<1>2. IsBuffer(GivenMsg, MsgSize) /\ IsBuffer(GivenDetails, DetailsSize)
  BY GivenBuffers
<1>3. Whole(GivenMsg) /\ Whole(GivenDetails)
      /\ (caller = "rust" => GivenMsg.len = MsgSize)
  BY GivenWhole
<1>4. PICK ex \in Exceptions, n \in TextSizes : Throws(ex, n)
  BY DEF Fails
<1>5. n \in Nat /\ Call \in Nat /\ Call # NUL
  BY <1>1 DEF BufferInv, Call, NUL
<1>6. /\ msg' = Ended(strncpy(GivenMsg, n, Call))
      /\ ex = "std" => details' = Ended(GivenDetails)
      /\ ex # "std" => details' = Ended(strncpy(GivenDetails, n, Call))
      /\ last' = [call |-> Call, code |-> ErrorCode(ex), ex |-> ex, text |-> n]
  BY <1>4 DEF Throws
<1>7. /\ \A i \in 1..strlen(msg') : msg'.chars[i] = Call
      /\ GivenMsg.len > 0 => strlen(msg') = n \/ strlen(msg') + 1 = GivenMsg.len
      /\ Whole(msg')
  BY <1>1, <1>2, <1>3, <1>5, <1>6, CopiedText
<1>8. /\ caller = "rust" \/ ex # "std" =>
           \A i \in 1..strlen(details') : details'.chars[i] = Call
      /\ Whole(details')
  <2>1. CASE ex = "std"
    <3>1. Whole(details')
      BY <1>1, <1>2, <1>3, <1>6, <2>1, EndedWhole
    <3>2. caller = "rust" => strlen(details') = 0
      BY <1>6, <2>1, ClearedEmpty DEF GivenDetails
    <3> QED
      BY <2>1, <3>1, <3>2
  <2>2. CASE ex # "std"
    BY <1>1, <1>2, <1>3, <1>5, <1>6, <2>2, CopiedText
  <2> QED
    BY <2>1, <2>2
<1>9. last'.call = Call /\ last'.ex = ex /\ last'.text = n /\ last'.code # 0
  <2>1. ErrorCode(ex) # 0
    BY DEF ErrorCode, Exceptions
  <2> QED
    BY <1>6, <2>1
<1>10. ~HasOutput'
  BY <1>9 DEF HasOutput
<1>11. strlen(msg)' = strlen(msg') /\ strlen(details)' = strlen(details')
       /\ Whole(msg)' = Whole(msg') /\ Whole(details)' = Whole(details')
  BY DEF strlen, Size, Whole
<1>12. Own(msg)' /\ (caller = "rust" \/ ex # "std" => Own(details)')
  BY <1>7, <1>8, <1>9, <1>11 DEF Own
<1>13. caller' = "rust" => \/ strlen(msg)' = last'.text
                           \/ strlen(msg)' + 1 = MsgSize
  BY <1>1, <1>3, <1>7, <1>9, <1>11
<1> QED
  BY <1>7, <1>8, <1>9, <1>10, <1>11, <1>12, <1>13 DEF AnswerOwn

(* A call with output.                                                     *)
LEMMA OutputAnswer ==
  ASSUME BufferInv, AnswerInv, caller' = caller,
         (\E n \in JsonSizes : SucceedsWith(n)) \/ (Fails /\ out' = GivenOut)
  PROVE  AnswerInv'
<1>1. CASE Fails
  BY <1>1, FailsAnswer DEF AnswerInv
<1>2. CASE \E n \in JsonSizes : SucceedsWith(n)
  <2>1. PICK n \in JsonSizes : SucceedsWith(n)
    BY <1>2
  <2>2. /\ n \in Nat /\ n <= GivenOut.len /\ Succeeds
        /\ out' = Output(GivenOut, n, Call) /\ last'.call = Call
    BY <2>1, SizesAssumption DEF SucceedsWith, Succeeds
  <2>3. PICK m \in 0..OutSize : Fits(GivenOut, m)
    BY GivenBuffers DEF IsBuffer
  <2>4. out'.len = n /\ \A i \in 1..n : out'.chars[i] = Call
    BY <2>2, <2>3 DEF Output, Fits
  <2>5. Whole(msg)' /\ Whole(details)' /\ last'.code = 0 /\ Clear'
    BY <2>2, SucceedsAnswer DEF AnswerInv
  <2>6. AnswerOwn'
    BY <2>2, <2>4, <2>5 DEF AnswerOwn, Clear, Own
  <2> QED
    BY <2>5, <2>6 DEF AnswerInv
<1> QED
  BY <1>1, <1>2

(* No call has answered at the start.                                      *)
LEMMA AnswerInit == ApiInit => AnswerInv
<1> SUFFICES ASSUME ApiInit PROVE AnswerInv
  OBVIOUS
<1>1. MsgSize \in Nat /\ DetailsSize \in Nat
  BY SizesAssumption
<1>2. PICK c \in Memory(caller) : /\ msg = Filled(MsgSize, c)
                                 /\ details = Filled(DetailsSize, c)
  BY DEF ApiInit
<1>3. Whole(msg) /\ Whole(details)
  BY <1>1, <1>2, FilledWhole
<1>4. Clear
  BY <1>1, <1>2, ClearedEmpty DEF Clear, Memory
<1>5. AnswerOwn
  BY <1>4 DEF Clear, ApiInit, NoCall, AnswerOwn, Own, HasOutput, Returned
<1> QED
  BY <1>3, <1>5 DEF AnswerInv, ApiInit

(* Every call answers for itself.                                          *)
LEMMA AnswerStep ==
  IInv' /\ BufferInv /\ AnswerInv /\ [ApiNext]_<<vars, avars>> => AnswerInv'
<1> SUFFICES ASSUME IInv', BufferInv, AnswerInv, [ApiNext]_<<vars, avars>>
             PROVE  AnswerInv'
  OBVIOUS
<1>1. CASE GenerateAttestationReport \/ ParseAttributesFromReport
  <2>1. /\ caller' = caller
        /\ (\E n \in JsonSizes : SucceedsWith(n)) \/ (Fails /\ out' = GivenOut)
    BY <1>1 DEF GenerateAttestationReport, ParseAttributesFromReport
  <2> QED
    BY <2>1, OutputAnswer
<1>2. CASE Arrive
  <2>1. MsgSize \in Nat /\ DetailsSize \in Nat
    BY SizesAssumption
  <2>2. PICK c \in Memory(caller') : /\ msg' = Filled(MsgSize, c)
                                    /\ details' = Filled(DetailsSize, c)
    BY <1>2 DEF Arrive
  <2>3. Whole(msg') /\ Whole(details')
    BY <2>1, <2>2, FilledWhole
  <2>c. caller' = "rust" => strlen(msg') = 0 /\ strlen(details') = 0
    BY <2>1, <2>2, ClearedEmpty DEF Memory
  <2>d. Clear'
    BY <2>c DEF Clear, strlen, Size
  <2>4. AnswerOwn'
    BY <1>2, <2>d DEF Clear, Arrive, NoCall, AnswerOwn, Own, HasOutput, Returned
  <2>5. Whole(msg)' /\ Whole(details)'
    BY <2>3 DEF Whole, Size
  <2> QED
    BY <1>2, <2>4, <2>5 DEF AnswerInv, Arrive
<1>3. CASE AttestationReportVerify
  <2>0. caller' = caller
    BY <1>3 DEF AttestationReportVerify
  <2>1. CASE status' = None
    <3>1. msg' = GivenMsg /\ details' = GivenDetails /\ last'.code = 0
      BY <1>3, <2>1 DEF AttestationReportVerify, Running, NoCall, None
    <3>2. ~HasOutput'
      BY <1>3, <2>1, StillRunning DEF AttestationReportVerify, HasOutput
    <3>3. Whole(msg') /\ Whole(details')
      BY <3>1, GivenWhole DEF AnswerInv
    <3>4. Whole(msg)' /\ Whole(details)'
      BY <3>3 DEF Whole, Size
    <3>5. caller' = "rust" => strlen(msg') = 0 /\ strlen(details') = 0
      BY <2>0, <3>1, ClearedEmpty, SizesAssumption DEF GivenMsg, GivenDetails
    <3>6. Clear'
      BY <3>5 DEF Clear, strlen, Size
    <3> QED
      BY <2>0, <3>1, <3>2, <3>4, <3>6 DEF AnswerInv, AnswerOwn, Clear, Own
  <2>2. CASE status' = "ok"
    <3>1. Succeeds
      BY <1>3, <2>2 DEF AttestationReportVerify, None
    <3>2. ~HasOutput'
      BY <2>2 DEF IInv, HasOutput
    <3>3. Whole(msg)' /\ Whole(details)' /\ last'.code = 0 /\ Clear'
      BY <2>0, <3>1, SucceedsAnswer DEF AnswerInv
    <3> QED
      BY <2>0, <3>2, <3>3 DEF AnswerInv, AnswerOwn, Clear, Own
  <2>3. CASE status' \notin {None, "ok"}
    <3>1. Fails
      BY <1>3, <2>3 DEF AttestationReportVerify, None
    <3> QED
      BY <2>0, <3>1, FailsAnswer DEF AnswerInv
  <2> QED
    BY <2>1, <2>2, <2>3
<1>4. CASE UNCHANGED <<vars, avars>>
  <2>1. UNCHANGED <<caller, msg, details, out, last, pc>>
    BY <1>4 DEF vars, avars
  <2> QED
    BY <2>1 DEF AnswerInv, AnswerOwn, HasOutput, Returned, Own, Whole, Size, strlen
<1> QED
  BY <1>1, <1>2, <1>3, <1>4 DEF ApiNext

(* The answer is that of the call, for buffers and texts of any size and   *)
(* however often they are passed again: all of it through the binding; to  *)
(* a C program the message of a call that fails, the stack trace of an     *)
(* exception that has one, and the output of a call that succeeds.         *)
THEOREM ApiAnswersOwn == ApiSpec => []AnswerOwn
<1>1. AnswerInv => AnswerOwn
  BY DEF AnswerInv
<1>2. ApiSpec => []BufferInv
  BY BufferInit, BufferStep, PTL DEF ApiSpec
<1>3. Spec => []IInv
  BY InvInit, InvStep, PTL DEF Spec
<1> QED
  BY <1>1, <1>2, <1>3, ApiImplements, AnswerInit, AnswerStep, PTL DEF ApiSpec
===============================================================================
