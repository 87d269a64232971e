---------------------------- MODULE AttestationApi ----------------------------
(***************************************************************************)
(* Attestation through its C interface: GenerateAttestationReport in the   *)
(* TEE and, in the process of the verifying party, calls of                *)
(* ParseAttributesFromReport and then AttestationReportVerify.             *)
(*                                                                         *)
(* A caller passes buffers, and the size of each in a variable that the    *)
(* call overwrites with the length of what it wrote.  The Rust binding     *)
(* makes new ones for every call; a C program may pass the same again,     *)
(* sizes as the last call left them.  A character is the number of the     *)
(* call that wrote it: 1 for what lay in memory, 0 for the terminator.     *)
(***************************************************************************)
EXTENDS Attestation

CONSTANTS Callers,     \* a subset of {"rust", "c"}
          MsgSize,     \* size of the buffer of the message
          DetailsSize, \* size of that of the stack trace, of a C program
          OutSize,     \* kReportMaxSize and kAttributeMaxSize
          JsonSizes,   \* sizes of reports and attributes as JSON
          TextSizes,   \* lengths of error messages and stack traces
          MaxParses    \* calls of ParseAttributesFromReport

(* The binding's buffer of the message is not empty.                       *)
ASSUME SizesAssumption ==
  /\ {MsgSize, DetailsSize, OutSize} \subseteq Nat
  /\ "rust" \in Callers => MsgSize > 0
  /\ JsonSizes \subseteq Nat /\ TextSizes \subseteq Nat

VARIABLES caller,   \* who calls
          msg,      \* the buffer of the message
          details,  \* that of the stack trace
          out,      \* that of the report or the attributes
          last,     \* the last call: its number, code, exception and its text
          parses    \* calls of ParseAttributesFromReport

avars == <<caller, msg, details, out, last, parses>>

NUL == 0

(* What lies in buffers: the binding clears them.                          *)
Memory(who) == IF who = "rust" THEN {NUL} ELSE {NUL, 1}

-----------------------------------------------------------------------------
(* Buffers.                                                                *)

Filled(size, c) == [chars |-> [i \in 1..size |-> c], len |-> size]
Size(b) == Len(b.chars)

(* Where the string ends, at the end of the memory if it is not ended.     *)
strlen(b) ==
  CHOOSE n \in 0..Size(b) : /\ n < Size(b) => b.chars[n + 1] = NUL
                            /\ \A i \in 1..n : b.chars[i] # NUL

(* Fault: what follows a short text stays as it was.                       *)
strcpyn(b, n, c) ==
  [b EXCEPT !.chars = [i \in DOMAIN b.chars |->
     IF i <= b.len /\ i <= n THEN c ELSE b.chars[i]]]

strncpy(b, n, c) ==
  [b EXCEPT !.chars = [i \in DOMAIN b.chars |->
     IF i > b.len THEN b.chars[i] ELSE IF i <= n THEN c ELSE NUL]]

(* Fault: the last character is left as it is.                             *)
Measured(b) == IF b.len > 0 THEN [b EXCEPT !.len = strlen(b) + 1] ELSE b

(* "ensure msg end with '\0'".                                             *)
Ended(b) ==
  IF b.len > 0
  THEN LET e == [b EXCEPT !.chars[b.len] = NUL]
       IN [e EXCEPT !.len = strlen(e) + 1]
  ELSE b

(* The length is that of the JSON, which memcpy copies.                    *)
Output(b, n, c) ==
  [chars |-> [i \in DOMAIN b.chars |-> IF i <= n THEN c ELSE b.chars[i]],
   len   |-> n]

-----------------------------------------------------------------------------
(* Calls.                                                                  *)

(* What the functions catch.                                               *)
Exceptions == {"ArgumentError", "InvalidFormat", "Exception", "std"}
ErrorCode(ex) == CASE ex = "ArgumentError" -> 1
                   [] ex = "InvalidFormat" -> 6
                   [] OTHER -> 18

(* The buffers a caller passes: the binding has none for the stack trace.  *)
GivenMsg == IF caller = "rust" THEN Filled(MsgSize, NUL) ELSE msg
GivenDetails == IF caller = "rust" THEN Filled(0, NUL) ELSE details
GivenOut == IF caller = "rust" THEN Filled(OutSize, NUL) ELSE out

Call == last.call + 1

Succeeds ==
  /\ msg' = Ended(GivenMsg)
  /\ details' = Ended(GivenDetails)
  /\ last' = [call |-> Call, code |-> 0, ex |-> None, text |-> 0]

Throws(ex, n) ==
  /\ msg' = Ended(strncpy(GivenMsg, n, Call))
  /\ details' = Ended(IF ex = "std" THEN GivenDetails
                                    ELSE strncpy(GivenDetails, n, Call))
  /\ last' = [call |-> Call, code |-> ErrorCode(ex), ex |-> ex, text |-> n]

Fails == \E ex \in Exceptions, n \in TextSizes : Throws(ex, n)

SucceedsWith(n) ==
  n <= GivenOut.len /\ out' = Output(GivenOut, n, Call) /\ Succeeds

(* A process before its first call.                                        *)
NoCall == [call |-> 1, code |-> 0, ex |-> None, text |-> 0]

ApiInit ==
  /\ Init
  /\ caller \in Callers
  /\ \E c \in Memory(caller) :
       /\ msg = Filled(MsgSize, c)
       /\ details = Filled(DetailsSize, c)
       /\ out = Filled(OutSize, c)
  /\ last = NoCall
  /\ parses = 0

(* A report too large for the buffer is an error, after it was generated.  *)
GenerateAttestationReport ==
  \/ /\ Sgx2GenerateReport \/ TdxGenerateReport \/ CsvGenerateReport
     /\ \E n \in JsonSizes : SucceedsWith(n)
     /\ UNCHANGED <<caller, parses>>
  \/ GenerateError /\ Fails /\ out' = GivenOut /\ UNCHANGED <<caller, parses>>

(* The report reaches the process of the verifying party.                  *)
Arrive ==
  /\ Deliver \/ DeliverAltered
  /\ caller' \in Callers
  /\ \E c \in Memory(caller') :
       /\ msg' = Filled(MsgSize, c)
       /\ details' = Filled(DetailsSize, c)
       /\ out' = Filled(OutSize, c)
  /\ last' = NoCall
  /\ UNCHANGED parses

(* Create makes a verifier of the report, and its parser takes the quote.  *)
Created ==
  /\ report.version = kReportVersion /\ report.type = "Passport"
  /\ report.platform \in creators
  /\ IF report.platform = "CSV" THEN CsvJson ELSE DcapJson
  /\ QuoteParses

ParseAttributesFromReport ==
  /\ pc = "init"
  /\ parses < MaxParses
  /\ parses' = parses + 1
  /\ \/ Created /\ \E n \in JsonSizes : SucceedsWith(n)
     \/ Fails /\ out' = GivenOut
  /\ UNCHANGED <<vars, caller>>

Verifying ==
  \/ Sgx2Init \/ TdxInit \/ CsvInit \/ CreateError
  \/ Sgx2VerifyPlatform \/ TdxVerifyPlatform \/ CsvVerifyPlatform
  \/ ParseUnifiedReport \/ CsvParseUnifiedReport \/ ParseError
  \/ MatchEntry \/ NextEntry \/ EntryThrows \/ NoEntryLeft

(* The call takes several steps, with the buffers it was given.            *)
Running ==
  /\ msg' = GivenMsg /\ details' = GivenDetails
  /\ last' = [NoCall EXCEPT !.call = last.call]

AttestationReportVerify ==
  /\ Verifying
  /\ CASE status' = None -> Running /\ UNCHANGED <<caller, out, parses>>
       [] status' = "ok" -> Succeeds /\ UNCHANGED <<caller, out, parses>>
       [] OTHER -> Fails /\ UNCHANGED <<caller, out, parses>>

ApiNext == \/ GenerateAttestationReport \/ Arrive
           \/ ParseAttributesFromReport \/ AttestationReportVerify

ApiSpec == ApiInit /\ [][ApiNext]_<<vars, avars>>

-----------------------------------------------------------------------------
(* Properties.                                                             *)

Returned == last.call > 1 /\ pc \in {"deliver", "init", "done"}
HasOutput == Returned /\ last.code = 0 /\ pc \in {"deliver", "init"}
Own(b) == \A i \in 1..strlen(b) : b.chars[i] = last.call

(* No call writes or leaves a length past the end of a buffer, whoever     *)
(* made the buffers and however often they were passed before: the lengths *)
(* that callers slice by and pass again are within the buffers, and end a  *)
(* message and a stack trace at their terminator.                          *)
WithinBuffers ==
  /\ msg.len <= MsgSize /\ details.len <= DetailsSize /\ out.len <= OutSize
  /\ \A b \in {msg, details} :
       Returned /\ b.len > 0 => b.chars[b.len] = NUL /\ b.len = strlen(b) + 1

(* The answer is that of the call.  Through the binding, message and stack *)
(* trace have nothing of an earlier call, are empty after a success and    *)
(* the message has as much of the exception's as fits.  To a C program     *)
(* that passes its buffers again this holds of the message of a call that  *)
(* fails, and of the stack trace if the exception has one: after a         *)
(* std::exception, and after a success, an earlier call's may stay.  The   *)
(* output of a call that returned 0 is all its own.                        *)
AnswerOwn ==
  /\ caller = "rust" \/ last.code # 0 => Own(msg)
  /\ caller = "rust" \/ (last.code # 0 /\ last.ex # "std") => Own(details)
  /\ caller = "rust" /\ last.code = 0 => strlen(msg) = 0
  /\ caller = "rust" /\ last.code # 0 => \/ strlen(msg) = last.text
                                        \/ strlen(msg) + 1 = MsgSize
  /\ HasOutput => \A i \in 1..out.len : out.chars[i] = last.call
===============================================================================
