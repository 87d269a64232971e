----------------------------- MODULE DataUpload ------------------------------
(***************************************************************************)
(* The data-upload task of dm_component.                                   *)
(*                                                                         *)
(* The uploader (eval_upload in main.py) encrypts a file under a fresh     *)
(* data key, sends it with retries to the receiver's dmserver, stops the   *)
(* dmserver and registers the key with the Capsule Manager.  The dmserver  *)
(* (Rust, hyper) runs one handle_upload task per request.                  *)
(*                                                                         *)
(* The encrypted file is the sequence of its HTTP body chunks 1..NChunks.  *)
(* A file on the receiver is a sequence of chunk numbers; Hole stands for  *)
(* bytes of no chunk of this upload (a gap, or a leftover of another run). *)
(***************************************************************************)
EXTENDS Integers, Sequences

CONSTANTS MaxAttempts,  \* stop_after_attempt(5)
          NChunks,      \* body chunks of the encrypted file
          NoFile,       \* no such file
          Overlap       \* may a request the uploader has given up on still
                        \* run when the next attempt is sent?

ASSUME MaxAttemptsAssumption == MaxAttempts \in Nat \ {0}
ASSUME NChunksAssumption == NChunks \in Nat \ {0}
ASSUME NoFileAssumption == NoFile \notin Seq(Nat)
ASSUME OverlapAssumption == Overlap \in BOOLEAN

VARIABLES up,          \* control state of the uploader
          attempt,     \* attempts made so far; the current one while waiting
          handler,     \* handler[a]: the handle_upload task of attempt a
          temp,        \* temp/<filename> on the receiver
          dest,        \* the file in the receiver's data source
          registered,  \* the TEE data mesh has the domain data
          stop,        \* the shutdown request
          server,      \* the dmserver process
          key          \* the Capsule Manager has the data key

vars == <<up, attempt, handler, temp, dest, registered, stop, server, key>>
files == <<temp, dest>>
services == <<registered, key>>
peers == <<stop, server>>

Attempts == 1..MaxAttempts
Hole == 0

(* The first n chunks, in order; Encrypted is the whole encrypted file.    *)
Prefix(n) == [i \in 1..n |-> i]
Encrypted == Prefix(NChunks)

Finished == {"idle", "ok", "err", "dropped"}
Live(a) == handler[a].pc \notin Finished

(* Places where handle_upload awaits, where hyper may drop its future.     *)
Awaiting == {"head", "recv", "fields", "source", "create", "created"}

Init ==
  /\ up = "prepare"
  /\ attempt = 0
  /\ handler = [a \in Attempts |->
                  [pc |-> "idle", append |-> FALSE, off |-> 0, orphan |-> FALSE]]
  /\ temp \in {NoFile, <<Hole>>}
  /\ dest = <<>>
  /\ registered = FALSE
  /\ stop = "none"
  /\ server = "starting"
  /\ key = FALSE
-----------------------------------------------------------------------------
(* The uploader.                                                           *)

(* Fault: the key is registered before the upload.                         *)
PrepareRegisteringKey ==
  /\ up = "prepare"
  /\ up' = "send"
  /\ key' = TRUE
  /\ UNCHANGED <<attempt, handler, files, registered, peers>>

(* Steps 1 to 6: look up the data, generate the key, encrypt the file.     *)
Prepare ==
  /\ up = "prepare"
  /\ up' \in {"send", "failed"}
  /\ UNCHANGED <<attempt, handler, files, services, peers>>

(* Fault: the retries have no limit.                                       *)
AfterFailedAttemptUnbounded == "send"

(* The control state after an attempt that raised: retry, or give up.      *)
AfterFailedAttempt == IF attempt' = MaxAttempts THEN "failed" ELSE "send"

(* upload_file posts the file.  The back-off before a retry is at least 4  *)
(* seconds; ~Overlap says that this outlasts the abandoned request.        *)
SendUpload ==
  /\ up = "send"
  /\ server = "serving"
  /\ Overlap \/ \A a \in Attempts : ~Live(a)
  /\ attempt' = attempt + 1
  /\ up' = "wait"
  /\ handler' = [handler EXCEPT ![attempt + 1].pc = "head"]
  /\ UNCHANGED <<files, services, peers>>

(* The post cannot reach a dmserver.                                       *)
ConnectionRefused ==
  /\ up = "send"
  /\ attempt' = attempt + 1
  /\ up' = AfterFailedAttempt
  /\ UNCHANGED <<handler, files, services, peers>>

(* The response of the current attempt arrives; any status but 200 raises. *)
ReceiveAnswer ==
  /\ up = "wait"
  /\ handler[attempt].pc \in {"ok", "err"}
  /\ UNCHANGED attempt
  /\ up' = IF handler[attempt].pc = "ok" THEN "shutdown" ELSE AfterFailedAttempt
  /\ UNCHANGED <<handler, files, services, peers>>

(* Fault: a broken connection does not count as an attempt.                *)
ConnectionLostUncounted ==
  /\ up = "wait"
  /\ attempt' = attempt - 1
  /\ up' = "send"
  /\ handler' = [handler EXCEPT ![attempt].orphan = TRUE]
  /\ UNCHANGED <<files, services, peers>>

(* The connection breaks for the uploader; the server may not know yet.    *)
ConnectionLost ==
  /\ up = "wait"
  /\ UNCHANGED attempt
  /\ up' = AfterFailedAttempt
  /\ handler' = [handler EXCEPT ![attempt].orphan = TRUE]
  /\ UNCHANGED <<files, services, peers>>

(* Step 8: ask the dmserver to stop; a lost answer raises and is not       *)
(* retried.                                                                *)
SendShutdown ==
  /\ up = "shutdown"
  /\ up' = "stopping"
  /\ stop' = "sent"
  /\ UNCHANGED <<attempt, handler, files, services, server>>

(* Fault: the answer to the shutdown is not awaited.                       *)
ShutdownUnanswered ==
  /\ up = "stopping"
  /\ up' = "register"
  /\ UNCHANGED <<attempt, handler, files, services, peers>>

ShutdownAnswered ==
  /\ up = "stopping"
  /\ stop = "served"
  /\ up' = "register"
  /\ UNCHANGED <<attempt, handler, files, services, peers>>

ShutdownFails ==
  /\ up = "stopping"
  /\ up' = "failed"
  /\ UNCHANGED <<attempt, handler, files, services, peers>>

(* Step 9: create_data_keys; the Capsule Manager may refuse, or accept and *)
(* its answer be lost.                                                     *)
RegisterKey ==
  /\ up = "register"
  /\ \/ key' = TRUE /\ up' \in {"done", "failed"}
     \/ key' = key /\ up' = "failed"
  /\ UNCHANGED <<attempt, handler, files, registered, peers>>

(* The uploader's process dies; the data key was only in its memory.       *)
UploaderCrash ==
  /\ up \notin {"done", "failed"}
  /\ up' = "failed"
  /\ handler' = IF up = "wait" THEN [handler EXCEPT ![attempt].orphan = TRUE]
                               ELSE handler
  /\ UNCHANGED <<attempt, files, services, peers>>
-----------------------------------------------------------------------------
(* The dmserver: one handle_upload task per request.                       *)

Step(a, from, to) ==
  /\ handler[a].pc = from
  /\ handler' = [handler EXCEPT ![a].pc = to]

(* The file field begins: does temp/<filename> exist already?              *)
CheckTemp(a) ==
  /\ handler[a].pc = "head"
  /\ handler' = [handler EXCEPT ![a].pc = "open", ![a].append = temp = NoFile]
  /\ UNCHANGED <<up, attempt, files, services, peers>>

(* Fault: an existing temporary file is appended to, not truncated.        *)
OpenTempAppending(a) ==
  /\ handler[a].pc = "open"
  /\ handler' = [handler EXCEPT ![a].pc = "recv", ![a].append = TRUE]
  /\ temp' = IF temp = NoFile THEN <<>> ELSE temp
  /\ UNCHANGED <<up, attempt, dest, services, peers>>

(* It exists: truncate it.  It does not: create_new, which fails when      *)
(* another task has created it since the check.                            *)
OpenTemp(a) ==
  /\ handler[a].append => temp = NoFile
  /\ Step(a, "open", "recv")
  /\ temp' = <<>>
  /\ UNCHANGED <<up, attempt, dest, services, peers>>

CreateNewFails(a) ==
  /\ handler[a].append
  /\ temp # NoFile
  /\ Step(a, "open", "err")
  /\ UNCHANGED <<up, attempt, files, services, peers>>

(* File f after chunk c is written at offset off (at the end in append     *)
(* mode); a gap reads as Hole.                                             *)
WriteChunk(f, append, off, c) ==
  LET at == IF append THEN Len(f) + 1 ELSE off + 1
      n  == IF at > Len(f) THEN at ELSE Len(f)
  IN  [i \in 1..n |-> IF i = at THEN c ELSE IF i <= Len(f) THEN f[i] ELSE Hole]

(* The next body chunk arrives and is written.                             *)
ReceiveChunk(a) ==
  LET h == handler[a] IN
  /\ h.pc = "recv"
  /\ h.off < NChunks
  /\ temp' = WriteChunk(temp, h.append, h.off, h.off + 1)
  /\ handler' = [handler EXCEPT ![a].off = h.off + 1]
  /\ UNCHANGED <<up, attempt, dest, services, peers>>

EndOfFile(a) ==
  /\ handler[a].off = NChunks
  /\ Step(a, "recv", "fields")
  /\ UNCHANGED <<up, attempt, files, services, peers>>

(* The other fields arrive; the URI names a dm data source.                *)
ReadFields(a) ==
  /\ Step(a, "fields", "source")
  /\ UNCHANGED <<up, attempt, files, services, peers>>

(* The data mesh answers with the data source; fs::copy opens and          *)
(* truncates the destination.                                              *)
OpenDest(a) ==
  /\ handler[a].pc = "source"
  /\ handler' = [handler EXCEPT ![a].pc = "copy", ![a].off = 0]
  /\ dest' = <<>>
  /\ UNCHANGED <<up, attempt, temp, services, peers>>

(* fs::copy moves the next piece; the temporary file may be changing.      *)
CopyChunk(a) ==
  LET h == handler[a] IN
  /\ h.pc = "copy"
  /\ h.off < Len(temp)
  /\ dest' = WriteChunk(dest, FALSE, h.off, temp[h.off + 1])
  /\ handler' = [handler EXCEPT ![a].off = h.off + 1]
  /\ UNCHANGED <<up, attempt, temp, services, peers>>

CopyDone(a) ==
  /\ Step(a, "copy", "create")
  /\ handler[a].off >= Len(temp)
  /\ UNCHANGED <<up, attempt, files, services, peers>>

(* create_domain_data takes effect at the data mesh ...                    *)
CreateDomainData(a) ==
  /\ Step(a, "create", "created")
  /\ registered' = TRUE
  /\ UNCHANGED <<up, attempt, files, key, peers>>

(* ... and its answer reaches the handler, which answers 200.              *)
HandlerOk(a) ==
  /\ Step(a, "created", "ok")
  /\ UNCHANGED <<up, attempt, files, services, peers>>

(* An I/O error, a malformed field or an error of the data mesh: 400.      *)
HandlerFails(a) ==
  /\ Live(a)
  /\ handler' = [handler EXCEPT ![a].pc = "err"]
  /\ UNCHANGED <<up, attempt, files, services, peers>>

(* hyper notices the broken connection and drops the task at an await.     *)
HandlerDropped(a) ==
  /\ handler[a].orphan
  /\ handler[a].pc \in Awaiting
  /\ handler' = [handler EXCEPT ![a].pc = "dropped"]
  /\ UNCHANGED <<up, attempt, files, services, peers>>
-----------------------------------------------------------------------------
(* The dmserver process.                                                   *)

ServerStart ==
  /\ server = "starting"
  /\ server' = "serving"
  /\ UNCHANGED <<up, attempt, handler, files, services, stop>>

(* shutdown takes the sender out of SHUTDOWN_TX and signals the server.    *)
ServeShutdown ==
  /\ stop = "sent"
  /\ server = "serving"
  /\ stop' = "served"
  /\ server' = "draining"
  /\ UNCHANGED <<up, attempt, handler, files, services>>

(* Fault: a dropped task is never taken off the requests being served.     *)
ServerExitCountingDropped ==
  /\ server = "draining"
  /\ \A a \in Attempts : handler[a].pc \in {"idle", "ok", "err"}
  /\ server' = "exited"
  /\ UNCHANGED <<up, attempt, handler, files, services, stop>>

(* Graceful shutdown: the process exits when no request is being served.   *)
ServerExit ==
  /\ server = "draining"
  /\ \A a \in Attempts : ~Live(a)
  /\ server' = "exited"
  /\ UNCHANGED <<up, attempt, handler, files, services, stop>>
-----------------------------------------------------------------------------
Uploader ==
  \/ Prepare \/ SendUpload \/ ConnectionRefused \/ ReceiveAnswer
  \/ SendShutdown \/ ShutdownAnswered \/ RegisterKey

HandlerStep(a) ==
  \/ CheckTemp(a) \/ OpenTemp(a) \/ CreateNewFails(a) \/ ReceiveChunk(a)
  \/ EndOfFile(a) \/ ReadFields(a) \/ OpenDest(a) \/ CopyChunk(a)
  \/ CopyDone(a) \/ CreateDomainData(a) \/ HandlerOk(a)

HandlerFault(a) == HandlerFails(a) \/ HandlerDropped(a)

Server == ServerStart \/ ServeShutdown \/ ServerExit

UploaderFault == ConnectionLost \/ ShutdownFails \/ UploaderCrash

Next ==
  \/ Uploader
  \/ UploaderFault
  \/ Server
  \/ \E a \in Attempts : HandlerStep(a) \/ HandlerFault(a)

Spec == Init /\ [][Next]_vars

(* tokio polls every ready task, hyper drops a task whose connection has   *)
(* closed, and the uploader's process keeps running until it ends; no      *)
(* other fault is required to happen.                                      *)
Fairness ==
  /\ WF_vars(Uploader)
  /\ WF_vars(Server)
  /\ \A a \in Attempts : WF_vars(HandlerStep(a) \/ HandlerDropped(a))

FairSpec == Spec /\ Fairness
-----------------------------------------------------------------------------
(* Properties.                                                             *)

HandlerPc ==
  {"idle", "head", "open", "recv", "fields", "source", "copy", "create",
   "created", "ok", "err", "dropped"}

HandlerState ==
  [pc : HandlerPc, append : BOOLEAN, off : Nat, orphan : BOOLEAN]

(* The type of every variable.                                             *)
TypeOK ==
  /\ up \in {"prepare", "send", "wait", "shutdown", "stopping", "register",
             "done", "failed"}
  /\ attempt \in 0..MaxAttempts
  /\ handler \in [Attempts -> HandlerState]
  /\ temp \in Seq(Nat) \cup {NoFile}
  /\ dest \in Seq(Nat)
  /\ registered \in BOOLEAN
  /\ stop \in {"none", "sent", "served"}
  /\ server \in {"starting", "serving", "draining", "exited"}
  /\ key \in BOOLEAN

(* upload_file returned: the uploader saw a 200.                           *)
Acked == up \in {"shutdown", "stopping", "register", "done"}

(* Once upload_file has returned, the file in the receiver's data source   *)
(* is the complete encrypted file, the data mesh knows it, and this stays  *)
(* so while the uploader stops the server and registers the key: whatever  *)
(* earlier attempts left in the temporary file, and even if one of them    *)
(* had already stored and registered the data (main.py 138-165,            *)
(* upload.rs 46-112).                                                      *)
AckedMeansStored == Acked => dest = Encrypted /\ registered

(* The Capsule Manager gets the key only for data that the data mesh lists *)
(* and after the dmserver has stopped taking requests, even when earlier   *)
(* requests are still running (main.py 165-186).                           *)
KeyAfterShutdown == key => registered /\ server \in {"draining", "exited"}

Sealed == INSTANCE SealedStore
            WITH Complete <- Encrypted, contents <- dest,
                 located <- registered, released <- key

(* The upload implements SealedStore: the key reaches the Capsule Manager  *)
(* only when the stored file is complete and registered, and no handler    *)
(* touches the file or its registration afterwards.                        *)
SealedSpec == Sealed!Spec

(* A dmserver that accepted a shutdown finishes its requests and exits, so *)
(* start_server returns on the receiver (service.rs 46-55, main.rs 74-78). *)
ShutdownCompletes == (server = "draining") ~> (server = "exited")

(* The uploader's task ends: every attempt is answered or abandoned, and   *)
(* the attempts are bounded (main.py 138-186).                             *)
UploaderEnds == <>(up \in {"done", "failed"})
=============================================================================
