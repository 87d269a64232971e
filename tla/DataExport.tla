------------------------------ MODULE DataExport ------------------------------
(***************************************************************************)
(* The export task.  The receiver gets the export key from the Capsule     *)
(* Manager, downloads the encrypted file from the sender's dmserver with   *)
(* retries, decrypts it into its own data source, registers it with its    *)
(* data mesh and shuts the sender's server down.  Meanwhile the owner of   *)
(* the data may upload a new version over the file or delete its key.      *)
(*                                                                         *)
(* An encrypted file is the sequence of its chunks; chunk i of version v   *)
(* is <<v, i>>, and each version has a key of its own.  A plaintext is the *)
(* number of its version.                                                  *)
(***************************************************************************)
EXTENDS Naturals, Sequences

CONSTANTS NChunks,      \* chunks of an encrypted file
          MaxVersions,  \* versions the owner uploads
          MaxAttempts,  \* stop_after_attempt of the retries (5)
          SenderSource, \* data source of the data at the sender
          OutputSource  \* data source in the receiver's output uri

ASSUME ExportAssumption ==
  NChunks \in Nat \ {0} /\ MaxVersions \in Nat \ {0} /\ MaxAttempts \in Nat \ {0}

VARIABLES pc,       \* where eval_data_export of the receiver is
          attempt,  \* attempts of the retried call so far
          data_key, \* version whose key the receiver has, or NoKey
          body,     \* what arrived of the answer to /download
          local,    \* the downloaded file
          dest,     \* content of the output file, or NoData
          meta,     \* data source in the meta data, or NoSource
          listed,   \* data source the receiver's mesh has for the output
          server,   \* dmserver of the sender
          file,     \* encrypted file at the sender
          version,  \* last version the owner has started to upload
          cm_key    \* version whose key the Capsule Manager has, or NoKey

receiver == <<pc, attempt, data_key, body, local, dest, meta>>
sender == <<file, version, cm_key>>
vars == <<pc, attempt, data_key, body, local, dest, meta, listed, server,
          file, version, cm_key>>

NoKey == 0
NoData == 0
Partial == MaxVersions + 1
NoSource == "none"

Full(v) == [i \in 1..NChunks |-> <<v, i>>]

Init ==
  /\ pc = "key" /\ attempt = 1
  /\ data_key = NoKey /\ body = <<>> /\ local = <<>> /\ dest = NoData
  /\ meta = NoSource /\ listed = NoSource
  /\ server = "starting"
  /\ file = Full(1) /\ version = 1 /\ cm_key = 1

-----------------------------------------------------------------------------
(* The receiver.                                                           *)

(* An exception ends the task; the server is not told.                     *)
Fail == pc' = "failed" /\ UNCHANGED <<attempt, data_key, body, local, meta>>

GetExportDataKey ==
  /\ pc = "key"
  /\ cm_key # NoKey
  /\ data_key' = cm_key
  /\ pc' = "download"
  /\ UNCHANGED <<attempt, body, local, dest, meta, listed, server, sender>>

GetExportDataKeyFails ==
  /\ pc = "key"
  /\ Fail
  /\ UNCHANGED <<dest, listed, server, sender>>

(* Fault: one attempt too many.                                            *)
AfterOneAttemptTooMany(p) ==
  /\ IF attempt <= MaxAttempts THEN attempt' = attempt + 1 /\ pc' = p
                               ELSE pc' = "failed" /\ UNCHANGED attempt
  /\ UNCHANGED <<data_key, local, meta>>

(* Fault: the retry has no stop condition.                                 *)
AfterFailedAttemptForever(p) ==
  /\ pc' = p
  /\ UNCHANGED <<attempt, data_key, local, meta>>

(* tenacity: call again, or give up after the last attempt.                *)
AfterFailedAttempt(p) ==
  /\ IF attempt < MaxAttempts THEN attempt' = attempt + 1 /\ pc' = p
                              ELSE pc' = "failed" /\ UNCHANGED attempt
  /\ UNCHANGED <<data_key, local, meta>>

(* handle_download opens the file and answers 200 with a stream of it.     *)
Download ==
  /\ pc = "download"
  /\ server = "running"
  /\ body' = <<>>
  /\ pc' = "streaming"
  /\ UNCHANGED <<attempt, data_key, local, dest, meta, listed, server, sender>>

(* No server yet, no connection, or an answer other than 200.              *)
DownloadFails ==
  /\ pc = "download"
  /\ AfterFailedAttempt("download")
  /\ UNCHANGED <<body, dest, listed, server, sender>>

StreamChunk ==
  /\ pc = "streaming"
  /\ Len(body) < Len(file)
  /\ body' = Append(body, file[Len(body) + 1])
  /\ UNCHANGED <<pc, attempt, data_key, local, dest, meta, listed, server,
                 sender>>

(* The stream ends with the file as it is now; the body is then saved.     *)
StreamEnd ==
  /\ pc = "streaming"
  /\ Len(body) >= Len(file)
  /\ local' = body
  /\ attempt' = 1
  /\ pc' = "source"
  /\ UNCHANGED <<data_key, body, dest, meta, listed, server, sender>>

StreamBroken ==
  /\ pc = "streaming"
  /\ AfterFailedAttempt("download")
  /\ UNCHANGED <<body, dest, listed, server, sender>>

(* Query of the data source of the output.                                 *)
GetDomainDataSource ==
  /\ pc = "source"
  /\ pc' = "decrypt"
  /\ UNCHANGED <<attempt, data_key, body, local, dest, meta, listed, server,
                 sender>>

GetDomainDataSourceFails ==
  /\ pc = "source"
  /\ Fail
  /\ UNCHANGED <<dest, listed, server, sender>>

(* Fault: a failing decryption is logged only.                             *)
DecryptFileLogged ==
  /\ pc = "decrypt"
  /\ dest' = IF local = Full(data_key) THEN data_key ELSE Partial
  /\ pc' = "meta"
  /\ UNCHANGED <<attempt, data_key, body, local, meta, listed, server, sender>>

DecryptFile ==
  /\ pc = "decrypt"
  /\ local = Full(data_key)
  /\ dest' = data_key
  /\ pc' = "meta"
  /\ UNCHANGED <<attempt, data_key, body, local, meta, listed, server, sender>>

(* Another version, a mixture, a part, or no room: the output file may     *)
(* have been begun.                                                        *)
DecryptFileFails ==
  /\ pc = "decrypt"
  /\ Fail
  /\ dest' \in {NoData, Partial}
  /\ UNCHANGED <<listed, server, sender>>

GetPeerDomainData ==
  /\ pc = "meta"
  /\ server = "running"
  /\ meta' = SenderSource
  /\ pc' = "register"
  /\ UNCHANGED <<attempt, data_key, body, local, dest, listed, server, sender>>

GetPeerDomainDataFails ==
  /\ pc = "meta"
  /\ AfterFailedAttempt("meta")
  /\ UNCHANGED <<body, dest, listed, server, sender>>

(* The meta data with id and relative uri of the output.                   *)
CreateDomainData ==
  /\ pc = "register"
  /\ listed' = meta
  /\ pc' = "shutdown"
  /\ UNCHANGED <<attempt, data_key, body, local, dest, meta, server, sender>>

(* The mesh refuses, or registers and the answer is lost.                  *)
CreateDomainDataFails ==
  /\ pc = "register"
  /\ Fail
  /\ listed' \in {listed, meta}
  /\ UNCHANGED <<dest, server, sender>>

(* Fault: success is reported without stopping the server.                 *)
ShutdownUnsent ==
  /\ pc = "shutdown"
  /\ pc' = "ok"
  /\ UNCHANGED <<attempt, data_key, body, local, dest, meta, listed, server,
                 sender>>

Shutdown ==
  /\ pc = "shutdown"
  /\ server = "running"
  /\ server' = "stopping"
  /\ pc' = "ok"
  /\ UNCHANGED <<attempt, data_key, body, local, dest, meta, listed, sender>>

(* Not delivered, or delivered and the answer lost.                        *)
ShutdownFails ==
  /\ pc = "shutdown"
  /\ Fail
  /\ server' \in {server, IF server = "running" THEN "stopping" ELSE server}
  /\ UNCHANGED <<dest, listed, sender>>

-----------------------------------------------------------------------------
(* The sender's task runs dmserver and ends with it.                       *)

ServerStart ==
  /\ server = "starting"
  /\ server' \in {"running", "failed"}
  /\ UNCHANGED <<receiver, listed, sender>>

(* Graceful shutdown: no request is open by now but a download whose       *)
(* connection broke, which nobody waits for and which is left out.         *)
ServerExit ==
  /\ server = "stopping"
  /\ server' = "exited"
  /\ UNCHANGED <<receiver, listed, sender>>

-----------------------------------------------------------------------------
(* The owner of the data, with the tasks of DataUpload and of deletion.    *)

(* fs::copy truncates the file and writes the new version into it.         *)
OwnerStartsCopy ==
  /\ version < MaxVersions
  /\ Len(file) = NChunks
  /\ version' = version + 1
  /\ file' = <<>>
  /\ UNCHANGED <<receiver, listed, server, cm_key>>

OwnerCopiesChunk ==
  /\ Len(file) < NChunks
  /\ file' = Append(file, <<version, Len(file) + 1>>)
  /\ UNCHANGED <<receiver, listed, server, version, cm_key>>

(* The key follows the data (DataUpload!RegisterKey).                      *)
OwnerRegistersKey ==
  /\ Len(file) = NChunks
  /\ cm_key # version
  /\ cm_key' = version
  /\ UNCHANGED <<receiver, listed, server, file, version>>

(* eval_data_delete deletes the key, not the data.                         *)
OwnerDeletesKey ==
  /\ cm_key # NoKey
  /\ cm_key' = NoKey
  /\ UNCHANGED <<receiver, listed, server, file, version>>

-----------------------------------------------------------------------------
ReceiverNext ==
  \/ GetExportDataKey \/ GetExportDataKeyFails
  \/ Download \/ DownloadFails \/ StreamChunk \/ StreamEnd \/ StreamBroken
  \/ GetDomainDataSource \/ GetDomainDataSourceFails
  \/ DecryptFile \/ DecryptFileFails
  \/ GetPeerDomainData \/ GetPeerDomainDataFails
  \/ CreateDomainData \/ CreateDomainDataFails
  \/ Shutdown \/ ShutdownFails

ServerNext == ServerStart \/ ServerExit

OwnerNext ==
  OwnerStartsCopy \/ OwnerCopiesChunk \/ OwnerRegistersKey \/ OwnerDeletesKey

Next == ReceiverNext \/ ServerNext \/ OwnerNext

Spec == Init /\ [][Next]_vars

-----------------------------------------------------------------------------
(* Properties.                                                             *)

(* Variables hold values of their types.                                   *)
TypeOK ==
  /\ pc \in {"key", "download", "streaming", "source", "decrypt", "meta",
             "register", "shutdown", "ok", "failed"}
  /\ attempt \in 1..MaxAttempts
  /\ {data_key, cm_key} \subseteq 0..MaxVersions
  /\ {body, local, file} \subseteq Seq((1..MaxVersions) \X (1..NChunks))
  /\ dest \in 0..Partial
  /\ {meta, listed} \subseteq {NoSource, SenderSource}
  /\ server \in {"starting", "running", "failed", "stopping", "exited"}
  /\ version \in 1..MaxVersions

(* The receiver's mesh lists the output only once it is complete, and it   *)
(* is one version of the data, although the file and the key may change at *)
(* the sender between and during the calls.                                *)
ListedComplete == listed # NoSource => dest = data_key /\ dest \in 1..MaxVersions

(* Who reads the output through the mesh finds the file: it is listed with *)
(* the data source it was decrypted into (main.py 334-344).                *)
ListedReadable == listed # NoSource => listed = OutputSource
===============================================================================
