--------------------------- MODULE DataExportProofs ---------------------------
(***************************************************************************)
(* Proofs about DataExport, for every number of chunks, versions and       *)
(* attempts and whatever the two data sources are called.                  *)
(***************************************************************************)
EXTENDS DataExport, TLAPS

USE ExportAssumption

Chunks == (1..MaxVersions) \X (1..NChunks)

(* A version is a sequence of chunks.                                      *)
LEMMA FullSeq ==
  ASSUME NEW v \in 1..MaxVersions
  PROVE  Full(v) \in Seq(Chunks) /\ Len(Full(v)) = NChunks
BY DEF Full, Chunks

(* The initial state has the types.                                        *)
LEMMA TypeInit == Init => TypeOK
<1> SUFFICES ASSUME Init PROVE TypeOK
  OBVIOUS
<1>1. file \in Seq(Chunks)
  BY FullSeq DEF Init
<1>2. <<>> \in Seq(Chunks)
  OBVIOUS
<1> QED
  BY <1>1, <1>2 DEF Init, TypeOK, NoKey, NoData, Partial, Chunks

(* TypeOK is inductive: the owner appends a chunk only to a file that is   *)
(* not complete, and attempts are counted up to their limit.               *)
LEMMA TypeStep == TypeOK /\ [Next]_vars => TypeOK'
<1> SUFFICES ASSUME TypeOK, [Next]_vars PROVE TypeOK'
  OBVIOUS
<1> USE DEF TypeOK, receiver, sender
<1>f. file \in Seq(Chunks) /\ body \in Seq(Chunks) /\ local \in Seq(Chunks)
  BY DEF Chunks
<1>1. CASE GetExportDataKey \/ GetExportDataKeyFails
  BY <1>1 DEF GetExportDataKey, GetExportDataKeyFails, Fail
<1>2. CASE Download
  <2>1. body' \in Seq(Chunks)
    BY <1>2 DEF Download
  <2> QED
    BY <1>2, <2>1 DEF Download, Chunks
<1>3. CASE DownloadFails \/ StreamBroken \/ GetPeerDomainDataFails
  <2>1. AfterFailedAttempt("download") \/ AfterFailedAttempt("meta")
    BY <1>3 DEF DownloadFails, StreamBroken, GetPeerDomainDataFails
  <2>2. pc' \in {"download", "meta", "failed"} /\ attempt' \in 1..MaxAttempts
    BY <2>1 DEF AfterFailedAttempt
  <2>3. UNCHANGED <<data_key, local, meta>>
    BY <2>1 DEF AfterFailedAttempt
  <2>4. UNCHANGED <<body, dest, listed, server, file, version, cm_key>>
    BY <1>3 DEF DownloadFails, StreamBroken, GetPeerDomainDataFails
  <2> QED
    BY <2>2, <2>3, <2>4
<1>4. CASE StreamChunk
  <2>1. Len(body) + 1 \in 1..Len(file)
    BY <1>4, <1>f DEF StreamChunk
  <2>2. file[Len(body) + 1] \in Chunks
    BY <1>f, <2>1
  <2>3. body' \in Seq(Chunks)
    BY <1>4, <1>f, <2>2 DEF StreamChunk
  <2> QED
    BY <1>4, <2>3 DEF StreamChunk, Chunks
<1>5. CASE StreamEnd
  BY <1>5 DEF StreamEnd
<1>6. CASE GetDomainDataSource \/ GetDomainDataSourceFails
  BY <1>6 DEF GetDomainDataSource, GetDomainDataSourceFails, Fail
<1>7. CASE DecryptFile \/ DecryptFileFails
  BY <1>7 DEF DecryptFile, DecryptFileFails, Fail, NoData, Partial
<1>8. CASE GetPeerDomainData
  BY <1>8 DEF GetPeerDomainData
<1>9. CASE CreateDomainData \/ CreateDomainDataFails
  BY <1>9 DEF CreateDomainData, CreateDomainDataFails, Fail
<1>10. CASE Shutdown \/ ShutdownFails
  BY <1>10 DEF Shutdown, ShutdownFails, Fail
<1>11. CASE ServerNext
  BY <1>11 DEF ServerNext, ServerStart, ServerExit
<1>12. CASE OwnerStartsCopy
  <2>1. file' \in Seq(Chunks)
    BY <1>12 DEF OwnerStartsCopy
  <2> QED
    BY <1>12, <2>1 DEF OwnerStartsCopy, Chunks
<1>13. CASE OwnerCopiesChunk
  <2>1. <<version, Len(file) + 1>> \in Chunks
    BY <1>13, <1>f DEF OwnerCopiesChunk, Chunks
  <2>2. file' \in Seq(Chunks)
    BY <1>13, <1>f, <2>1 DEF OwnerCopiesChunk
  <2> QED
    BY <1>13, <2>2 DEF OwnerCopiesChunk, Chunks
<1>14. CASE OwnerRegistersKey \/ OwnerDeletesKey
  <2>1. cm_key' = version \/ cm_key' = 0
    BY <1>14 DEF OwnerRegistersKey, OwnerDeletesKey, NoKey
  <2>2. cm_key' \in 0..MaxVersions
    BY <2>1
  <2>3. UNCHANGED <<receiver, listed, server, file, version>>
    BY <1>14 DEF OwnerRegistersKey, OwnerDeletesKey
  <2> QED
    BY <2>2, <2>3
<1>15. CASE UNCHANGED vars
  BY <1>15 DEF vars
<1> QED
  BY <1>1, <1>2, <1>3, <1>4, <1>5, <1>6, <1>7, <1>8, <1>9, <1>10, <1>11,
     <1>12, <1>13, <1>14, <1>15
  DEF Next, ReceiverNext, OwnerNext

(* Every variable keeps its type.                                          *)
THEOREM TypeCorrect == Spec => []TypeOK
BY TypeInit, TypeStep, PTL DEF Spec
-----------------------------------------------------------------------------
Versions == 1..MaxVersions

(* The receiver has a key from its first step on, the output is the        *)
(* version of that key once it is decrypted, and nothing is listed before. *)
ExportInv ==
  /\ cm_key \in 0..MaxVersions
  /\ pc \notin {"key", "failed"} => data_key \in Versions
  /\ pc \in {"meta", "register", "shutdown", "ok"} => dest = data_key
  /\ pc \notin {"shutdown", "ok", "failed"} => listed = NoSource
  /\ listed # NoSource => dest = data_key /\ data_key \in Versions

(* No step of the receiver, of the server or of the owner breaks it; the   *)
(* owner's steps do not reach what the receiver has already got.           *)
LEMMA ExportStep == TypeOK' /\ ExportInv /\ [Next]_vars => ExportInv'
<1> SUFFICES ASSUME TypeOK', ExportInv, [Next]_vars PROVE ExportInv'
  OBVIOUS
<1>k. cm_key' \in 0..MaxVersions
  BY DEF TypeOK
<1> USE DEF ExportInv, Versions, receiver, sender
<1>1. CASE GetExportDataKey \/ GetExportDataKeyFails
  BY <1>k, <1>1 DEF GetExportDataKey, GetExportDataKeyFails, Fail, NoKey
<1>2. CASE Download \/ StreamChunk \/ StreamEnd \/ GetDomainDataSource
  BY <1>k, <1>2 DEF Download, StreamChunk, StreamEnd, GetDomainDataSource
<1>3. CASE DownloadFails \/ StreamBroken \/ GetPeerDomainDataFails
  BY <1>k, <1>3 DEF DownloadFails, StreamBroken, GetPeerDomainDataFails, AfterFailedAttempt
<1>4. CASE GetDomainDataSourceFails
  BY <1>k, <1>4 DEF GetDomainDataSourceFails, Fail
<1>5. CASE DecryptFile
  BY <1>k, <1>5 DEF DecryptFile
<1>6. CASE DecryptFileFails
  BY <1>k, <1>6 DEF DecryptFileFails, Fail
<1>7. CASE GetPeerDomainData
  BY <1>k, <1>7 DEF GetPeerDomainData
<1>8. CASE CreateDomainData
  BY <1>k, <1>8 DEF CreateDomainData
<1>9. CASE CreateDomainDataFails
  BY <1>k, <1>9 DEF CreateDomainDataFails, Fail
<1>10. CASE Shutdown \/ ShutdownFails
  BY <1>k, <1>10 DEF Shutdown, ShutdownFails, Fail
<1>11. CASE ServerNext \/ OwnerNext
  BY <1>k, <1>11
  DEF ServerNext, ServerStart, ServerExit, OwnerNext, OwnerStartsCopy,
      OwnerCopiesChunk, OwnerRegistersKey, OwnerDeletesKey
<1>12. CASE UNCHANGED vars
  BY <1>12 DEF vars
<1> QED
  BY <1>1, <1>2, <1>3, <1>4, <1>5, <1>6, <1>7, <1>8, <1>9, <1>10, <1>11, <1>12
  DEF Next, ReceiverNext

(* The receiver's mesh never lists an output that is not one complete      *)
(* version of the data, whatever the owner does to file and key during the *)
(* export (main.py 282-372, download.rs 52-56).                            *)
THEOREM ListedWhole == Spec => []ListedComplete
<1>1. Init => ExportInv
  BY DEF Init, ExportInv
<1>2. ExportInv => ListedComplete
  BY DEF ExportInv, ListedComplete, Versions
<1> QED
  BY <1>1, <1>2, TypeInit, TypeStep, ExportStep, PTL DEF Spec
===============================================================================
