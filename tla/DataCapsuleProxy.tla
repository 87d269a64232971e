--------------------------- MODULE DataCapsuleProxy ---------------------------
(***************************************************************************)
(* The data capsule proxy inside a TEE: its start, GetInputData and        *)
(* PutResultData, with the Capsule Manager they call.                      *)
(*                                                                         *)
(* The process gets its TLS certificate and key from the Capsule Manager   *)
(* before it serves.                                                       *)
(* A brpc thread runs each request.  GetInputData fetches encrypted files  *)
(* from a store (an OSS prefix, by way of a temporary directory, or a      *)
(* local directory) and decrypts them into the application's directory.    *)
(* PutResultData encrypts the application's directory into a store and     *)
(* registers the data key with the Capsule Manager.  Both start one thread *)
(* per file with std::async.  The process may be killed and started again, *)
(* and the Capsule Manager restarted with another certificate.             *)
(*                                                                         *)
(* A directory, and an OSS prefix, is a function from file names to        *)
(* contents, or NoDir.  A file name is <<f, "enc">> for f.enc and          *)
(* <<f, "raw">> for f.  Contents are a value and the key it is encrypted   *)
(* under (Plain for a plaintext).                                          *)
(***************************************************************************)
EXTENDS CapsuleManagerClient, FiniteSets, Naturals

CONSTANTS Sessions,  \* what may happen in one run: the requests, records
                     \* [id, kind, s3, path, store, uri, key], and how
                     \* often each fault of FaultKinds
          Files,     \* file names
          InitialFs, \* the directories at the start
          InitialCm, \* the keys the Capsule Manager holds at the start
          Results,   \* directories the application may write as a result
          PageSize,  \* objects that one answer of ListObjects may hold
          NoDir,     \* no such directory
          Overlap    \* may requests on the same path or store overlap?

ASSUME OverlapAssumption == Overlap \in BOOLEAN

Requests == UNION {s.requests : s \in Sessions}

(* A process has one main.                                                 *)
ASSUME SessionsAssumption ==
  /\ \A r \in Requests : r.kind \in {"get", "put", "main"}
  /\ \A s \in Sessions : \A m, n \in s.requests :
       m.kind = "main" /\ n.kind = "main" => m = n

FaultKinds == {"kill", "restart", "rotate"}
ASSUME FaultsAssumption == \A s \in Sessions : s.faults \in [FaultKinds -> Nat]

NoKey == "nokey"
NoUri == "nouri"
Plain == "plain"
Empty == "empty"
Partial == [data |-> "partial", key |-> Plain]

VARIABLES pc,      \* pc[r]: where the handler of request r is
          key,     \* key[r]: its data_key
          todo,    \* todo[r]: file names its current loop has still to visit
          worker,  \* worker[r][f]: the thread that handles file f for r
          fs,      \* contents of every directory and store
          cm,      \* cm[u]: the Capsule Manager's key of resource u
          app,     \* the application has written its result
          found,   \* history: files in r's temporary directory at its start
          client,  \* client[r]: certificate, request in flight and answer
          manager, \* the Capsule Manager's certificate and TLS asset
          tls,     \* the TLS certificate and key on the proxy's disk
          faults   \* faults that may still happen

vars == <<pc, key, todo, worker, fs, cm, app, found, client, manager, tls, faults>>

net == <<client, manager, tls, faults>>

Temp(path) == <<"temp", path>>
App(path) == <<"app", path>>
Store(s) == <<"store", s>>
Uris == {r.uri : r \in {q \in Requests : q.kind # "main"}} \ {NoUri}

Keys == {NoKey} \cup {r.id : r \in Requests} \cup {r.key : r \in Requests}
          \cup {InitialCm[u] : u \in Uris}

ASSUME KeysAssumption ==
  (\A r \in Requests : r.id # NoKey) /\ InitialCm \in [Uris -> STRING]

FileNames == Files \X {"enc", "raw"}

(* What files hold: what those at the start and of a result do, a part of  *)
(* it, and these under another key.                                        *)
GivenContents ==
  UNION {{d[n] : n \in DOMAIN d} :
           d \in ({InitialFs[e] : e \in DOMAIN InitialFs} \cup Results) \ {NoDir}}
Contents ==
  [data : {Partial.data} \cup {c.data : c \in GivenContents},
   key : Keys \cup {Plain} \cup {c.key : c \in GivenContents}]

(* A directory that is there or not; a file without .enc is a plaintext.   *)
IsDirectory(d) ==
  \/ d = NoDir
  \/ /\ DOMAIN d \subseteq FileNames /\ d \in [DOMAIN d -> Contents]
     /\ \A n \in DOMAIN d : n[2] = "raw" => d[n].key = Plain

ASSUME DirectoriesAssumption ==
  /\ IsFiniteSet(Files)
  /\ \A S \in SUBSET FileNames : NoDir \notin [S -> Contents]
  /\ \A d \in DOMAIN InitialFs : IsDirectory(InitialFs[d])
  /\ \A d \in Results : IsDirectory(d)
  /\ \A r \in Requests : r.kind # "main" =>
       {Temp(r.path), App(r.path), Store(r.store)} \subseteq DOMAIN InitialFs

(* The files of directory d.                                               *)
Dir(d) == IF fs[d] = NoDir THEN <<>> ELSE fs[d]
Names(d) == DOMAIN Dir(d)

(* fs after create_directories if needed and a write of c to file n of d.  *)
Write(d, n, c) ==
  [fs EXCEPT ![d] = [m \in Names(d) \cup {n} |-> IF m = n THEN c ELSE Dir(d)[m]]]

(* fs after a thread has filled the file n of d that it opened; a file     *)
(* that another request has removed since is lost.                         *)
Fill(d, n, c) == IF n \in Names(d) THEN Write(d, n, c) ELSE fs

Answered(r) == pc[r] \in {"ok", "err"}
Waiting(r) == pc[r] \in {"idle", "absent"}
Active(r) == ~Waiting(r) /\ ~Answered(r)
Conflict(r, s) == r # s /\ (r.path = s.path \/ r.store = s.store)

NoClient == [cert |-> 0, sent |-> Nothing, answer |-> Nothing]

Init ==
  /\ \E s \in Sessions :
       /\ pc = [r \in Requests |-> IF r \in s.requests THEN "idle" ELSE "absent"]
       /\ faults = s.faults
  /\ key = [r \in Requests |-> NoKey]
  /\ todo = [r \in Requests |-> {}]
  /\ worker = [r \in Requests |-> [f \in Files |-> "none"]]
  /\ fs = InitialFs
  /\ cm = InitialCm
  /\ app = FALSE
  /\ found = [r \in Requests |-> {}]
  /\ client = [r \in Requests |-> NoClient]
  /\ manager = [cert |-> 1, tls |-> 1]
  /\ tls = [cert |-> 0, key |-> 0]

Goto(r, to) == pc' = [pc EXCEPT ![r] = to]
At(r, from, to) == pc[r] = from /\ Goto(r, to)

(* A process that starts by getting its TLS asset serves once it has it.   *)
Serving == \A m \in Requests : m.kind = "main" => pc[m] \in {"absent", "ok"}

(* A request arrives; ~Overlap says that its callers wait for the requests *)
(* that share its directories.                                             *)
Arrive(r) ==
  /\ pc[r] = "idle" /\ Serving
  /\ Overlap \/ \A s \in Requests : Conflict(r, s) => ~Active(s)
  /\ found' = [found EXCEPT ![r] = Names(Temp(r.path))]
-----------------------------------------------------------------------------
(* The data key.                                                           *)

AfterGetKey(r) == IF r.s3 THEN "clear" ELSE "walk"

(* GetInputData with the key in the request, or else from the Capsule      *)
(* Manager; with neither it fails.                                         *)
GetInputData(r) ==
  /\ r.kind = "get"
  /\ Arrive(r)
  /\ IF r.key # NoKey
       THEN key' = [key EXCEPT ![r] = r.key] /\ Goto(r, AfterGetKey(r))
       ELSE UNCHANGED key /\ Goto(r, IF r.uri # NoUri THEN "cert" ELSE "err")
  /\ UNCHANGED <<todo, worker, fs, cm, app, net>>

(* PutResultData takes the key of the request, or 16 random bytes that no  *)
(* other request has (named by the request).                               *)
PutResultData(r) ==
  /\ r.kind = "put"
  /\ Arrive(r)
  /\ Goto(r, "walk")
  /\ key' = [key EXCEPT ![r] = IF r.key = NoKey THEN r.id ELSE r.key]
  /\ UNCHANGED <<todo, worker, fs, cm, app, net>>
-----------------------------------------------------------------------------
(* Calls of the Capsule Manager: GetRaCert in the constructor of the       *)
(* client, a request under the certificate it returned, an answer.         *)

GetRaCert(r) ==
  /\ At(r, "cert", "call")
  /\ \E c \in {manager.cert, 0} : client' = [client EXCEPT ![r].cert = c]
  /\ UNCHANGED <<key, todo, worker, fs, cm, app, found, manager, tls, faults>>

(* A client that got no certificate calls nothing.                         *)
Send(r, request) ==
  /\ client[r].cert # 0
  /\ At(r, "call", "sent")
  /\ client' = [client EXCEPT ![r].sent =
                   GenEncryptedRequest(request, Cert, Cert, client[r].cert)]
  /\ UNCHANGED <<key, todo, worker, fs, cm, app, found, manager, tls, faults>>

GetDataKeys(r) == r.kind = "get" /\ Send(r, ResourceMessage(r.uri))
GetTlsAsset(r) == r.kind = "main" /\ Send(r, ResourceMessage(r.uri))
CreateResultDataKey(r) == r.kind = "put" /\ Send(r, ResultMessage(r.uri, key[r]))

(* The Capsule Manager handles a request, perhaps after the client's       *)
(* deadline; it refuses what it cannot verify and what its policies do not *)
(* allow, and lists no key it does not have.                               *)
Reply(r, answer) ==
  client' = [client EXCEPT ![r].sent = Nothing,
                           ![r].answer = IF pc[r] = "sent" THEN answer ELSE @]

KeysOf(u) == IF cm[u] = NoKey THEN {} ELSE {cm[u]}

ManagerAccepts(r) ==
  /\ client[r].sent # Nothing
  /\ Verified(client[r].sent, manager.cert)
  /\ Reply(r, Answer(CASE r.kind = "get" -> KeysOf(r.uri)
                       [] r.kind = "main" -> manager.tls
                       [] r.kind = "put" -> Nothing))
  /\ cm' = IF r.kind = "put"
           THEN [cm EXCEPT ![r.uri] = client[r].sent.plain.payload.body.data_key]
           ELSE cm
  /\ UNCHANGED <<pc, key, todo, worker, fs, app, found, manager, tls, faults>>

ManagerRefuses(r) ==
  /\ client[r].sent # Nothing
  /\ Reply(r, Refused)
  /\ UNCHANGED <<pc, key, todo, worker, fs, cm, app, found, manager, tls, faults>>

Parsed(r) ==
  /\ client[r].answer # Nothing
  /\ ParseEncryptedResponse(client[r].answer, Cert)

(* Fault: an empty list is not refused.                                    *)
GotDataKeysUnchecked(r) ==
  /\ r.kind = "get" /\ At(r, "sent", AfterGetKey(r))
  /\ Parsed(r)
  /\ \E k \in client[r].answer.message.plain \cup {NoKey} :
       key' = [key EXCEPT ![r] = k]
  /\ client' = [client EXCEPT ![r] = NoClient]
  /\ UNCHANGED <<todo, worker, fs, cm, app, found, manager, tls, faults>>

GotDataKeys(r) ==
  /\ r.kind = "get" /\ At(r, "sent", AfterGetKey(r))
  /\ Parsed(r)
  /\ \E k \in client[r].answer.message.plain : key' = [key EXCEPT ![r] = k]
  /\ client' = [client EXCEPT ![r] = NoClient]
  /\ UNCHANGED <<todo, worker, fs, cm, app, found, manager, tls, faults>>

(* CreateResultDataKey looks at the status only.                           *)
ResultRegistered(r) ==
  /\ r.kind = "put" /\ At(r, "sent", "ok")
  /\ client[r].answer # Nothing /\ client[r].answer.status = OK
  /\ client' = [client EXCEPT ![r] = NoClient]
  /\ UNCHANGED <<key, todo, worker, fs, cm, app, found, manager, tls, faults>>
-----------------------------------------------------------------------------
(* The start of the process.                                               *)

(* main with cm_init_config fetches the TLS asset, without it it serves.   *)
Main(r) ==
  /\ r.kind = "main"
  /\ At(r, "idle", IF r.uri = NoUri THEN "ok" ELSE "cert")
  /\ UNCHANGED <<key, todo, worker, fs, cm, app, found, net>>

WriteTlsCert(r) ==
  /\ r.kind = "main" /\ At(r, "sent", "tlskey")
  /\ Parsed(r)
  /\ tls' = [tls EXCEPT !.cert = client[r].answer.message.plain]
  /\ UNCHANGED <<key, todo, worker, fs, cm, app, found, client, manager, faults>>

(* Fault: a private key that is there already is kept.                     *)
WriteTlsKeyOnce(r) ==
  /\ At(r, "tlskey", "ok")
  /\ tls' = [tls EXCEPT !.key = IF @ = 0 THEN client[r].answer.message.plain ELSE @]
  /\ client' = [client EXCEPT ![r] = NoClient]
  /\ UNCHANGED <<key, todo, worker, fs, cm, app, found, manager, faults>>

(* The private key is written, and the server started.                     *)
WriteTlsKey(r) ==
  /\ At(r, "tlskey", "ok")
  /\ tls' = [tls EXCEPT !.key = client[r].answer.message.plain]
  /\ client' = [client EXCEPT ![r] = NoClient]
  /\ UNCHANGED <<key, todo, worker, fs, cm, app, found, manager, faults>>
-----------------------------------------------------------------------------
(* GetInputData: DownloadFromOss into the temporary directory.             *)

ClearTemp(r) ==
  /\ At(r, "clear", "list")
  /\ fs' = [fs EXCEPT ![Temp(r.path)] = NoDir]
  /\ UNCHANGED <<key, todo, worker, cm, app, found, net>>

(* One call of ListObjects: the first page; an empty list is an error.     *)
ListObjects(r) ==
  /\ At(r, "list", "download")
  /\ \E page \in SUBSET Names(Store(r.store)) :
       /\ page # {}
       /\ Cardinality(page) = PageSize \/ page = Names(Store(r.store))
       /\ Cardinality(page) <= PageSize
       /\ todo' = [todo EXCEPT ![r] = page]
  /\ UNCHANGED <<key, worker, fs, cm, app, found, net>>

Download(r, n) ==
  /\ pc[r] = "download" /\ n \in todo[r]
  /\ fs' = Write(Temp(r.path), n, fs[Store(r.store)][n])
  /\ todo' = [todo EXCEPT ![r] = @ \ {n}]
  /\ UNCHANGED <<pc, key, worker, cm, app, found, net>>

DownloadDone(r) ==
  /\ todo[r] = {}
  /\ At(r, "download", "walk")
  /\ UNCHANGED <<key, todo, worker, fs, cm, app, found, net>>
-----------------------------------------------------------------------------
(* DecryptToDir and EncryptToDir: one thread per file.                     *)

In(r) ==
  IF r.kind = "put" THEN App(r.path)
  ELSE IF r.s3 THEN Temp(r.path) ELSE Store(r.store)

Out(r) ==
  IF r.kind = "get" THEN App(r.path)
  ELSE IF r.s3 THEN Temp(r.path) ELSE Store(r.store)

(* The name a thread of r reads for file f, and the name it writes.        *)
InName(r, f) == <<f, IF r.kind = "get" THEN "enc" ELSE "raw">>
OutName(r, f) == <<f, IF r.kind = "get" THEN "raw" ELSE "enc">>

(* The loop over the source directory, which must exist.                   *)
Walk(r) ==
  /\ fs[In(r)] # NoDir
  /\ At(r, "walk", "spawn")
  /\ todo' = [todo EXCEPT ![r] = Names(In(r))]
  /\ UNCHANGED <<key, worker, fs, cm, app, found, net>>

(* The directory is created and a thread started.                          *)
Spawn(r, f) ==
  /\ pc[r] = "spawn" /\ InName(r, f) \in todo[r]
  /\ worker' = [worker EXCEPT ![r][f] = "started"]
  /\ fs' = [fs EXCEPT ![Out(r)] = Dir(Out(r))]
  /\ todo' = [todo EXCEPT ![r] = @ \ {InName(r, f)}]
  /\ UNCHANGED <<pc, key, cm, app, found, net>>

(* DecryptToDir copies a file without .enc in the handler's own thread.    *)
CopyFile(r, n) ==
  /\ pc[r] = "spawn" /\ r.kind = "get" /\ n \in todo[r] /\ n[2] = "raw"
  /\ n \in Names(In(r))
  /\ fs' = Write(Out(r), n, fs[In(r)][n])
  /\ todo' = [todo EXCEPT ![r] = @ \ {n}]
  /\ UNCHANGED <<pc, key, worker, cm, app, found, net>>

Running(r) == {f \in Files : worker[r][f] \in {"started", "open"}}
Failed(r) == {f \in Files : worker[r][f] = "failed"}

(* EncryptFile refuses an empty file before it opens its output;           *)
(* DecryptFile opens its output before it looks at the input.              *)
OpenOutput(r, f) ==
  /\ worker[r][f] = "started"
  /\ InName(r, f) \in Names(In(r)) /\ fs[Out(r)] # NoDir
  /\ r.kind = "put" => fs[In(r)][InName(r, f)].data # Empty
  /\ fs' = Write(Out(r), OutName(r, f), Partial)
  /\ worker' = [worker EXCEPT ![r][f] = "open"]
  /\ UNCHANGED <<pc, key, todo, cm, app, found, net>>

(* Fault: the key field of the request is used instead of the data key.    *)
EncryptFileRequestKey(r, f) ==
  LET c == fs[In(r)][InName(r, f)] IN
  /\ worker[r][f] = "open" /\ r.kind = "put"
  /\ InName(r, f) \in Names(In(r))
  /\ fs' = Fill(Out(r), OutName(r, f), [c EXCEPT !.key = r.key])
  /\ worker' = [worker EXCEPT ![r][f] = "done"]
  /\ UNCHANGED <<pc, key, todo, cm, app, found, net>>

EncryptFile(r, f) ==
  LET c == fs[In(r)][InName(r, f)] IN
  /\ worker[r][f] = "open" /\ r.kind = "put"
  /\ InName(r, f) \in Names(In(r))
  /\ fs' = Fill(Out(r), OutName(r, f), [c EXCEPT !.key = key[r]])
  /\ worker' = [worker EXCEPT ![r][f] = "done"]
  /\ UNCHANGED <<pc, key, todo, cm, app, found, net>>

(* The tags of the blocks match only under the key of the encryption.  An  *)
(* input that another request removes while it is read counts as an error. *)
DecryptFile(r, f) ==
  LET c == fs[In(r)][InName(r, f)] IN
  /\ worker[r][f] = "open" /\ r.kind = "get"
  /\ InName(r, f) \in Names(In(r)) /\ c.key = key[r]
  /\ fs' = Fill(Out(r), OutName(r, f), [c EXCEPT !.key = Plain])
  /\ worker' = [worker EXCEPT ![r][f] = "done"]
  /\ UNCHANGED <<pc, key, todo, cm, app, found, net>>

(* A thread throws: an I/O error, a refused or a damaged file.             *)
WorkerFails(r, f) ==
  /\ f \in Running(r)
  /\ worker' = [worker EXCEPT ![r][f] = "failed"]
  /\ UNCHANGED <<pc, key, todo, fs, cm, app, found, net>>

AfterJoin(r) ==
  IF r.kind = "get" THEN IF r.s3 THEN "cleanup" ELSE "ok"
  ELSE IF r.s3 THEN "upload" ELSE "register"

(* Fault: the failure of a thread is not looked at.                        *)
JoinUnchecked(r) ==
  /\ todo[r] = {} /\ Running(r) = {}
  /\ At(r, "spawn", AfterJoin(r))
  /\ UNCHANGED <<key, todo, worker, fs, cm, app, found, net>>

(* Fault: a failed future is waited for.                                   *)
JoinWaiting(r) ==
  /\ todo[r] = {} /\ Running(r) = {} /\ Failed(r) = {}
  /\ At(r, "spawn", AfterJoin(r))
  /\ UNCHANGED <<key, todo, worker, fs, cm, app, found, net>>

(* future.get() on all: it throws the failure of a thread, and the         *)
(* destructors of the other futures wait for theirs.                       *)
Join(r) ==
  /\ todo[r] = {} /\ Running(r) = {}
  /\ At(r, "spawn", IF Failed(r) = {} THEN AfterJoin(r) ELSE "err")
  /\ UNCHANGED <<key, todo, worker, fs, cm, app, found, net>>

(* Fault: an exception of the loop leaves the threads running.             *)
UnwindDetached(r) ==
  /\ At(r, "unwind", "err")
  /\ UNCHANGED <<key, todo, worker, fs, cm, app, found, net>>

(* An exception of the loop destroys the futures, which waits for them.    *)
Unwind(r) ==
  /\ Running(r) = {}
  /\ At(r, "unwind", "err")
  /\ UNCHANGED <<key, todo, worker, fs, cm, app, found, net>>
-----------------------------------------------------------------------------
(* PutResultData: UploadToOss everything in the temporary directory.       *)

UploadToOss(r) ==
  /\ fs[Temp(r.path)] # NoDir
  /\ At(r, "upload", "uploading")
  /\ todo' = [todo EXCEPT ![r] = Names(Temp(r.path))]
  /\ UNCHANGED <<key, worker, fs, cm, app, found, net>>

Upload(r, n) ==
  /\ pc[r] = "uploading" /\ n \in todo[r]
  /\ n \in Names(Temp(r.path))
  /\ fs' = Write(Store(r.store), n, fs[Temp(r.path)][n])
  /\ todo' = [todo EXCEPT ![r] = @ \ {n}]
  /\ UNCHANGED <<pc, key, worker, cm, app, found, net>>

(* Fault: the loop stops early.                                            *)
UploadDoneEarly(r) ==
  /\ Cardinality(todo[r]) <= 1
  /\ At(r, "uploading", "cleanup")
  /\ UNCHANGED <<key, todo, worker, fs, cm, app, found, net>>

UploadDone(r) ==
  /\ todo[r] = {}
  /\ At(r, "uploading", "cleanup")
  /\ UNCHANGED <<key, todo, worker, fs, cm, app, found, net>>

AfterCleanup(r) == IF r.kind = "get" THEN "ok" ELSE "register"

(* Fault: the temporary directory stays.                                   *)
CleanupSkipped(r) ==
  /\ At(r, "cleanup", AfterCleanup(r))
  /\ UNCHANGED <<key, todo, worker, fs, cm, app, found, net>>

Cleanup(r) ==
  /\ At(r, "cleanup", AfterCleanup(r))
  /\ fs' = [fs EXCEPT ![Temp(r.path)] = NoDir]
  /\ UNCHANGED <<key, todo, worker, cm, app, found, net>>

(* A result without a resource URI is not registered.                      *)
RegisterResult(r) ==
  /\ At(r, "register", IF r.uri = NoUri THEN "ok" ELSE "cert")
  /\ UNCHANGED <<key, todo, worker, fs, cm, app, found, net>>

(* The client is gone; a registration it has sent may still be handled.    *)
Abandoned(r) ==
  [NoClient EXCEPT !.sent = IF r.kind = "put" THEN client[r].sent ELSE Nothing]

(* A step of the handler throws: a refused, malformed or failed call, or   *)
(* one whose deadline has passed.                                          *)
HandlerFails(r) ==
  /\ Active(r) /\ pc[r] # "unwind"
  /\ pc[r] = "spawn" => todo[r] # {}
  /\ Goto(r, IF pc[r] = "spawn" THEN "unwind" ELSE "err")
  /\ client' = [client EXCEPT ![r] = Abandoned(r)]
  /\ UNCHANGED <<key, todo, worker, fs, cm, app, found, manager, tls, faults>>

(* The application writes its result while no request uses the directory.  *)
ApplicationWrites(r) ==
  /\ r.kind = "put" /\ pc[r] # "absent" /\ ~app
  /\ \A s \in Requests : s.path = r.path => ~Active(s)
  /\ app' = TRUE
  /\ \E d \in Results : fs' = [fs EXCEPT ![App(r.path)] = d]
  /\ UNCHANGED <<pc, key, todo, worker, cm, found, net>>
-----------------------------------------------------------------------------
(* Faults around the proxy.                                                *)

Fault(f) == faults[f] > 0 /\ faults' = [faults EXCEPT ![f] = @ - 1]

(* The process is killed with its threads, which leave files half written, *)
(* and started again; its callers see an error.                            *)
ProxyKilled ==
  /\ Fault("kill")
  /\ pc' = [r \in Requests |-> IF r.kind = "main" /\ pc[r] # "absent" THEN "idle"
                               ELSE IF Active(r) THEN "err" ELSE pc[r]]
  /\ worker' = [r \in Requests |-> [f \in Files |->
                  IF f \in Running(r) THEN "failed" ELSE worker[r][f]]]
  /\ client' = [r \in Requests |-> Abandoned(r)]
  /\ UNCHANGED <<key, todo, fs, cm, app, found, manager, tls>>

(* The Capsule Manager starts again with another certificate and forgets   *)
(* the requests it has not handled.                                        *)
ManagerRestarts ==
  /\ Fault("restart")
  /\ manager' = [manager EXCEPT !.cert = @ + 1]
  /\ client' = [r \in Requests |-> [client[r] EXCEPT !.sent = Nothing]]
  /\ UNCHANGED <<pc, key, todo, worker, fs, cm, app, found, tls>>

(* The owner of the TLS asset renews it.                                   *)
AssetRotates ==
  /\ Fault("rotate")
  /\ manager' = [manager EXCEPT !.tls = @ + 1]
  /\ UNCHANGED <<pc, key, todo, worker, fs, cm, app, found, client, tls>>
-----------------------------------------------------------------------------
Transfer(r) ==
  \E n \in todo[r] : Download(r, n) \/ CopyFile(r, n) \/ Upload(r, n)

HandlerStep(r) ==
  \/ GetRaCert(r) \/ GetDataKeys(r) \/ GotDataKeys(r)
  \/ GetTlsAsset(r) \/ WriteTlsCert(r) \/ WriteTlsKey(r)
  \/ ClearTemp(r) \/ ListObjects(r)
  \/ DownloadDone(r) \/ Walk(r) \/ Join(r) \/ Unwind(r)
  \/ UploadToOss(r) \/ UploadDone(r) \/ Cleanup(r)
  \/ RegisterResult(r) \/ CreateResultDataKey(r) \/ ResultRegistered(r)
  \/ Transfer(r)
  \/ \E f \in Files : Spawn(r, f)

WorkerStep(r, f) ==
  OpenOutput(r, f) \/ EncryptFile(r, f) \/ DecryptFile(r, f) \/ WorkerFails(r, f)

Next ==
  \/ ProxyKilled \/ ManagerRestarts \/ AssetRotates
  \/ \E r \in Requests :
    \/ ManagerAccepts(r) \/ ManagerRefuses(r)
    \/ Main(r) \/ GetInputData(r) \/ PutResultData(r)
    \/ HandlerStep(r) \/ HandlerFails(r)
    \/ \E f \in Files : WorkerStep(r, f)
    \/ ApplicationWrites(r)

Spec == Init /\ [][Next]_vars

(* The threads of brpc and std::async keep running: every call a handler   *)
(* or a thread makes returns or throws (remote calls have deadlines).      *)
Fairness ==
  \A r \in Requests :
    /\ WF_vars(HandlerStep(r) \/ HandlerFails(r))
    /\ \A f \in Files : WF_vars(WorkerStep(r, f))

FairSpec == Spec /\ Fairness
-----------------------------------------------------------------------------
(* Properties.                                                             *)

Places ==
  {"absent", "idle", "cert", "call", "sent", "tlskey", "clear", "list", "download",
   "walk", "spawn", "unwind", "upload", "uploading", "cleanup", "register", "ok", "err"}

(* Places of a handler that has no data key yet, or will have none.        *)
Keyless(r) ==
  \/ r.kind = "main" \/ Waiting(r) \/ pc[r] = "err"
  \/ r.kind = "get" /\ pc[r] \in {"cert", "call", "sent"}

(* The type of every variable; a handler that works on files has a key.    *)
TypeOK ==
  /\ pc \in [Requests -> Places]
  /\ key \in [Requests -> Keys]
  /\ \A r \in Requests : Keyless(r) \/ key[r] # NoKey
  /\ todo \in [Requests -> SUBSET FileNames]
  /\ worker \in [Requests -> [Files -> {"none", "started", "open", "done", "failed"}]]
  /\ cm \in [Uris -> Keys]
  /\ app \in BOOLEAN
  /\ \A r \in Requests : pc[r] = "idle" => client[r] = NoClient
  /\ manager \in [cert : Nat, tls : Nat] /\ tls \in [cert : Nat, key : Nat]
  /\ faults \in [FaultKinds -> Nat]

(* No thread of a request is left when the request is answered, whether it *)
(* succeeded, a thread failed or the loop that started them did: a retry   *)
(* never meets threads of the failed call (crypto_util.cc 284-319,         *)
(* 377-399).                                                               *)
NoOrphanThread == \A r \in Requests : Answered(r) => Running(r) = {}

Succeeds(r) == pc[r] # "ok" /\ pc'[r] = "ok"

(* f for f.enc and f.enc for f: both become f.                             *)
Twin(n) == <<n[1], IF n[2] = "enc" THEN "raw" ELSE "enc">>

(* Without overlap, a GetInputData that succeeds leaves in the             *)
(* application's directory the plaintext of every file of the store that   *)
(* is not in it both encrypted and in the clear (oss_client.cc 40-41,      *)
(* data_capsule_proxy.cc 108-127).                                         *)
GetDelivers ==
  [][\A r \in Requests : Succeeds(r) /\ r.kind = "get" =>
       \A n \in Names(Store(r.store)) : Twin(n) \notin Names(Store(r.store)) =>
         /\ <<n[1], "raw">> \in DOMAIN fs'[App(r.path)]
         /\ fs'[App(r.path)][<<n[1], "raw">>]
              = [data |-> fs[Store(r.store)][n].data, key |-> Plain]]_vars

(* Every file of r's directory is in its store under r's data key.         *)
Stored(r) ==
  \A n \in Names(App(r.path)) :
    /\ <<n[1], "enc">> \in Names(Store(r.store))
    /\ fs[Store(r.store)][<<n[1], "enc">>]
         = [data |-> fs[App(r.path)][n].data, key |-> key[r]]

(* Puts of one resource share a directory or a store.                      *)
ResultsConflict ==
  \A r, s \in Requests :
    r.kind = "put" /\ s.kind = "put" /\ r # s /\ r.uri = s.uri /\ r.uri # NoUri
      => Conflict(r, s)

(* r's registration was given up on while it was under way.                *)
GivenUp(r) == r.kind = "put" /\ pc[r] = "err"

(* Without overlap, a PutResultData that succeeds has stored every file of *)
(* the result under its data key, and the Capsule Manager has that key if  *)
(* it was to be registered, or the key of a put that was given up on and   *)
(* handled late (data_capsule_proxy.cc 158-196,                            *)
(* capsule_manager_client.cc 204-228).                                     *)
PutDelivers ==
  [][\A r \in Requests : Succeeds(r) /\ r.kind = "put" =>
       /\ Stored(r)'
       /\ r.uri # NoUri =>
            \/ cm'[r.uri] = key[r]
            \/ \E s \in Requests : GivenUp(s) /\ s.uri = r.uri /\ cm'[r.uri] = key[s]]_vars

(* Without overlap, a data key leaves the proxy only once everything to be *)
(* decrypted with it is stored, and the Capsule Manager takes no other     *)
(* key, also from requests given up on.                                    *)
KeyAfterData ==
  [][\A r \in Requests : r.kind = "put" =>
       /\ client'[r].sent # Nothing /\ client[r].sent = Nothing => Stored(r)
       /\ r.uri # NoUri /\ cm'[r.uri] # cm[r.uri] =>
            \E s \in Requests : /\ s.uri = r.uri /\ cm'[r.uri] = key[s]
                                /\ client[s].sent # Nothing]_vars

(* Without overlap, what an upload puts into a store is encrypted under    *)
(* the data key of the request, except for files that were in its          *)
(* temporary directory before it started (left by a failed request;        *)
(* PutResultData does not clear it).                                       *)
UploadsOwn ==
  [][\A r \in Requests : pc[r] = "uploading" =>
       \A n \in Names(Store(r.store))' :
         \/ n \in Names(Store(r.store)) /\ fs'[Store(r.store)][n] = fs[Store(r.store)][n]
         \/ fs'[Store(r.store)][n].key = key[r]
         \/ n \in found[r]]_vars

(* Without overlap, a request that succeeds through OSS leaves no          *)
(* temporary directory.                                                    *)
TempRemoved ==
  [][\A r \in Requests :
       Succeeds(r) /\ r.kind # "main" /\ r.s3 => fs'[Temp(r.path)] = NoDir]_vars

(* Only its policies make the Capsule Manager refuse the proxy: the        *)
(* envelope opens, is signed and carries a report for this very request,   *)
(* unless the Capsule Manager has restarted since the client asked for its *)
(* certificate (capsule_manager_client.cc 95-117, 195-212).                *)
PolicyRefuses ==
  \A r \in Requests :
    pc[r] = "sent" /\ client[r].sent # Nothing /\ client[r].cert = manager.cert
      => Verified(client[r].sent, manager.cert)

(* A proxy that serves has a TLS certificate and private key of the same   *)
(* asset, whenever the asset was renewed and the process killed before     *)
(* (main.cc 94-107).                                                       *)
TlsPair ==
  \A r \in Requests : r.kind = "main" /\ pc[r] = "ok" /\ r.uri # NoUri
    => tls.cert # 0 /\ tls.cert = tls.key

(* Every request is answered, whatever fails and however the requests      *)
(* interfere in the directories they share.                                *)
EveryRequestAnswered ==
  \A r \in Requests : Active(r) ~> Answered(r)
=============================================================================
