------------------------ MODULE DataCapsuleProxyProofs ------------------------
(***************************************************************************)
(* Proofs about DataCapsuleProxy, for all sessions, files, directories and *)
(* faults, and overlapping requests.                                       *)
(***************************************************************************)
EXTENDS DataCapsuleProxy, TLAPS

-----------------------------------------------------------------------------
(* The inductive invariant.                                                *)

Types ==
  /\ pc \in [Requests -> Places]
  /\ worker \in [Requests -> [Files -> {"none", "started", "open", "done", "failed"}]]
  /\ DOMAIN client = Requests /\ DOMAIN key = Requests
  /\ \A r \in Requests : DOMAIN client[r] = {"cert", "sent", "answer"}
  /\ manager \in [cert : Nat, tls : Nat \ {0}]
  /\ DOMAIN tls = {"cert", "key"}

(* Threads run only while their handler starts them or waits for them.     *)
ThreadsAwaited ==
  \A r \in Requests : Running(r) # {} => pc[r] \in {"spawn", "unwind"}

(* What a handler that waits for an answer has sent, while it is on its    *)
(* way, is an envelope for the certificate the client holds; a request     *)
(* that this run does not have sends nothing.                              *)
Request(r) == IF r.kind = "put" THEN ResultMessage(r.uri, key[r])
                                ELSE ResourceMessage(r.uri)
EnvelopeSent ==
  \A r \in Requests :
    /\ pc[r] = "sent" /\ client[r].sent # Nothing =>
         client[r].sent = GenEncryptedRequest(Request(r), Cert, Cert, client[r].cert)
    /\ pc[r] = "absent" => client[r].sent = Nothing

(* The process has one main, which touches no data, and what it was        *)
(* answered is an asset.                                                   *)
Asset(r) == client[r].answer.message.plain
OneMain ==
  \A m, n \in Requests :
    m.kind = "main" /\ n.kind = "main" /\ pc[m] # "absent" /\ pc[n] # "absent" => m = n
MainPlaces ==
  \A r \in Requests :
    /\ r.kind = "main" =>
         pc[r] \in {"absent", "idle", "cert", "call", "sent", "tlskey", "ok", "err"}
    /\ pc[r] = "tlskey" => r.kind = "main"
AssetAnswered ==
  \A r \in Requests : r.kind = "main" =>
    /\ client[r].answer # Nothing /\ client[r].answer.status = OK
         => Asset(r) \in Nat \ {0}
    /\ pc[r] = "tlskey" => tls.cert = Asset(r) /\ Asset(r) \in Nat \ {0}

IInv ==
  /\ Types /\ ThreadsAwaited /\ EnvelopeSent
  /\ OneMain /\ MainPlaces /\ AssetAnswered /\ TlsPair

-----------------------------------------------------------------------------
(* Every session starts in the invariant.                                  *)
LEMMA InvInit == Init => IInv
<1> SUFFICES ASSUME Init PROVE IInv
  OBVIOUS
<1>1. PICK s \in Sessions :
        pc = [r \in Requests |-> IF r \in s.requests THEN "idle" ELSE "absent"]
  BY DEF Init
<1>2. Types
  BY <1>1 DEF Init, Types, Places, NoClient
<1>3. OneMain
  BY <1>1, SessionsAssumption DEF OneMain
<1>4. \A r \in Requests : pc[r] \in {"idle", "absent"} /\ client[r] = NoClient
                          /\ Running(r) = {}
  BY <1>1 DEF Init, Running
<1> QED
  BY <1>2, <1>3, <1>4 DEF IInv, ThreadsAwaited, EnvelopeSent, MainPlaces,
     AssetAnswered, TlsPair, NoClient

(* A step to place to with client c sends r's request, or nothing, and     *)
(* takes main on its way.                                                  *)
SendsOwn(r, to, c) ==
  to = "sent" /\ c.sent # Nothing =>
    c.sent = GenEncryptedRequest(Request(r)', Cert, Cert, c.cert)
MainGoesOn(r, to, c) ==
  /\ r.kind # "main" => UNCHANGED tls /\ to # "tlskey"
  /\ r.kind = "main" =>
       /\ to \in {"absent", "idle", "cert", "call", "sent", "tlskey", "ok", "err"}
       /\ c.answer # Nothing /\ c.answer.status = OK
            => c.answer.message.plain \in Nat \ {0}
       /\ to = "tlskey" => /\ tls'.cert = c.answer.message.plain
                           /\ c.answer.message.plain \in Nat \ {0}
       /\ to = "ok" /\ r.uri # NoUri => tls'.cert # 0 /\ tls'.cert = tls'.key

(* A step of the handler of r, or of the Capsule Manager for r, to place   *)
(* to with client c keeps the invariant under what IInv says of r alone.   *)
LEMMA Steps ==
  ASSUME IInv, NEW r \in Requests, NEW to \in Places \ {"absent"}, NEW c,
         pc[r] # "absent", Goto(r, to),
         DOMAIN client' = Requests, DOMAIN key' = Requests, client'[r] = c,
         DOMAIN c = {"cert", "sent", "answer"},
         \A q \in Requests : q # r => client'[q] = client[q] /\ key'[q] = key[q],
         UNCHANGED <<worker, manager>>, DOMAIN tls' = {"cert", "key"},
         Running(r) = {} \/ to \in {"spawn", "unwind"},
         SendsOwn(r, to, c), MainGoesOn(r, to, c)
  PROVE  IInv'
<1>1. /\ pc' \in [Requests -> Places] /\ pc'[r] = to
      /\ \A q \in Requests : q # r => pc'[q] = pc[q]
  BY DEF IInv, Types, Goto
<1>2. Types'
  BY <1>1 DEF IInv, Types
<1>3. \A q \in Requests : Running(q)' = Running(q)
  BY DEF Running
<1>4. ThreadsAwaited'
  BY <1>1, <1>3 DEF IInv, ThreadsAwaited
<1>5. EnvelopeSent'
  BY <1>1 DEF IInv, EnvelopeSent, Request, SendsOwn
<1>6. OneMain' /\ MainPlaces'
  BY <1>1 DEF IInv, OneMain, MainPlaces, MainGoesOn
<1>7. \A q \in Requests : q # r /\ q.kind = "main" /\ pc[q] # "absent" => UNCHANGED tls
  BY DEF IInv, OneMain, MainGoesOn
<1>8. AssetAnswered'
  BY <1>1, <1>7 DEF IInv, AssetAnswered, Asset, MainGoesOn
<1>9. TlsPair'
  BY <1>1, <1>7 DEF IInv, TlsPair, MainGoesOn
<1> QED
  BY <1>2, <1>4, <1>5, <1>6, <1>8, <1>9 DEF IInv

(* A step of the handler of r that calls nobody.                           *)
LEMMA Moves ==
  ASSUME IInv, NEW r \in Requests, NEW to \in Places \ {"absent", "sent", "tlskey"},
         pc[r] # "absent", Goto(r, to), UNCHANGED <<worker, client, manager, tls>>,
         Running(r) = {} \/ to \in {"spawn", "unwind"},
         r.kind = "main" => \/ to \in {"idle", "cert", "call", "err"}
                            \/ to = "ok" /\ r.uri = NoUri,
         DOMAIN key' = Requests, \A q \in Requests : q # r => key'[q] = key[q]
  PROVE  IInv'
<1>1. /\ DOMAIN client' = Requests /\ DOMAIN client[r] = {"cert", "sent", "answer"}
      /\ DOMAIN tls' = {"cert", "key"} /\ client'[r] = client[r]
  BY DEF IInv, Types
<1>2. r.kind = "main" /\ client[r].answer # Nothing /\ client[r].answer.status = OK
        => client[r].answer.message.plain \in Nat \ {0}
  BY DEF IInv, AssetAnswered, Asset
<1>3. SendsOwn(r, to, client[r]) /\ MainGoesOn(r, to, client[r])
  BY <1>2 DEF SendsOwn, MainGoesOn
<1> QED
  BY <1>1, <1>3, Steps

(* A step of a thread of r.                                                *)
LEMMA ThreadSteps ==
  ASSUME IInv, NEW r \in Requests, NEW f \in Files,
         NEW w \in {"started", "open", "done", "failed"},
         worker' = [worker EXCEPT ![r][f] = w],
         pc[r] \in {"spawn", "unwind"},
         UNCHANGED <<pc, key, client, manager, tls>>
  PROVE  IInv'
<1>1. Types'
  BY DEF IInv, Types
<1>2. \A q \in Requests : q # r => Running(q)' = Running(q)
  BY DEF IInv, Types, Running
<1>3. ThreadsAwaited'
  BY <1>2 DEF IInv, ThreadsAwaited
<1>4. EnvelopeSent' /\ OneMain' /\ MainPlaces'
  BY DEF IInv, EnvelopeSent, Request, OneMain, MainPlaces
<1>5. AssetAnswered' /\ TlsPair'
  BY DEF IInv, AssetAnswered, Asset, TlsPair
<1> QED
  BY <1>1, <1>3, <1>4, <1>5 DEF IInv

(* A step that touches files only.                                         *)
LEMMA Unmoved == IInv /\ UNCHANGED <<pc, key, worker, client, manager, tls>> => IInv'
<1> SUFFICES ASSUME IInv, UNCHANGED <<pc, key, worker, client, manager, tls>> PROVE IInv'
  OBVIOUS
<1>1. Types' /\ ThreadsAwaited'
  BY DEF IInv, Types, ThreadsAwaited, Running
<1>2. EnvelopeSent' /\ OneMain' /\ MainPlaces'
  BY DEF IInv, EnvelopeSent, Request, OneMain, MainPlaces
<1>3. AssetAnswered' /\ TlsPair'
  BY DEF IInv, AssetAnswered, Asset, TlsPair
<1> QED
  BY <1>1, <1>2, <1>3 DEF IInv

-----------------------------------------------------------------------------
(* The steps that call nobody.                                             *)

(* They move the handler on, and leave no thread behind.                   *)
LEMMA LocalSteps ==
  ASSUME IInv, NEW r \in Requests,
         \/ Main(r) \/ GetInputData(r) \/ PutResultData(r)
         \/ ClearTemp(r) \/ ListObjects(r) \/ DownloadDone(r) \/ Walk(r)
         \/ Join(r) \/ Unwind(r) \/ UploadToOss(r) \/ UploadDone(r)
         \/ Cleanup(r) \/ RegisterResult(r)
  PROVE  IInv'
<1>1. Running(r) = {} \/ pc[r] \in {"spawn", "unwind"}
  BY DEF IInv, ThreadsAwaited
<1>2. r.kind = "main" =>
        pc[r] \in {"absent", "idle", "cert", "call", "sent", "tlskey", "ok", "err"}
  BY DEF IInv, MainPlaces
<1>3. DOMAIN key = Requests
  BY DEF IInv, Types
<1>4. CASE Main(r)
  <2> DEFINE to == IF r.uri = NoUri THEN "ok" ELSE "cert"
  <2>1. /\ pc[r] = "idle" /\ Goto(r, to) /\ to \in Places \ {"absent", "sent", "tlskey"}
        /\ UNCHANGED <<key, worker, client, manager, tls>>
        /\ to = "cert" \/ (to = "ok" /\ r.uri = NoUri)
    BY <1>3, <1>4 DEF Main, At, net, Places
  <2> QED
    BY <1>1, <1>3, <2>1, Moves
<1>5. CASE GetInputData(r)
  <2>1. PICK to \in {"clear", "walk", "cert", "err"} : Goto(r, to)
    BY <1>5 DEF GetInputData, AfterGetKey
  <2>2. /\ pc[r] = "idle" /\ r.kind = "get" /\ to \in Places \ {"absent", "sent", "tlskey"}
        /\ UNCHANGED <<worker, client, manager, tls>>
        /\ DOMAIN key' = Requests /\ \A q \in Requests : q # r => key'[q] = key[q]
    BY <1>3, <1>5 DEF GetInputData, Arrive, net, Places
  <2> QED
    BY <1>1, <2>1, <2>2, Moves
<1>6. CASE PutResultData(r)
  <2>1. /\ pc[r] = "idle" /\ r.kind = "put" /\ Goto(r, "walk")
        /\ "walk" \in Places \ {"absent", "sent", "tlskey"}
        /\ UNCHANGED <<worker, client, manager, tls>>
        /\ DOMAIN key' = Requests /\ \A q \in Requests : q # r => key'[q] = key[q]
    BY <1>3, <1>6 DEF PutResultData, Arrive, net, Places
  <2> QED
    BY <1>1, <2>1, Moves
<1>7. CASE \/ ClearTemp(r) \/ ListObjects(r) \/ DownloadDone(r) \/ Walk(r)
           \/ UploadToOss(r) \/ UploadDone(r) \/ Cleanup(r) \/ RegisterResult(r)
  <2>1. PICK to \in {"list", "download", "walk", "spawn", "uploading", "cleanup",
                     "ok", "register", "cert"} : Goto(r, to)
    BY <1>7 DEF ClearTemp, ListObjects, DownloadDone, Walk, UploadToOss, UploadDone,
       Cleanup, AfterCleanup, RegisterResult, At
  <2>2. /\ pc[r] \in {"clear", "list", "download", "walk", "upload", "uploading",
                      "cleanup", "register"}
        /\ UNCHANGED <<key, worker, client, manager, tls>>
    BY <1>7 DEF ClearTemp, ListObjects, DownloadDone, Walk, UploadToOss, UploadDone,
       Cleanup, RegisterResult, At, net
  <2>3. to \in Places \ {"absent", "sent", "tlskey"}
    BY DEF Places
  <2> QED
    BY <1>1, <1>2, <1>3, <2>1, <2>2, <2>3, Moves
<1>8. CASE Join(r) \/ Unwind(r)
  <2>1. PICK to \in {"cleanup", "ok", "upload", "register", "err"} : Goto(r, to)
    BY <1>8 DEF Join, Unwind, AfterJoin, At
  <2>2. /\ pc[r] \in {"spawn", "unwind"} /\ Running(r) = {}
        /\ UNCHANGED <<key, worker, client, manager, tls>>
    BY <1>8 DEF Join, Unwind, At, net
  <2>3. to \in Places \ {"absent", "sent", "tlskey"}
    BY DEF Places
  <2> QED
    BY <1>2, <1>3, <2>1, <2>2, <2>3, Moves
<1> QED
  BY <1>4, <1>5, <1>6, <1>7, <1>8
-----------------------------------------------------------------------------
(* The steps that talk to the Capsule Manager.                             *)

(* What a handler sends is its own request, under the client it has; a    *)
(* handler that fails gives its client up.                                 *)
LEMMA CallSteps ==
  ASSUME IInv, NEW r \in Requests,
         \/ GetRaCert(r) \/ GetDataKeys(r) \/ GetTlsAsset(r) \/ CreateResultDataKey(r)
         \/ GotDataKeys(r) \/ ResultRegistered(r) \/ HandlerFails(r)
  PROVE  IInv'
<1>1. Running(r) = {} \/ pc[r] \in {"spawn", "unwind"}
  BY DEF IInv, ThreadsAwaited
<1>2. /\ DOMAIN client = Requests /\ DOMAIN key = Requests /\ DOMAIN tls = {"cert", "key"}
      /\ DOMAIN client[r] = {"cert", "sent", "answer"} /\ pc[r] \in Places
  BY DEF IInv, Types
<1>3. r.kind = "main" =>
        /\ pc[r] \in {"absent", "idle", "cert", "call", "sent", "tlskey", "ok", "err"}
        /\ client[r].answer # Nothing /\ client[r].answer.status = OK
             => client[r].answer.message.plain \in Nat \ {0}
  BY DEF IInv, MainPlaces, AssetAnswered, Asset
<1>4. CASE GetRaCert(r)
  <2>1. PICK n \in {manager.cert, 0} : client' = [client EXCEPT ![r].cert = n]
    BY <1>4, Zenon DEF GetRaCert
  <2> DEFINE c == [client[r] EXCEPT !.cert = n]
  <2>2. /\ DOMAIN client' = Requests /\ client'[r] = c
        /\ \A q \in Requests : q # r => client'[q] = client[q]
        /\ DOMAIN c = {"cert", "sent", "answer"} /\ c.answer = client[r].answer
    BY <1>2, <2>1
  <2>3. /\ pc[r] = "cert" /\ Goto(r, "call") /\ "call" \in Places \ {"absent"}
        /\ UNCHANGED <<key, worker, manager, tls>>
    BY <1>4 DEF GetRaCert, At, Places
  <2> HIDE DEF c
  <2>4. SendsOwn(r, "call", c) /\ MainGoesOn(r, "call", c)
    BY <1>3, <2>2, <2>3 DEF SendsOwn, MainGoesOn
  <2>5. /\ \A q \in Requests : q # r => client'[q] = client[q] /\ key'[q] = key[q]
        /\ DOMAIN key' = Requests /\ DOMAIN tls' = {"cert", "key"}
        /\ pc[r] # "absent" /\ Running(r) = {}
    BY <1>1, <1>2, <2>2, <2>3
  <2> QED
    BY <2>2, <2>3, <2>4, <2>5, Steps
<1>5. CASE GetDataKeys(r) \/ GetTlsAsset(r) \/ CreateResultDataKey(r)
  <2>1. Send(r, Request(r))
    BY <1>5 DEF GetDataKeys, GetTlsAsset, CreateResultDataKey, Request
  <2> DEFINE e == GenEncryptedRequest(Request(r), Cert, Cert, client[r].cert)
             c == [client[r] EXCEPT !.sent = e]
  <2>2. client' = [client EXCEPT ![r].sent = e]
    BY <2>1 DEF Send
  <2>3. /\ DOMAIN client' = Requests /\ client'[r] = c
        /\ \A q \in Requests : q # r => client'[q] = client[q]
        /\ DOMAIN c = {"cert", "sent", "answer"} /\ c.answer = client[r].answer
        /\ c.sent = e /\ c.cert = client[r].cert
    BY <1>2, <2>2
  <2>4. /\ pc[r] = "call" /\ Goto(r, "sent") /\ "sent" \in Places \ {"absent"}
        /\ UNCHANGED <<key, worker, manager, tls>>
    BY <2>1 DEF Send, At, Places
  <2>5. Request(r)' = Request(r)
    BY <2>4 DEF Request
  <2>6. SendsOwn(r, "sent", c)
    BY <2>3, <2>5 DEF SendsOwn
  <2> HIDE DEF c, e
  <2>7. MainGoesOn(r, "sent", c)
    BY <1>3, <2>3, <2>4 DEF MainGoesOn
  <2>8. /\ \A q \in Requests : q # r => client'[q] = client[q] /\ key'[q] = key[q]
        /\ DOMAIN key' = Requests /\ DOMAIN tls' = {"cert", "key"}
        /\ pc[r] # "absent" /\ Running(r) = {}
    BY <1>1, <1>2, <2>3, <2>4
  <2> QED
    BY <2>3, <2>4, <2>6, <2>7, <2>8, Steps
<1>6. CASE GotDataKeys(r) \/ ResultRegistered(r)
  <2>1. PICK to \in {"clear", "walk", "ok"} : At(r, "sent", to)
    BY <1>6 DEF GotDataKeys, AfterGetKey, ResultRegistered
  <2>2. /\ client' = [client EXCEPT ![r] = NoClient] /\ r.kind # "main"
        /\ UNCHANGED <<worker, manager, tls>>
        /\ DOMAIN key' = Requests /\ \A q \in Requests : q # r => key'[q] = key[q]
    BY <1>2, <1>6 DEF GotDataKeys, ResultRegistered
  <2>3. /\ DOMAIN client' = Requests /\ client'[r] = NoClient
        /\ \A q \in Requests : q # r => client'[q] = client[q]
        /\ DOMAIN NoClient = {"cert", "sent", "answer"}
    BY <1>2, <2>2 DEF NoClient
  <2>4. to \in Places \ {"absent"} /\ to # "sent" /\ to # "tlskey"
    BY DEF Places
  <2>5. SendsOwn(r, to, NoClient) /\ MainGoesOn(r, to, NoClient)
    BY <2>2, <2>4 DEF SendsOwn, MainGoesOn
  <2>6. pc[r] = "sent" /\ Goto(r, to)
    BY <2>1 DEF At
  <2> QED
    BY <1>1, <1>2, <2>2, <2>3, <2>4, <2>5, <2>6, Steps
<1>7. CASE HandlerFails(r)
  <2> DEFINE to == IF pc[r] = "spawn" THEN "unwind" ELSE "err"
  <2>1. /\ Goto(r, to) /\ client' = [client EXCEPT ![r] = Abandoned(r)]
        /\ UNCHANGED <<key, worker, manager, tls>>
        /\ pc[r] # "absent" /\ pc[r] # "unwind"
    BY <1>7 DEF HandlerFails, Active, Waiting
  <2>2. /\ DOMAIN client' = Requests /\ client'[r] = Abandoned(r)
        /\ \A q \in Requests : q # r => client'[q] = client[q]
        /\ DOMAIN Abandoned(r) = {"cert", "sent", "answer"}
        /\ Abandoned(r).answer = Nothing
    BY <1>2, <2>1 DEF Abandoned, NoClient
  <2>3. /\ to \in Places \ {"absent"} /\ to \in {"unwind", "err"}
        /\ r.kind = "main" => to = "err"
        /\ Running(r) = {} \/ to \in {"spawn", "unwind"}
    BY <1>1, <1>3, <2>1 DEF Places
  <2> HIDE DEF to
  <2>4. SendsOwn(r, to, Abandoned(r)) /\ MainGoesOn(r, to, Abandoned(r))
    BY <2>1, <2>2, <2>3 DEF SendsOwn, MainGoesOn
  <2> QED
    BY <1>2, <2>1, <2>2, <2>3, <2>4, Steps
<1> QED
  BY <1>4, <1>5, <1>6, <1>7

(* The two files of the TLS asset are written from one answer.             *)
LEMMA MainSteps ==
  ASSUME IInv, NEW r \in Requests,
         WriteTlsCert(r) \/ WriteTlsKey(r)
  PROVE  IInv'
<1>1. Running(r) = {} \/ pc[r] \in {"spawn", "unwind"}
  BY DEF IInv, ThreadsAwaited
<1>2. /\ DOMAIN client = Requests /\ DOMAIN key = Requests /\ DOMAIN tls = {"cert", "key"}
      /\ DOMAIN client[r] = {"cert", "sent", "answer"}
  BY DEF IInv, Types
<1>3. r.kind = "main" /\ client[r].answer # Nothing /\ client[r].answer.status = OK
        => client[r].answer.message.plain \in Nat \ {0}
  BY DEF IInv, AssetAnswered, Asset
<1> DEFINE plain == client[r].answer.message.plain
<1>4. CASE WriteTlsCert(r)
  <2>1. /\ r.kind = "main" /\ pc[r] = "sent" /\ Goto(r, "tlskey")
        /\ client[r].answer # Nothing /\ client[r].answer.status = OK
        /\ tls' = [tls EXCEPT !.cert = plain]
        /\ UNCHANGED <<key, worker, client, manager>>
    BY <1>4 DEF WriteTlsCert, At, Parsed, ParseEncryptedResponse
  <2>2. plain \in Nat \ {0} /\ tls'.cert = plain /\ DOMAIN tls' = {"cert", "key"}
    BY <1>2, <1>3, <2>1
  <2>3. "tlskey" \in Places \ {"absent"}
    BY DEF Places
  <2>4. SendsOwn(r, "tlskey", client[r]) /\ MainGoesOn(r, "tlskey", client[r])
    BY <2>1, <2>2 DEF SendsOwn, MainGoesOn
  <2> QED
    BY <1>1, <1>2, <2>1, <2>2, <2>3, <2>4, Steps
<1>5. CASE WriteTlsKey(r)
  <2>1. /\ pc[r] = "tlskey" /\ Goto(r, "ok")
        /\ client' = [client EXCEPT ![r] = NoClient]
        /\ tls' = [tls EXCEPT !.key = plain]
        /\ UNCHANGED <<key, worker, manager>>
    BY <1>5 DEF WriteTlsKey, At
  <2>2. CASE r.kind = "main"
    <3>1. /\ tls.cert = plain /\ plain \in Nat \ {0}
      BY <2>1, <2>2 DEF IInv, AssetAnswered, Asset
    <3>2. /\ tls'.cert = tls.cert /\ tls'.key = plain /\ DOMAIN tls' = {"cert", "key"}
          /\ tls'.cert # 0
      BY <1>2, <2>1, <3>1
    <3>3. /\ DOMAIN client' = Requests /\ client'[r] = NoClient
          /\ \A q \in Requests : q # r => client'[q] = client[q]
          /\ DOMAIN NoClient = {"cert", "sent", "answer"} /\ NoClient.answer = Nothing
      BY <1>2, <2>1 DEF NoClient
    <3>4. "ok" \in Places \ {"absent"}
      BY DEF Places
    <3> HIDE DEF plain
    <3>5. SendsOwn(r, "ok", NoClient) /\ MainGoesOn(r, "ok", NoClient)
      BY <2>2, <3>1, <3>2, <3>3 DEF SendsOwn, MainGoesOn
    <3> QED
      BY <1>1, <1>2, <2>1, <3>2, <3>3, <3>4, <3>5, Steps
  <2> QED
    BY <2>1, <2>2 DEF IInv, MainPlaces
<1> QED
  BY <1>4, <1>5

(* The Capsule Manager answers main with an asset.                         *)
LEMMA ReplySteps ==
  ASSUME IInv, NEW r \in Requests,
         ManagerAccepts(r) \/ ManagerRefuses(r)
  PROVE  IInv'
<1>1. Running(r) = {} \/ pc[r] \in {"spawn", "unwind"}
  BY DEF IInv, ThreadsAwaited
<1>2. /\ DOMAIN client = Requests /\ DOMAIN key = Requests /\ DOMAIN tls = {"cert", "key"}
      /\ DOMAIN client[r] = {"cert", "sent", "answer"}
      /\ pc \in [Requests -> Places] /\ manager.tls \in Nat \ {0}
  BY DEF IInv, Types
<1>3. r.kind # "main" => pc[r] # "tlskey"
  BY DEF IInv, MainPlaces
<1>4. pc[r] # "absent"
  BY DEF IInv, EnvelopeSent, ManagerAccepts, ManagerRefuses
<1>5. PICK a : /\ Reply(r, a)
               /\ r.kind = "main" /\ a.status = OK => a.message.plain \in Nat \ {0}
  <2>1. CASE ManagerAccepts(r)
    <3> DEFINE body == CASE r.kind = "get" -> KeysOf(r.uri)
                         [] r.kind = "main" -> manager.tls
                         [] r.kind = "put" -> Nothing
    <3>1. r.kind = "main" => body \in Nat \ {0}
      BY <1>2
    <3>2. Reply(r, Answer(body))
      BY <2>1, Zenon DEF ManagerAccepts
    <3>3. Answer(body).message.plain = body
      BY Zenon DEF Answer, Encrypt
    <3> QED
      BY <3>1, <3>2, <3>3
  <2>2. CASE ManagerRefuses(r)
    <3>1. Reply(r, Refused) /\ Refused.status # OK
      BY <2>2 DEF ManagerRefuses, Refused, OK
    <3> QED
      BY <3>1, Zenon
  <2> QED
    BY <2>1, <2>2
<1> DEFINE c == [client[r] EXCEPT !.sent = Nothing,
                                  !.answer = IF pc[r] = "sent" THEN a ELSE @]
<1>6. /\ DOMAIN client' = Requests /\ client'[r] = c
      /\ \A q \in Requests : q # r => client'[q] = client[q]
  BY <1>2, <1>5 DEF Reply
<1>7. /\ DOMAIN c = {"cert", "sent", "answer"} /\ c.sent = Nothing
      /\ c.answer = IF pc[r] = "sent" THEN a ELSE client[r].answer
  BY <1>2
<1>8. /\ UNCHANGED <<pc, key, worker, manager, tls>> /\ Goto(r, pc[r])
      /\ pc[r] \in Places \ {"absent"}
  BY <1>2, <1>4 DEF ManagerAccepts, ManagerRefuses, Goto
<1> HIDE DEF c
<1>9. r.kind = "main" /\ c.answer # Nothing /\ c.answer.status = OK
        => c.answer.message.plain \in Nat \ {0}
  BY <1>5, <1>7 DEF IInv, AssetAnswered, Asset
<1>10. r.kind = "main" /\ pc[r] = "tlskey" => /\ tls'.cert = c.answer.message.plain
                                             /\ c.answer.message.plain \in Nat \ {0}
  BY <1>7, <1>8 DEF IInv, AssetAnswered, Asset
<1>11. r.kind = "main" /\ pc[r] = "ok" /\ r.uri # NoUri
         => tls'.cert # 0 /\ tls'.cert = tls'.key
  BY <1>8 DEF IInv, TlsPair
<1>12. r.kind = "main" =>
         pc[r] \in {"absent", "idle", "cert", "call", "sent", "tlskey", "ok", "err"}
  BY DEF IInv, MainPlaces
<1>13. SendsOwn(r, pc[r], c) /\ MainGoesOn(r, pc[r], c)
  BY <1>3, <1>7, <1>8, <1>9, <1>10, <1>11, <1>12 DEF SendsOwn, MainGoesOn
<1> QED
  BY <1>1, <1>2, <1>4, <1>6, <1>7, <1>8, <1>13, Steps

-----------------------------------------------------------------------------
(* The faults.                                                             *)

(* A kill leaves no thread, and no main beyond its start.                  *)
LEMMA Killed == IInv /\ ProxyKilled => IInv'
<1> SUFFICES ASSUME IInv, ProxyKilled PROVE IInv'
  OBVIOUS
<1>1. pc' = [r \in Requests |-> IF r.kind = "main" /\ pc[r] # "absent" THEN "idle"
                                ELSE IF Active(r) THEN "err" ELSE pc[r]]
  BY DEF ProxyKilled
<1>2. \A r \in Requests :
        /\ pc'[r] \in Places /\ (pc'[r] = "absent" <=> pc[r] = "absent")
        /\ pc'[r] # "sent" /\ pc'[r] # "tlskey"
        /\ r.kind = "main" => pc'[r] \in {"idle", "absent"}
  BY <1>1 DEF IInv, Types, Places, Active, Waiting, Answered
<1>3. /\ DOMAIN client' = Requests
      /\ \A r \in Requests :
           /\ DOMAIN client'[r] = {"cert", "sent", "answer"}
           /\ client'[r].answer = Nothing
           /\ client'[r].sent \in {client[r].sent, Nothing}
  BY DEF ProxyKilled, Abandoned, NoClient
<1>4. \A r \in Requests : \A f \in Files :
        worker'[r][f] = IF f \in Running(r) THEN "failed" ELSE worker[r][f]
  BY DEF ProxyKilled
<1>5. worker' \in [Requests -> [Files -> {"none", "started", "open", "done", "failed"}]]
  BY DEF ProxyKilled, IInv, Types
<1>6. \A r \in Requests : Running(r)' = {}
  BY <1>4 DEF Running
<1>7. UNCHANGED <<key, manager, tls>>
  BY DEF ProxyKilled
<1>8. Types'
  BY <1>1, <1>2, <1>3, <1>5, <1>7 DEF IInv, Types
<1>9. ThreadsAwaited' /\ EnvelopeSent'
  BY <1>2, <1>3, <1>6 DEF IInv, ThreadsAwaited, EnvelopeSent
<1>10. OneMain' /\ MainPlaces'
  BY <1>2 DEF IInv, OneMain, MainPlaces
<1>11. AssetAnswered' /\ TlsPair'
  BY <1>2, <1>3 DEF AssetAnswered, TlsPair
<1> QED
  BY <1>8, <1>9, <1>10, <1>11 DEF IInv

(* The Capsule Manager changes, the certificates of the clients do not.    *)
LEMMA ManagerFaults == IInv /\ (ManagerRestarts \/ AssetRotates) => IInv'
<1> SUFFICES ASSUME IInv, ManagerRestarts \/ AssetRotates PROVE IInv'
  OBVIOUS
<1>1. UNCHANGED <<pc, key, worker, tls>>
  BY DEF ManagerRestarts, AssetRotates
<1>2. manager' \in [cert : Nat, tls : Nat \ {0}]
  BY DEF ManagerRestarts, AssetRotates, IInv, Types
<1>3. /\ DOMAIN client' = Requests
      /\ \A r \in Requests :
           /\ DOMAIN client'[r] = {"cert", "sent", "answer"}
           /\ client'[r].answer = client[r].answer
           /\ client'[r].cert = client[r].cert
           /\ client'[r].sent \in {client[r].sent, Nothing}
  <2>1. CASE ManagerRestarts
    BY <2>1 DEF ManagerRestarts, IInv, Types
  <2>2. CASE AssetRotates
    BY <2>2 DEF AssetRotates, IInv, Types
  <2> QED
    BY <2>1, <2>2
<1>4. Types'
  BY <1>1, <1>2, <1>3 DEF IInv, Types
<1>5. ThreadsAwaited' /\ EnvelopeSent'
  BY <1>1, <1>3 DEF IInv, ThreadsAwaited, Running, EnvelopeSent, Request
<1>6. OneMain' /\ MainPlaces'
  BY <1>1 DEF IInv, OneMain, MainPlaces
<1>7. AssetAnswered' /\ TlsPair'
  BY <1>1, <1>3 DEF IInv, AssetAnswered, Asset, TlsPair
<1> QED
  BY <1>4, <1>5, <1>6, <1>7 DEF IInv

-----------------------------------------------------------------------------
(* Every step keeps the invariant.                                         *)
LEMMA InvStep == IInv /\ [Next]_vars => IInv'
<1> SUFFICES ASSUME IInv, [Next]_vars PROVE IInv'
  OBVIOUS
<1>1. CASE ProxyKilled \/ ManagerRestarts \/ AssetRotates
  BY <1>1, Killed, ManagerFaults
<1>2. ASSUME NEW r \in Requests, ManagerAccepts(r) \/ ManagerRefuses(r) PROVE IInv'
  BY <1>2, ReplySteps
<1>3. ASSUME NEW r \in Requests,
             Main(r) \/ GetInputData(r) \/ PutResultData(r) \/ HandlerFails(r)
      PROVE  IInv'
  BY <1>3, LocalSteps, CallSteps
<1>4. ASSUME NEW r \in Requests, HandlerStep(r) PROVE IInv'
  <2>1. CASE Transfer(r)
    BY <2>1, Unmoved DEF Transfer, Download, CopyFile, Upload, net
  <2>2. ASSUME NEW f \in Files, Spawn(r, f) PROVE IInv'
    BY <2>2, ThreadSteps, Zenon DEF Spawn, net
  <2> QED
    BY <1>4, <2>1, <2>2, LocalSteps, CallSteps, MainSteps DEF HandlerStep
<1>5. ASSUME NEW r \in Requests, NEW f \in Files, WorkerStep(r, f) PROVE IInv'
  <2>1. PICK w \in {"open", "done", "failed"} : worker' = [worker EXCEPT ![r][f] = w]
    BY <1>5 DEF WorkerStep, OpenOutput, EncryptFile, DecryptFile, WorkerFails
  <2>2. f \in Running(r) /\ UNCHANGED <<pc, key, client, manager, tls>>
    BY <1>5 DEF WorkerStep, OpenOutput, EncryptFile, DecryptFile, WorkerFails,
       Running, net
  <2>3. pc[r] \in {"spawn", "unwind"}
    BY <2>2 DEF IInv, ThreadsAwaited
  <2> QED
    BY <2>1, <2>2, <2>3, ThreadSteps, Zenon
<1>6. ASSUME NEW r \in Requests, ApplicationWrites(r) PROVE IInv'
  BY <1>6, Unmoved DEF ApplicationWrites, net
<1>7. CASE UNCHANGED vars
  BY <1>7, Unmoved DEF vars
<1> QED
  BY <1>1, <1>2, <1>3, <1>4, <1>5, <1>6, <1>7 DEF Next

(* The invariant holds in every run.                                       *)
THEOREM ProxyInvariant == Spec => []IInv
BY InvInit, InvStep, PTL DEF Spec

(* No request is answered while a thread that it started is running,       *)
(* whatever fails and however requests overlap: the futures of DecryptToDir *)
(* and EncryptToDir are waited for on every path out of them.              *)
THEOREM ThreadsJoined == Spec => []NoOrphanThread
<1>1. IInv => NoOrphanThread
  BY DEF IInv, ThreadsAwaited, NoOrphanThread, Answered
<1> QED
  BY <1>1, ProxyInvariant, PTL

(* A request under way under the Capsule Manager's present certificate     *)
(* opens, is signed by its sender, and carries a report for itself.        *)
THEOREM RequestsVerify == Spec => []PolicyRefuses
<1>1. \A r \in Requests :
        Request(r).attestation_report = Attested(Bound(Request(r)))
  BY DEF Request, ResultMessage, ResourceMessage, Bound
<1>2. IInv => PolicyRefuses
  <2> SUFFICES ASSUME IInv, NEW r \in Requests, pc[r] = "sent",
                      client[r].sent # Nothing, client[r].cert = manager.cert
               PROVE  Verified(client[r].sent, manager.cert)
    BY DEF PolicyRefuses
  <2>1. client[r].sent = GenEncryptedRequest(Request(r), Cert, Cert, manager.cert)
    BY DEF IInv, EnvelopeSent
  <2>2. /\ client[r].sent.for = manager.cert
        /\ client[r].sent.plain.signer = Cert /\ client[r].sent.plain.x5c = Cert
        /\ client[r].sent.plain.payload = Request(r)
    BY <2>1 DEF GenEncryptedRequest, Encrypt
  <2> QED
    BY <1>1, <2>2 DEF Verified, Decrypts
<1> QED
  BY <1>2, ProxyInvariant, PTL

(* A proxy that serves holds the certificate and the private key of one    *)
(* TLS asset.                                                              *)
THEOREM TlsPairWritten == Spec => []TlsPair
<1>1. IInv => TlsPair
  BY DEF IInv
<1> QED
  BY <1>1, ProxyInvariant, PTL
-----------------------------------------------------------------------------
(* Directories.                                                            *)

Ns(x) == IF x = NoDir THEN {} ELSE DOMAIN x
With(x, n, c) == [m \in Ns(x) \cup {n} |-> IF m = n THEN c ELSE x[m]]
Holds(x, n, c) == n \in Ns(x) /\ x[n] = c

Enc(n) == <<n[1], "enc">>
Raw(n) == <<n[1], "raw">>

NamesOK(F) ==
  DOMAIN F = DOMAIN InitialFs /\ \A d \in DOMAIN F : Ns(F[d]) \subseteq FileNames

(* What the operators of DataCapsuleProxy make of directories.             *)
LEMMA DirIs ==
  ASSUME NEW d
  PROVE  /\ Names(d) = Ns(fs[d])
         /\ fs[d] # NoDir => Dir(d) = fs[d]
         /\ fs[d] = NoDir => Dir(d) = <<>> /\ DOMAIN <<>> = {}
BY DEF Names, Dir, Ns

(* A write changes one directory.                                          *)
LEMMA WriteIs ==
  ASSUME NEW d, NEW n, NEW c
  PROVE  Write(d, n, c) = [fs EXCEPT ![d] = With(fs[d], n, c)]
<1>1. [m \in Names(d) \cup {n} |-> IF m = n THEN c ELSE Dir(d)[m]] = With(fs[d], n, c)
  <2>1. \A m \in Names(d) : Dir(d)[m] = fs[d][m]
    BY DirIs DEF Ns
  <2> QED
    BY <2>1, DirIs DEF With
<1> QED
  BY <1>1, Zenon DEF Write

(* A write adds one name.                                                  *)
LEMMA WithNames == \A x, n, c : Ns(With(x, n, c)) \subseteq Ns(x) \cup {n}
BY DEF Ns, With

(* fs after a change of one directory.                                     *)
LEMMA ChangedNames ==
  ASSUME NamesOK(fs), NEW d, NEW x, Ns(x) \subseteq FileNames
  PROVE  NamesOK([fs EXCEPT ![d] = x])
BY DEF NamesOK

(* A write of a file name.                                                 *)
LEMMA WrittenNames ==
  ASSUME NamesOK(fs), NEW d, NEW n \in FileNames, NEW c
  PROVE  NamesOK(Write(d, n, c)) /\ NamesOK(Fill(d, n, c))
<1>1. Ns(fs[d]) \subseteq FileNames \/ d \notin DOMAIN fs
  BY DEF NamesOK
<1>2. NamesOK(Write(d, n, c))
  <2>1. CASE d \in DOMAIN fs
    <3>1. Ns(With(fs[d], n, c)) \subseteq FileNames
      BY <1>1, <2>1, WithNames
    <3>2. NamesOK([fs EXCEPT ![d] = With(fs[d], n, c)])
      BY <3>1, ChangedNames
    <3> QED
      BY <3>2, WriteIs
  <2>2. CASE d \notin DOMAIN fs
    <3>1. DOMAIN [fs EXCEPT ![d] = With(fs[d], n, c)] = DOMAIN fs
          /\ \A e \in DOMAIN fs : [fs EXCEPT ![d] = With(fs[d], n, c)][e] = fs[e]
      BY <2>2
    <3> QED
      BY <3>1, WriteIs DEF NamesOK
  <2> QED
    BY <2>1, <2>2
<1> QED
  BY <1>2 DEF Fill

-----------------------------------------------------------------------------
(* Types.                                                                  *)

(* Where the handlers of the two kinds of requests may be.                 *)
GetPlaces ==
  {"absent", "idle", "cert", "call", "sent", "clear", "list", "download", "walk",
   "spawn", "unwind", "cleanup", "ok", "err"}
PutPlaces ==
  {"absent", "idle", "walk", "spawn", "unwind", "upload", "uploading", "cleanup",
   "register", "cert", "call", "sent", "ok", "err"}

(* Request r at place p with key k, loop t and client c.                   *)
PlaceOK(r, p) ==
  /\ p \in Places
  /\ r.kind = "get" =>
       p \in GetPlaces /\ (p \in {"clear", "list", "download", "cleanup"} => r.s3)
  /\ r.kind = "put" =>
       p \in PutPlaces /\ (p \in {"upload", "uploading", "cleanup"} => r.s3)
  /\ r.kind # "main" /\ p \in {"cert", "call", "sent"} => r.uri # NoUri

KeyOK(r, p, k) ==
  /\ k \in Keys
  /\ \/ k # NoKey
     \/ r.kind = "main" \/ p \in {"idle", "absent", "err"}
     \/ r.kind = "get" /\ p \in {"cert", "call", "sent"}

(* A registration carries the data key, also when it was given up on, and  *)
(* a handler has no answer but to what it is waiting for.                  *)
ClientOK(r, p, k, c) ==
  /\ p = "idle" => c = NoClient
  /\ r.kind = "put" =>
       /\ c.sent # Nothing => /\ p \in {"sent", "err"}
                              /\ c.sent.plain.payload.body.data_key = k
       /\ c.answer # Nothing => p = "sent"
  /\ r.kind = "get" /\ c.answer # Nothing /\ c.answer.status = OK =>
       c.answer.message.plain \subseteq Keys \ {NoKey}

RequestOK(r, p, k, t, c) ==
  PlaceOK(r, p) /\ KeyOK(r, p, k) /\ t \subseteq FileNames /\ ClientOK(r, p, k, c)

TypeInv ==
  /\ key \in [Requests -> Keys] /\ todo \in [Requests -> SUBSET FileNames]
  /\ client = [r \in Requests |-> client[r]]
  /\ \A r \in Requests : RequestOK(r, pc[r], key[r], todo[r], client[r])
  /\ NamesOK(fs)
  /\ cm \in [Uris -> Keys]
  /\ app \in BOOLEAN
  /\ tls \in [cert : Nat, key : Nat]
  /\ faults \in [FaultKinds -> Nat]

-----------------------------------------------------------------------------
(* Types are invariant.                                                    *)

(* The types hold at the start.                                            *)
LEMMA TypeInit == Init => TypeInv
<1> SUFFICES ASSUME Init PROVE TypeInv
  OBVIOUS
<1>1. PICK s \in Sessions :
        /\ pc = [r \in Requests |-> IF r \in s.requests THEN "idle" ELSE "absent"]
        /\ faults = s.faults
  BY Zenon DEF Init
<1>2. ASSUME NEW r \in Requests
      PROVE  RequestOK(r, pc[r], key[r], todo[r], client[r])
  <2>1. /\ pc[r] \in {"idle", "absent"} /\ key[r] = NoKey /\ todo[r] = {}
        /\ client[r] = NoClient
    BY <1>1 DEF Init
  <2>2. NoClient.sent = Nothing /\ NoClient.answer = Nothing
    BY DEF NoClient
  <2> QED
    BY <2>1, <2>2 DEF RequestOK, PlaceOK, KeyOK, ClientOK, Places, GetPlaces,
       PutPlaces, Keys
<1>3. NamesOK(fs)
  BY DirectoriesAssumption DEF Init, NamesOK, IsDirectory, Ns
<1>4. cm \in [Uris -> Keys]
  BY KeysAssumption DEF Init, Keys
<1>5. tls \in [cert : Nat, key : Nat]
  BY DEF Init
<1>6. /\ key \in [Requests -> Keys] /\ todo \in [Requests -> SUBSET FileNames]
      /\ client = [r \in Requests |-> client[r]]
  BY DEF Init, Keys
<1> QED
  BY <1>1, <1>2, <1>3, <1>4, <1>5, <1>6, FaultsAssumption, Zenon DEF Init, TypeInv

(* A step that changes the place, key, loop and client of r alone.         *)
LEMMA TypeFrame ==
  ASSUME TypeInv, Types, NEW r \in Requests, NEW p, NEW k, NEW t, NEW c,
         pc' = [pc EXCEPT ![r] = p], key' = [key EXCEPT ![r] = k],
         todo' = [todo EXCEPT ![r] = t], client' = [client EXCEPT ![r] = c],
         RequestOK(r, p, k, t, c),
         NamesOK(fs'), cm' \in [Uris -> Keys], app' \in BOOLEAN,
         tls' \in [cert : Nat, key : Nat], faults' = faults
  PROVE  TypeInv'
<1>1. DOMAIN pc = Requests
  BY DEF Types
<1>2. /\ key' \in [Requests -> Keys] /\ todo' \in [Requests -> SUBSET FileNames]
      /\ client' = [q \in Requests |-> client'[q]]
      /\ pc'[r] = p /\ key'[r] = k /\ todo'[r] = t /\ client'[r] = c
      /\ \A q \in Requests : q # r => /\ pc'[q] = pc[q] /\ key'[q] = key[q]
                                      /\ todo'[q] = todo[q] /\ client'[q] = client[q]
  BY <1>1 DEF TypeInv, RequestOK, KeyOK
<1>3. ASSUME NEW q \in Requests
      PROVE  RequestOK(q, pc'[q], key'[q], todo'[q], client'[q])
  BY <1>2 DEF TypeInv
<1>4. NamesOK(fs)'
  BY Zenon DEF NamesOK, Ns, FileNames
<1> QED
  BY <1>2, <1>3, <1>4, Zenon DEF TypeInv, Keys, RequestOK, PlaceOK, KeyOK, ClientOK, Places,
     GetPlaces, PutPlaces, NoClient, FileNames

(* A handler that has nothing sent moves to place p, with key k and loop   *)
(* t; its client stays as it is.                                           *)
LEMMA MoveOK ==
  ASSUME NEW r, NEW p0, NEW k0, NEW t0, NEW c, RequestOK(r, p0, k0, t0, c),
         p0 \notin {"sent", "err"}, NEW p, p # "idle", PlaceOK(r, p),
         NEW k, KeyOK(r, p, k), NEW t, t \subseteq FileNames
  PROVE  RequestOK(r, p, k, t, c)
<1>1. r.kind = "put" => c.sent = Nothing /\ c.answer = Nothing
  BY DEF RequestOK, ClientOK, NoClient
<1>2. ClientOK(r, p, k, c)
  BY <1>1 DEF RequestOK, ClientOK
<1> QED
  BY <1>2 DEF RequestOK

(* A step that touches the place, key and loop of r, and files.            *)
LEMMA LocalTypes ==
  ASSUME TypeInv, Types, NEW r \in Requests, NEW p, NEW k, NEW t,
         pc' = [pc EXCEPT ![r] = p], key' = [key EXCEPT ![r] = k],
         todo' = [todo EXCEPT ![r] = t], UNCHANGED <<client, cm, tls, faults>>,
         pc[r] \notin {"sent", "err"}, p # "idle",
         PlaceOK(r, p), KeyOK(r, p, k), t \subseteq FileNames,
         NamesOK(fs'), app' \in BOOLEAN
  PROVE  TypeInv'
<1>1. RequestOK(r, p, k, t, client[r])
  BY MoveOK DEF TypeInv
<1>2. client' = [client EXCEPT ![r] = client[r]]
  BY DEF TypeInv
<1>3. cm' \in [Uris -> Keys] /\ tls' \in [cert : Nat, key : Nat] /\ faults' = faults
  BY DEF TypeInv
<1> QED
  BY <1>1, <1>2, <1>3, TypeFrame, Zenon

(* The loop of r may go on with what it has.                               *)
LEMMA SameKey ==
  ASSUME TypeInv, Types, NEW r \in Requests
  PROVE  /\ pc = [pc EXCEPT ![r] = pc[r]] /\ key = [key EXCEPT ![r] = key[r]]
         /\ todo = [todo EXCEPT ![r] = todo[r]] /\ todo[r] \subseteq FileNames
         /\ pc[r] \in Places /\ KeyOK(r, pc[r], key[r]) /\ PlaceOK(r, pc[r])
         /\ app \in BOOLEAN /\ NamesOK(fs) /\ key[r] \in Keys
         /\ \A d : d \in DOMAIN fs => Names(d) \subseteq FileNames
<1>1. RequestOK(r, pc[r], key[r], todo[r], client[r])
  BY DEF TypeInv
<1>2. \A d : d \in DOMAIN fs => Names(d) \subseteq FileNames
  BY DirIs DEF TypeInv, NamesOK
<1> QED
  BY <1>1, <1>2 DEF TypeInv, Types, RequestOK, PlaceOK, KeyOK

(* Requests other than main have their directories.                        *)
LEMMA AreaIn ==
  ASSUME TypeInv, NEW r \in Requests, r.kind # "main"
  PROVE  /\ {Temp(r.path), App(r.path), Store(r.store)} \subseteq DOMAIN fs
         /\ {In(r), Out(r)} \subseteq DOMAIN fs
<1>1. {Temp(r.path), App(r.path), Store(r.store)} \subseteq DOMAIN fs
  BY DirectoriesAssumption DEF TypeInv, NamesOK
<1> QED
  BY <1>1 DEF In, Out

(* The steps that take a request up.                                       *)
LEMMA TypesArrive ==
  ASSUME TypeInv, IInv, NEW r \in Requests,
         Main(r) \/ GetInputData(r) \/ PutResultData(r)
  PROVE  TypeInv'
<1>0. Types
  BY DEF IInv
<1>1. /\ UNCHANGED <<client, cm, tls, faults, todo, app, fs>> /\ pc[r] = "idle"
  BY DEF Main, GetInputData, PutResultData, Arrive, At, net
<1>2. todo' = [todo EXCEPT ![r] = todo[r]] /\ todo[r] \subseteq FileNames
      /\ NamesOK(fs') /\ app' \in BOOLEAN
  BY <1>0, <1>1, SameKey
<1>3. CASE Main(r)
  <2> DEFINE p == IF r.uri = NoUri THEN "ok" ELSE "cert"
  <2>1. pc' = [pc EXCEPT ![r] = p] /\ key' = [key EXCEPT ![r] = key[r]]
    BY <1>0, <1>3, SameKey DEF Main, At, Goto
  <2>2. PlaceOK(r, p) /\ KeyOK(r, p, key[r]) /\ p # "idle"
    BY <1>0, <1>3, SameKey DEF Main, PlaceOK, KeyOK, Places
  <2> QED
    BY <1>0, <1>1, <1>2, <2>1, <2>2, LocalTypes, Zenon
<1>4. CASE GetInputData(r)
  <2> DEFINE p == IF r.key # NoKey THEN AfterGetKey(r)
                  ELSE IF r.uri # NoUri THEN "cert" ELSE "err"
             k == IF r.key # NoKey THEN r.key ELSE key[r]
  <2>1. pc' = [pc EXCEPT ![r] = p] /\ key' = [key EXCEPT ![r] = k]
    BY <1>0, <1>4, SameKey DEF GetInputData, Goto
  <2>2. PlaceOK(r, p) /\ p # "idle"
    BY <1>4 DEF GetInputData, PlaceOK, Places, GetPlaces, AfterGetKey
  <2>3. KeyOK(r, p, k)
    BY <1>0, <1>4, SameKey DEF GetInputData, KeyOK, Keys, AfterGetKey
  <2> QED
    BY <1>0, <1>1, <1>2, <2>1, <2>2, <2>3, LocalTypes, Zenon
<1>5. CASE PutResultData(r)
  <2> DEFINE k == IF r.key = NoKey THEN r.id ELSE r.key
  <2>1. pc' = [pc EXCEPT ![r] = "walk"] /\ key' = [key EXCEPT ![r] = k]
    BY <1>5, Zenon DEF PutResultData, Goto
  <2>2. PlaceOK(r, "walk") /\ KeyOK(r, "walk", k)
    BY <1>5, KeysAssumption DEF PutResultData, PlaceOK, Places, PutPlaces, KeyOK, Keys
  <2> QED
    BY <1>0, <1>1, <1>2, <2>1, <2>2, LocalTypes, Zenon
<1> QED
  BY <1>3, <1>4, <1>5

(* The names a loop is to visit.                                           *)
LEMMA TypesLoops ==
  ASSUME TypeInv, IInv, NEW r \in Requests,
         ListObjects(r) \/ Walk(r) \/ UploadToOss(r)
  PROVE  TypeInv'
<1>0. Types
  BY DEF IInv
<1>1. /\ UNCHANGED <<key, client, cm, tls, faults, app, fs>>
      /\ pc[r] \in {"list", "walk", "upload"}
  BY DEF ListObjects, Walk, UploadToOss, At, net
<1>2. r.kind # "main"
  BY <1>1 DEF IInv, MainPlaces
<1>3. PlaceOK(r, pc[r]) /\ KeyOK(r, pc[r], key[r]) /\ app' \in BOOLEAN /\ NamesOK(fs')
      /\ key' = [key EXCEPT ![r] = key[r]]
  BY <1>0, <1>1, SameKey
<1>4. PICK t, p : /\ pc' = [pc EXCEPT ![r] = p] /\ todo' = [todo EXCEPT ![r] = t]
                  /\ \/ t \subseteq Names(Store(r.store)) /\ pc[r] = "list" /\ p = "download"
                     \/ t = Names(In(r)) /\ pc[r] = "walk" /\ p = "spawn"
                     \/ t = Names(Temp(r.path)) /\ pc[r] = "upload" /\ p = "uploading"
  <2>1. CASE ListObjects(r)
    <3>1. PICK t \in SUBSET Names(Store(r.store)) : todo' = [todo EXCEPT ![r] = t]
      BY <2>1, Zenon DEF ListObjects
    <3> QED
      BY <2>1, <3>1, Zenon DEF ListObjects, At, Goto
  <2>2. CASE Walk(r)
    BY <2>2, Zenon DEF Walk, At, Goto
  <2>3. CASE UploadToOss(r)
    BY <2>3, Zenon DEF UploadToOss, At, Goto
  <2> QED
    BY <2>1, <2>2, <2>3, Zenon
<1>5. t \subseteq FileNames
  BY <1>0, <1>2, <1>4, SameKey, AreaIn
<1>6. PlaceOK(r, p) /\ KeyOK(r, p, key[r]) /\ p # "idle"
  BY <1>2, <1>3, <1>4 DEF PlaceOK, KeyOK, Places, GetPlaces, PutPlaces
<1>7. pc[r] \notin {"sent", "err"}
  BY <1>1
<1> QED
  BY <1>0, <1>1, <1>3, <1>4, <1>5, <1>6, <1>7, LocalTypes, Zenon

(* The other steps that move a handler on without a call.                  *)
LEMMA TypesMoves ==
  ASSUME TypeInv, IInv, NEW r \in Requests,
         \/ ClearTemp(r) \/ DownloadDone(r) \/ Join(r) \/ Unwind(r)
         \/ UploadDone(r) \/ Cleanup(r) \/ RegisterResult(r)
  PROVE  TypeInv'
<1>0. Types
  BY DEF IInv
<1>1. /\ UNCHANGED <<key, todo, client, cm, tls, faults, app>>
      /\ fs' \in {fs, [fs EXCEPT ![Temp(r.path)] = NoDir]}
      /\ pc[r] \in {"clear", "download", "spawn", "unwind", "uploading", "cleanup",
                    "register"}
  BY Zenon DEF ClearTemp, DownloadDone, Join, Unwind, UploadDone, Cleanup, RegisterResult,
     At, net
<1>2. r.kind # "main"
  BY <1>1, Zenon DEF IInv, MainPlaces
<1>3. /\ PlaceOK(r, pc[r]) /\ KeyOK(r, pc[r], key[r]) /\ app' \in BOOLEAN
      /\ key' = [key EXCEPT ![r] = key[r]] /\ todo' = [todo EXCEPT ![r] = todo[r]]
      /\ todo[r] \subseteq FileNames
  BY <1>0, <1>1, SameKey
<1>4. NamesOK(fs')
  <2>1. Ns(NoDir) \subseteq FileNames
    BY DEF Ns
  <2>2. NamesOK(fs) /\ NamesOK([fs EXCEPT ![Temp(r.path)] = NoDir])
    BY <1>0, <2>1, SameKey, ChangedNames, Zenon
  <2> QED
    BY <1>1, <2>2
<1>5. PICK p :
        /\ pc' = [pc EXCEPT ![r] = p]
        /\ \/ pc[r] = "clear" /\ p = "list"
           \/ pc[r] = "download" /\ p = "walk"
           \/ pc[r] = "spawn" /\ p \in {AfterJoin(r), "err"}
           \/ pc[r] = "unwind" /\ p = "err"
           \/ pc[r] = "uploading" /\ p = "cleanup"
           \/ pc[r] = "cleanup" /\ p = AfterCleanup(r)
           \/ pc[r] = "register" /\ p = IF r.uri = NoUri THEN "ok" ELSE "cert"
  BY Zenon DEF ClearTemp, DownloadDone, Join, Unwind, UploadDone, Cleanup, RegisterResult,
     At, Goto
<1>6. r.kind \in {"get", "put"}
  BY <1>2, SessionsAssumption, Zenon
<1>7. PlaceOK(r, p) /\ p # "idle"
  BY <1>3, <1>5, <1>6
  DEF PlaceOK, Places, GetPlaces, PutPlaces, AfterJoin, AfterCleanup
<1>8. KeyOK(r, p, key[r])
  BY <1>1, <1>3, <1>6 DEF KeyOK
<1>9. pc[r] \notin {"sent", "err"}
  BY <1>1
<1> QED
  BY <1>0, <1>1, <1>3, <1>4, <1>5, <1>7, <1>8, <1>9, LocalTypes, Zenon

(* The steps that leave the handler where it is.                           *)
LEMMA TypesStays ==
  ASSUME TypeInv, IInv, NEW r \in Requests,
         \/ Transfer(r) \/ ApplicationWrites(r)
         \/ \E f \in Files : Spawn(r, f) \/ WorkerStep(r, f)
  PROVE  TypeInv'
<1>0. Types
  BY DEF IInv
<1>1. /\ UNCHANGED <<pc, key, client, cm, tls, faults>> /\ app' \in {app, TRUE}
      /\ \E t \in SUBSET todo[r] : todo' = [todo EXCEPT ![r] = t]
  <2>1. CASE Transfer(r)
    BY <2>1, Zenon DEF Transfer, Download, CopyFile, Upload, net
  <2>2. CASE ApplicationWrites(r)
    BY <1>0, <2>2, SameKey, Zenon DEF ApplicationWrites, net
  <2>3. CASE \E f \in Files : Spawn(r, f)
    BY <2>3, Zenon DEF Spawn, net
  <2>4. CASE \E f \in Files : WorkerStep(r, f)
    <3>1. UNCHANGED <<pc, key, todo, client, cm, tls, faults, app>>
      BY <2>4 DEF WorkerStep, OpenOutput, EncryptFile, DecryptFile, WorkerFails, net
    <3> QED
      BY <1>0, <3>1, SameKey
  <2> QED
    BY <2>1, <2>2, <2>3, <2>4, Zenon
<1>2. PICK t \in SUBSET todo[r] : todo' = [todo EXCEPT ![r] = t]
  BY <1>1, Zenon
<1>3. NamesOK(fs) /\ todo[r] \subseteq FileNames /\ app \in BOOLEAN
      /\ RequestOK(r, pc[r], key[r], todo[r], client[r])
  BY <1>0, SameKey DEF TypeInv
<1>4. NamesOK(fs')
  <2>1. CASE Transfer(r)
    <3>1. PICK n \in todo[r] : Download(r, n) \/ CopyFile(r, n) \/ Upload(r, n)
      BY <2>1 DEF Transfer
    <3>2. \/ fs' = Write(Temp(r.path), n, fs[Store(r.store)][n])
          \/ fs' = Write(Out(r), n, fs[In(r)][n])
          \/ fs' = Write(Store(r.store), n, fs[Temp(r.path)][n])
      BY <3>1, Zenon DEF Download, CopyFile, Upload
    <3>3. \A d, c : NamesOK(Write(d, n, c))
      BY <1>3, WrittenNames
    <3> QED
      BY <3>2, <3>3, Zenon
  <2>2. CASE ApplicationWrites(r)
    <3>1. PICK d \in Results : fs' = [fs EXCEPT ![App(r.path)] = d]
      BY <2>2, Zenon DEF ApplicationWrites
    <3>2. Ns(d) \subseteq FileNames
      BY DirectoriesAssumption DEF IsDirectory, Ns
    <3> QED
      BY <1>3, <3>1, <3>2, ChangedNames, Zenon
  <2>3. ASSUME NEW f \in Files, Spawn(r, f) PROVE NamesOK(fs')
    <3>1. fs' = [fs EXCEPT ![Out(r)] = Dir(Out(r))]
      BY <2>3 DEF Spawn
    <3>2. CASE Out(r) \in DOMAIN fs
      <4>1. Ns(Dir(Out(r))) \subseteq FileNames
        <5>1. Names(Out(r)) \subseteq FileNames
          BY <1>0, <3>2, SameKey
        <5> QED
          BY <5>1 DEF Ns, Names
      <4> QED
        BY <1>3, <3>1, <4>1, ChangedNames, Zenon
    <3>3. CASE Out(r) \notin DOMAIN fs
      BY <1>3, <3>1, <3>3 DEF NamesOK
    <3> QED
      BY <3>2, <3>3
  <2>4. ASSUME NEW f \in Files, WorkerStep(r, f) PROVE NamesOK(fs')
    <3>1. OutName(r, f) \in FileNames
      BY DEF OutName, FileNames
    <3>2. CASE OpenOutput(r, f)
      BY <1>3, <3>1, <3>2, WrittenNames, Zenon DEF OpenOutput
    <3>3. CASE EncryptFile(r, f)
      BY <1>3, <3>1, <3>3, WrittenNames, Zenon DEF EncryptFile
    <3>4. CASE DecryptFile(r, f)
      BY <1>3, <3>1, <3>4, WrittenNames, Zenon DEF DecryptFile
    <3>5. CASE WorkerFails(r, f)
      BY <1>3, <3>5, Zenon DEF WorkerFails
    <3> QED
      BY <2>4, <3>2, <3>3, <3>4, <3>5, Zenon DEF WorkerStep
  <2> QED
    BY <2>1, <2>2, <2>3, <2>4
<1>5. RequestOK(r, pc[r], key[r], t, client[r])
  BY <1>3 DEF RequestOK
<1>6. /\ pc' = [pc EXCEPT ![r] = pc[r]] /\ key' = [key EXCEPT ![r] = key[r]]
      /\ client' = [client EXCEPT ![r] = client[r]]
      /\ cm' \in [Uris -> Keys] /\ app' \in BOOLEAN
      /\ tls' \in [cert : Nat, key : Nat] /\ faults' = faults
  BY <1>0, <1>1, <1>3, SameKey, Zenon DEF TypeInv
<1> QED
  BY <1>0, <1>2, <1>4, <1>5, <1>6, TypeFrame, Zenon

(* A step in which r's client becomes c and r goes to p with key k; files  *)
(* and loops stay.                                                         *)
LEMMA ClientTypes ==
  ASSUME TypeInv, Types, NEW r \in Requests, NEW p, NEW k, NEW c,
         pc' = [pc EXCEPT ![r] = p], key' = [key EXCEPT ![r] = k],
         client' = [client EXCEPT ![r] = c],
         UNCHANGED <<todo, fs, app, faults>>,
         PlaceOK(r, p), KeyOK(r, p, k), ClientOK(r, p, k, c),
         cm' \in [Uris -> Keys], tls' \in [cert : Nat, key : Nat]
  PROVE  TypeInv'
<1>1. todo' = [todo EXCEPT ![r] = todo[r]] /\ todo[r] \subseteq FileNames
      /\ NamesOK(fs') /\ app' \in BOOLEAN
  BY SameKey
<1>2. RequestOK(r, p, k, todo[r], c)
  BY <1>1 DEF RequestOK
<1> QED
  BY <1>1, <1>2, TypeFrame, Zenon

(* The steps of the calls of the Capsule Manager.                          *)
LEMMA TypesCalls ==
  ASSUME TypeInv, IInv, NEW r \in Requests,
         \/ GetRaCert(r) \/ GetDataKeys(r) \/ GetTlsAsset(r) \/ CreateResultDataKey(r)
         \/ GotDataKeys(r) \/ ResultRegistered(r) \/ HandlerFails(r)
  PROVE  TypeInv'
<1>0. Types
  BY DEF IInv
<1>1. /\ UNCHANGED <<todo, fs, app, faults>>
      /\ cm' \in [Uris -> Keys] /\ tls' \in [cert : Nat, key : Nat]
  BY DEF GetRaCert, GetDataKeys, GetTlsAsset, CreateResultDataKey, Send, GotDataKeys,
     ResultRegistered, HandlerFails, TypeInv
<1>2. /\ PlaceOK(r, pc[r]) /\ KeyOK(r, pc[r], key[r]) /\ key = [key EXCEPT ![r] = key[r]]
      /\ ClientOK(r, pc[r], key[r], client[r])
      /\ DOMAIN client[r] = {"cert", "sent", "answer"}
      /\ client = [q \in Requests |-> client[q]]
  BY <1>0, SameKey DEF TypeInv, RequestOK, Types
<1>3. CASE GetRaCert(r)
  <2>1. PICK n : client' = [client EXCEPT ![r].cert = n]
    BY <1>3, Zenon DEF GetRaCert
  <2> DEFINE c == [client[r] EXCEPT !.cert = n]
  <2>2. client' = [client EXCEPT ![r] = c] /\ c.sent = client[r].sent
        /\ c.answer = client[r].answer
    BY <1>2, <2>1
  <2> HIDE DEF c
  <2>3. pc[r] = "cert" /\ pc' = [pc EXCEPT ![r] = "call"] /\ key' = key
    BY <1>3 DEF GetRaCert, At, Goto
  <2>4. PlaceOK(r, "call") /\ KeyOK(r, "call", key[r])
    BY <1>2, <2>3 DEF PlaceOK, KeyOK, Places, GetPlaces, PutPlaces
  <2>5. ClientOK(r, "call", key[r], c)
    BY <1>2, <2>2, <2>3 DEF ClientOK
  <2> QED
    BY <1>0, <1>1, <1>2, <2>2, <2>3, <2>4, <2>5, ClientTypes, Zenon
<1>4. CASE GetDataKeys(r) \/ GetTlsAsset(r) \/ CreateResultDataKey(r)
  <2>1. Send(r, Request(r))
    BY <1>4 DEF GetDataKeys, GetTlsAsset, CreateResultDataKey, Request
  <2> DEFINE e == GenEncryptedRequest(Request(r), Cert, Cert, client[r].cert)
             c == [client[r] EXCEPT !.sent = e]
  <2>2. client' = [client EXCEPT ![r] = c] /\ c.sent = e /\ c.answer = client[r].answer
    BY <1>2, <2>1 DEF Send
  <2>3. r.kind = "put" => e.plain.payload.body.data_key = key[r]
    BY Zenon DEF GenEncryptedRequest, Encrypt, Request, ResultMessage
  <2> HIDE DEF c, e
  <2>4. pc[r] = "call" /\ pc' = [pc EXCEPT ![r] = "sent"] /\ key' = key
    BY <2>1 DEF Send, At, Goto
  <2>5. PlaceOK(r, "sent") /\ KeyOK(r, "sent", key[r])
    BY <1>2, <2>4 DEF PlaceOK, KeyOK, Places, GetPlaces, PutPlaces
  <2>6. ClientOK(r, "sent", key[r], c)
    BY <1>2, <2>2, <2>3, <2>4 DEF ClientOK
  <2> QED
    BY <1>0, <1>1, <1>2, <2>2, <2>4, <2>5, <2>6, ClientTypes, Zenon
<1>5. NoClient.sent = Nothing /\ NoClient.answer = Nothing
  BY DEF NoClient
<1>6. CASE GotDataKeys(r)
  <2>1. /\ client[r].answer # Nothing /\ client[r].answer.status = OK
        /\ r.kind = "get" /\ pc[r] = "sent" /\ pc' = [pc EXCEPT ![r] = AfterGetKey(r)]
        /\ client' = [client EXCEPT ![r] = NoClient]
    BY <1>6, Zenon DEF GotDataKeys, Parsed, ParseEncryptedResponse, At, Goto
  <2>2. PICK k \in client[r].answer.message.plain : key' = [key EXCEPT ![r] = k]
    BY <1>6, Zenon DEF GotDataKeys
  <2>3. k \in Keys \ {NoKey}
    BY <1>2, <2>1, <2>2 DEF ClientOK
  <2>4. PlaceOK(r, AfterGetKey(r)) /\ KeyOK(r, AfterGetKey(r), k)
    BY <2>1, <2>3, Zenon DEF PlaceOK, KeyOK, Places, GetPlaces, AfterGetKey
  <2>5. ClientOK(r, AfterGetKey(r), k, NoClient)
    BY <1>5, <2>1, Zenon DEF ClientOK
  <2> QED
    BY <1>0, <1>1, <2>1, <2>2, <2>4, <2>5, ClientTypes, Zenon
<1>7. CASE ResultRegistered(r)
  <2>1. /\ r.kind = "put" /\ pc[r] = "sent" /\ pc' = [pc EXCEPT ![r] = "ok"]
        /\ client' = [client EXCEPT ![r] = NoClient] /\ key' = key
    BY <1>7 DEF ResultRegistered, At, Goto
  <2>2. PlaceOK(r, "ok") /\ KeyOK(r, "ok", key[r])
    BY <1>2, <2>1 DEF PlaceOK, KeyOK, Places, PutPlaces
  <2>3. ClientOK(r, "ok", key[r], NoClient)
    BY <1>5, <2>1, Zenon DEF ClientOK
  <2> QED
    BY <1>0, <1>1, <1>2, <2>1, <2>2, <2>3, ClientTypes, Zenon
<1>8. CASE HandlerFails(r)
  <2> DEFINE p == IF pc[r] = "spawn" THEN "unwind" ELSE "err"
  <2>1. /\ pc' = [pc EXCEPT ![r] = p] /\ pc[r] \notin {"idle", "absent"} /\ key' = key
        /\ client' = [client EXCEPT ![r] = Abandoned(r)]
    BY <1>8, Zenon DEF HandlerFails, Active, Waiting, Goto
  <2>2. PlaceOK(r, p) /\ KeyOK(r, p, key[r])
    BY <1>2, <2>1 DEF PlaceOK, KeyOK, Places, GetPlaces, PutPlaces
  <2>3. /\ Abandoned(r).answer = Nothing
        /\ r.kind = "put" => Abandoned(r).sent = client[r].sent
    BY DEF Abandoned, NoClient
  <2>4. ClientOK(r, p, key[r], Abandoned(r))
    BY <1>2, <2>1, <2>3 DEF ClientOK
  <2> QED
    BY <1>0, <1>1, <1>2, <2>1, <2>2, <2>4, ClientTypes, Zenon
<1> QED
  BY <1>3, <1>4, <1>6, <1>7, <1>8

(* The TLS asset is written.                                               *)
LEMMA TypesMain ==
  ASSUME TypeInv, IInv, NEW r \in Requests, WriteTlsCert(r) \/ WriteTlsKey(r)
  PROVE  TypeInv'
<1>0. Types
  BY DEF IInv
<1>1. UNCHANGED <<todo, fs, app, faults, key, cm>> /\ pc[r] \in {"sent", "tlskey"}
  BY DEF WriteTlsCert, WriteTlsKey, At
<1>2. /\ KeyOK(r, pc[r], key[r]) /\ key = [key EXCEPT ![r] = key[r]]
      /\ ClientOK(r, pc[r], key[r], client[r])
      /\ client = [q \in Requests |-> client[q]]
      /\ cm \in [Uris -> Keys] /\ tls \in [cert : Nat, key : Nat]
  BY <1>0, SameKey DEF TypeInv, RequestOK
<1>3. r.kind = "main"
  BY DEF IInv, MainPlaces, WriteTlsCert, WriteTlsKey, At
<1>4. client[r].answer.message.plain \in Nat
  BY <1>3 DEF IInv, AssetAnswered, Asset, WriteTlsCert, WriteTlsKey, At, Parsed,
     ParseEncryptedResponse
<1>5. tls' \in [cert : Nat, key : Nat]
  BY <1>2, <1>4 DEF WriteTlsCert, WriteTlsKey
<1>6. PICK p \in {"tlskey", "ok"} : pc' = [pc EXCEPT ![r] = p]
  BY DEF WriteTlsCert, WriteTlsKey, At, Goto
<1>7. PICK c : client' = [client EXCEPT ![r] = c]
  <2>1. client' = client \/ client' = [client EXCEPT ![r] = NoClient]
    BY DEF WriteTlsCert, WriteTlsKey
  <2>2. client = [client EXCEPT ![r] = client[r]]
    BY <1>2
  <2> QED
    BY <2>1, <2>2
<1>8. PlaceOK(r, p) /\ KeyOK(r, p, key[r]) /\ ClientOK(r, p, key[r], c)
  BY <1>2, <1>3 DEF PlaceOK, KeyOK, ClientOK, Places
<1> QED
  BY <1>0, <1>1, <1>2, <1>5, <1>6, <1>7, <1>8, ClientTypes, Zenon

(* The Capsule Manager answers, and keeps the key of a registration.       *)
LEMMA TypesReplies ==
  ASSUME TypeInv, IInv, NEW r \in Requests, ManagerAccepts(r) \/ ManagerRefuses(r)
  PROVE  TypeInv'
<1>0. Types
  BY DEF IInv
<1>1. /\ UNCHANGED <<pc, key, todo, fs, app, faults, tls>> /\ client[r].sent # Nothing
  BY DEF ManagerAccepts, ManagerRefuses
<1>2. /\ PlaceOK(r, pc[r]) /\ KeyOK(r, pc[r], key[r])
      /\ pc = [pc EXCEPT ![r] = pc[r]] /\ key = [key EXCEPT ![r] = key[r]]
      /\ ClientOK(r, pc[r], key[r], client[r])
      /\ DOMAIN client[r] = {"cert", "sent", "answer"}
      /\ client = [q \in Requests |-> client[q]]
      /\ cm \in [Uris -> Keys] /\ tls \in [cert : Nat, key : Nat]
  BY <1>0, SameKey DEF TypeInv, RequestOK, Types
<1>3. pc[r] # "idle"
  BY <1>1, <1>2 DEF ClientOK, NoClient
<1>4. PICK a : /\ Reply(r, a)
               /\ r.kind = "get" /\ pc[r] = "sent" /\ a.status = OK
                    => a.message.plain \subseteq Keys \ {NoKey}
  <2>1. CASE ManagerAccepts(r)
    <3> DEFINE body == CASE r.kind = "get" -> KeysOf(r.uri)
                         [] r.kind = "main" -> manager.tls
                         [] r.kind = "put" -> Nothing
    <3>1. ASSUME r.kind = "get", pc[r] = "sent" PROVE body \subseteq Keys \ {NoKey}
      <4>1. r.uri # NoUri
        BY <1>2, <3>1 DEF PlaceOK
      <4>2. r.uri \in Uris
        BY <3>1, <4>1 DEF Uris
      <4>3. body = KeysOf(r.uri)
        BY <3>1
      <4>4. KeysOf(r.uri) \subseteq Keys \ {NoKey}
        BY <1>2, <4>2 DEF KeysOf
      <4> HIDE DEF body
      <4> QED
        BY <4>3, <4>4
    <3>2. Reply(r, Answer(body))
      BY <2>1, Zenon DEF ManagerAccepts
    <3>3. Answer(body).message.plain = body
      BY Zenon DEF Answer, Encrypt
    <3> QED
      BY <3>1, <3>2, <3>3
  <2>2. CASE ManagerRefuses(r)
    <3>1. Reply(r, Refused) /\ Refused.status # OK
      BY <2>2 DEF ManagerRefuses, Refused, OK
    <3> QED
      BY <3>1, Zenon
  <2> QED
    BY <2>1, <2>2
<1> DEFINE c == [client[r] EXCEPT !.sent = Nothing,
                                  !.answer = IF pc[r] = "sent" THEN a ELSE @]
<1>5. client' = [client EXCEPT ![r] = c] /\ c.sent = Nothing
      /\ c.answer = IF pc[r] = "sent" THEN a ELSE client[r].answer
  BY <1>2, <1>4, Zenon DEF Reply
<1> HIDE DEF c
<1>6. ClientOK(r, pc[r], key[r], c)
  BY <1>2, <1>3, <1>4, <1>5 DEF ClientOK
<1>7. cm' \in [Uris -> Keys]
  <2>1. r.kind = "put" => client[r].sent.plain.payload.body.data_key \in Keys
    BY <1>1, <1>2 DEF ClientOK, KeyOK
  <2> QED
    BY <1>2, <2>1 DEF ManagerAccepts, ManagerRefuses
<1> QED
  BY <1>0, <1>1, <1>2, <1>5, <1>6, <1>7, ClientTypes

(* The faults.                                                             *)
LEMMA TypesFaults ==
  ASSUME TypeInv, IInv, ProxyKilled \/ ManagerRestarts \/ AssetRotates
  PROVE  TypeInv'
<1>0. Types
  BY DEF IInv
<1>1. /\ UNCHANGED <<key, todo, fs, cm, app, tls>>
      /\ faults' \in [FaultKinds -> Nat]
  BY DEF TypeInv, ProxyKilled, ManagerRestarts, AssetRotates, Fault, FaultKinds
<1>2. ASSUME NEW r \in Requests
      PROVE  RequestOK(r, pc'[r], key[r], todo[r], client'[r])
  <2>1. /\ PlaceOK(r, pc[r]) /\ KeyOK(r, pc[r], key[r])
        /\ ClientOK(r, pc[r], key[r], client[r]) /\ todo[r] \subseteq FileNames
        /\ pc[r] \in Places /\ DOMAIN client[r] = {"cert", "sent", "answer"}
    BY <1>0 DEF TypeInv, RequestOK, Types
  <2>2. CASE ProxyKilled
    <3>1. pc'[r] = IF r.kind = "main" /\ pc[r] # "absent" THEN "idle"
                   ELSE IF Active(r) THEN "err" ELSE pc[r]
      BY <2>2 DEF ProxyKilled
    <3>2. client'[r] = Abandoned(r)
      BY <2>2 DEF ProxyKilled
    <3>3. PlaceOK(r, pc'[r]) /\ KeyOK(r, pc'[r], key[r])
      BY <2>1, <3>1, Zenon DEF PlaceOK, KeyOK, Places, GetPlaces, PutPlaces
    <3>4. /\ Abandoned(r).answer = Nothing
          /\ r.kind = "put" => Abandoned(r).sent = client[r].sent
      BY DEF Abandoned, NoClient
    <3>5. pc'[r] = "idle" => r.kind = "main" \/ pc[r] = "idle"
      BY <3>1
    <3>6. pc[r] = "idle" => client[r].sent = Nothing
      <4>1. pc[r] = "idle" => client[r] = NoClient
        BY <2>1, Zenon DEF ClientOK
      <4> QED
        BY <4>1 DEF NoClient
    <3>7. pc'[r] = "idle" => Abandoned(r) = NoClient
      BY <3>5, <3>6 DEF Abandoned, NoClient
    <3>8. r.kind = "put" /\ pc[r] \in {"sent", "err"} => pc'[r] = "err"
      BY <3>1 DEF Active, Waiting, Answered
    <3>9. ClientOK(r, pc'[r], key[r], Abandoned(r))
      BY <2>1, <3>4, <3>7, <3>8, Zenon DEF ClientOK
    <3> QED
      BY <2>1, <3>2, <3>3, <3>9 DEF RequestOK
  <2>3. CASE ManagerRestarts
    <3>1. pc'[r] = pc[r] /\ client'[r] = [client[r] EXCEPT !.sent = Nothing]
      BY <2>3 DEF ManagerRestarts
    <3>2. client'[r].sent = Nothing /\ client'[r].answer = client[r].answer
      BY <2>1, <3>1
    <3>3. pc[r] = "idle" => client'[r] = NoClient
      BY <2>1, <3>1 DEF ClientOK, NoClient
    <3>4. ClientOK(r, pc[r], key[r], client'[r])
      BY <2>1, <3>2, <3>3, Zenon DEF ClientOK
    <3> QED
      BY <2>1, <3>1, <3>4 DEF RequestOK
  <2>4. CASE AssetRotates
    BY <2>1, <2>4 DEF AssetRotates, RequestOK
  <2> QED
    BY <2>2, <2>3, <2>4, Zenon
<1>3. client' = [r \in Requests |-> client'[r]]
  BY DEF TypeInv, ProxyKilled, ManagerRestarts, AssetRotates
<1>4. NamesOK(fs)'
  BY <1>1 DEF TypeInv, NamesOK, Ns, FileNames
<1>5. \A r \in Requests : RequestOK(r, pc[r], key[r], todo[r], client[r])'
  BY <1>1, <1>2, Zenon DEF RequestOK, PlaceOK, KeyOK, ClientOK, Places, GetPlaces, PutPlaces,
     NoClient, FileNames, Keys
<1> QED
  BY <1>1, <1>3, <1>4, <1>5 DEF TypeInv

(* Every step keeps the types.                                             *)
LEMMA TypeStep == TypeInv /\ IInv /\ [Next]_vars => TypeInv'
<1> SUFFICES ASSUME TypeInv, IInv, [Next]_vars PROVE TypeInv'
  OBVIOUS
<1>1. CASE UNCHANGED vars
  BY <1>1, Zenon DEF vars, TypeInv, RequestOK, PlaceOK, KeyOK, ClientOK, Places, GetPlaces,
     PutPlaces, NamesOK, Ns
<1>2. CASE ProxyKilled \/ ManagerRestarts \/ AssetRotates
  BY <1>2, TypesFaults
<1>3. CASE \E r \in Requests : \/ ManagerAccepts(r) \/ ManagerRefuses(r)
                               \/ Main(r) \/ GetInputData(r) \/ PutResultData(r)
  BY <1>3, TypesReplies, TypesArrive
<1>4. CASE \E r \in Requests : HandlerStep(r)
  BY <1>4, TypesLoops, TypesMoves, TypesStays, TypesCalls, TypesMain DEF HandlerStep
<1>5. CASE \E r \in Requests : \/ HandlerFails(r) \/ ApplicationWrites(r)
                               \/ \E f \in Files : WorkerStep(r, f)
  BY <1>5, TypesStays, TypesCalls
<1> QED
  BY <1>1, <1>2, <1>3, <1>4, <1>5 DEF Next

(* The types hold, and give TypeOK.                                        *)
THEOREM TypesInvariant == Spec => [](TypeInv /\ IInv)
<1>1. Init => TypeInv /\ IInv
  BY TypeInit, InvInit
<1>2. TypeInv /\ IInv /\ [Next]_vars => (TypeInv /\ IInv)'
  BY TypeStep, InvStep
<1> QED
  BY <1>1, <1>2, PTL DEF Spec

(* Every variable of the proxy has its type, also when requests overlap:   *)
(* in particular a handler that works on files has a data key, from its    *)
(* request, from the Capsule Manager, which may have none and change it    *)
(* meanwhile, or a random one.                                             *)
THEOREM ProxyTypes == Spec => []TypeOK
<1>1. TypeInv /\ IInv => TypeOK
  <2> SUFFICES ASSUME TypeInv, IInv PROVE TypeOK
    OBVIOUS
  <2>1. \A r \in Requests : Keyless(r) \/ key[r] # NoKey
    BY DEF TypeInv, RequestOK, KeyOK, Keyless, Waiting
  <2>2. \A r \in Requests : pc[r] = "idle" => client[r] = NoClient
    BY DEF TypeInv, RequestOK, ClientOK
  <2>3. manager \in [cert : Nat, tls : Nat]
    BY DEF IInv, Types
  <2> QED
    BY <2>1, <2>2, <2>3 DEF TypeOK, TypeInv, IInv, Types
<1> QED
  BY <1>1, TypesInvariant, PTL
===============================================================================
