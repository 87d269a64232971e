------------------------ MODULE DataCapsuleFilesProofs ------------------------
(***************************************************************************)
(* Proofs about the files and keys of DataCapsuleProxy, for all sessions,  *)
(* files, directories and faults: what requests that do not overlap on a   *)
(* directory or a store deliver, upload, register and remove.              *)
(***************************************************************************)
EXTENDS DataCapsuleProxyProofs, FiniteSetTheorems

-----------------------------------------------------------------------------
(* What a request that works has done: at place p with key k, loop t,      *)
(* threads w, temporary directory T (its files at the start fd),           *)
(* application's directory A and store S.                                  *)

(* Every file of A is in X under k; it is, or has still to be visited, or  *)
(* its thread is not done.                                                 *)
Sealed(A, k, X) ==
  \A n \in Ns(A) : Holds(X, Enc(n), [data |-> A[n].data, key |-> k])
Sealing(A, k, X, t, w) ==
  \A n \in Ns(A) :
    \/ n \in t
    \/ n[2] = "raw" /\ w[n[1]] \in {"started", "open", "failed"}
    \/ n[2] = "raw" /\ Holds(X, Enc(n), [data |-> A[n].data, key |-> k])

(* The outputs of the threads that have opened theirs are there.           *)
Opened(X, suffix, w) == \A f \in Files : w[f] = "open" => <<f, suffix>> \in Ns(X)

(* What is new in the temporary directory of a put is under its key.       *)
Own(T, fd, k) == \A n \in Ns(T) : n \in fd \/ T[n].key = k
Owning(T, fd, k, w) ==
  \A n \in Ns(T) :
    \/ n \in fd \/ T[n].key = k
    \/ n[2] = "enc" /\ w[n[1]] \in {"started", "open", "failed"}

PutInv(r, p, k, t, w, fd, T, A, S) ==
  LET O == IF r.s3 THEN T ELSE S IN
  /\ p = "walk" /\ r.s3 => Ns(T) \subseteq fd
  /\ p = "spawn" => /\ Sealing(A, k, O, t, w) /\ Opened(O, "enc", w)
                    /\ r.s3 => Owning(T, fd, k, w)
  /\ p \in {"upload", "uploading"} => Sealed(A, k, T) /\ Own(T, fd, k)
  /\ p = "uploading" => \A n \in Ns(T) : n \in t \/ Holds(S, n, T[n])
  /\ p \in {"cleanup", "register", "cert", "call", "sent"} => Sealed(A, k, S)
  /\ p \in {"register", "cert", "call", "sent"} /\ r.s3 => T = NoDir

(* Every file of X that is not in it twice is in A as a plaintext.         *)
Delivered(X, A) ==
  \A n \in Ns(X) : Twin(n) \notin Ns(X) =>
    Holds(A, Raw(n), [data |-> X[n].data, key |-> Plain])
Delivering(X, A, t, w) ==
  \A n \in Ns(X) : Twin(n) \notin Ns(X) =>
    \/ n \in t
    \/ n[2] = "enc" /\ w[n[1]] \in {"started", "open", "failed"}
    \/ Holds(A, Raw(n), [data |-> X[n].data, key |-> Plain])

OnePage(S) == Cardinality(Ns(S)) <= PageSize
Fetched(T, S) == Ns(T) \subseteq Ns(S) /\ \A n \in Ns(S) : Holds(T, n, S[n])

GetInv(r, p, t, w, T, A, S) ==
  LET I == IF r.s3 THEN T ELSE S IN
  /\ p = "list" => T = NoDir
  /\ p = "download" =>
       /\ Ns(T) \subseteq Ns(S) /\ t \subseteq Ns(S)
       /\ OnePage(S) => \A n \in Ns(S) : n \in t \/ Holds(T, n, S[n])
  /\ p \in {"walk", "spawn"} /\ r.s3 /\ OnePage(S) => Fetched(T, S)
  /\ p = "spawn" => Delivering(I, A, t, w) /\ Opened(A, "raw", w)
  /\ p = "cleanup" /\ OnePage(S) => Delivered(S, A)

WorkInv(r, p, k, t, w, fd, T, A, S) ==
  /\ r.kind = "put" => PutInv(r, p, k, t, w, fd, T, A, S)
  /\ r.kind = "get" => GetInv(r, p, t, w, T, A, S)

-----------------------------------------------------------------------------
(* The inductive invariant of requests that do not overlap.                *)

Works(r) == r.kind # "main" /\ Active(r)

Apart == \A r, s \in Requests : Conflict(r, s) => ~(Works(r) /\ Works(s))
AllDirectories == \A d \in DOMAIN fs : IsDirectory(fs[d])
View(r) ==
  WorkInv(r, pc[r], key[r], todo[r], worker[r], found[r],
          fs[Temp(r.path)], fs[App(r.path)], fs[Store(r.store)])
AllWork == \A r \in Requests : Works(r) => View(r)

FilesInv == Apart /\ AllDirectories /\ AllWork /\ DOMAIN found = Requests

(* The Capsule Manager holds the key of a put that it has told so, or one  *)
(* of a put with the same URI that was given up on.                        *)
Registered ==
  \A r \in Requests :
    /\ r.kind = "put" /\ pc[r] = "sent"
    /\ client[r].answer # Nothing /\ client[r].answer.status = OK
    => \/ cm[r.uri] = key[r]
       \/ \E s \in Requests : GivenUp(s) /\ s.uri = r.uri /\ cm[r.uri] = key[s]

-----------------------------------------------------------------------------
(* Single files, and what the loops and threads make of a directory.       *)

(* A directory after a write.                                              *)
LEMMA WithIs ==
  ASSUME NEW x, IsDirectory(x), NEW n \in FileNames, NEW c \in Contents,
         n[2] = "raw" => c.key = Plain
  PROVE  /\ IsDirectory(With(x, n, c)) /\ With(x, n, c) # NoDir
         /\ Ns(With(x, n, c)) = Ns(x) \cup {n} /\ With(x, n, c)[n] = c
         /\ \A m \in Ns(x) : m # n => With(x, n, c)[m] = x[m]
<1>1. /\ Ns(x) \subseteq FileNames /\ \A m \in Ns(x) : x[m] \in Contents
      /\ \A m \in Ns(x) : m[2] = "raw" => x[m].key = Plain
  BY DEF IsDirectory, Ns
<1>2. With(x, n, c) \in [Ns(x) \cup {n} -> Contents]
  BY <1>1 DEF With
<1>3. With(x, n, c) # NoDir
  BY <1>1, <1>2, DirectoriesAssumption
<1>4. /\ DOMAIN With(x, n, c) = Ns(x) \cup {n} /\ With(x, n, c)[n] = c
      /\ \A m \in Ns(x) : m # n => With(x, n, c)[m] = x[m]
  BY DEF With
<1>5. Ns(With(x, n, c)) = Ns(x) \cup {n}
  BY <1>3, <1>4 DEF Ns
<1>6. IsDirectory(With(x, n, c))
  BY <1>1, <1>2, <1>4 DEF IsDirectory
<1> QED
  BY <1>3, <1>4, <1>5, <1>6

(* The contents of a file of a directory.                                  *)
LEMMA FileIs ==
  ASSUME NEW x, IsDirectory(x), NEW n \in Ns(x)
  PROVE  /\ n \in FileNames /\ x[n] \in Contents
         /\ x[n] = [data |-> x[n].data, key |-> x[n].key]
         /\ n[2] = "raw" => x[n].key = Plain
BY DEF IsDirectory, Ns, Contents

(* The names of a directory that is created if it is not there.            *)
LEMMA MadeIs ==
  ASSUME NEW d, IsDirectory(fs[d])
  PROVE  /\ IsDirectory(Dir(d)) /\ Ns(Dir(d)) = Ns(fs[d])
         /\ \A n, v : Holds(fs[d], n, v) => Holds(Dir(d), n, v)
         /\ \A n \in Ns(Dir(d)) : Dir(d)[n] = fs[d][n]
<1>1. CASE fs[d] = NoDir
  <2>1. Dir(d) = <<>> /\ Ns(fs[d]) = {} /\ DOMAIN <<>> = {}
    BY <1>1 DEF Dir, Ns
  <2>2. IsDirectory(<<>>) /\ Ns(<<>>) = {}
    BY <2>1 DEF IsDirectory, Ns
  <2> QED
    BY <2>1, <2>2 DEF Holds
<1>2. CASE fs[d] # NoDir
  BY <1>2 DEF Dir, Ns, Holds
<1> QED
  BY <1>1, <1>2

(* A name of a file.                                                       *)
LEMMA NameIs ==
  ASSUME NEW n \in FileNames
  PROVE  /\ n = <<n[1], n[2]>> /\ n[1] \in Files /\ n[2] \in {"enc", "raw"}
         /\ Enc(n) \in FileNames /\ Raw(n) \in FileNames
         /\ Enc(n)[1] = n[1] /\ Raw(n)[1] = n[1] /\ Enc(n)[2] = "enc" /\ Raw(n)[2] = "raw"
         /\ Twin(n)[1] = n[1] /\ (n[2] = "enc" => Twin(n) = Raw(n))
         /\ n[2] = "raw" => Twin(n) = Enc(n)
BY DEF FileNames, Enc, Raw, Twin

-----------------------------------------------------------------------------
(* A step of a thread, or its start: the state of the thread of f in w     *)
(* becomes v, and the directory X it writes to becomes Y.                  *)

Busy == {"started", "open", "failed"}
Keeps(X, Y, n) == \A m, c : m # n /\ Holds(X, m, c) => Holds(Y, m, c)
KeepsAll(X, Y) == \A m, c : Holds(X, m, c) => Holds(Y, m, c)
Stepped(w, u, f) == \A g \in Files : g # f => u[g] = w[g]
Visited(t, s, n) == t \ {n} \subseteq s

(* The thread is not done, or its output is there.                         *)
PutStep(A, k, Y, u, f) ==
  \/ u[f] \in Busy
  \/ Holds(Y, <<f, "enc">>, [data |-> A[<<f, "raw">>].data, key |-> k])
GetStep(I, Y, u, f) ==
  \/ u[f] \in Busy
  \/ Holds(Y, <<f, "raw">>, [data |-> I[<<f, "enc">>].data, key |-> Plain])

(* A step of the thread of f seals file f, or it is still busy.            *)
LEMMA SealGoesOn ==
  ASSUME NEW A, IsDirectory(A), NEW k, NEW X, NEW Y, NEW t, NEW s,
         NEW w, NEW u, NEW f \in Files,
         Stepped(w, u, f), Sealing(A, k, X, t, w), Keeps(X, Y, <<f, "enc">>),
         Visited(t, s, <<f, "raw">>), PutStep(A, k, Y, u, f)
  PROVE  Sealing(A, k, Y, s, u)
<1> SUFFICES ASSUME NEW n \in Ns(A)
             PROVE  \/ n \in s
                    \/ n[2] = "raw" /\ u[n[1]] \in Busy
                    \/ n[2] = "raw" /\ Holds(Y, Enc(n), [data |-> A[n].data, key |-> k])
  BY DEF Sealing, Busy
<1>1. /\ n = <<n[1], n[2]>> /\ n[1] \in Files /\ Enc(n) = <<n[1], "enc">>
  BY FileIs, NameIs, Zenon DEF Enc
<1>2. \/ n \in t
      \/ n[2] = "raw" /\ w[n[1]] \in Busy
      \/ n[2] = "raw" /\ Holds(X, Enc(n), [data |-> A[n].data, key |-> k])
  BY DEF Sealing, Busy
<1>3. CASE n = <<f, "raw">>
  BY <1>1, <1>3 DEF PutStep
<1>4. CASE n # <<f, "raw">> /\ n[2] = "raw"
  <2>1. n[1] # f /\ Enc(n) # <<f, "enc">>
    BY <1>1, <1>4
  <2> QED
    BY <1>1, <1>2, <1>4, <2>1 DEF Keeps, Stepped, Visited
<1>5. CASE n[2] # "raw"
  BY <1>1, <1>2, <1>5 DEF Visited
<1> QED
  BY <1>3, <1>4, <1>5

(* A step of the thread of f writes under the data key, or it is still     *)
(* busy.                                                                   *)
LEMMA OwnGoesOn ==
  ASSUME NEW X, NEW Y, NEW fd, NEW k, NEW w, NEW u, NEW f \in Files,
         Stepped(w, u, f), IsDirectory(Y), Owning(X, fd, k, w), Ns(Y) \subseteq Ns(X) \cup {<<f, "enc">>},
         \A n \in Ns(X) : n # <<f, "enc">> => Y[n] = X[n],
         u[f] \in Busy \/ Y[<<f, "enc">>].key = k
  PROVE  Owning(Y, fd, k, u)
<1> SUFFICES ASSUME NEW n \in Ns(Y)
             PROVE  n \in fd \/ Y[n].key = k \/ (n[2] = "enc" /\ u[n[1]] \in Busy)
  BY DEF Owning, Busy
<1>1. n = <<n[1], n[2]>> /\ n[1] \in Files
  BY FileIs, NameIs, Zenon
<1>2. CASE n = <<f, "enc">>
  BY <1>1, <1>2
<1>3. CASE n # <<f, "enc">>
  <2>1. n \in fd \/ X[n].key = k \/ (n[2] = "enc" /\ w[n[1]] \in Busy)
    BY <1>3 DEF Owning, Busy
  <2>2. n[2] = "enc" => n[1] # f
    BY <1>1, <1>3
  <2> QED
    BY <1>1, <1>3, <2>1, <2>2 DEF Stepped
<1> QED
  BY <1>2, <1>3

(* A step of the thread of f delivers file f, or it is still busy.         *)
LEMMA DeliverGoesOn ==
  ASSUME NEW I, IsDirectory(I), NEW X, NEW Y, NEW t, NEW s, NEW w, NEW u, NEW f \in Files,
         Stepped(w, u, f), Delivering(I, X, t, w), Visited(t, s, <<f, "enc">>),
         Keeps(X, Y, <<f, "raw">>), KeepsAll(X, Y) \/ <<f, "enc">> \in Ns(I),
         GetStep(I, Y, u, f)
  PROVE  Delivering(I, Y, s, u)
<1> SUFFICES ASSUME NEW n \in Ns(I), Twin(n) \notin Ns(I)
             PROVE  \/ n \in s
                    \/ n[2] = "enc" /\ u[n[1]] \in Busy
                    \/ Holds(Y, Raw(n), [data |-> I[n].data, key |-> Plain])
  BY DEF Delivering, Busy
<1>1. /\ n = <<n[1], n[2]>> /\ n[1] \in Files /\ Raw(n) = <<n[1], "raw">>
      /\ n[2] \in {"enc", "raw"} /\ Twin(n) = <<n[1], IF n[2] = "enc" THEN "raw" ELSE "enc">>
  BY FileIs, NameIs, Zenon DEF Raw, Twin
<1>2. \/ n \in t
      \/ n[2] = "enc" /\ w[n[1]] \in Busy
      \/ Holds(X, Raw(n), [data |-> I[n].data, key |-> Plain])
  BY DEF Delivering, Busy
<1>3. CASE n = <<f, "enc">>
  BY <1>1, <1>3 DEF GetStep
<1>4. CASE n[1] # f
  <2>1. Raw(n) # <<f, "raw">> /\ n # <<f, "enc">>
    BY <1>1, <1>4
  <2> QED
    BY <1>1, <1>2, <1>4, <2>1 DEF Keeps, Stepped, Visited
<1>5. CASE n = <<f, "raw">>
  <2>1. Twin(n) = <<f, "enc">> /\ n # <<f, "enc">> /\ n[2] # "enc"
    BY <1>1, <1>5
  <2> QED
    BY <1>2, <2>1 DEF Visited, KeepsAll
<1> QED
  BY <1>1, <1>3, <1>4, <1>5

(* A file without .enc is copied.                                          *)
LEMMA DeliverCopies ==
  ASSUME NEW I, IsDirectory(I), NEW X, NEW Y, NEW t, NEW w, NEW n \in Ns(I), n[2] = "raw",
         Delivering(I, X, t, w), Keeps(X, Y, n), Holds(Y, n, I[n])
  PROVE  Delivering(I, Y, t \ {n}, w)
<1>1. /\ n = <<n[1], n[2]>> /\ I[n] = [data |-> I[n].data, key |-> Plain]
      /\ Raw(n) = n
  <2>1. n \in FileNames /\ I[n] = [data |-> I[n].data, key |-> I[n].key] /\ I[n].key = Plain
    BY FileIs
  <2>2. n = <<n[1], n[2]>>
    BY <2>1, NameIs
  <2>3. Raw(n) = n
    BY <2>2 DEF Raw
  <2> QED
    BY <2>1, <2>2, <2>3
<1> SUFFICES ASSUME NEW m \in Ns(I), Twin(m) \notin Ns(I)
             PROVE  \/ m \in t \ {n}
                    \/ m[2] = "enc" /\ w[m[1]] \in Busy
                    \/ Holds(Y, Raw(m), [data |-> I[m].data, key |-> Plain])
  BY DEF Delivering, Busy
<1>2. /\ m = <<m[1], m[2]>> /\ Raw(m) = <<m[1], "raw">>
      /\ m[2] \in {"enc", "raw"} /\ Twin(m) = <<m[1], IF m[2] = "enc" THEN "raw" ELSE "enc">>
  BY FileIs, NameIs, Zenon DEF Raw, Twin
<1>3. \/ m \in t
      \/ m[2] = "enc" /\ w[m[1]] \in Busy
      \/ Holds(X, Raw(m), [data |-> I[m].data, key |-> Plain])
  BY DEF Delivering, Busy
<1>4. CASE m = n
  BY <1>1, <1>4
<1>5. CASE m # n
  <2>1. Raw(m) # n
    BY <1>1, <1>2, <1>5
  <2> QED
    BY <1>3, <1>5, <2>1 DEF Keeps
<1> QED
  BY <1>4, <1>5

-----------------------------------------------------------------------------
(* What a step of one request means for the others.                        *)

(* The directories of r.                                                   *)
Area(r) == {Temp(r.path), App(r.path), Store(r.store)}

(* A step of r leaves the others where they are.                           *)
OnlyOf(r) ==
  \A q \in Requests : q # r =>
    /\ pc'[q] = pc[q] /\ key'[q] = key[q] /\ todo'[q] = todo[q]
    /\ worker'[q] = worker[q] /\ found'[q] = found[q]

(* Requests that work and do not conflict share no directory.              *)
LEMMA AreasApart ==
  ASSUME NEW q \in Requests, NEW r \in Requests, q # r, ~Conflict(q, r)
  PROVE  Area(q) \cap Area(r) = {}
BY DEF Conflict, Area, Temp, App, Store

(* A step of r that stays in its directories and keeps its own invariant.  *)
LEMMA Frame ==
  ASSUME FilesInv, TypeInv, NEW r \in Requests, OnlyOf(r), r.kind # "main",
         \A q \in Requests : Conflict(q, r) => ~Works(q),
         DOMAIN found' = Requests, DOMAIN fs' = DOMAIN fs,
         \A d \in DOMAIN fs : d \notin Area(r) => fs'[d] = fs[d],
         \A d \in Area(r) : IsDirectory(fs'[d]),
         Works(r)' => View(r)'
  PROVE  FilesInv'
<1>1. ASSUME NEW q \in Requests, q # r PROVE Works(q)' <=> Works(q)
  BY <1>1 DEF OnlyOf, Works, Active, Waiting, Answered
<1>2. Apart'
  BY <1>1 DEF FilesInv, Apart, Conflict
<1>3. AllDirectories'
  BY DEF FilesInv, AllDirectories
<1>4. ASSUME NEW q \in Requests, Works(q)' PROVE View(q)'
  <2>1. CASE q = r
    BY <1>4, <2>1
  <2>2. CASE q # r
    <3>1. Works(q) /\ ~Conflict(q, r)
      BY <1>1, <1>4, <2>2
    <3>2. /\ fs'[Temp(q.path)] = fs[Temp(q.path)] /\ fs'[App(q.path)] = fs[App(q.path)]
          /\ fs'[Store(q.store)] = fs[Store(q.store)]
      <4>1. Area(q) \subseteq DOMAIN fs
        BY <3>1, AreaIn DEF Works, Area
      <4>2. Area(q) \cap Area(r) = {}
        BY <2>2, <3>1, AreasApart
      <4> QED
        BY <4>1, <4>2, Zenon DEF Area
    <3>3. View(q)
      BY <3>1 DEF FilesInv, AllWork, View
    <3> QED
      BY <2>2, <3>2, <3>3 DEF View, OnlyOf
  <2> QED
    BY <2>1, <2>2
<1> QED
  BY <1>2, <1>3, <1>4 DEF FilesInv, AllWork, View

(* A step of a request that works, and that changes one of its             *)
(* directories, or none.                                                   *)
LEMMA Changes ==
  ASSUME FilesInv, TypeInv, NEW r \in Requests, Works(r), OnlyOf(r),
         DOMAIN found' = Requests, NEW d \in Area(r), NEW x, IsDirectory(x),
         fs' = [fs EXCEPT ![d] = x], Works(r)' => View(r)'
  PROVE  FilesInv'
<1>1. r.kind # "main" /\ \A q \in Requests : Conflict(q, r) => ~Works(q)
  BY DEF FilesInv, Apart, Works
<1>2. Area(r) \subseteq DOMAIN fs
  BY <1>1, AreaIn DEF Area
<1>3. DOMAIN fs' = DOMAIN fs /\ \A e \in DOMAIN fs : e \notin Area(r) => fs'[e] = fs[e]
  BY <1>2
<1>4. \A e \in Area(r) : IsDirectory(fs'[e])
  BY <1>2 DEF FilesInv, AllDirectories
<1> QED
  BY <1>1, <1>3, <1>4, Frame

(* A step that changes no file.                                            *)
LEMMA Keeping ==
  ASSUME FilesInv, TypeInv, NEW r \in Requests, OnlyOf(r), r.kind # "main",
         \A q \in Requests : Conflict(q, r) => ~Works(q),
         DOMAIN found' = Requests, fs' = fs, Works(r)' => View(r)'
  PROVE  FilesInv'
<1>1. Area(r) \subseteq DOMAIN fs
  BY AreaIn DEF Area
<1>2. \A e \in Area(r) : IsDirectory(fs'[e])
  BY <1>1 DEF FilesInv, AllDirectories
<1> QED
  BY <1>2, Frame

(* The steps of r touch no other request.                                  *)
LEMMA Alone ==
  ASSUME FilesInv, TypeInv, IInv, NEW r \in Requests,
         \/ GetInputData(r) \/ PutResultData(r) \/ HandlerStep(r) \/ HandlerFails(r)
         \/ \E f \in Files : WorkerStep(r, f)
  PROVE  OnlyOf(r) /\ DOMAIN found' = Requests
<1>0. /\ DOMAIN pc = Requests /\ DOMAIN key = Requests /\ DOMAIN todo = Requests
      /\ DOMAIN worker = Requests /\ DOMAIN found = Requests
  BY DEF FilesInv, TypeInv, IInv, Types
<1>1. CASE GetInputData(r) \/ PutResultData(r)
  BY <1>0, <1>1 DEF GetInputData, PutResultData, Arrive, Goto, OnlyOf
<1>2. CASE \/ GetRaCert(r) \/ GetDataKeys(r) \/ GotDataKeys(r)
           \/ GetTlsAsset(r) \/ WriteTlsCert(r) \/ WriteTlsKey(r)
           \/ CreateResultDataKey(r) \/ ResultRegistered(r)
  BY <1>0, <1>2, Zenon DEF GetRaCert, GetDataKeys, GotDataKeys, GetTlsAsset, WriteTlsCert,
     WriteTlsKey, CreateResultDataKey, ResultRegistered, Send, At, Goto, OnlyOf
<1>3. CASE ClearTemp(r) \/ DownloadDone(r) \/ Walk(r) \/ Join(r) \/ Unwind(r)
  BY <1>0, <1>3 DEF ClearTemp, DownloadDone, Walk, Join, Unwind, At, Goto, OnlyOf
<1>4. CASE ListObjects(r)
  BY <1>0, <1>4 DEF ListObjects, At, Goto, OnlyOf
<1>5. CASE UploadToOss(r) \/ UploadDone(r) \/ Cleanup(r) \/ RegisterResult(r)
  BY <1>0, <1>5, Zenon DEF UploadToOss, UploadDone, Cleanup, RegisterResult, At, Goto, OnlyOf
<1>6. CASE HandlerFails(r)
  BY <1>0, <1>6, Zenon DEF HandlerFails, Goto, OnlyOf
<1>7. CASE Transfer(r)
  BY <1>0, <1>7 DEF Transfer, Download, CopyFile, Upload, OnlyOf
<1>8. CASE \E f \in Files : Spawn(r, f)
  BY <1>0, <1>8 DEF Spawn, OnlyOf
<1>9. CASE \E f \in Files : WorkerStep(r, f)
  BY <1>0, <1>9, Zenon DEF WorkerStep, OpenOutput, EncryptFile, DecryptFile, WorkerFails, OnlyOf
<1> QED
  BY <1>1, <1>2, <1>3, <1>4, <1>5, <1>6, <1>7, <1>8, <1>9 DEF HandlerStep

(* What is known of a request that works.                                  *)
LEMMA Known ==
  ASSUME FilesInv, TypeInv, IInv, NEW r \in Requests, Works(r)
  PROVE  /\ View(r) /\ r.kind \in {"get", "put"} /\ PlaceOK(r, pc[r])
         /\ \A q \in Requests : Conflict(q, r) => ~Works(q)
         /\ DOMAIN found = Requests
         /\ Area(r) \subseteq DOMAIN fs /\ \A d \in Area(r) : IsDirectory(fs[d])
         /\ key[r] \in Keys
         /\ worker[r] \in [Files -> {"none", "started", "open", "done", "failed"}]
         /\ DOMAIN worker = Requests
         /\ pc[r] \notin {"spawn", "unwind"} =>
              \A f \in Files : worker[r][f] \notin {"started", "open"}
<1>1. r.kind # "main" /\ r.kind \in {"get", "put"}
  BY SessionsAssumption DEF Works
<1>2. Area(r) \subseteq DOMAIN fs
  BY <1>1, AreaIn DEF Area
<1>3. \A d \in Area(r) : IsDirectory(fs[d])
  BY <1>2 DEF FilesInv, AllDirectories
<1>4. key[r] \in Keys
  BY DEF TypeInv
<1>5. /\ worker[r] \in [Files -> {"none", "started", "open", "done", "failed"}]
      /\ DOMAIN worker = Requests
  BY DEF IInv, Types
<1>6. pc[r] \notin {"spawn", "unwind"} =>
        \A f \in Files : worker[r][f] \notin {"started", "open"}
  BY DEF IInv, ThreadsAwaited, Running
<1>7. View(r) /\ DOMAIN found = Requests
      /\ \A q \in Requests : Conflict(q, r) => ~Works(q)
  BY DEF FilesInv, AllWork, View, Apart
<1>8. PlaceOK(r, pc[r])
  BY DEF TypeInv, RequestOK
<1> QED
  BY <1>1, <1>2, <1>3, <1>4, <1>5, <1>6, <1>7, <1>8

-----------------------------------------------------------------------------
(* Arrivals and calls.                                                     *)

(* A request is taken up while none that it conflicts with works.          *)
LEMMA FilesArrive ==
  ASSUME FilesInv, TypeInv, IInv, ~Overlap, NEW r \in Requests,
         GetInputData(r) \/ PutResultData(r)
  PROVE  FilesInv'
<1>1. /\ r.kind # "main" /\ fs' = fs
      /\ \A s \in Requests : Conflict(r, s) => ~Active(s)
      /\ found' = [found EXCEPT ![r] = Names(Temp(r.path))]
  BY DEF GetInputData, PutResultData, Arrive
<1>2. \A q \in Requests : Conflict(q, r) => ~Works(q)
  BY <1>1 DEF Conflict, Works
<1>3. OnlyOf(r) /\ DOMAIN found' = Requests
  BY Alone
<1>4. /\ DOMAIN pc = Requests /\ DOMAIN found = Requests
  BY DEF FilesInv, IInv, Types
<1>5. View(r)'
  <2>1. CASE GetInputData(r)
    <3>1. pc'[r] \in {"clear", "walk", "cert", "err"} /\ (pc'[r] = "walk" => ~r.s3)
      BY <1>4, <2>1 DEF GetInputData, Goto, AfterGetKey
    <3> QED
      BY <2>1, <3>1, Zenon DEF GetInputData, View, WorkInv, GetInv
  <2>2. CASE PutResultData(r)
    <3>1. pc'[r] = "walk" /\ found'[r] = Ns(fs[Temp(r.path)])
      BY <1>1, <1>4, <2>2, DirIs DEF PutResultData, Goto
    <3> QED
      BY <1>1, <2>2, <3>1, Zenon DEF PutResultData, View, WorkInv, PutInv
  <2> QED
    BY <2>1, <2>2
<1> QED
  BY <1>1, <1>2, <1>3, <1>5, Keeping

(* Steps of r that leave its loop, threads and files as they are.          *)
LEMMA SameFiles ==
  ASSUME FilesInv, TypeInv, IInv, NEW r \in Requests, Works(r), fs' = fs,
         OnlyOf(r), DOMAIN found' = Requests, found'[r] = found[r], worker'[r] = worker[r],
         NEW p, NEW k, NEW t, pc'[r] = p, key'[r] = k, todo'[r] = t,
         p \notin {"idle", "absent", "ok", "err"} =>
           WorkInv(r, p, k, t, worker[r], found[r],
                   fs[Temp(r.path)], fs[App(r.path)], fs[Store(r.store)])
  PROVE  FilesInv'
<1>1. r.kind # "main" /\ \A q \in Requests : Conflict(q, r) => ~Works(q)
  BY Known, Zenon DEF Works
<1>2. Works(r)' => View(r)'
  BY Zenon DEF Works, Active, Waiting, Answered, View
<1> QED
  BY <1>1, <1>2, Keeping

(* The calls of the Capsule Manager and what leads to them and to failure. *)
LEMMA FilesCalls ==
  ASSUME FilesInv, TypeInv, IInv, NEW r \in Requests, r.kind # "main",
         \/ GetRaCert(r) \/ GetDataKeys(r) \/ CreateResultDataKey(r) \/ GotDataKeys(r)
         \/ RegisterResult(r) \/ ResultRegistered(r) \/ HandlerFails(r) \/ Unwind(r)
  PROVE  FilesInv'
<1>1. OnlyOf(r) /\ DOMAIN found' = Requests
  BY Alone, Zenon DEF HandlerStep
<1>2. UNCHANGED <<todo, worker, fs, found>>
  BY DEF GetRaCert, GetDataKeys, CreateResultDataKey, Send, GotDataKeys,
     RegisterResult, ResultRegistered, HandlerFails, Unwind
<1>3. Works(r)
  BY DEF GetRaCert, GetDataKeys, CreateResultDataKey, Send, GotDataKeys,
     RegisterResult, ResultRegistered, HandlerFails, Unwind, At, Works, Active, Waiting,
     Answered
<1>4. DOMAIN pc = Requests
  BY Zenon DEF IInv, Types
<1>5. WorkInv(r, pc[r], key[r], todo[r], worker[r], found[r],
              fs[Temp(r.path)], fs[App(r.path)], fs[Store(r.store)])
  BY <1>3, Known, Zenon DEF View
<1>6. \/ pc'[r] \in {"unwind", "ok", "err"}
      \/ /\ r.kind = "get" /\ pc'[r] \in {"clear", "walk", "cert", "call", "sent"}
         /\ pc'[r] = "walk" => ~r.s3
      \/ /\ r.kind = "put" /\ key' = key
         /\ pc[r] \in {"register", "cert", "call"} /\ pc'[r] \in {"cert", "call", "sent"}
  <2>1. r.kind \in {"get", "put"}
    BY <1>3, Known
  <2>2. r.kind = "get" => pc[r] # "register"
    BY <1>3, Known, Zenon DEF PlaceOK, GetPlaces
  <2>3. CASE GetRaCert(r) \/ RegisterResult(r)
    BY <1>4, <2>1, <2>2, <2>3 DEF GetRaCert, RegisterResult, At, Goto
  <2>4. CASE GetDataKeys(r) \/ CreateResultDataKey(r)
    BY <1>4, <2>4 DEF GetDataKeys, CreateResultDataKey, Send, At, Goto
  <2>5. CASE GotDataKeys(r) \/ ResultRegistered(r)
    BY <1>4, <2>5, Zenon DEF GotDataKeys, ResultRegistered, At, Goto, AfterGetKey
  <2>6. CASE HandlerFails(r) \/ Unwind(r)
    BY <1>4, <2>6, Zenon DEF HandlerFails, Unwind, At, Goto
  <2> QED
    BY <2>3, <2>4, <2>5, <2>6
<1> DEFINE T == fs[Temp(r.path)]
           A == fs[App(r.path)]
           S == fs[Store(r.store)]
<1> HIDE DEF T, A, S
<1>7. pc'[r] \notin {"idle", "absent", "ok", "err"} =>
        WorkInv(r, pc'[r], key'[r], todo[r], worker[r], found[r], T, A, S)
  <2>1. CASE pc'[r] \in {"unwind", "ok", "err"}
    BY <2>1, Zenon DEF WorkInv, GetInv, PutInv
  <2>2. CASE r.kind = "get" /\ pc'[r] \in {"clear", "walk", "cert", "call", "sent"}
             /\ (pc'[r] = "walk" => ~r.s3)
    BY <2>2, Zenon DEF WorkInv, GetInv
  <2>3. CASE r.kind = "put" /\ key' = key
             /\ pc[r] \in {"register", "cert", "call"} /\ pc'[r] \in {"cert", "call", "sent"}
    <3>1. PutInv(r, pc[r], key[r], todo[r], worker[r], found[r], T, A, S)
      BY <1>5, <2>3, Zenon DEF WorkInv, T, A, S
    <3>2. PutInv(r, pc'[r], key[r], todo[r], worker[r], found[r], T, A, S)
      BY <2>3, <3>1, Zenon DEF PutInv
    <3> QED
      BY <2>3, <3>2, Zenon DEF WorkInv
  <2> QED
    BY <1>6, <2>1, <2>2, <2>3, Zenon
<1> QED
  BY <1>1, <1>2, <1>3, <1>7, SameFiles, Zenon DEF T, A, S

-----------------------------------------------------------------------------
(* The loops, of the directories.                                          *)

(* A page that is full or complete is all there is if that fits in one.    *)
LEMMA PageIsAll ==
  ASSUME NEW S, IsDirectory(S), OnePage(S), NEW t \in SUBSET Ns(S),
         Cardinality(t) = PageSize \/ t = Ns(S)
  PROVE  t = Ns(S)
<1>1. IsFiniteSet({"enc", "raw"})
  <2>1. IsFiniteSet({"raw"})
    BY FS_Singleton, Zenon
  <2>2. IsFiniteSet({"raw"} \cup {"enc"})
    BY <2>1, FS_AddElement
  <2>3. {"raw"} \cup {"enc"} = {"enc", "raw"}
    OBVIOUS
  <2> QED
    BY <2>2, <2>3
<1>2. IsFiniteSet(FileNames)
  BY <1>1, FS_Product, DirectoriesAssumption DEF FileNames
<1>3. Ns(S) \subseteq FileNames
  BY DEF IsDirectory, Ns
<1>4. IsFiniteSet(Ns(S))
  BY <1>2, <1>3, FS_Subset
<1>5. IsFiniteSet(t) /\ Cardinality(t) <= Cardinality(Ns(S))
      /\ (Cardinality(Ns(S)) = Cardinality(t) => Ns(S) = t)
  BY <1>4, FS_Subset
<1>6. Cardinality(t) \in Nat /\ Cardinality(Ns(S)) \in Nat
  BY <1>4, <1>5, FS_CardinalityType
<1> QED
  BY <1>5, <1>6 DEF OnePage

(* The moves of a get from one loop to the next.                           *)
LEMMA GetLoops ==
  ASSUME NEW r, NEW w, NEW T, NEW A, NEW S, NEW t
  PROVE  /\ /\ GetInv(r, "list", t, w, T, A, S) /\ IsDirectory(S)
            => \A page \in SUBSET Ns(S) :
                 Cardinality(page) = PageSize \/ page = Ns(S)
                 => GetInv(r, "download", page, w, T, A, S)
         /\ GetInv(r, "download", {}, w, T, A, S) => GetInv(r, "walk", {}, w, T, A, S)
         /\ /\ GetInv(r, "walk", t, w, T, A, S)
            /\ \A f \in Files : w[f] # "open"
            => GetInv(r, "spawn", Ns(IF r.s3 THEN T ELSE S), w, T, A, S)
<1>1. ASSUME GetInv(r, "list", t, w, T, A, S), IsDirectory(S), NEW page \in SUBSET Ns(S),
             Cardinality(page) = PageSize \/ page = Ns(S)
      PROVE  GetInv(r, "download", page, w, T, A, S)
  <2>1. Ns(T) = {}
    BY <1>1 DEF GetInv, Ns
  <2>2. OnePage(S) => page = Ns(S)
    BY <1>1, PageIsAll
  <2> QED
    BY <2>1, <2>2 DEF GetInv
<1>2. GetInv(r, "download", {}, w, T, A, S) => GetInv(r, "walk", {}, w, T, A, S)
  BY DEF GetInv, Fetched
<1>3. ASSUME GetInv(r, "walk", t, w, T, A, S), \A f \in Files : w[f] # "open"
      PROVE  GetInv(r, "spawn", Ns(IF r.s3 THEN T ELSE S), w, T, A, S)
  <2>1. \A X : Delivering(X, A, Ns(X), w)
    BY DEF Delivering
  <2>2. Opened(A, "raw", w)
    BY <1>3 DEF Opened
  <2> QED
    BY <1>3, <2>1, <2>2 DEF GetInv
<1> QED
  BY <1>1, <1>2, <1>3

(* The end of its threads: everything that was fetched is decrypted.       *)
LEMMA GetJoined ==
  ASSUME NEW r, NEW w, NEW T, NEW A, NEW S,
         GetInv(r, "spawn", {}, w, T, A, S), \A f \in Files : w[f] \notin Busy,
         IsDirectory(T), IsDirectory(S)
  PROVE  /\ r.s3 => GetInv(r, "cleanup", {}, w, T, A, S)
         /\ ~r.s3 => Delivered(S, A)
<1> DEFINE I == IF r.s3 THEN T ELSE S
<1>1. Delivering(I, A, {}, w) /\ IsDirectory(I)
  BY DEF GetInv
<1>2. r.s3 /\ OnePage(S) => Fetched(T, S)
  BY DEF GetInv
<1> HIDE DEF I
<1>3. Delivered(I, A)
  <2> SUFFICES ASSUME NEW n \in Ns(I), Twin(n) \notin Ns(I)
               PROVE  Holds(A, Raw(n), [data |-> I[n].data, key |-> Plain])
    BY DEF Delivered
  <2>1. n[1] \in Files
    BY <1>1, FileIs, NameIs, Zenon
  <2> QED
    BY <1>1, <2>1 DEF Delivering, Busy
<1>4. r.s3 /\ OnePage(S) => Delivered(S, A)
  <2> SUFFICES ASSUME r.s3, OnePage(S) PROVE Delivered(S, A)
    OBVIOUS
  <2>1. Delivered(T, A)
    BY <1>3 DEF I
  <2>2. Ns(T) = Ns(S) /\ \A n \in Ns(S) : T[n] = S[n]
    BY <1>2 DEF Fetched, Holds
  <2> QED
    BY <2>1, <2>2 DEF Delivered
<1>5. ~r.s3 => Delivered(S, A)
  BY <1>3 DEF I
<1> QED
  BY <1>4, <1>5 DEF GetInv

(* The moves of a put from one loop to the next.                           *)
LEMMA PutLoops ==
  ASSUME NEW r, NEW k, NEW w, NEW fd, NEW T, NEW A, NEW S, NEW t
  PROVE  /\ /\ PutInv(r, "walk", k, t, w, fd, T, A, S)
            /\ \A f \in Files : w[f] # "open"
            => PutInv(r, "spawn", k, Ns(A), w, fd, T, A, S)
         /\ PutInv(r, "upload", k, t, w, fd, T, A, S)
            => PutInv(r, "uploading", k, Ns(T), w, fd, T, A, S)
         /\ PutInv(r, "uploading", k, {}, w, fd, T, A, S)
            => PutInv(r, "cleanup", k, {}, w, fd, T, A, S)
<1>1. ASSUME PutInv(r, "walk", k, t, w, fd, T, A, S), \A f \in Files : w[f] # "open"
      PROVE  PutInv(r, "spawn", k, Ns(A), w, fd, T, A, S)
  <2>1. \A X : Sealing(A, k, X, Ns(A), w) /\ Opened(X, "enc", w)
    BY <1>1 DEF Sealing, Opened
  <2>2. r.s3 => Owning(T, fd, k, w)
    BY <1>1 DEF PutInv, Owning
  <2> QED
    BY <2>1, <2>2 DEF PutInv
<1>2. PutInv(r, "upload", k, t, w, fd, T, A, S)
        => PutInv(r, "uploading", k, Ns(T), w, fd, T, A, S)
  BY DEF PutInv
<1>3. ASSUME PutInv(r, "uploading", k, {}, w, fd, T, A, S)
      PROVE  PutInv(r, "cleanup", k, {}, w, fd, T, A, S)
  <2>1. Sealed(A, k, T) /\ \A n \in Ns(T) : Holds(S, n, T[n])
    BY <1>3 DEF PutInv
  <2>2. Sealed(A, k, S)
    BY <2>1 DEF Sealed, Holds
  <2> QED
    BY <2>2 DEF PutInv
<1> QED
  BY <1>1, <1>2, <1>3

(* The end of its threads: everything is encrypted.                        *)
LEMMA PutJoined ==
  ASSUME NEW r, NEW k, NEW w, NEW fd, NEW T, NEW A, NEW S,
         PutInv(r, "spawn", k, {}, w, fd, T, A, S), \A f \in Files : w[f] \notin Busy,
         IsDirectory(T), IsDirectory(A)
  PROVE  /\ r.s3 => PutInv(r, "upload", k, {}, w, fd, T, A, S)
         /\ ~r.s3 => PutInv(r, "register", k, {}, w, fd, T, A, S)
<1> DEFINE O == IF r.s3 THEN T ELSE S
<1>1. Sealing(A, k, O, {}, w) /\ (r.s3 => Owning(T, fd, k, w))
  BY DEF PutInv
<1> HIDE DEF O
<1>2. Sealed(A, k, O)
  <2> SUFFICES ASSUME NEW n \in Ns(A)
               PROVE  Holds(O, Enc(n), [data |-> A[n].data, key |-> k])
    BY DEF Sealed
  <2>1. n[1] \in Files
    BY FileIs, NameIs, Zenon
  <2> QED
    BY <1>1, <2>1, Zenon DEF Sealing, Busy
<1>3. r.s3 => Own(T, fd, k)
  <2> SUFFICES ASSUME r.s3, NEW n \in Ns(T) PROVE n \in fd \/ T[n].key = k
    BY DEF Own
  <2>1. n[1] \in Files
    BY FileIs, NameIs, Zenon
  <2> QED
    BY <1>1, <2>1 DEF Owning, Busy
<1>4. CASE r.s3
  BY <1>2, <1>3, <1>4, Zenon DEF PutInv, O
<1>5. CASE ~r.s3
  BY <1>2, <1>5, Zenon DEF PutInv, O
<1> QED
  BY <1>4, <1>5

-----------------------------------------------------------------------------
(* Loops and joins.                                                        *)

(* A handler goes on to its next loop.                                     *)
LEMMA FilesLoops ==
  ASSUME FilesInv, TypeInv, IInv, NEW r \in Requests,
         \/ ListObjects(r) \/ DownloadDone(r) \/ Walk(r) \/ Join(r)
         \/ UploadToOss(r) \/ UploadDone(r)
  PROVE  FilesInv'
<1>1. /\ UNCHANGED <<key, worker, fs, found>>
      /\ pc[r] \in {"list", "download", "walk", "spawn", "upload", "uploading"}
  BY Zenon DEF ListObjects, DownloadDone, Walk, Join, UploadToOss, UploadDone, At
<1>2. r.kind # "main"
  BY <1>1 DEF IInv, MainPlaces
<1>3. Works(r)
  BY <1>1, <1>2 DEF Works, Active, Waiting, Answered
<1>4. OnlyOf(r) /\ DOMAIN found' = Requests
  BY Alone DEF HandlerStep
<1> DEFINE T == fs[Temp(r.path)]
           A == fs[App(r.path)]
           S == fs[Store(r.store)]
           w == worker[r]
           fd == found[r]
           k == key[r]
<1>5. /\ IsDirectory(T) /\ IsDirectory(A) /\ IsDirectory(S)
      /\ WorkInv(r, pc[r], k, todo[r], w, fd, T, A, S)
      /\ r.kind \in {"get", "put"} /\ PlaceOK(r, pc[r])
      /\ pc[r] # "spawn" => \A f \in Files : w[f] # "open"
  BY <1>1, <1>3, Known, Zenon DEF View, Area
<1>6. DOMAIN pc = Requests /\ DOMAIN todo = Requests
  BY DEF IInv, Types, TypeInv
<1> SUFFICES WorkInv(r, pc'[r], k, todo'[r], w, fd, T, A, S) \/ pc'[r] \in {"ok", "err"}
  BY <1>1, <1>3, <1>4, SameFiles, Zenon
<1>7. /\ Names(Store(r.store)) = Ns(S) /\ Names(Temp(r.path)) = Ns(T)
      /\ Names(In(r)) = Ns(IF r.kind = "put" THEN A ELSE IF r.s3 THEN T ELSE S)
  BY DirIs, Zenon DEF In
<1>8. w = worker[r]
  OBVIOUS
<1> HIDE DEF T, A, S, w, fd, k
<1>9. CASE r.kind = "get"
  <2>1. GetInv(r, pc[r], todo[r], w, T, A, S)
    BY <1>5, <1>9, Zenon DEF WorkInv
  <2>2. pc[r] \notin {"upload", "uploading"}
    BY <1>5, <1>9, Zenon DEF PlaceOK, GetPlaces
  <2>3. CASE ListObjects(r)
    <3>1. PICK page \in SUBSET Ns(S) :
            /\ Cardinality(page) = PageSize \/ page = Ns(S)
            /\ todo' = [todo EXCEPT ![r] = page]
      BY <1>7, <2>3, Zenon DEF ListObjects
    <3>2. pc[r] = "list" /\ pc'[r] = "download" /\ todo'[r] = page
      BY <1>6, <2>3, <3>1, Zenon DEF ListObjects, At, Goto
    <3>3. GetInv(r, "download", page, w, T, A, S)
      BY <1>5, <2>1, <3>1, <3>2, GetLoops, Zenon
    <3> QED
      BY <1>9, <3>2, <3>3, Zenon DEF WorkInv
  <2>4. CASE DownloadDone(r)
    <3>1. pc[r] = "download" /\ pc'[r] = "walk" /\ todo[r] = {} /\ todo'[r] = {}
      BY <1>6, <2>4, Zenon DEF DownloadDone, At, Goto
    <3>2. GetInv(r, "walk", {}, w, T, A, S)
      BY <2>1, <3>1, GetLoops, Zenon
    <3> QED
      BY <1>9, <3>1, <3>2, Zenon DEF WorkInv
  <2>5. CASE Walk(r)
    <3>1. pc[r] = "walk" /\ pc'[r] = "spawn" /\ todo'[r] = Ns(IF r.s3 THEN T ELSE S)
      BY <1>6, <1>7, <1>9, <2>5 DEF Walk, At, Goto
    <3>2. GetInv(r, "spawn", Ns(IF r.s3 THEN T ELSE S), w, T, A, S)
      BY <1>5, <2>1, <3>1, GetLoops, Zenon
    <3> QED
      BY <1>9, <3>1, <3>2, Zenon DEF WorkInv
  <2>6. CASE Join(r)
    <3>1. pc[r] = "spawn" /\ todo[r] = {} /\ todo'[r] = {}
          /\ pc'[r] = IF Failed(r) = {} THEN AfterJoin(r) ELSE "err"
      BY <1>6, <2>6, Zenon DEF Join, At, Goto
    <3>2. CASE Failed(r) = {} /\ r.s3
      <4>1. \A f \in Files : w[f] \notin Busy
        BY <1>8, <2>6, <3>2, Zenon DEF Join, Running, Failed, Busy
      <4>2. GetInv(r, "cleanup", {}, w, T, A, S)
        BY <1>5, <2>1, <3>1, <3>2, <4>1, GetJoined, Zenon
      <4> QED
        BY <1>9, <3>1, <3>2, <4>2, Zenon DEF AfterJoin, WorkInv
    <3> QED
      BY <1>9, <3>1, <3>2, Zenon DEF AfterJoin
  <2> QED
    BY <2>2, <2>3, <2>4, <2>5, <2>6, Zenon DEF UploadToOss, UploadDone, At
<1>10. CASE r.kind = "put"
  <2>1. PutInv(r, pc[r], k, todo[r], w, fd, T, A, S)
    BY <1>5, <1>10, Zenon DEF WorkInv
  <2>2. pc[r] \notin {"list", "download"}
    BY <1>5, <1>10, Zenon DEF PlaceOK, PutPlaces
  <2>3. CASE Walk(r)
    <3>1. pc[r] = "walk" /\ pc'[r] = "spawn" /\ todo'[r] = Ns(A)
      BY <1>6, <1>7, <1>10, <2>3 DEF Walk, At, Goto
    <3>2. PutInv(r, "spawn", k, Ns(A), w, fd, T, A, S)
      BY <1>5, <2>1, <3>1, PutLoops, Zenon
    <3> QED
      BY <1>10, <3>1, <3>2, Zenon DEF WorkInv
  <2>4. CASE Join(r)
    <3>1. pc[r] = "spawn" /\ todo[r] = {} /\ todo'[r] = {}
          /\ pc'[r] = IF Failed(r) = {} THEN AfterJoin(r) ELSE "err"
      BY <1>6, <2>4, Zenon DEF Join, At, Goto
    <3>2. CASE Failed(r) = {}
      <4>1. \A f \in Files : w[f] \notin Busy
        BY <1>8, <2>4, <3>2, Zenon DEF Join, Running, Failed, Busy
      <4>2. /\ r.s3 => PutInv(r, "upload", k, {}, w, fd, T, A, S)
            /\ ~r.s3 => PutInv(r, "register", k, {}, w, fd, T, A, S)
        BY <1>5, <2>1, <3>1, <4>1, PutJoined, Zenon
      <4> QED
        BY <1>10, <3>1, <3>2, <4>2, Zenon DEF AfterJoin, WorkInv
    <3> QED
      BY <3>1, <3>2, Zenon
  <2>5. CASE UploadToOss(r)
    <3>1. pc[r] = "upload" /\ pc'[r] = "uploading" /\ todo'[r] = Ns(T)
      BY <1>6, <1>7, <2>5, Zenon DEF UploadToOss, At, Goto
    <3>2. PutInv(r, "uploading", k, Ns(T), w, fd, T, A, S)
      BY <2>1, <3>1, PutLoops, Zenon
    <3> QED
      BY <1>10, <3>1, <3>2, Zenon DEF WorkInv
  <2>6. CASE UploadDone(r)
    <3>1. pc[r] = "uploading" /\ pc'[r] = "cleanup" /\ todo[r] = {} /\ todo'[r] = {}
      BY <1>6, <2>6, Zenon DEF UploadDone, At, Goto
    <3>2. PutInv(r, "cleanup", k, {}, w, fd, T, A, S)
      BY <2>1, <3>1, PutLoops, Zenon
    <3> QED
      BY <1>10, <3>1, <3>2, Zenon DEF WorkInv
  <2> QED
    BY <2>2, <2>3, <2>4, <2>5, <2>6, Zenon DEF ListObjects, DownloadDone, At
<1> QED
  BY <1>5, <1>9, <1>10, Zenon

-----------------------------------------------------------------------------
(* Threads and transfers, of the directories.                              *)

(* Directory Y is X, or X with file n written.                             *)
Extends(X, Y, n) ==
  /\ Ns(X) \subseteq Ns(Y) /\ Ns(Y) \subseteq Ns(X) \cup {n}
  /\ \A m \in Ns(X) : m # n => Y[m] = X[m]

(* A directory that gets a file keeps the others.                          *)
LEMMA ExtendsIs ==
  ASSUME NEW X, NEW n
  PROVE  /\ Extends(X, X, n)
         /\ \A Y : Extends(X, Y, n) => Keeps(X, Y, n)
         /\ \A c \in Contents :
              IsDirectory(X) /\ n \in FileNames /\ (n[2] = "raw" => c.key = Plain)
              => /\ Extends(X, With(X, n, c), n) /\ IsDirectory(With(X, n, c))
                 /\ Holds(With(X, n, c), n, c)
<1>1. Extends(X, X, n) /\ \A Y : Extends(X, Y, n) => Keeps(X, Y, n)
  BY DEF Extends, Keeps, Holds
<1>2. ASSUME NEW c \in Contents, IsDirectory(X), n \in FileNames, n[2] = "raw" => c.key = Plain
      PROVE  /\ Extends(X, With(X, n, c), n) /\ IsDirectory(With(X, n, c))
             /\ Holds(With(X, n, c), n, c)
  <2>1. /\ IsDirectory(With(X, n, c)) /\ Ns(With(X, n, c)) = Ns(X) \cup {n}
        /\ With(X, n, c)[n] = c
        /\ \A m \in Ns(X) : m # n => With(X, n, c)[m] = X[m]
    BY <1>2, WithIs
  <2> QED
    BY <2>1 DEF Extends, Holds
<1> QED
  BY <1>1, <1>2

(* A thread of a put starts or steps.                                      *)
LEMMA PutThread ==
  ASSUME NEW r, NEW k, NEW t, NEW s, NEW w, NEW u, NEW fd, NEW T, NEW A, NEW S, NEW Y,
         NEW f \in Files, Stepped(w, u, f),
         PutInv(r, "spawn", k, t, w, fd, T, A, S), IsDirectory(A), IsDirectory(Y),
         Extends(IF r.s3 THEN T ELSE S, Y, <<f, "enc">>), Visited(t, s, <<f, "raw">>),
         PutStep(A, k, Y, u, f),
         u[f] = "open" => <<f, "enc">> \in Ns(Y)
  PROVE  PutInv(r, "spawn", k, s, u, fd, IF r.s3 THEN Y ELSE T, A, IF r.s3 THEN S ELSE Y)
<1> DEFINE O == IF r.s3 THEN T ELSE S
<1>1. /\ Sealing(A, k, O, t, w) /\ Opened(O, "enc", w) /\ (r.s3 => Owning(O, fd, k, w))
      /\ Extends(O, Y, <<f, "enc">>)
  BY Zenon DEF PutInv
<1> HIDE DEF O
<1>2. Keeps(O, Y, <<f, "enc">>)
  BY <1>1, ExtendsIs, Zenon
<1>3. Sealing(A, k, Y, s, u)
  BY <1>1, <1>2, SealGoesOn, Zenon
<1>4. Opened(Y, "enc", u)
  BY <1>1, Zenon DEF Extends, Opened, Stepped
<1>5. u[f] \in Busy \/ Y[<<f, "enc">>].key = k
  <2>1. \A x : [data |-> x, key |-> k].key = k
    OBVIOUS
  <2> QED
    BY <2>1, Zenon DEF Holds, PutStep
<1>6. r.s3 => Owning(Y, fd, k, u)
  BY <1>1, <1>5, OwnGoesOn, Zenon DEF Extends
<1> QED
  BY <1>3, <1>4, <1>6, Zenon DEF PutInv

(* A thread of a get starts or steps.                                      *)
LEMMA GetThread ==
  ASSUME NEW r, NEW t, NEW s, NEW w, NEW u, NEW T, NEW A, NEW S, NEW Y,
         NEW f \in Files, Stepped(w, u, f),
         GetInv(r, "spawn", t, w, T, A, S), IsDirectory(T), IsDirectory(S),
         Extends(A, Y, <<f, "raw">>), Visited(t, s, <<f, "enc">>),
         KeepsAll(A, Y) \/ <<f, "enc">> \in Ns(IF r.s3 THEN T ELSE S),
         GetStep(IF r.s3 THEN T ELSE S, Y, u, f),
         u[f] = "open" => <<f, "raw">> \in Ns(Y)
  PROVE  GetInv(r, "spawn", s, u, T, Y, S)
<1> DEFINE I == IF r.s3 THEN T ELSE S
<1>1. /\ Delivering(I, A, t, w) /\ Opened(A, "raw", w) /\ IsDirectory(I)
      /\ KeepsAll(A, Y) \/ <<f, "enc">> \in Ns(I)
      /\ GetStep(I, Y, u, f)
  BY Zenon DEF GetInv
<1> HIDE DEF I
<1>2. Keeps(A, Y, <<f, "raw">>)
  BY ExtendsIs, Zenon
<1>3. Delivering(I, Y, s, u)
  BY <1>1, <1>2, DeliverGoesOn, Zenon
<1>4. Opened(Y, "raw", u)
  BY <1>1, Zenon DEF Extends, Opened, Stepped
<1> QED
  BY <1>3, <1>4, Zenon DEF GetInv, I

(* A get downloads or copies a file, a put uploads one.                    *)
LEMMA Transfers ==
  ASSUME NEW r, NEW k, NEW t, NEW w, NEW fd, NEW T, NEW A, NEW S, NEW n \in t,
         IsDirectory(T), IsDirectory(A), IsDirectory(S), t \subseteq FileNames
  PROVE  /\ GetInv(r, "download", t, w, T, A, S) =>
              /\ S[n] \in Contents /\ (n[2] = "raw" => S[n].key = Plain)
              /\ GetInv(r, "download", t \ {n}, w, With(T, n, S[n]), A, S)
         /\ /\ GetInv(r, "spawn", t, w, T, A, S) /\ n[2] = "raw"
            /\ n \in Ns(IF r.s3 THEN T ELSE S)
            => GetInv(r, "spawn", t \ {n}, w, T,
                      With(A, n, (IF r.s3 THEN T ELSE S)[n]), S)
         /\ PutInv(r, "uploading", k, t, w, fd, T, A, S) /\ n \in Ns(T)
            => PutInv(r, "uploading", k, t \ {n}, w, fd, T, A, With(S, n, T[n]))
<1>0. n \in FileNames
  OBVIOUS
<1>1. ASSUME GetInv(r, "download", t, w, T, A, S)
      PROVE  /\ S[n] \in Contents /\ (n[2] = "raw" => S[n].key = Plain)
             /\ GetInv(r, "download", t \ {n}, w, With(T, n, S[n]), A, S)
  <2>1. n \in Ns(S) /\ Ns(T) \subseteq Ns(S) /\ t \subseteq Ns(S)
        /\ (OnePage(S) => \A m \in Ns(S) : m \in t \/ Holds(T, m, S[m]))
    BY <1>1, Zenon DEF GetInv
  <2>2. S[n] \in Contents /\ (n[2] = "raw" => S[n].key = Plain)
    BY <2>1, FileIs, Zenon
  <2>3. /\ Extends(T, With(T, n, S[n]), n) /\ Holds(With(T, n, S[n]), n, S[n])
        /\ Keeps(T, With(T, n, S[n]), n)
    BY <1>0, <2>2, ExtendsIs, Zenon
  <2>4. Ns(With(T, n, S[n])) \subseteq Ns(S)
    BY <2>1, <2>3, Zenon DEF Extends
  <2>5. OnePage(S) => \A m \in Ns(S) : m \in t \ {n} \/ Holds(With(T, n, S[n]), m, S[m])
    BY <2>1, <2>3 DEF Keeps
  <2>6. GetInv(r, "download", t \ {n}, w, With(T, n, S[n]), A, S)
    BY <2>1, <2>4, <2>5, Zenon DEF GetInv
  <2> QED
    BY <2>2, <2>6, Zenon
<1>2. ASSUME GetInv(r, "spawn", t, w, T, A, S), n[2] = "raw",
             n \in Ns(IF r.s3 THEN T ELSE S)
      PROVE  GetInv(r, "spawn", t \ {n}, w, T, With(A, n, (IF r.s3 THEN T ELSE S)[n]), S)
  <2> DEFINE I == IF r.s3 THEN T ELSE S
             Y == With(A, n, I[n])
  <2>1. /\ Delivering(I, A, t, w) /\ Opened(A, "raw", w) /\ IsDirectory(I) /\ n \in Ns(I)
    BY <1>2, Zenon DEF GetInv
  <2> HIDE DEF I
  <2>2. I[n] \in Contents /\ (n[2] = "raw" => I[n].key = Plain)
    BY <2>1, FileIs, Zenon
  <2>3. Extends(A, Y, n) /\ Holds(Y, n, I[n]) /\ Keeps(A, Y, n)
    BY <1>0, <2>2, ExtendsIs, Zenon
  <2> HIDE DEF Y
  <2>4. Delivering(I, Y, t \ {n}, w)
    BY <1>2, <2>1, <2>3, DeliverCopies, Zenon
  <2>5. Opened(Y, "raw", w)
    BY <2>1, <2>3, Zenon DEF Opened, Extends
  <2>6. GetInv(r, "spawn", t \ {n}, w, T, Y, S)
    BY <1>2, <2>4, <2>5, Zenon DEF GetInv, I
  <2> QED
    BY <2>6 DEF Y, I
<1>3. ASSUME PutInv(r, "uploading", k, t, w, fd, T, A, S), n \in Ns(T)
      PROVE  PutInv(r, "uploading", k, t \ {n}, w, fd, T, A, With(S, n, T[n]))
  <2>1. T[n] \in Contents /\ (n[2] = "raw" => T[n].key = Plain)
    BY <1>3, FileIs, Zenon
  <2>2. Holds(With(S, n, T[n]), n, T[n]) /\ Keeps(S, With(S, n, T[n]), n)
    BY <1>0, <2>1, ExtendsIs, Zenon
  <2>3. \A m \in Ns(T) : m \in t \/ Holds(S, m, T[m])
    BY <1>3 DEF PutInv
  <2>4. \A m \in Ns(T) : m \in t \ {n} \/ Holds(With(S, n, T[n]), m, T[m])
    BY <2>2, <2>3 DEF Keeps
  <2> QED
    BY <1>3, <2>4, Zenon DEF PutInv
<1> QED
  BY <1>1, <1>2, <1>3, Zenon

-----------------------------------------------------------------------------
(* Removals and transfers.                                                 *)

(* The view of r after a change of one of its directories.                 *)
LEMMA ViewAfter ==
  ASSUME NEW r, NEW d \in Area(r), NEW x, Area(r) \subseteq DOMAIN fs,
         fs' = [fs EXCEPT ![d] = x]
  PROVE  /\ fs'[Temp(r.path)] = IF d = Temp(r.path) THEN x ELSE fs[Temp(r.path)]
         /\ fs'[App(r.path)] = IF d = App(r.path) THEN x ELSE fs[App(r.path)]
         /\ fs'[Store(r.store)] = IF d = Store(r.store) THEN x ELSE fs[Store(r.store)]
         /\ Temp(r.path) # App(r.path) /\ Temp(r.path) # Store(r.store)
         /\ App(r.path) # Store(r.store)
<1>1. /\ Temp(r.path) # App(r.path) /\ Temp(r.path) # Store(r.store)
      /\ App(r.path) # Store(r.store)
  BY DEF Temp, App, Store
<1> QED
  BY <1>1 DEF Area

(* The temporary directory is removed.                                     *)
LEMMA FilesRemove ==
  ASSUME FilesInv, TypeInv, IInv, NEW r \in Requests, ClearTemp(r) \/ Cleanup(r)
  PROVE  FilesInv'
<1>1. /\ UNCHANGED <<key, todo, worker, found>> /\ pc[r] \in {"clear", "cleanup"}
      /\ fs' = [fs EXCEPT ![Temp(r.path)] = NoDir]
  BY DEF ClearTemp, Cleanup, At
<1>2. Works(r)
  BY <1>1, Zenon DEF IInv, MainPlaces, Works, Active, Waiting, Answered
<1>3. OnlyOf(r) /\ DOMAIN found' = Requests
  BY Alone DEF HandlerStep
<1>4. /\ IsDirectory(NoDir) /\ Temp(r.path) \in Area(r)
  BY DEF IsDirectory, Area
<1> DEFINE A == fs[App(r.path)]
           S == fs[Store(r.store)]
           w == worker[r]
           fd == found[r]
           k == key[r]
           t == todo[r]
<1>5. /\ WorkInv(r, pc[r], k, t, w, fd, fs[Temp(r.path)], A, S)
      /\ r.kind \in {"get", "put"} /\ PlaceOK(r, pc[r]) /\ Area(r) \subseteq DOMAIN fs
  BY <1>2, Known, Zenon DEF View
<1>6. fs'[Temp(r.path)] = NoDir /\ fs'[App(r.path)] = A /\ fs'[Store(r.store)] = S
  BY <1>1, <1>4, <1>5, ViewAfter, Zenon
<1>7. DOMAIN pc = Requests
  BY Zenon DEF IInv, Types
<1>8. ASSUME pc'[r] # "ok" PROVE WorkInv(r, pc'[r], k, t, w, fd, NoDir, A, S)
  <2> HIDE DEF A, S, w, fd, k, t
  <2>1. CASE r.kind = "get"
    <3>1. pc'[r] = "list"
      BY <1>7, <1>8, <2>1, Zenon DEF ClearTemp, Cleanup, AfterCleanup, At, Goto
    <3> QED
      BY <2>1, <3>1, Zenon DEF WorkInv, GetInv
  <2>2. CASE r.kind = "put"
    <3>1. pc[r] = "cleanup"
      BY <1>1, <1>5, <2>2, Zenon DEF PlaceOK, PutPlaces
    <3>2. pc'[r] = "register"
      BY <1>7, <2>2, <3>1, Zenon DEF ClearTemp, Cleanup, AfterCleanup, At, Goto
    <3> QED
      BY <1>5, <2>2, <3>1, <3>2, Zenon DEF WorkInv, PutInv
  <2> QED
    BY <1>5, <2>1, <2>2, Zenon
<1>9. Works(r)' => View(r)'
  BY <1>1, <1>6, <1>8, Zenon DEF Works, Active, Answered, View
<1> QED
  BY <1>1, <1>2, <1>3, <1>4, <1>9, Changes, Zenon

(* A file is downloaded, copied or uploaded.                               *)
LEMMA FilesTransfer ==
  ASSUME FilesInv, TypeInv, IInv, NEW r \in Requests, Transfer(r)
  PROVE  FilesInv'
<1>1. PICK n \in todo[r] : Download(r, n) \/ CopyFile(r, n) \/ Upload(r, n)
  BY Zenon DEF Transfer
<1>2. /\ UNCHANGED <<pc, key, worker, found>> /\ todo' = [todo EXCEPT ![r] = @ \ {n}]
      /\ pc[r] \in {"download", "spawn", "uploading"}
  BY <1>1, Zenon DEF Download, CopyFile, Upload
<1>3. Works(r)
  BY <1>2, Zenon DEF IInv, MainPlaces, Works, Active, Waiting, Answered
<1>4. OnlyOf(r) /\ DOMAIN found' = Requests
  BY Alone, Zenon DEF HandlerStep
<1> DEFINE T == fs[Temp(r.path)]
           A == fs[App(r.path)]
           S == fs[Store(r.store)]
           w == worker[r]
           fd == found[r]
           k == key[r]
           t == todo[r]
<1>5. /\ WorkInv(r, pc[r], k, t, w, fd, T, A, S)
      /\ r.kind \in {"get", "put"} /\ PlaceOK(r, pc[r]) /\ Area(r) \subseteq DOMAIN fs
      /\ IsDirectory(T) /\ IsDirectory(A) /\ IsDirectory(S)
  BY <1>3, Known, Zenon DEF View, Area
<1>6. t \subseteq FileNames /\ DOMAIN todo = Requests /\ n \in FileNames
  BY DEF TypeInv
<1>7. todo'[r] = t \ {n}
  BY <1>2, <1>6
<1>8. /\ Temp(r.path) \in Area(r) /\ App(r.path) \in Area(r) /\ Store(r.store) \in Area(r)
  BY Zenon DEF Area
<1>9. ASSUME NEW d \in Area(r), NEW c \in Contents, n[2] = "raw" => c.key = Plain,
             fs' = Write(d, n, c),
             WorkInv(r, pc[r], k, t \ {n}, w, fd,
                     IF d = Temp(r.path) THEN With(T, n, c) ELSE T,
                     IF d = App(r.path) THEN With(A, n, c) ELSE A,
                     IF d = Store(r.store) THEN With(S, n, c) ELSE S)
      PROVE  FilesInv'
  <2>1. fs' = [fs EXCEPT ![d] = With(fs[d], n, c)]
    BY <1>9, WriteIs, Zenon
  <2>2. IsDirectory(With(fs[d], n, c))
    BY <1>5, <1>6, <1>9, WithIs, Zenon DEF Area
  <2>3. View(r)'
    <3>1. /\ fs'[Temp(r.path)] = IF d = Temp(r.path) THEN With(T, n, c) ELSE T
          /\ fs'[App(r.path)] = IF d = App(r.path) THEN With(A, n, c) ELSE A
          /\ fs'[Store(r.store)] = IF d = Store(r.store) THEN With(S, n, c) ELSE S
      BY <1>5, <1>9, <2>1, ViewAfter, Zenon
    <3> QED
      BY <1>2, <1>7, <1>9, <3>1, Zenon DEF View
  <2> QED
    BY <1>3, <1>4, <2>1, <2>2, <2>3, Changes, Zenon
<1>10. Temp(r.path) # App(r.path) /\ Temp(r.path) # Store(r.store)
       /\ App(r.path) # Store(r.store)
  BY DEF Temp, App, Store
<1>11. CASE Download(r, n)
  <2>1. pc[r] = "download" /\ fs' = Write(Temp(r.path), n, S[n])
    BY <1>11, Zenon DEF Download
  <2>2. r.kind = "get"
    BY <1>5, <2>1, Zenon DEF PlaceOK, PutPlaces
  <2>3. GetInv(r, "download", t, w, T, A, S)
    BY <1>5, <2>1, <2>2, Zenon DEF WorkInv
  <2>4. /\ S[n] \in Contents /\ (n[2] = "raw" => S[n].key = Plain)
        /\ GetInv(r, "download", t \ {n}, w, With(T, n, S[n]), A, S)
    BY <1>5, <1>6, <2>3, Transfers, Zenon
  <2>5. WorkInv(r, pc[r], k, t \ {n}, w, fd, With(T, n, S[n]), A, S)
    BY <2>1, <2>2, <2>4, Zenon DEF WorkInv
  <2> QED
    BY <1>8, <1>9, <1>10, <2>1, <2>4, <2>5, Zenon
<1>12. CASE CopyFile(r, n)
  <2> DEFINE I == IF r.s3 THEN T ELSE S
  <2>1. /\ pc[r] = "spawn" /\ r.kind = "get" /\ n[2] = "raw" /\ n \in Ns(I)
        /\ fs' = Write(App(r.path), n, I[n])
    BY <1>12, DirIs, Zenon DEF CopyFile, In, Out
  <2>2. GetInv(r, "spawn", t, w, T, A, S) /\ IsDirectory(I)
    BY <1>5, <2>1, Zenon DEF WorkInv
  <2>3. I[n] \in Contents /\ (n[2] = "raw" => I[n].key = Plain)
    BY <2>1, <2>2, FileIs, Zenon
  <2>4. GetInv(r, "spawn", t \ {n}, w, T, With(A, n, I[n]), S)
    BY <1>5, <1>6, <2>1, <2>2, Transfers, Zenon
  <2>5. WorkInv(r, pc[r], k, t \ {n}, w, fd, T, With(A, n, I[n]), S)
    BY <2>1, <2>4, Zenon DEF WorkInv
  <2> QED
    BY <1>8, <1>9, <1>10, <2>1, <2>3, <2>5, Zenon
<1>13. CASE Upload(r, n)
  <2>1. pc[r] = "uploading" /\ fs' = Write(Store(r.store), n, T[n]) /\ n \in Ns(T)
    BY <1>13, DirIs, Zenon DEF Upload
  <2>2. r.kind = "put"
    BY <1>5, <2>1, Zenon DEF PlaceOK, GetPlaces
  <2>3. PutInv(r, "uploading", k, t, w, fd, T, A, S)
    BY <1>5, <2>1, <2>2, Zenon DEF WorkInv
  <2>4. T[n] \in Contents /\ (n[2] = "raw" => T[n].key = Plain)
    BY <1>5, <2>1, FileIs, Zenon
  <2>5. PutInv(r, "uploading", k, t \ {n}, w, fd, T, A, With(S, n, T[n]))
    BY <1>5, <1>6, <2>1, <2>3, Transfers, Zenon
  <2>6. WorkInv(r, pc[r], k, t \ {n}, w, fd, T, A, With(S, n, T[n]))
    BY <2>1, <2>2, <2>5, Zenon DEF WorkInv
  <2> QED
    BY <1>8, <1>9, <1>10, <2>1, <2>4, <2>6, Zenon
<1> QED
  BY <1>1, <1>11, <1>12, <1>13, Zenon

-----------------------------------------------------------------------------
(* Threads.                                                                *)

(* A thread starts, opens its output, fills it or fails.                   *)
LEMMA FilesThreads ==
  ASSUME FilesInv, TypeInv, IInv, NEW r \in Requests, NEW f \in Files,
         Spawn(r, f) \/ WorkerStep(r, f)
  PROVE  FilesInv'
<1>1. /\ UNCHANGED <<pc, key, found>>
      /\ pc[r] \in {"spawn", "unwind"}
  <2>1. CASE Spawn(r, f)
    BY <2>1 DEF Spawn
  <2>2. CASE WorkerStep(r, f)
    <3>1. worker[r][f] \in {"started", "open"} /\ UNCHANGED <<pc, key, found>>
      BY <2>2, Zenon DEF WorkerStep, OpenOutput, EncryptFile, DecryptFile, WorkerFails, Running
    <3> QED
      BY <3>1 DEF IInv, ThreadsAwaited, Running
  <2> QED
    BY <2>1, <2>2
<1>2. Works(r)
  BY <1>1, Zenon DEF IInv, MainPlaces, Works, Active, Waiting, Answered
<1>3. OnlyOf(r) /\ DOMAIN found' = Requests
  BY Alone, Zenon DEF HandlerStep
<1> DEFINE T == fs[Temp(r.path)]
           A == fs[App(r.path)]
           S == fs[Store(r.store)]
           w == worker[r]
           u == worker'[r]
           fd == found[r]
           k == key[r]
           t == todo[r]
           s == todo'[r]
           I == fs[In(r)]
           O == fs[Out(r)]
           i == InName(r, f)
           o == OutName(r, f)
<1>4. /\ WorkInv(r, pc[r], k, t, w, fd, T, A, S)
      /\ r.kind \in {"get", "put"} /\ Area(r) \subseteq DOMAIN fs
      /\ IsDirectory(T) /\ IsDirectory(A) /\ IsDirectory(S)
      /\ \A q \in Requests : Conflict(q, r) => ~Works(q)
      /\ \A d \in Area(r) : IsDirectory(fs[d])
      /\ k \in Keys /\ DOMAIN worker = Requests /\ DOMAIN w = Files
  BY <1>2, Known, Zenon DEF View, Area
<1>5. /\ Out(r) \in Area(r) /\ In(r) \in Area(r) /\ IsDirectory(O) /\ IsDirectory(I)
  BY <1>4, Zenon DEF In, Out, Area
<1>6. /\ i \in FileNames /\ o \in FileNames /\ Names(In(r)) = Ns(I) /\ Names(Out(r)) = Ns(O)
      /\ r.kind = "get" => /\ i = <<f, "enc">> /\ o = <<f, "raw">>
                           /\ O = A /\ I = IF r.s3 THEN T ELSE S
      /\ r.kind = "put" => /\ i = <<f, "raw">> /\ o = <<f, "enc">>
                           /\ I = A /\ O = IF r.s3 THEN T ELSE S
  BY <1>4, DirIs, Zenon DEF FileNames, InName, OutName, In, Out
<1>7. ASSUME NEW Y, IsDirectory(Y), Extends(O, Y, o), fs'[Out(r)] = Y,
             DOMAIN fs' = DOMAIN fs, \A e \in DOMAIN fs : e # Out(r) => fs'[e] = fs[e],
             Stepped(w, u, f), Visited(t, s, i), u[f] = "open" => o \in Ns(Y),
             pc[r] = "spawn" /\ r.kind = "put" => PutStep(I, k, Y, u, f),
             pc[r] = "spawn" /\ r.kind = "get" => /\ GetStep(I, Y, u, f)
                                                  /\ KeepsAll(O, Y) \/ i \in Ns(I)
      PROVE  FilesInv'
  <2>1. \A e \in Area(r) : IsDirectory(fs'[e])
    BY <1>4, <1>7, Zenon
  <2>2. Temp(r.path) # App(r.path) /\ Temp(r.path) # Store(r.store)
        /\ App(r.path) # Store(r.store)
    BY DEF Temp, App, Store
  <2>3. r.kind = "get" =>
          fs'[Temp(r.path)] = T /\ fs'[App(r.path)] = Y /\ fs'[Store(r.store)] = S
    BY <1>4, <1>7, <2>2, Zenon DEF Out, Area
  <2>4. r.kind = "put" =>
          /\ fs'[App(r.path)] = A
          /\ fs'[Temp(r.path)] = IF r.s3 THEN Y ELSE T
          /\ fs'[Store(r.store)] = IF r.s3 THEN S ELSE Y
    BY <1>4, <1>7, <2>2, Zenon DEF Out, Area
  <2>5. /\ pc'[r] = pc[r] /\ key'[r] = k /\ found'[r] = fd /\ todo'[r] = s /\ worker'[r] = u
    BY <1>1
  <2> HIDE DEF T, A, S, w, u, fd, k, t, s, I, O, i, o
  <2>6. CASE pc[r] = "unwind"
    <3>1. \A X, Z, V : WorkInv(r, "unwind", k, s, u, fd, X, Z, V)
      BY Zenon DEF WorkInv, GetInv, PutInv
    <3>2. View(r)'
      BY <2>5, <2>6, <3>1, Zenon DEF View
    <3> QED
      BY <1>2, <1>3, <1>4, <1>5, <1>7, <2>1, <3>2, Frame, Zenon DEF Works
  <2>7. CASE pc[r] = "spawn" /\ r.kind = "get"
    <3>1. GetInv(r, "spawn", s, u, T, Y, S)
      <4>1. GetInv(r, "spawn", t, w, T, A, S)
        BY <1>4, <2>7, Zenon DEF WorkInv
      <4>2. /\ Extends(A, Y, <<f, "raw">>) /\ Visited(t, s, <<f, "enc">>)
            /\ GetStep(IF r.s3 THEN T ELSE S, Y, u, f)
            /\ KeepsAll(A, Y) \/ <<f, "enc">> \in Ns(IF r.s3 THEN T ELSE S)
            /\ u[f] = "open" => <<f, "raw">> \in Ns(Y)
        BY <1>6, <1>7, <2>7, Zenon
      <4> QED
        BY <1>4, <1>7, <4>1, <4>2, GetThread, Zenon
    <3>2. View(r)'
      BY <2>3, <2>5, <2>7, <3>1, Zenon DEF View, WorkInv
    <3> QED
      BY <1>2, <1>3, <1>4, <1>5, <1>7, <2>1, <3>2, Frame, Zenon DEF Works
  <2>8. CASE pc[r] = "spawn" /\ r.kind = "put"
    <3>1. PutInv(r, "spawn", k, s, u, fd, IF r.s3 THEN Y ELSE T, A, IF r.s3 THEN S ELSE Y)
      <4>1. PutInv(r, "spawn", k, t, w, fd, T, A, S)
        BY <1>4, <2>8, Zenon DEF WorkInv
      <4>2. /\ Extends(IF r.s3 THEN T ELSE S, Y, <<f, "enc">>) /\ Visited(t, s, <<f, "raw">>)
            /\ PutStep(A, k, Y, u, f) /\ (u[f] = "open" => <<f, "enc">> \in Ns(Y))
        BY <1>6, <1>7, <2>8, Zenon
      <4> QED
        BY <1>4, <1>7, <4>1, <4>2, PutThread, Zenon
    <3>2. View(r)'
      BY <2>4, <2>5, <2>8, <3>1, Zenon DEF View, WorkInv
    <3> QED
      BY <1>2, <1>3, <1>4, <1>5, <1>7, <2>1, <3>2, Frame, Zenon DEF Works
  <2> QED
    BY <1>1, <1>4, <2>6, <2>7, <2>8, Zenon
<1>8. \A v : worker' = [worker EXCEPT ![r][f] = v] => u[f] = v /\ Stepped(w, u, f)
  BY <1>4, Zenon DEF Stepped
<1>9. ASSUME NEW c \in Contents, o[2] = "raw" => c.key = Plain, fs' = Write(Out(r), o, c)
      PROVE  /\ IsDirectory(With(O, o, c)) /\ Extends(O, With(O, o, c), o)
             /\ Holds(With(O, o, c), o, c) /\ fs'[Out(r)] = With(O, o, c)
             /\ DOMAIN fs' = DOMAIN fs /\ \A e \in DOMAIN fs : e # Out(r) => fs'[e] = fs[e]
  <2>1. fs' = [fs EXCEPT ![Out(r)] = With(O, o, c)] /\ Out(r) \in DOMAIN fs
    BY <1>4, <1>5, <1>9, WriteIs, Zenon
  <2>2. /\ IsDirectory(With(O, o, c)) /\ Extends(O, With(O, o, c), o)
        /\ Holds(With(O, o, c), o, c)
    BY <1>5, <1>6, <1>9, ExtendsIs, Zenon
  <2> QED
    BY <2>1, <2>2, Zenon
<1>10. \A n : Visited(t, t, n)
  BY Zenon DEF Visited
<1>11. o[2] = "raw" <=> r.kind = "get"
  BY DEF OutName
<1>12. CASE Spawn(r, f)
  <2>1. /\ fs' = [fs EXCEPT ![Out(r)] = Dir(Out(r))] /\ Out(r) \in DOMAIN fs
        /\ worker' = [worker EXCEPT ![r][f] = "started"]
        /\ todo' = [todo EXCEPT ![r] = @ \ {i}]
    BY <1>4, <1>5, <1>12, Zenon DEF Spawn
  <2> DEFINE Y == Dir(Out(r))
  <2>2. fs'[Out(r)] = Y /\ DOMAIN fs' = DOMAIN fs /\ \A e \in DOMAIN fs : e # Out(r) => fs'[e] = fs[e]
    BY <2>1, Zenon
  <2>3. /\ IsDirectory(Y) /\ Ns(Y) = Ns(O) /\ (\A n, v : Holds(O, n, v) => Holds(Y, n, v))
        /\ \A n \in Ns(Y) : Y[n] = O[n]
    BY <1>5, MadeIs, Zenon
  <2>4. Extends(O, Y, o) /\ KeepsAll(O, Y)
    BY <2>3, Zenon DEF Extends, KeepsAll
  <2>5. Visited(t, s, i)
    <3>1. DOMAIN todo = Requests
      BY DEF TypeInv
    <3> QED
      BY <2>1, <3>1 DEF Visited
  <2>6. u[f] = "started" /\ Stepped(w, u, f)
    BY <1>8, <2>1, Zenon
  <2>7. PutStep(I, k, Y, u, f) /\ GetStep(I, Y, u, f)
    BY <2>6, Zenon DEF PutStep, GetStep, Busy
  <2> HIDE DEF T, A, S, w, u, fd, k, t, s, I, O, i, o, Y
  <2> QED
    BY <1>7, <2>2, <2>3, <2>4, <2>5, <2>6, <2>7, Zenon
<1>13. CASE OpenOutput(r, f)
  <2>1. /\ fs' = Write(Out(r), o, Partial) /\ i \in Ns(I) /\ todo' = todo
        /\ worker' = [worker EXCEPT ![r][f] = "open"]
    BY <1>6, <1>13, Zenon DEF OpenOutput
  <2>2. Partial \in Contents /\ Partial.key = Plain
    BY Zenon DEF Partial, Contents
  <2> DEFINE Y == With(O, o, Partial)
  <2>3. /\ IsDirectory(Y) /\ Extends(O, Y, o) /\ Holds(Y, o, Partial)
        /\ fs'[Out(r)] = Y /\ DOMAIN fs' = DOMAIN fs /\ \A e \in DOMAIN fs : e # Out(r) => fs'[e] = fs[e]
    BY <1>9, <2>1, <2>2, Zenon
  <2>4. u[f] = "open" /\ Stepped(w, u, f) /\ s = t
    BY <1>8, <2>1, Zenon
  <2>5. PutStep(I, k, Y, u, f) /\ GetStep(I, Y, u, f)
    BY <2>4, Zenon DEF PutStep, GetStep, Busy
  <2>6. o \in Ns(Y)
    BY <2>3, Zenon DEF Holds
  <2> HIDE DEF T, A, S, w, u, fd, k, t, s, I, O, i, o, Y
  <2> QED
    BY <1>7, <1>10, <2>1, <2>3, <2>4, <2>5, <2>6, Zenon
<1>14. CASE EncryptFile(r, f) \/ DecryptFile(r, f)
  <2> DEFINE x == IF r.kind = "put" THEN k ELSE Plain
             c == [I[i] EXCEPT !.key = x]
  <2>1. /\ fs' = Fill(Out(r), o, c) /\ i \in Ns(I) /\ todo' = todo
        /\ worker' = [worker EXCEPT ![r][f] = "done"] /\ w[f] = "open"
    BY <1>6, <1>14, Zenon DEF EncryptFile, DecryptFile
  <2>2. /\ c \in Contents /\ c = [data |-> I[i].data, key |-> x]
        /\ o[2] = "raw" => c.key = Plain
    <3>1. I[i] \in Contents
      BY <1>5, <2>1, FileIs, Zenon
    <3>2. x \in Keys \cup {Plain}
      BY <1>4, Zenon
    <3> HIDE DEF x, I, i, o
    <3>3. c \in Contents /\ c = [data |-> I[i].data, key |-> x]
      BY <3>1, <3>2 DEF Contents
    <3>4. c.key = x
      BY <3>3
    <3> QED
      BY <1>11, <3>3, <3>4 DEF x
  <2> HIDE DEF c
  <2>3. u[f] = "done" /\ Stepped(w, u, f) /\ s = t
    BY <1>8, <2>1, Zenon
  <2>4. pc[r] = "spawn" => o \in Ns(O)
    <3>1. CASE r.kind = "get"
      BY <1>4, <1>6, <2>1, <3>1, Zenon DEF WorkInv, GetInv, Opened
    <3>2. CASE r.kind = "put"
      BY <1>4, <1>6, <2>1, <3>2, Zenon DEF WorkInv, PutInv, Opened
    <3> QED
      BY <1>4, <3>1, <3>2, Zenon
  <2>5. CASE o \in Ns(O)
    <3> DEFINE Y == With(O, o, c)
    <3>1. fs' = Write(Out(r), o, c)
      BY <1>6, <2>1, <2>5, Zenon DEF Fill
    <3>2. /\ IsDirectory(Y) /\ Extends(O, Y, o) /\ Holds(Y, o, c)
          /\ fs'[Out(r)] = Y /\ DOMAIN fs' = DOMAIN fs /\ \A e \in DOMAIN fs : e # Out(r) => fs'[e] = fs[e]
      BY <1>9, <2>2, <3>1, Zenon
    <3>3. /\ r.kind = "put" => PutStep(I, k, Y, u, f)
          /\ r.kind = "get" => GetStep(I, Y, u, f)
      BY <1>6, <2>2, <3>2, Zenon DEF PutStep, GetStep
    <3> HIDE DEF T, A, S, w, u, fd, k, t, s, I, O, i, o, Y
    <3> QED
      BY <1>7, <1>10, <2>1, <2>3, <3>2, <3>3, Zenon
  <2>6. CASE o \notin Ns(O)
    <3>1. fs' = fs
      BY <1>6, <2>1, <2>6, Zenon DEF Fill
    <3>2. Extends(O, O, o)
      BY ExtendsIs
    <3> HIDE DEF T, A, S, w, u, fd, k, t, s, i, o
    <3> QED
      BY <1>5, <1>7, <1>10, <2>3, <2>4, <2>6, <3>1, <3>2, Zenon
  <2> QED
    BY <2>5, <2>6
<1>15. CASE WorkerFails(r, f)
  <2>1. fs' = fs /\ todo' = todo /\ worker' = [worker EXCEPT ![r][f] = "failed"]
    BY <1>15 DEF WorkerFails
  <2>2. u[f] = "failed" /\ Stepped(w, u, f) /\ s = t
    BY <1>8, <2>1, Zenon
  <2>3. Extends(O, O, o) /\ KeepsAll(O, O)
    BY ExtendsIs, Zenon DEF KeepsAll
  <2>4. PutStep(I, k, O, u, f) /\ GetStep(I, O, u, f)
    BY <2>2, Zenon DEF PutStep, GetStep, Busy
  <2>5. fs'[Out(r)] = O /\ DOMAIN fs' = DOMAIN fs /\ \A e \in DOMAIN fs : e # Out(r) => fs'[e] = fs[e]
    BY <2>1
  <2> HIDE DEF T, A, S, w, u, fd, k, t, s, I, O, i, o
  <2> QED
    BY <1>5, <1>7, <1>10, <2>2, <2>3, <2>4, <2>5, Zenon
<1> QED
  BY <1>12, <1>13, <1>14, <1>15 DEF WorkerStep

-----------------------------------------------------------------------------
(* The invariant.                                                          *)

(* No request works at the start.                                          *)
LEMMA FilesInit == Init => FilesInv
<1> SUFFICES ASSUME Init PROVE FilesInv
  OBVIOUS
<1>1. \A r \in Requests : ~Works(r)
  BY Zenon DEF Init, Works, Active, Waiting
<1>2. AllDirectories
  BY DirectoriesAssumption, Zenon DEF Init, AllDirectories
<1> QED
  BY <1>1, <1>2, Zenon DEF FilesInv, Apart, AllWork, Init

(* What happens to requests that do not work, to main and to the Capsule   *)
(* Manager does not touch the files.                                       *)
LEMMA FilesOutside ==
  ASSUME FilesInv, fs' = fs, DOMAIN found' = Requests,
         \A q \in Requests : Works(q)' =>
           /\ Works(q) /\ pc'[q] = pc[q] /\ key'[q] = key[q] /\ todo'[q] = todo[q]
           /\ worker'[q] = worker[q] /\ found'[q] = found[q]
  PROVE  FilesInv'
<1>1. Apart'
  BY Zenon DEF FilesInv, Apart, Conflict
<1>2. AllDirectories'
  BY DEF FilesInv, AllDirectories
<1>3. ASSUME NEW q \in Requests, Works(q)' PROVE View(q)'
  <2>1. View(q)
    BY <1>3, Zenon DEF FilesInv, AllWork, View
  <2> QED
    BY <1>3, <2>1, Zenon DEF View
<1> QED
  BY <1>1, <1>2, <1>3, Zenon DEF FilesInv, AllWork, View

(* Faults, the Capsule Manager and main touch no file; a kill ends every   *)
(* request that works.                                                     *)
LEMMA FilesOthers ==
  ASSUME FilesInv, TypeInv, IInv,
         \/ ProxyKilled \/ ManagerRestarts \/ AssetRotates \/ UNCHANGED vars
         \/ \E r \in Requests :
              \/ ManagerAccepts(r) \/ ManagerRefuses(r) \/ Main(r)
              \/ r.kind = "main" /\ (HandlerStep(r) \/ HandlerFails(r))
  PROVE  FilesInv'
<1>0. DOMAIN pc = Requests /\ DOMAIN found = Requests
  BY Zenon DEF FilesInv, IInv, Types
<1>1. CASE ProxyKilled
  <2>1. fs' = fs /\ found' = found
    BY <1>1, Zenon DEF ProxyKilled
  <2>2. \A q \in Requests : ~Works(q)'
    BY <1>1, Zenon DEF ProxyKilled, Works, Active, Waiting, Answered
  <2> QED
    BY <1>0, <2>1, <2>2, FilesOutside, Zenon
<1>2. CASE \/ ManagerRestarts \/ AssetRotates \/ UNCHANGED vars
           \/ \E r \in Requests : ManagerAccepts(r) \/ ManagerRefuses(r)
  <2>1. UNCHANGED <<pc, key, todo, worker, fs, found>>
    BY <1>2, Zenon DEF ManagerRestarts, AssetRotates, ManagerAccepts, ManagerRefuses, vars
  <2>2. \A q \in Requests : Works(q)' => Works(q)
    BY <2>1, Zenon DEF Works, Active, Waiting, Answered
  <2> QED
    BY <1>0, <2>1, <2>2, FilesOutside, Zenon
<1>3. ASSUME NEW r \in Requests, r.kind = "main", Main(r) \/ HandlerStep(r) \/ HandlerFails(r)
      PROVE  FilesInv'
  <2>1. pc[r] \in {"absent", "idle", "cert", "call", "sent", "tlskey", "ok", "err"}
    BY <1>3, Zenon DEF IInv, MainPlaces
  <2>2. UNCHANGED <<key, todo, worker, fs, found>> /\ \E p : pc' = [pc EXCEPT ![r] = p]
    <3>1. CASE Main(r)
      BY <3>1, Zenon DEF Main, At, Goto
    <3>2. CASE HandlerFails(r)
      BY <3>2, Zenon DEF HandlerFails, Goto
    <3>3. CASE \/ GetRaCert(r) \/ GetDataKeys(r) \/ GetTlsAsset(r) \/ CreateResultDataKey(r)
               \/ WriteTlsCert(r) \/ WriteTlsKey(r)
      BY <3>3, Zenon DEF GetRaCert, GetDataKeys, GetTlsAsset, CreateResultDataKey, Send,
         WriteTlsCert, WriteTlsKey, At, Goto
    <3>4. ~(GotDataKeys(r) \/ ResultRegistered(r))
      BY <1>3, Zenon DEF GotDataKeys, ResultRegistered
    <3>5. ~(\/ ClearTemp(r) \/ ListObjects(r) \/ DownloadDone(r) \/ Walk(r) \/ Join(r)
            \/ Unwind(r))
      BY <2>1, Zenon DEF ClearTemp, ListObjects, DownloadDone, Walk, Join, Unwind, At
    <3>6. ~(\/ UploadToOss(r) \/ UploadDone(r) \/ Cleanup(r) \/ RegisterResult(r)
            \/ Transfer(r) \/ \E f \in Files : Spawn(r, f))
      BY <2>1, Zenon DEF UploadToOss, UploadDone, Cleanup, RegisterResult, Transfer, Download,
         CopyFile, Upload, Spawn, At
    <3> QED
      BY <1>3, <3>1, <3>2, <3>3, <3>4, <3>5, <3>6, Zenon DEF HandlerStep
  <2>3. \A q \in Requests : Works(q)' => Works(q) /\ pc'[q] = pc[q]
    BY <1>0, <1>3, <2>2, Zenon DEF Works, Active, Waiting, Answered
  <2> QED
    BY <1>0, <2>2, <2>3, FilesOutside, Zenon
<1> QED
  BY <1>1, <1>2, <1>3, Zenon DEF Main

(* The application writes where no request works.                          *)
LEMMA FilesApplication ==
  ASSUME FilesInv, TypeInv, IInv, NEW r \in Requests, ApplicationWrites(r)
  PROVE  FilesInv'
<1>1. /\ UNCHANGED <<pc, key, todo, worker, found>>
      /\ \A q \in Requests : q.path = r.path => ~Active(q)
  BY Zenon DEF ApplicationWrites
<1>2. PICK d \in Results : fs' = [fs EXCEPT ![App(r.path)] = d]
  BY Zenon DEF ApplicationWrites
<1>3. IsDirectory(d)
  BY DirectoriesAssumption
<1>4. AllDirectories'
  BY <1>2, <1>3 DEF FilesInv, AllDirectories
<1>5. \A q \in Requests : Works(q)' <=> Works(q)
  BY <1>1, Zenon DEF Works, Active, Waiting, Answered
<1>6. Apart' /\ DOMAIN found' = Requests
  BY <1>1, <1>5 DEF FilesInv, Apart, Conflict
<1>7. ASSUME NEW q \in Requests, Works(q)' PROVE View(q)'
  <2>1. Works(q) /\ q.path # r.path
    BY <1>1, <1>5, <1>7 DEF Works
  <2>2. /\ Temp(q.path) # App(r.path) /\ App(q.path) # App(r.path)
        /\ Store(q.store) # App(r.path)
    BY <2>1 DEF Temp, App, Store
  <2>3. {Temp(q.path), App(q.path), Store(q.store)} \subseteq DOMAIN fs
    BY <2>1, AreaIn DEF Works
  <2>4. /\ fs'[Temp(q.path)] = fs[Temp(q.path)] /\ fs'[App(q.path)] = fs[App(q.path)]
        /\ fs'[Store(q.store)] = fs[Store(q.store)]
    BY <1>2, <2>2, <2>3
  <2>5. View(q)
    BY <2>1, Zenon DEF FilesInv, AllWork, View
  <2> QED
    BY <1>1, <2>4, <2>5, Zenon DEF View
<1> QED
  BY <1>4, <1>6, <1>7, Zenon DEF FilesInv, AllWork, View

(* Every step keeps the invariant of requests that do not overlap.         *)
LEMMA FilesStep == ~Overlap /\ FilesInv /\ TypeInv /\ IInv /\ [Next]_vars => FilesInv'
<1> SUFFICES ASSUME ~Overlap, FilesInv, TypeInv, IInv, [Next]_vars PROVE FilesInv'
  OBVIOUS
<1>1. CASE \/ ProxyKilled \/ ManagerRestarts \/ AssetRotates \/ UNCHANGED vars
           \/ \E r \in Requests : ManagerAccepts(r) \/ ManagerRefuses(r) \/ Main(r)
  BY <1>1, FilesOthers
<1>2. CASE \E r \in Requests : GetInputData(r) \/ PutResultData(r)
  BY <1>2, FilesArrive
<1>3. ASSUME NEW r \in Requests, HandlerStep(r) \/ HandlerFails(r) PROVE FilesInv'
  <2>1. CASE r.kind = "main"
    BY <1>3, <2>1, FilesOthers
  <2>2. CASE r.kind # "main"
    <3>1. ~(GetTlsAsset(r) \/ WriteTlsCert(r) \/ WriteTlsKey(r))
      BY <2>2 DEF GetTlsAsset, WriteTlsCert, WriteTlsKey, At, IInv, MainPlaces
    <3> QED
      BY <1>3, <2>2, <3>1, FilesCalls, FilesLoops, FilesRemove, FilesTransfer,
         FilesThreads, Zenon DEF HandlerStep
  <2> QED
    BY <2>1, <2>2
<1>4. CASE \E r \in Requests : \E f \in Files : WorkerStep(r, f)
  BY <1>4, FilesThreads
<1>5. CASE \E r \in Requests : ApplicationWrites(r)
  BY <1>5, FilesApplication
<1> QED
  BY <1>1, <1>2, <1>3, <1>4, <1>5 DEF Next

(* Requests that do not overlap keep their work apart.                     *)
THEOREM FilesInvariant == ~Overlap => (Spec => [](FilesInv /\ TypeInv /\ IInv))
<1> SUFFICES ASSUME ~Overlap PROVE Spec => [](FilesInv /\ TypeInv /\ IInv)
  OBVIOUS
<1>1. Init => FilesInv /\ TypeInv /\ IInv
  BY FilesInit, TypeInit, InvInit
<1>2. FilesInv /\ TypeInv /\ IInv /\ [Next]_vars => (FilesInv /\ TypeInv /\ IInv)'
  BY FilesStep, TypeStep, InvStep
<1> QED
  BY <1>1, <1>2, PTL DEF Spec

-----------------------------------------------------------------------------
(* What succeeds.                                                          *)

(* A step of a handler or thread of q changes files of q alone.            *)
LEMMA OwnArea ==
  ASSUME FilesInv, TypeInv, IInv, NEW q \in Requests,
         \/ GetInputData(q) \/ PutResultData(q) \/ HandlerStep(q) \/ HandlerFails(q)
         \/ \E f \in Files : WorkerStep(q, f)
  PROVE  fs' = fs \/ (Works(q) /\ \A d \in DOMAIN fs : d \notin Area(q) => fs'[d] = fs[d])
<1>0. ASSUME Works(q), NEW d \in Area(q), NEW x, fs' = [fs EXCEPT ![d] = x]
      PROVE  \A e \in DOMAIN fs : e \notin Area(q) => fs'[e] = fs[e]
  BY <1>0
<1>1. ASSUME Works(q), NEW d \in Area(q), NEW n, NEW c, fs' = Write(d, n, c)
      PROVE  \A e \in DOMAIN fs : e \notin Area(q) => fs'[e] = fs[e]
  BY <1>1 DEF Write
<1>2. In(q) \in Area(q) /\ Out(q) \in Area(q)
  BY DEF In, Out, Area
<1>3. pc[q] \in {"clear", "cleanup", "download", "spawn", "uploading", "unwind"} => Works(q)
  BY Zenon DEF IInv, MainPlaces, Works, Active, Waiting, Answered
<1>4. CASE ClearTemp(q) \/ Cleanup(q)
  BY <1>0, <1>3, <1>4, Zenon DEF ClearTemp, Cleanup, At, Area
<1>5. CASE Transfer(q)
  BY <1>1, <1>2, <1>3, <1>5, Zenon DEF Transfer, Download, CopyFile, Upload, Area
<1>6. CASE \E f \in Files : Spawn(q, f)
  BY <1>2, <1>3, <1>6 DEF Spawn
<1>7. CASE \E f \in Files : WorkerStep(q, f)
  <2>1. PICK f \in Files : WorkerStep(q, f)
    BY <1>7
  <2>2. worker[q][f] \in {"started", "open"}
    BY <2>1, Zenon DEF WorkerStep, OpenOutput, EncryptFile, DecryptFile, WorkerFails, Running
  <2>3. Works(q)
    BY <1>3, <2>2 DEF IInv, ThreadsAwaited, Running
  <2>4. fs' = fs \/ \E n, c : fs' = Write(Out(q), n, c)
    <3>1. \A n, c : Fill(Out(q), n, c) = fs \/ Fill(Out(q), n, c) = Write(Out(q), n, c)
      BY Zenon DEF Fill
    <3>2. CASE OpenOutput(q, f)
      BY <3>2, Zenon DEF OpenOutput
    <3>3. CASE EncryptFile(q, f)
      BY <3>1, <3>3, Zenon DEF EncryptFile
    <3>4. CASE DecryptFile(q, f)
      BY <3>1, <3>4, Zenon DEF DecryptFile
    <3>5. CASE WorkerFails(q, f)
      BY <3>5, Zenon DEF WorkerFails
    <3> QED
      BY <2>1, <3>2, <3>3, <3>4, <3>5, Zenon DEF WorkerStep
  <2> QED
    BY <1>1, <1>2, <2>3, <2>4, Zenon
<1>8. CASE GetInputData(q) \/ PutResultData(q) \/ HandlerFails(q)
  BY <1>8, Zenon DEF GetInputData, PutResultData, HandlerFails
<1>9. CASE \/ GetRaCert(q) \/ GetDataKeys(q) \/ GotDataKeys(q)
           \/ GetTlsAsset(q) \/ WriteTlsCert(q) \/ WriteTlsKey(q)
           \/ CreateResultDataKey(q) \/ ResultRegistered(q)
  BY <1>9, Zenon DEF GetRaCert, GetDataKeys, GotDataKeys, GetTlsAsset, WriteTlsCert,
     WriteTlsKey, CreateResultDataKey, ResultRegistered, Send
<1>10. CASE \/ ListObjects(q) \/ DownloadDone(q) \/ Walk(q) \/ Join(q) \/ Unwind(q)
            \/ UploadToOss(q) \/ UploadDone(q) \/ RegisterResult(q)
  BY <1>10, Zenon DEF ListObjects, DownloadDone, Walk, Join, Unwind, UploadToOss, UploadDone,
     RegisterResult
<1> QED
  BY <1>4, <1>5, <1>6, <1>7, <1>8, <1>9, <1>10, Zenon DEF HandlerStep

(* The steps with which a request succeeds.                                *)
LEMMA SucceedsBy ==
  ASSUME FilesInv, TypeInv, IInv, [Next]_vars, NEW r \in Requests, r.kind # "main",
         Succeeds(r)
  PROVE  /\ Works(r)
         /\ \/ Join(r) /\ r.kind = "get" /\ ~r.s3 /\ Failed(r) = {}
            \/ Cleanup(r) /\ r.kind = "get"
            \/ RegisterResult(r) /\ r.kind = "put" /\ r.uri = NoUri
            \/ ResultRegistered(r)
<1>0. DOMAIN pc = Requests /\ pc[r] # "ok" /\ pc'[r] = "ok"
  BY Zenon DEF IInv, Types, Succeeds
<1>1. PICK q \in Requests :
        \/ GetInputData(q) \/ PutResultData(q) \/ Main(q) \/ HandlerStep(q) \/ HandlerFails(q)
        \/ \E f \in Files : WorkerStep(q, f)
  <2>1. ~ProxyKilled
    BY <1>0, Zenon DEF ProxyKilled, Active, Answered
  <2>2. pc' # pc
    BY <1>0
  <2>3. ~(UNCHANGED vars \/ ManagerRestarts \/ AssetRotates)
    BY <2>2 DEF vars, ManagerRestarts, AssetRotates
  <2>4. \A q \in Requests : ~(ManagerAccepts(q) \/ ManagerRefuses(q) \/ ApplicationWrites(q))
    BY <2>2 DEF ManagerAccepts, ManagerRefuses, ApplicationWrites
  <2> QED
    BY <2>1, <2>3, <2>4 DEF Next
<1>2. q = r
  <2>1. Main(q) => q.kind = "main" /\ \A s \in Requests : s # q => pc'[s] = pc[s]
    BY <1>0 DEF Main, At, Goto
  <2> QED
    BY <1>0, <1>1, <2>1, Alone, Zenon DEF OnlyOf
<1>3. r.kind \in {"get", "put"}
  BY SessionsAssumption, Zenon
<1>4. ~(GetInputData(r) \/ PutResultData(r) \/ Main(r) \/ HandlerFails(r))
  BY <1>0, <1>3, Zenon DEF GetInputData, PutResultData, Main, HandlerFails, Goto, AfterGetKey
<1>5. ~(\/ Transfer(r) \/ (\E f \in Files : Spawn(r, f))
        \/ \E f \in Files : WorkerStep(r, f))
  BY <1>0, Zenon DEF Transfer, Download, CopyFile, Upload, Spawn, WorkerStep, OpenOutput,
     EncryptFile, DecryptFile, WorkerFails
<1>6. ~(\/ GetRaCert(r) \/ GetDataKeys(r) \/ GotDataKeys(r)
        \/ GetTlsAsset(r) \/ WriteTlsCert(r) \/ WriteTlsKey(r)
        \/ CreateResultDataKey(r))
  BY <1>0 DEF GetRaCert, GetDataKeys, GotDataKeys, GetTlsAsset, WriteTlsCert, WriteTlsKey,
     CreateResultDataKey, Send, At, Goto, AfterGetKey, IInv, MainPlaces
<1>7. ~(\/ ClearTemp(r) \/ ListObjects(r) \/ DownloadDone(r) \/ Walk(r) \/ Unwind(r)
        \/ UploadToOss(r) \/ UploadDone(r))
  BY <1>0, Zenon DEF ClearTemp, ListObjects, DownloadDone, Walk, Unwind, UploadToOss, UploadDone,
     At, Goto
<1>8. Join(r) \/ Cleanup(r) \/ RegisterResult(r) \/ ResultRegistered(r)
  BY <1>1, <1>2, <1>4, <1>5, <1>6, <1>7, Zenon DEF HandlerStep
<1>9. Works(r)
  BY <1>8, Zenon DEF Join, Cleanup, RegisterResult, ResultRegistered, At, Works, Active,
     Waiting, Answered
<1>10. RegisterResult(r) => r.kind = "put"
  BY <1>3, <1>9, Known, Zenon DEF RegisterResult, At, PlaceOK, GetPlaces
<1>11. /\ Join(r) => r.kind = "get" /\ ~r.s3 /\ Failed(r) = {}
       /\ Cleanup(r) => r.kind = "get"
       /\ RegisterResult(r) => r.uri = NoUri
  BY <1>0, <1>3, Zenon DEF Join, Cleanup, RegisterResult, AfterJoin, AfterCleanup, At, Goto
<1> QED
  BY <1>8, <1>9, <1>10, <1>11

(* Without overlap, no request that succeeds through OSS leaves its        *)
(* temporary directory: the threads are joined and the directory removed   *)
(* before the answer, whatever failed before in other requests.            *)
THEOREM TempIsRemoved == ~Overlap => (Spec => TempRemoved)
<1> SUFFICES ASSUME ~Overlap PROVE Spec => TempRemoved
  OBVIOUS
<1>1. ASSUME FilesInv, TypeInv, IInv, [Next]_vars, NEW r \in Requests, Succeeds(r),
             r.kind # "main", r.s3
      PROVE  fs'[Temp(r.path)] = NoDir
  <2>1. /\ Works(r)
        /\ \/ Cleanup(r)
           \/ RegisterResult(r) /\ r.kind = "put"
           \/ ResultRegistered(r)
    BY <1>1, SucceedsBy
  <2>2. View(r) /\ Temp(r.path) \in DOMAIN fs
    BY <1>1, <2>1, Known, Zenon DEF Area
  <2>3. CASE Cleanup(r)
    BY <2>2, <2>3 DEF Cleanup
  <2>4. CASE (RegisterResult(r) /\ r.kind = "put") \/ ResultRegistered(r)
    <3>1. r.kind = "put" /\ pc[r] \in {"register", "sent"} /\ fs' = fs
      BY <2>4, Zenon DEF RegisterResult, ResultRegistered, At
    <3> QED
      BY <1>1, <2>2, <3>1, Zenon DEF View, WorkInv, PutInv
  <2> QED
    BY <2>1, <2>3, <2>4
<1>2. FilesInv /\ TypeInv /\ IInv /\ [Next]_vars =>
        [\A r \in Requests :
           Succeeds(r) /\ r.kind # "main" /\ r.s3 => fs'[Temp(r.path)] = NoDir]_vars
  BY <1>1
<1>3. Spec => [](FilesInv /\ TypeInv /\ IInv)
  BY FilesInvariant
<1> QED
  BY <1>2, <1>3, PTL DEF Spec, TempRemoved

-----------------------------------------------------------------------------
(* Data keys.                                                              *)

(* Stored, of the directories.                                             *)
LEMMA StoredIs ==
  ASSUME NEW r, Sealed(fs[App(r.path)], key[r], fs[Store(r.store)])
  PROVE  Stored(r)
BY DirIs, Zenon DEF Stored, Sealed, Holds, Enc

(* Who changes a key that the Capsule Manager holds: a registration that   *)
(* is still under way.                                                     *)
LEMMA RegisteredBy ==
  ASSUME TypeInv, IInv, [Next]_vars, NEW u \in Uris, cm'[u] # cm[u]
  PROVE  \E s \in Requests : /\ s.kind = "put" /\ ManagerAccepts(s) /\ s.uri = u
                             /\ cm'[u] = key[s] /\ client[s].sent # Nothing
                             /\ pc[s] \in {"sent", "err"}
<1>1. PICK s \in Requests : ManagerAccepts(s)
  <2>1. cm' # cm
    OBVIOUS
  <2>2. ~(UNCHANGED vars \/ ProxyKilled \/ ManagerRestarts \/ AssetRotates)
    BY <2>1 DEF vars, ProxyKilled, ManagerRestarts, AssetRotates
  <2>3. \A q \in Requests :
          /\ ~(ManagerRefuses(q) \/ Main(q) \/ GetInputData(q) \/ PutResultData(q))
          /\ ~(HandlerFails(q) \/ ApplicationWrites(q))
    BY <2>1, Zenon DEF ManagerRefuses, Main, GetInputData, PutResultData, HandlerFails,
       ApplicationWrites
  <2>4. \A q \in Requests : \A f \in Files : ~WorkerStep(q, f) /\ ~Spawn(q, f)
    BY <2>1 DEF WorkerStep, OpenOutput, EncryptFile, DecryptFile, WorkerFails, Spawn
  <2>5. \A q \in Requests :
          /\ ~(GetRaCert(q) \/ GetDataKeys(q) \/ GotDataKeys(q) \/ GetTlsAsset(q))
          /\ ~(WriteTlsCert(q) \/ WriteTlsKey(q))
          /\ ~(CreateResultDataKey(q) \/ ResultRegistered(q))
    BY <2>1 DEF GetRaCert, GetDataKeys, GotDataKeys, GetTlsAsset, WriteTlsCert,
       WriteTlsKey, CreateResultDataKey, ResultRegistered, Send
  <2>6. \A q \in Requests :
          /\ ~(ClearTemp(q) \/ ListObjects(q) \/ DownloadDone(q) \/ Walk(q) \/ Join(q))
          /\ ~(Unwind(q) \/ UploadToOss(q) \/ UploadDone(q) \/ Cleanup(q))
          /\ ~(RegisterResult(q) \/ Transfer(q))
    BY <2>1, Zenon DEF ClearTemp, ListObjects, DownloadDone, Walk, Join, Unwind, UploadToOss,
       UploadDone, Cleanup, RegisterResult, Transfer, Download, CopyFile, Upload
  <2> QED
    BY <2>2, <2>3, <2>4, <2>5, <2>6, Zenon DEF Next, HandlerStep
<1>2. /\ s.kind = "put" /\ client[s].sent # Nothing
      /\ cm' = [cm EXCEPT ![s.uri] = client[s].sent.plain.payload.body.data_key]
  BY <1>1, Zenon DEF ManagerAccepts
<1>3. ClientOK(s, pc[s], key[s], client[s])
  BY DEF TypeInv, RequestOK
<1>4. client[s].sent.plain.payload.body.data_key = key[s] /\ pc[s] \in {"sent", "err"}
  BY <1>2, <1>3, Zenon DEF ClientOK
<1>5. DOMAIN cm = Uris
  BY DEF TypeInv
<1> QED
  BY <1>1, <1>2, <1>4, <1>5, Zenon

(* What a put sends for the first time is its registration.                *)
LEMMA SentBy ==
  ASSUME FilesInv, TypeInv, IInv, [Next]_vars, NEW r \in Requests, r.kind = "put",
         client'[r].sent # Nothing, client[r].sent = Nothing
  PROVE  CreateResultDataKey(r)
<1>0. DOMAIN client = Requests /\ \A q \in Requests : DOMAIN client[q] = {"cert", "sent", "answer"}
  BY DEF IInv, Types
<1>1. client'[r] # client[r] /\ client' # client
  OBVIOUS
<1>2. ~(UNCHANGED vars \/ ProxyKilled \/ ManagerRestarts \/ AssetRotates)
  <2>1. ~(UNCHANGED vars \/ AssetRotates)
    BY <1>1 DEF vars, AssetRotates
  <2>2. ~ManagerRestarts
    BY <1>0 DEF ManagerRestarts
  <2>3. ProxyKilled => client'[r] = Abandoned(r)
    BY Zenon DEF ProxyKilled
  <2>4. Abandoned(r).sent = client[r].sent
    BY DEF Abandoned, NoClient
  <2> QED
    BY <2>1, <2>2, <2>3, <2>4
<1>3. ASSUME NEW q \in Requests PROVE ~(ManagerAccepts(q) \/ ManagerRefuses(q))
  <2>1. ASSUME NEW a, Reply(q, a) PROVE FALSE
    BY <1>0, <2>1 DEF Reply
  <2> QED
    BY <2>1 DEF ManagerAccepts, ManagerRefuses
<1>4. ASSUME NEW q \in Requests
      PROVE  ~(\/ Main(q) \/ GetInputData(q) \/ PutResultData(q) \/ ApplicationWrites(q)
               \/ \E f \in Files : WorkerStep(q, f) \/ Spawn(q, f))
  BY <1>1, Zenon DEF Main, GetInputData, PutResultData, ApplicationWrites, WorkerStep,
     OpenOutput, EncryptFile, DecryptFile, WorkerFails, Spawn, net
<1>5. ASSUME NEW q \in Requests
      PROVE  /\ ~(ClearTemp(q) \/ ListObjects(q) \/ DownloadDone(q) \/ Walk(q) \/ Join(q))
             /\ ~(Unwind(q) \/ UploadToOss(q) \/ UploadDone(q) \/ Cleanup(q))
             /\ ~(RegisterResult(q) \/ Transfer(q) \/ WriteTlsCert(q))
  BY <1>1 DEF ClearTemp, ListObjects, DownloadDone, Walk, Join, Unwind, UploadToOss,
     UploadDone, Cleanup, RegisterResult, Transfer, Download, CopyFile, Upload,
     WriteTlsCert, net
<1>6. ASSUME NEW q \in Requests
      PROVE  ~(GotDataKeys(q) \/ ResultRegistered(q) \/ WriteTlsKey(q) \/ HandlerFails(q)
               \/ GetRaCert(q))
  <2>1. ~(GotDataKeys(q) \/ ResultRegistered(q) \/ WriteTlsKey(q))
    BY <1>0 DEF GotDataKeys, ResultRegistered, WriteTlsKey, NoClient
  <2>2. ~HandlerFails(q)
    BY <1>0 DEF HandlerFails, Abandoned, NoClient
  <2>3. ~GetRaCert(q)
    BY <1>0 DEF GetRaCert
  <2> QED
    BY <2>1, <2>2, <2>3
<1>7. PICK q \in Requests : GetDataKeys(q) \/ GetTlsAsset(q) \/ CreateResultDataKey(q)
  BY <1>2, <1>3, <1>4, <1>5, <1>6, Zenon DEF Next, HandlerStep
<1>8. q = r
  BY <1>0, <1>1, <1>7 DEF GetDataKeys, GetTlsAsset, CreateResultDataKey, Send
<1> QED
  BY <1>7, <1>8, Zenon DEF GetDataKeys, GetTlsAsset

(* Without overlap, a data key leaves the proxy only once every file of    *)
(* the result is in the store under it, and the Capsule Manager takes no   *)
(* other key.                                                              *)
THEOREM KeyFollowsData == ~Overlap => (Spec => KeyAfterData)
<1> SUFFICES ASSUME ~Overlap PROVE Spec => KeyAfterData
  OBVIOUS
<1>1. ASSUME FilesInv, TypeInv, IInv, [Next]_vars, NEW r \in Requests, r.kind = "put",
             client'[r].sent # Nothing, client[r].sent = Nothing
      PROVE  Stored(r)
  <2>1. CreateResultDataKey(r)
    BY <1>1, SentBy
  <2>2. pc[r] = "call" /\ Works(r)
    BY <2>1 DEF CreateResultDataKey, Send, At, Works, Active, Waiting, Answered
  <2>3. View(r)
    BY <1>1, <2>2, Known, Zenon
  <2> QED
    BY <1>1, <2>2, <2>3, StoredIs, Zenon DEF View, WorkInv, PutInv
<1>2. ASSUME FilesInv, TypeInv, IInv, [Next]_vars, NEW r \in Requests, r.kind = "put",
             r.uri # NoUri, cm'[r.uri] # cm[r.uri]
      PROVE  \E s \in Requests : /\ s.uri = r.uri /\ cm'[r.uri] = key[s]
                                 /\ client[s].sent # Nothing
  <2>1. r.uri \in Uris
    BY <1>2 DEF Uris
  <2> QED
    BY <1>2, <2>1, RegisteredBy
<1>3. FilesInv /\ TypeInv /\ IInv /\ [Next]_vars =>
        [\A r \in Requests : r.kind = "put" =>
           /\ client'[r].sent # Nothing /\ client[r].sent = Nothing => Stored(r)
           /\ r.uri # NoUri /\ cm'[r.uri] # cm[r.uri] =>
                \E s \in Requests : /\ s.uri = r.uri /\ cm'[r.uri] = key[s]
                                    /\ client[s].sent # Nothing]_vars
  BY <1>1, <1>2
<1>4. Spec => [](FilesInv /\ TypeInv /\ IInv)
  BY FilesInvariant
<1> QED
  BY <1>3, <1>4, PTL DEF Spec, KeyAfterData

-----------------------------------------------------------------------------
(* Uploads.                                                                *)

(* A step while r uploads either leaves the store of r alone or is an      *)
(* upload of r.                                                            *)
LEMMA WhileUploading ==
  ASSUME FilesInv, TypeInv, IInv, [Next]_vars, NEW r \in Requests, pc[r] = "uploading"
  PROVE  \/ fs'[Store(r.store)] = fs[Store(r.store)]
         \/ \E n \in todo[r] : Upload(r, n)
<1>1. Works(r)
  BY DEF Works, Active, Waiting, Answered, IInv, MainPlaces
<1>2. Store(r.store) \in Area(r) /\ Area(r) \subseteq DOMAIN fs
  BY <1>1, Known, Zenon DEF Area
<1>3. ASSUME NEW q \in Requests,
             \/ GetInputData(q) \/ PutResultData(q) \/ HandlerStep(q) \/ HandlerFails(q)
             \/ \E f \in Files : WorkerStep(q, f)
      PROVE  fs'[Store(r.store)] = fs[Store(r.store)] \/ \E n \in todo[r] : Upload(r, n)
  <2>1. CASE q # r
    <3>1. fs' = fs \/ (Works(q) /\ \A d \in DOMAIN fs : d \notin Area(q) => fs'[d] = fs[d])
      BY <1>3, OwnArea
    <3>2. Works(q) => ~Conflict(q, r)
      BY <1>1 DEF FilesInv, Apart
    <3>3. Works(q) => Store(r.store) \notin Area(q)
      BY <1>2, <2>1, <3>2, AreasApart
    <3> QED
      BY <1>2, <3>1, <3>3
  <2>2. CASE q = r
    <3>1. ~\E f \in Files : WorkerStep(r, f)
      BY <1>1, Known, Zenon DEF WorkerStep, OpenOutput, EncryptFile, DecryptFile, WorkerFails, Running
    <3>2. CASE GetInputData(r) \/ PutResultData(r) \/ HandlerFails(r)
      BY <3>2, Zenon DEF GetInputData, PutResultData, HandlerFails
    <3>3. CASE HandlerStep(r)
      <4>1. ~(\/ GetRaCert(r) \/ GetDataKeys(r) \/ GotDataKeys(r)
              \/ GetTlsAsset(r) \/ WriteTlsCert(r) \/ WriteTlsKey(r)
              \/ CreateResultDataKey(r) \/ ResultRegistered(r))
        BY DEF GetRaCert, GetDataKeys, GotDataKeys, GetTlsAsset, WriteTlsCert, WriteTlsKey,
           CreateResultDataKey, ResultRegistered, Send, At
      <4>2. ~(\/ ClearTemp(r) \/ ListObjects(r) \/ DownloadDone(r) \/ Walk(r) \/ Join(r)
              \/ Unwind(r) \/ UploadToOss(r) \/ Cleanup(r) \/ RegisterResult(r)
              \/ \E f \in Files : Spawn(r, f))
        BY Zenon DEF ClearTemp, ListObjects, DownloadDone, Walk, Join, Unwind, UploadToOss,
           Cleanup, RegisterResult, Spawn, At
      <4>3. UploadDone(r) \/ Transfer(r)
        BY <3>3, <4>1, <4>2 DEF HandlerStep
      <4> QED
        BY <4>3, Zenon DEF UploadDone, Transfer, Download, CopyFile
    <3> QED
      BY <1>3, <2>2, <3>1, <3>2, <3>3, Zenon
  <2> QED
    BY <2>1, <2>2
<1>4. ASSUME NEW q \in Requests, ApplicationWrites(q)
      PROVE  fs'[Store(r.store)] = fs[Store(r.store)]
  BY <1>2, <1>4, Zenon DEF ApplicationWrites, App, Store
<1>5. ASSUME NEW q \in Requests, ManagerAccepts(q) \/ ManagerRefuses(q) \/ Main(q)
      PROVE  fs' = fs
  BY <1>5 DEF ManagerAccepts, ManagerRefuses, Main
<1>6. UNCHANGED vars \/ ProxyKilled \/ ManagerRestarts \/ AssetRotates => fs' = fs
  BY DEF vars, ProxyKilled, ManagerRestarts, AssetRotates
<1> QED
  BY <1>3, <1>4, <1>5, <1>6, Zenon DEF Next

(* A write of one file leaves the others.                                  *)
LEMMA WithOther ==
  ASSUME NEW x, NEW m, NEW c, NEW n, n # m, n \in Ns(With(x, m, c))
  PROVE  n \in Ns(x) /\ With(x, m, c)[n] = x[n]
<1>1. n \in Ns(x)
  BY WithNames
<1> QED
  BY <1>1 DEF With

(* Without overlap, a put uploads nothing but what it encrypted under its  *)
(* data key and what was in its temporary directory when it arrived.       *)
THEOREM UploadsAreOwn == ~Overlap => (Spec => UploadsOwn)
<1> SUFFICES ASSUME ~Overlap PROVE Spec => UploadsOwn
  OBVIOUS
<1>1. ASSUME FilesInv, TypeInv, IInv, [Next]_vars, NEW r \in Requests, pc[r] = "uploading",
             NEW n \in Names(Store(r.store))'
      PROVE  \/ n \in Names(Store(r.store)) /\ fs'[Store(r.store)][n] = fs[Store(r.store)][n]
             \/ fs'[Store(r.store)][n].key = key[r]
             \/ n \in found[r]
  <2>1. n \in Ns(fs'[Store(r.store)]) /\ Names(Store(r.store)) = Ns(fs[Store(r.store)])
    <3>1. DOMAIN <<>> = {}
      OBVIOUS
    <3> QED
      BY <1>1, <3>1, DirIs, Zenon DEF Names, Dir, Ns
  <2>2. CASE fs'[Store(r.store)] = fs[Store(r.store)]
    BY <2>1, <2>2
  <2>3. CASE \E m \in todo[r] : Upload(r, m)
    <3>1. PICK m \in todo[r] : Upload(r, m)
      BY <2>3, Zenon
    <3>2. Works(r)
      BY <1>1, Zenon DEF Works, Active, Waiting, Answered, IInv, MainPlaces
    <3>3. View(r) /\ Store(r.store) \in DOMAIN fs /\ r.kind = "put" /\ IsDirectory(fs[Store(r.store)])
      BY <1>1, <3>2, Known, Zenon DEF Area, PlaceOK, GetPlaces
    <3>4. Own(fs[Temp(r.path)], found[r], key[r])
      BY <1>1, <3>3, Zenon DEF View, WorkInv, PutInv
    <3>5. m \in Ns(fs[Temp(r.path)])
      BY <3>1, DirIs, Zenon DEF Upload
    <3>6. fs'[Store(r.store)] = With(fs[Store(r.store)], m, fs[Temp(r.path)][m])
      BY <3>1, <3>3, WriteIs, Zenon DEF Upload
    <3>7. CASE n = m
      BY <3>4, <3>5, <3>6, <3>7, Zenon DEF Own, With
    <3>8. CASE n # m
      <4>1. n \in Ns(With(fs[Store(r.store)], m, fs[Temp(r.path)][m]))
        BY <2>1, <3>6, Zenon
      <4>2. /\ n \in Ns(fs[Store(r.store)])
            /\ With(fs[Store(r.store)], m, fs[Temp(r.path)][m])[n] = fs[Store(r.store)][n]
        BY <3>8, <4>1, WithOther
      <4> QED
        BY <2>1, <3>6, <4>2, Zenon
    <3> QED
      BY <3>7, <3>8, Zenon
  <2> QED
    BY <1>1, <2>2, <2>3, WhileUploading, Zenon
<1>2. FilesInv /\ TypeInv /\ IInv /\ [Next]_vars =>
        [\A r \in Requests : pc[r] = "uploading" =>
           \A n \in Names(Store(r.store))' :
             \/ n \in Names(Store(r.store)) /\ fs'[Store(r.store)][n] = fs[Store(r.store)][n]
             \/ fs'[Store(r.store)][n].key = key[r]
             \/ n \in found[r]]_vars
  BY <1>1, Zenon
<1>3. Spec => [](FilesInv /\ TypeInv /\ IInv)
  BY FilesInvariant
<1> QED
  BY <1>2, <1>3, PTL DEF Spec, UploadsOwn

-----------------------------------------------------------------------------
(* Inputs.                                                                 *)

(* The store of every get through OSS fits into one answer of ListObjects. *)
StoresFit ==
  \A r \in Requests : r.kind = "get" /\ r.s3 => OnePage(fs[Store(r.store)])

(* GetDelivers, of the directories.                                        *)
LEMMA DeliveredIs ==
  ASSUME NEW r, Delivered(fs[Store(r.store)], fs'[App(r.path)]),
         NEW n \in Names(Store(r.store)), Twin(n) \notin Names(Store(r.store))
  PROVE  /\ <<n[1], "raw">> \in DOMAIN fs'[App(r.path)]
         /\ fs'[App(r.path)][<<n[1], "raw">>]
              = [data |-> fs[Store(r.store)][n].data, key |-> Plain]
BY DirIs, Zenon DEF Delivered, Holds, Raw, Ns

(* Without overlap, and as long as the stores fit into one page, a         *)
(* GetInputData that succeeds has decrypted or copied every file of its    *)
(* store: no thread was lost, none failed unnoticed, and nobody changed    *)
(* the store, the temporary directory or the application's directory       *)
(* meanwhile.                                                              *)
THEOREM GetsDeliver == ~Overlap => (Spec /\ []StoresFit => GetDelivers)
<1> SUFFICES ASSUME ~Overlap PROVE Spec /\ []StoresFit => GetDelivers
  OBVIOUS
<1>1. ASSUME FilesInv, TypeInv, IInv, StoresFit, [Next]_vars, NEW r \in Requests,
             Succeeds(r), r.kind = "get"
      PROVE  Delivered(fs[Store(r.store)], fs'[App(r.path)])
  <2>1. Works(r) /\ ((Join(r) /\ ~r.s3 /\ Failed(r) = {}) \/ Cleanup(r))
    BY <1>1, SucceedsBy DEF ResultRegistered
  <2>2. /\ View(r) /\ Area(r) \subseteq DOMAIN fs /\ \A d \in Area(r) : IsDirectory(fs[d])
        /\ PlaceOK(r, pc[r])
    BY <1>1, <2>1, Known, Zenon
  <2>3. CASE Join(r) /\ ~r.s3 /\ Failed(r) = {}
    <3>1. pc[r] = "spawn" /\ todo[r] = {} /\ Running(r) = {} /\ fs' = fs
      BY <2>3, Zenon DEF Join, At
    <3>2. \A f \in Files : worker[r][f] \notin Busy
      BY <2>3, <3>1 DEF Running, Failed, Busy
    <3>3. GetInv(r, "spawn", {}, worker[r], fs[Temp(r.path)], fs[App(r.path)],
                 fs[Store(r.store)])
      BY <1>1, <2>2, <3>1, Zenon DEF View, WorkInv
    <3>4. IsDirectory(fs[Temp(r.path)]) /\ IsDirectory(fs[Store(r.store)])
      BY <2>2, Zenon DEF Area
    <3> QED
      BY <2>3, <3>1, <3>2, <3>3, <3>4, GetJoined, Zenon
  <2>4. CASE Cleanup(r)
    <3>1. pc[r] = "cleanup" /\ fs' = [fs EXCEPT ![Temp(r.path)] = NoDir]
      BY <2>4 DEF Cleanup, At
    <3>2. r.s3 /\ OnePage(fs[Store(r.store)])
      BY <1>1, <2>2, <3>1, Zenon DEF StoresFit, PlaceOK, GetPlaces
    <3>3. Delivered(fs[Store(r.store)], fs[App(r.path)])
      BY <1>1, <2>2, <3>1, <3>2, Zenon DEF View, WorkInv, GetInv
    <3>4. fs'[App(r.path)] = fs[App(r.path)]
      BY <2>2, <3>1 DEF App, Temp, Area
    <3> QED
      BY <3>3, <3>4, Zenon
  <2> QED
    BY <2>1, <2>3, <2>4
<1>2. FilesInv /\ TypeInv /\ IInv /\ StoresFit /\ [Next]_vars =>
        [\A r \in Requests : Succeeds(r) /\ r.kind = "get" =>
           \A n \in Names(Store(r.store)) : Twin(n) \notin Names(Store(r.store)) =>
             /\ <<n[1], "raw">> \in DOMAIN fs'[App(r.path)]
             /\ fs'[App(r.path)][<<n[1], "raw">>]
                  = [data |-> fs[Store(r.store)][n].data, key |-> Plain]]_vars
  BY <1>1, DeliveredIs, Zenon
<1>3. Spec => [](FilesInv /\ TypeInv /\ IInv)
  BY FilesInvariant
<1> QED
  BY <1>2, <1>3, PTL DEF Spec, GetDelivers

-----------------------------------------------------------------------------
(* Results.                                                                *)

(* A put that is registering its key, or has failed, keeps its data key,   *)
(* and one that has failed stays so.                                       *)
LEMMA PutStays ==
  ASSUME FilesInv, TypeInv, IInv, [Next]_vars, NEW r \in Requests, r.kind = "put",
         pc[r] \in {"sent", "err"}
  PROVE  key'[r] = key[r] /\ (pc[r] = "err" => pc'[r] = "err")
<1>0. DOMAIN pc = Requests
  BY DEF IInv, Types
<1>1. CASE UNCHANGED vars \/ ManagerRestarts \/ AssetRotates \/ ProxyKilled
  BY <1>1 DEF vars, ManagerRestarts, AssetRotates, ProxyKilled, Active, Answered
<1>2. ASSUME NEW q \in Requests,
             ManagerAccepts(q) \/ ManagerRefuses(q) \/ ApplicationWrites(q)
      PROVE  key' = key /\ pc' = pc
  BY <1>2 DEF ManagerAccepts, ManagerRefuses, ApplicationWrites
<1>3. ASSUME NEW q \in Requests, Main(q)
      PROVE  key' = key /\ pc'[r] = pc[r]
  BY <1>0, <1>3 DEF Main, At, Goto
<1>4. ASSUME NEW q \in Requests, q # r,
             \/ GetInputData(q) \/ PutResultData(q) \/ HandlerStep(q) \/ HandlerFails(q)
             \/ \E f \in Files : WorkerStep(q, f)
      PROVE  key'[r] = key[r] /\ pc'[r] = pc[r]
  BY <1>4, Alone, Zenon DEF OnlyOf
<1>5. ~(GetInputData(r) \/ PutResultData(r))
  BY Zenon DEF GetInputData, PutResultData, Arrive
<1>6. HandlerFails(r) => key' = key /\ pc[r] # "err"
  BY Zenon DEF HandlerFails, Active, Answered
<1>7. (\E f \in Files : WorkerStep(r, f)) => key' = key /\ pc' = pc
  BY DEF WorkerStep, OpenOutput, EncryptFile, DecryptFile, WorkerFails
<1>8. HandlerStep(r) => key' = key /\ pc[r] # "err"
  <2>1. (\/ GetRaCert(r) \/ GetDataKeys(r) \/ GotDataKeys(r)
         \/ GetTlsAsset(r) \/ WriteTlsCert(r) \/ WriteTlsKey(r)
         \/ CreateResultDataKey(r) \/ ResultRegistered(r))
          => key' = key /\ pc[r] # "err"
    BY DEF GetRaCert, GetDataKeys, GotDataKeys, GetTlsAsset, WriteTlsCert, WriteTlsKey,
       CreateResultDataKey, ResultRegistered, Send, At
  <2>2. (\/ ClearTemp(r) \/ ListObjects(r) \/ DownloadDone(r) \/ Walk(r) \/ Join(r)
         \/ Unwind(r) \/ UploadToOss(r) \/ UploadDone(r) \/ Cleanup(r) \/ RegisterResult(r)
         \/ \E f \in Files : Spawn(r, f))
          => key' = key /\ pc[r] # "err"
    BY Zenon DEF ClearTemp, ListObjects, DownloadDone, Walk, Join, Unwind, UploadToOss,
       UploadDone, Cleanup, RegisterResult, Spawn, At
  <2>3. Transfer(r) => key' = key /\ pc[r] # "err"
    BY Zenon DEF Transfer, Download, CopyFile, Upload
  <2> QED
    BY <2>1, <2>2, <2>3, Zenon DEF HandlerStep
<1> QED
  BY <1>1, <1>2, <1>3, <1>4, <1>5, <1>6, <1>7, <1>8, Zenon DEF Next

(* A put has the answer that it had, or its registration was accepted.     *)
LEMMA AnsweredBy ==
  ASSUME FilesInv, TypeInv, IInv, [Next]_vars, NEW r \in Requests, r.kind = "put",
         client'[r].answer # Nothing, client'[r].answer.status = OK
  PROVE  ManagerAccepts(r) \/ client'[r].answer = client[r].answer
<1>0. DOMAIN client = Requests /\ \A q \in Requests : DOMAIN client[q] = {"cert", "sent", "answer"}
  BY Zenon DEF IInv, Types
<1> SUFFICES ASSUME client'[r].answer # client[r].answer PROVE ManagerAccepts(r)
  BY Zenon
<1>1. client'[r] # client[r] /\ client' # client
  OBVIOUS
<1>2. ~(UNCHANGED vars \/ ProxyKilled \/ ManagerRestarts \/ AssetRotates)
  <2>1. ~(UNCHANGED vars \/ AssetRotates)
    BY <1>1 DEF vars, AssetRotates
  <2>2. ~ManagerRestarts
    BY <1>0 DEF ManagerRestarts
  <2>3. ProxyKilled => client'[r] = Abandoned(r)
    BY DEF ProxyKilled
  <2>4. Abandoned(r).answer = Nothing
    BY DEF Abandoned, NoClient
  <2> QED
    BY <2>1, <2>2, <2>3, <2>4
<1>3. ASSUME NEW q \in Requests
      PROVE  ~(\/ Main(q) \/ GetInputData(q) \/ PutResultData(q) \/ ApplicationWrites(q)
               \/ \E f \in Files : WorkerStep(q, f) \/ Spawn(q, f))
  BY <1>1, Zenon DEF Main, GetInputData, PutResultData, ApplicationWrites, WorkerStep,
     OpenOutput, EncryptFile, DecryptFile, WorkerFails, Spawn, net
<1>4. ASSUME NEW q \in Requests
      PROVE  /\ ~(ClearTemp(q) \/ ListObjects(q) \/ DownloadDone(q) \/ Walk(q) \/ Join(q))
             /\ ~(Unwind(q) \/ UploadToOss(q) \/ UploadDone(q) \/ Cleanup(q))
             /\ ~(RegisterResult(q) \/ Transfer(q) \/ WriteTlsCert(q))
  BY <1>1 DEF ClearTemp, ListObjects, DownloadDone, Walk, Join, Unwind, UploadToOss,
     UploadDone, Cleanup, RegisterResult, Transfer, Download, CopyFile, Upload,
     WriteTlsCert, net
<1>5. ASSUME NEW q \in Requests
      PROVE  /\ ~(GotDataKeys(q) \/ ResultRegistered(q) \/ WriteTlsKey(q) \/ HandlerFails(q))
             /\ ~(GetRaCert(q) \/ GetDataKeys(q) \/ GetTlsAsset(q) \/ CreateResultDataKey(q))
  <2>1. ~(GotDataKeys(q) \/ ResultRegistered(q) \/ WriteTlsKey(q))
    BY <1>0 DEF GotDataKeys, ResultRegistered, WriteTlsKey, NoClient
  <2>2. ~HandlerFails(q)
    BY <1>0 DEF HandlerFails, Abandoned, NoClient
  <2>3. ~(GetRaCert(q) \/ GetDataKeys(q) \/ GetTlsAsset(q) \/ CreateResultDataKey(q))
    BY <1>0 DEF GetRaCert, GetDataKeys, GetTlsAsset, CreateResultDataKey, Send
  <2> QED
    BY <2>1, <2>2, <2>3, Zenon
<1>6. PICK q \in Requests : ManagerAccepts(q) \/ ManagerRefuses(q)
  BY <1>2, <1>3, <1>4, <1>5, Zenon DEF Next, HandlerStep
<1>7. PICK a : Reply(q, a) /\ (ManagerRefuses(q) => a = Refused)
  BY <1>6 DEF ManagerAccepts, ManagerRefuses
<1>8. q = r /\ client'[r].answer = a
  BY <1>0, <1>7 DEF Reply
<1> QED
  BY <1>6, <1>7, <1>8 DEF Refused, OK

(* Puts of one resource that do not overlap: the Capsule Manager holds the *)
(* key of one that it has answered, unless one that was given up on was    *)
(* handled since.                                                          *)
LEMMA RegisteredStep ==
  ResultsConflict /\ FilesInv /\ TypeInv /\ IInv /\ Registered /\ [Next]_vars => Registered'
<1> SUFFICES ASSUME ResultsConflict, FilesInv, TypeInv, IInv, Registered, [Next]_vars,
                    NEW r \in Requests, r.kind = "put", pc'[r] = "sent",
                    client'[r].answer # Nothing, client'[r].answer.status = OK
             PROVE  \/ cm'[r.uri] = key'[r]
                    \/ \E s \in Requests :
                         /\ GivenUp(s)' /\ s.uri = r.uri
                         /\ cm'[r.uri] = key'[s]
  BY Zenon DEF Registered
<1>1. ManagerAccepts(r) \/ client'[r].answer = client[r].answer
  BY AnsweredBy
<1>2. ClientOK(r, pc[r], key[r], client[r]) /\ PlaceOK(r, pc[r])
  BY DEF TypeInv, RequestOK
<1>3. pc[r] = "sent"
  BY <1>1, <1>2 DEF ManagerAccepts, ClientOK
<1>4. r.uri # NoUri /\ r.uri \in Uris /\ DOMAIN cm = Uris /\ key'[r] = key[r]
  BY <1>2, <1>3, PutStays DEF PlaceOK, Uris, TypeInv
<1>5. CASE ManagerAccepts(r)
  BY <1>2, <1>4, <1>5 DEF ManagerAccepts, ClientOK
<1>6. CASE cm'[r.uri] = cm[r.uri] /\ ~ManagerAccepts(r)
  <2>1. \/ cm[r.uri] = key[r]
        \/ \E s \in Requests : GivenUp(s) /\ s.uri = r.uri /\ cm[r.uri] = key[s]
    BY <1>1, <1>3, <1>6, Zenon DEF Registered
  <2>2. ASSUME NEW s \in Requests, GivenUp(s) PROVE GivenUp(s)' /\ key'[s] = key[s]
    BY <2>2, PutStays DEF GivenUp
  <2> QED
    BY <1>4, <1>6, <2>1, <2>2, Zenon
<1>7. CASE cm'[r.uri] # cm[r.uri] /\ ~ManagerAccepts(r)
  <2>1. PICK s \in Requests : /\ s.kind = "put" /\ ManagerAccepts(s) /\ s.uri = r.uri
                              /\ cm'[r.uri] = key[s] /\ pc[s] \in {"sent", "err"}
    BY <1>4, <1>7, RegisteredBy, Zenon
  <2>2. Conflict(r, s)
    BY <1>4, <1>7, <2>1 DEF ResultsConflict
  <2>3. pc[s] = "err"
    BY <1>3, <2>1, <2>2 DEF FilesInv, Apart, Works, Active, Waiting, Answered
  <2>4. pc'[s] = "err" /\ key'[s] = key[s]
    BY <2>1, <2>3, PutStays
  <2> QED
    BY <2>1, <2>4 DEF GivenUp
<1> QED
  BY <1>5, <1>6, <1>7, Zenon

(* Without overlap, and if the puts of a resource share a directory or a   *)
(* store, a PutResultData that succeeds has stored every file under the    *)
(* key that the Capsule Manager has for the resource, unless a put that    *)
(* was given up on has been registered late.                               *)
THEOREM PutsDeliver == ~Overlap /\ ResultsConflict => (Spec => PutDelivers)
<1> SUFFICES ASSUME ~Overlap, ResultsConflict PROVE Spec => PutDelivers
  OBVIOUS
<1>1. Init => Registered
  <2> SUFFICES ASSUME Init PROVE \A r \in Requests : pc[r] # "sent"
    BY DEF Registered
  <2> QED
    BY Zenon DEF Init
<1>2. FilesInv /\ TypeInv /\ IInv /\ Registered /\ [Next]_vars => Registered'
  BY RegisteredStep
<1>3. ASSUME FilesInv, TypeInv, IInv, Registered, [Next]_vars, NEW r \in Requests,
             Succeeds(r), r.kind = "put"
      PROVE  /\ Stored(r)'
             /\ r.uri # NoUri =>
                  \/ cm'[r.uri] = key[r]
                  \/ \E s \in Requests : GivenUp(s) /\ s.uri = r.uri /\ cm'[r.uri] = key[s]
  <2>1. Works(r) /\ ((RegisterResult(r) /\ r.uri = NoUri) \/ ResultRegistered(r))
    BY <1>3, SucceedsBy
  <2>2. pc[r] \in {"register", "sent"} /\ fs' = fs /\ key' = key /\ cm' = cm
    BY <2>1 DEF RegisterResult, ResultRegistered, At
  <2>3. View(r)
    BY <1>3, <2>1, Known
  <2>4. Stored(r)
    BY <1>3, <2>2, <2>3, StoredIs, Zenon DEF View, WorkInv, PutInv
  <2>5. Stored(r)'
    BY <2>2, <2>4, Zenon DEF Stored, Names, Dir
  <2>6. r.uri # NoUri => pc[r] = "sent" /\ client[r].answer # Nothing
                         /\ client[r].answer.status = OK
    BY <2>1 DEF ResultRegistered, At
  <2> QED
    BY <1>3, <2>2, <2>5, <2>6, Zenon DEF Registered
<1>4. FilesInv /\ TypeInv /\ IInv /\ Registered /\ [Next]_vars =>
        [\A r \in Requests : Succeeds(r) /\ r.kind = "put" =>
           /\ Stored(r)'
           /\ r.uri # NoUri =>
                \/ cm'[r.uri] = key[r]
                \/ \E s \in Requests : GivenUp(s) /\ s.uri = r.uri /\ cm'[r.uri] = key[s]]_vars
  BY <1>3, Zenon
<1>5. Spec => [](FilesInv /\ TypeInv /\ IInv)
  BY FilesInvariant
<1> QED
  BY <1>1, <1>2, <1>4, <1>5, PTL DEF Spec, PutDelivers
===============================================================================
