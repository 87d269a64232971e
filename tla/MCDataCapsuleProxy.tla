-------------------------- MODULE MCDataCapsuleProxy --------------------------
(***************************************************************************)
(* Instances of DataCapsuleProxy: the requests of an application that gets *)
(* its input and puts a result, and of one that repeats a PutResultData.   *)
(***************************************************************************)
EXTENDS DataCapsuleProxy, TLC

Cipher(d, k) == [data |-> d, key |-> k]

Dirs(paths, stores) ==
  {Temp(p) : p \in paths} \cup {App(p) : p \in paths} \cup {Store(s) : s \in stores}

(* The input through OSS or from a local directory (GetBare gives no key), *)
(* the result of the same directory to OSS, twice, or to a local one, and  *)
(* the result back from OSS into another directory.                        *)
GetReq == [id |-> "g", kind |-> "get", s3 |-> TRUE, path |-> "p", store |-> "in",
           uri |-> "u_in", key |-> NoKey]
GetLocal == [id |-> "l", kind |-> "get", s3 |-> FALSE, path |-> "p",
             store |-> "in", uri |-> NoUri, key |-> "k_in"]
PutReq == [id |-> "r1", kind |-> "put", s3 |-> TRUE, path |-> "p", store |-> "out",
           uri |-> "u_out", key |-> NoKey]
PutAgain == [PutReq EXCEPT !.id = "r2"]
PutLocal == [id |-> "r3", kind |-> "put", s3 |-> FALSE, path |-> "p",
             store |-> "local", uri |-> NoUri, key |-> "k_out"]
GetBare == [GetLocal EXCEPT !.id = "b", !.key = NoKey]

GetBack == [GetReq EXCEPT !.id = "h", !.path = "q", !.store = "out", !.uri = "u_out"]

MainReq == [GetReq EXCEPT !.id = "m", !.kind = "main", !.path = "none",
                          !.store = "none", !.uri = "u_tls"]
MainPlain == [MainReq EXCEPT !.id = "n", !.uri = NoUri]

Session(requests, kill, restart, rotate) ==
  [requests |-> requests,
   faults |-> ("kill" :> kill) @@ ("restart" :> restart) @@ ("rotate" :> rotate)]

(* Through OSS, with local directories only, a result that is put twice    *)
(* and read back, and a process that is started twice.                     *)
MCSessions ==
  {Session({GetReq, PutReq}, 0, 1, 0),
   Session({GetLocal, GetBare, PutLocal, MainPlain}, 1, 0, 0),
   Session({PutReq, PutAgain, GetBack}, 0, 0, 0),
   Session({MainReq, GetReq}, 1, 1, 1)}
Crossing == {Session({GetReq, PutReq}, 0, 0, 0)}

InputFiles == (<<"a", "enc">> :> Cipher("d1", "k_in")) @@ (<<"b", "raw">> :> Cipher("d2", Plain))

MCFs == [d \in Dirs({"p", "q", "none"}, {"in", "out", "local", "none"}) |->
           CASE d = Store("in") -> InputFiles
             [] d = App("p") -> (<<"a", "raw">> :> Cipher("r0", Plain))
             [] OTHER -> NoDir]

MCCm == [u \in Uris |-> IF u = "u_in" THEN "k_in" ELSE NoKey]

MCResults ==
  {(<<"a", "raw">> :> Cipher("r1", Plain)) @@ (<<"c", "raw">> :> Cipher("r2", Plain)),
   <<"a", "raw">> :> Cipher(Empty, Plain)}

EmptyResult == {<<"a", "raw">> :> Cipher(Empty, Plain)}

(* What the theorems of DataCapsuleFilesProofs ask of the requests.        *)
ASSUME RequestsAssumption == ResultsConflict
=============================================================================
