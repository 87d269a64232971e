--------------------------- MODULE DataUploadProofs --------------------------
(***************************************************************************)
(* Proofs about DataUpload, for every number of attempts and of chunks.    *)
(*                                                                         *)
(* The types hold in general.  That an acknowledged upload is stored, and  *)
(* that the upload implements SealedStore, is proved for runs in which an  *)
(* abandoned request has ended before the next attempt is sent (~Overlap); *)
(* without that assumption TLC finds a counterexample.  That the key comes *)
(* last is proved with overlapping requests too.                           *)
(***************************************************************************)
EXTENDS DataUpload, TLAPS

USE MaxAttemptsAssumption, NChunksAssumption, NoFileAssumption,
    OverlapAssumption

(* Places of a task that has opened its temporary file and still reads it. *)
HasTemp == {"recv", "fields", "source", "copy"}

(* TypeOK is inductive together with the bound on the attempts, and with   *)
(* the fact that a task which writes or copies the temporary file finds    *)
(* one.                                                                    *)
TypeInv ==
  /\ TypeOK
  /\ up = "prepare" => attempt = 0
  /\ up = "send" => attempt < MaxAttempts
  /\ up = "wait" => attempt \in Attempts
  /\ \A a \in Attempts : handler[a].pc \in HasTemp => temp # NoFile

(* At most one task runs, it belongs to the current attempt while the      *)
(* uploader waits, and none runs once the upload is acknowledged.          *)
OneTask ==
  /\ \A a, b \in Attempts : Live(a) /\ Live(b) => a = b
  /\ \A a \in Attempts : a > attempt => handler[a].pc = "idle" /\ handler[a].off = 0
  /\ up = "wait" => \A a \in Attempts : Live(a) => a = attempt
  /\ Acked \/ key => \A a \in Attempts : ~Live(a)

(* What the files hold at each place of a running task.                    *)
TaskFiles(a) ==
  LET h == handler[a] IN
  /\ h.pc \in {"head", "open"} => h.off = 0
  /\ h.pc = "recv" => h.off \in 0..NChunks /\ temp = Prefix(h.off)
  /\ h.pc \in {"fields", "source"} => temp = Encrypted
  /\ h.pc = "copy" => /\ temp = Encrypted
                      /\ h.off \in 0..NChunks
                      /\ dest = Prefix(h.off)
  /\ h.pc \in {"create", "created"} => dest = Encrypted
  /\ h.pc = "created" => registered

(* A 200 on its way, an acknowledged upload and a registered key all mean  *)
(* that the data is stored and listed.                                     *)
Stored == dest = Encrypted /\ registered

UploadInv ==
  /\ TypeInv
  /\ OneTask
  /\ \A a \in Attempts : TaskFiles(a)
  /\ up = "wait" /\ handler[attempt].pc = "ok" => Stored
  /\ Acked \/ key => Stored
  /\ key => up \in {"done", "failed"}
-----------------------------------------------------------------------------
(* Prefix(n) is a sequence of length n.                                    *)
LEMMA PrefixSeq ==
  ASSUME NEW n \in Nat
  PROVE  /\ Prefix(n) \in Seq(Nat)
         /\ Len(Prefix(n)) = n
         /\ \A i \in 1..n : Prefix(n)[i] = i
BY DEF Prefix

(* Writing a chunk into a file gives a file.                               *)
LEMMA WriteChunkType ==
  ASSUME NEW f \in Seq(Nat), NEW append \in BOOLEAN, NEW off \in Nat, NEW c \in Nat
  PROVE  WriteChunk(f, append, off, c) \in Seq(Nat)
BY DEF WriteChunk, Hole

(* Writing the next chunk after a prefix extends the prefix, in append     *)
(* mode and at the matching offset alike.                                  *)
LEMMA WriteChunkPrefix ==
  ASSUME NEW n \in Nat, NEW append \in BOOLEAN
  PROVE  WriteChunk(Prefix(n), append, n, n + 1) = Prefix(n + 1)
<1>1. /\ Len(Prefix(n)) = n
      /\ \A i \in 1..n : Prefix(n)[i] = i
  BY PrefixSeq
<1>2. WriteChunk(Prefix(n), append, n, n + 1)
        = [i \in 1..(n + 1) |-> IF i = n + 1 THEN n + 1
                                ELSE IF i <= n THEN Prefix(n)[i] ELSE Hole]
  BY <1>1 DEF WriteChunk
<1>3. \A i \in 1..(n + 1) : (IF i = n + 1 THEN n + 1
                             ELSE IF i <= n THEN Prefix(n)[i] ELSE Hole) = i
  BY <1>1
<1> QED
  BY <1>2, <1>3 DEF Prefix
-----------------------------------------------------------------------------
(* Assigning to fields of task a keeps the type of the tasks and leaves    *)
(* the other fields, and the other tasks, alone.                           *)
LEMMA PcUpdate ==
  ASSUME NEW h \in [Attempts -> HandlerState], NEW a \in Attempts,
         NEW p \in HandlerPc, NEW g, g = [h EXCEPT ![a].pc = p]
  PROVE  /\ g \in [Attempts -> HandlerState]
         /\ g[a].pc = p /\ g[a].off = h[a].off
         /\ \A c \in Attempts \ {a} : g[c] = h[c]
BY DEF HandlerState

(* The same for a step that sets the open mode as well.                    *)
LEMMA PcAppendUpdate ==
  ASSUME NEW h \in [Attempts -> HandlerState], NEW a \in Attempts,
         NEW p \in HandlerPc, NEW b \in BOOLEAN
  PROVE  [h EXCEPT ![a].pc = p, ![a].append = b] \in [Attempts -> HandlerState]
BY DEF HandlerState

(* The same for a step that sets the offset as well.                       *)
LEMMA PcOffUpdate ==
  ASSUME NEW h \in [Attempts -> HandlerState], NEW a \in Attempts,
         NEW p \in HandlerPc, NEW n \in Nat
  PROVE  [h EXCEPT ![a].pc = p, ![a].off = n] \in [Attempts -> HandlerState]
BY DEF HandlerState

(* The same for a step that sets the offset only.                          *)
LEMMA OffUpdate ==
  ASSUME NEW h \in [Attempts -> HandlerState], NEW a \in Attempts,
         NEW n \in Nat, NEW g, g = [h EXCEPT ![a].off = n]
  PROVE  /\ g \in [Attempts -> HandlerState]
         /\ g[a].pc = h[a].pc /\ g[a].off = n
         /\ \A c \in Attempts \ {a} : g[c] = h[c]
BY DEF HandlerState

(* The same for the steps that make tasks orphans.                         *)
LEMMA OrphanUpdate ==
  ASSUME NEW h \in [Attempts -> HandlerState], NEW a \in Attempts,
         NEW b \in BOOLEAN, NEW g, g = [h EXCEPT ![a].orphan = b]
  PROVE  /\ g \in [Attempts -> HandlerState]
         /\ \A c \in Attempts : g[c].pc = h[c].pc /\ g[c].off = h[c].off
BY DEF HandlerState

(* A leftover of another run is a file.                                    *)
LEMMA HoleFile == <<Hole>> \in Seq(Nat)
<1>1. 0 \in Nat
  OBVIOUS
<1> QED
  BY <1>1 DEF Hole

(* The initial states have the types.                                      *)
LEMMA TypeInit == Init => TypeInv
<1> SUFFICES ASSUME Init PROVE TypeInv
  OBVIOUS
<1>1. handler \in [Attempts -> HandlerState]
  BY DEF Init, HandlerState, HandlerPc
<1>2. <<Hole>> \in Seq(Nat)
  BY HoleFile
<1>3. temp \in Seq(Nat) \cup {NoFile}
  BY <1>2, Zenon DEF Init
<1>4. dest \in Seq(Nat) /\ registered \in BOOLEAN /\ key \in BOOLEAN
  <2>1. dest \in Seq(Nat)
    BY DEF Init
  <2> QED
    BY <2>1, Zenon DEF Init
<1>5. \A a \in Attempts : handler[a].pc \notin HasTemp
  BY DEF Init, HasTemp
<1>6. up = "prepare" /\ attempt = 0 /\ stop = "none" /\ server = "starting"
  BY DEF Init
<1> QED
  BY <1>1, <1>3, <1>4, <1>5, <1>6 DEF TypeInv, TypeOK

(* Every step of the program keeps the types.                              *)
LEMMA TypeStep == TypeInv /\ [Next]_vars => TypeInv'
<1> SUFFICES ASSUME TypeInv, [Next]_vars PROVE TypeInv'
  OBVIOUS
<1> USE DEF TypeInv, TypeOK, files, services, peers
<1>1. CASE Prepare
  BY <1>1 DEF Prepare
<1>2. CASE SendUpload
  <2>1. attempt + 1 \in Attempts /\ "head" \in HandlerPc
    BY <1>2 DEF SendUpload, Attempts, HandlerPc
  <2>2. handler' \in [Attempts -> HandlerState]
    BY <1>2, <2>1, PcUpdate, Zenon DEF SendUpload
  <2>3. \A b \in Attempts : handler'[b].pc \in {handler[b].pc, "head"}
    BY <1>2, <2>1 DEF SendUpload, HandlerState
  <2> QED
    BY <1>2, <2>1, <2>2, <2>3 DEF SendUpload, Attempts, HasTemp
<1>3. CASE ConnectionRefused
  BY <1>3 DEF ConnectionRefused, AfterFailedAttempt
<1>4. CASE ReceiveAnswer
  BY <1>4 DEF ReceiveAnswer, AfterFailedAttempt, Attempts
<1>5. CASE ConnectionLost
  <2>1. attempt \in Attempts /\ TRUE \in BOOLEAN
    BY <1>5 DEF ConnectionLost
  <2>2. handler' \in [Attempts -> HandlerState]
    BY <1>5, <2>1, OrphanUpdate, Zenon DEF ConnectionLost
  <2>3. \A b \in Attempts : handler'[b].pc = handler[b].pc
    BY <1>5, <2>1, OrphanUpdate DEF ConnectionLost
  <2> QED
    BY <1>5, <2>1, <2>2, <2>3 DEF ConnectionLost, AfterFailedAttempt, Attempts
<1>6. CASE SendShutdown \/ ShutdownAnswered \/ ShutdownFails \/ RegisterKey
  BY <1>6 DEF SendShutdown, ShutdownAnswered, ShutdownFails, RegisterKey
<1>7. CASE UploaderCrash
  <2>1. CASE up = "wait"
    <3>1. attempt \in Attempts /\ TRUE \in BOOLEAN
      BY <2>1
    <3>2. handler' \in [Attempts -> HandlerState]
      BY <1>7, <2>1, <3>1, OrphanUpdate, Zenon DEF UploaderCrash
    <3>3. \A b \in Attempts : handler'[b].pc = handler[b].pc
      BY <1>7, <2>1, <3>1, OrphanUpdate DEF UploaderCrash
    <3> QED
      BY <1>7, <3>2, <3>3 DEF UploaderCrash
  <2>2. CASE up # "wait"
    BY <1>7, <2>2 DEF UploaderCrash
  <2> QED
    BY <2>1, <2>2
<1>8. CASE Server
  BY <1>8 DEF Server, ServerStart, ServeShutdown, ServerExit
<1>9. ASSUME NEW a \in Attempts, HandlerStep(a) \/ HandlerFault(a)
      PROVE  TypeInv'
  <2>1. handler[a] \in HandlerState /\ handler[a].off \in Nat
    BY DEF HandlerState
  <2>2. ASSUME NEW p \in HandlerPc, handler' = [handler EXCEPT ![a].pc = p]
        PROVE  /\ handler' \in [Attempts -> HandlerState]
               /\ handler'[a].pc = p
               /\ \A b \in Attempts \ {a} : handler'[b].pc = handler[b].pc
    <3>1. handler' \in [Attempts -> HandlerState]
      BY <2>2, PcUpdate, Zenon
    <3> QED
      BY <2>2, <3>1 DEF HandlerState
  <2>3. ASSUME NEW n \in Nat, handler' = [handler EXCEPT ![a].off = n]
        PROVE  /\ handler' \in [Attempts -> HandlerState]
               /\ \A b \in Attempts : handler'[b].pc = handler[b].pc
    <3>1. handler' \in [Attempts -> HandlerState]
      BY <2>3, OffUpdate, Zenon
    <3> QED
      BY <2>3, <3>1 DEF HandlerState
  <2>4. CASE CheckTemp(a)
    <3>1. "open" \in HandlerPc /\ (temp = NoFile) \in BOOLEAN
      BY DEF HandlerPc
    <3>2. handler' \in [Attempts -> HandlerState]
      BY <2>4, <3>1, PcAppendUpdate, Zenon DEF CheckTemp
    <3>3. \A b \in Attempts : handler'[b].pc \in {handler[b].pc, "open"}
      BY <2>4 DEF CheckTemp, HandlerState
    <3> QED
      BY <2>4, <3>2, <3>3 DEF CheckTemp, HasTemp
  <2>5. CASE OpenTemp(a)
    <3>1. temp' \in Seq(Nat)
      BY <2>5 DEF OpenTemp
    <3> QED
      BY <2>2, <2>5, <3>1 DEF OpenTemp, Step, HandlerPc
  <2>6. CASE ReceiveChunk(a)
    <3>1. temp \in Seq(Nat) /\ handler[a].off + 1 \in Nat
      BY <2>1, <2>6 DEF ReceiveChunk, HasTemp
    <3>2. handler[a].append \in BOOLEAN
      BY <2>1, Zenon DEF HandlerState
    <3>3. temp' \in Seq(Nat)
      BY <2>1, <2>6, <3>1, <3>2, WriteChunkType, Zenon DEF ReceiveChunk
    <3> QED
      BY <2>3, <2>6, <3>1, <3>3 DEF ReceiveChunk
  <2>7. CASE OpenDest(a)
    <3>1. "copy" \in HandlerPc /\ 0 \in Nat
      BY DEF HandlerPc
    <3>2. handler' \in [Attempts -> HandlerState]
      BY <2>7, <3>1, PcOffUpdate, Zenon DEF OpenDest
    <3>3. \A b \in Attempts : b # a => handler'[b].pc = handler[b].pc
      BY <2>7 DEF OpenDest, HandlerState
    <3>4. temp # NoFile
      BY <2>7 DEF OpenDest, HasTemp
    <3>5. dest' \in Seq(Nat)
      BY <2>7 DEF OpenDest
    <3> QED
      BY <2>7, <3>2, <3>3, <3>4, <3>5 DEF OpenDest
  <2>8. CASE CopyChunk(a)
    <3>1. temp \in Seq(Nat) /\ handler[a].off + 1 \in Nat
      BY <2>1, <2>8 DEF CopyChunk, HasTemp
    <3>2. temp[handler[a].off + 1] \in Nat
      <4>1. handler[a].off \in Nat /\ handler[a].off < Len(temp)
        BY <2>1, <2>8 DEF CopyChunk
      <4>2. handler[a].off + 1 \in 1..Len(temp)
        BY <3>1, <4>1
      <4> HIDE DEF TypeInv, TypeOK
      <4> QED
        BY <3>1, <4>2
    <3>3. dest' \in Seq(Nat)
      BY <2>1, <2>8, <3>2, WriteChunkType, Zenon DEF CopyChunk
    <3> QED
      BY <2>3, <2>8, <3>1, <3>3 DEF CopyChunk
  <2>9. CASE EndOfFile(a) \/ ReadFields(a)
    <3>1. /\ handler' \in [Attempts -> HandlerState]
          /\ \A b \in Attempts : b # a => handler'[b].pc = handler[b].pc
      BY <2>2, <2>9 DEF EndOfFile, ReadFields, Step, HandlerPc
    <3>2. temp # NoFile
      BY <2>9 DEF EndOfFile, ReadFields, Step, HasTemp
    <3> QED
      BY <2>9, <3>1, <3>2 DEF EndOfFile, ReadFields
  <2>10. CASE CreateNewFails(a) \/ CopyDone(a) \/ HandlerOk(a)
    <3>1. /\ handler' \in [Attempts -> HandlerState]
          /\ \A b \in Attempts : handler'[b].pc \in HasTemp => handler[b].pc \in HasTemp
      BY <2>2, <2>10
      DEF CreateNewFails, CopyDone, HandlerOk, Step, HandlerPc, HasTemp
    <3> QED
      BY <2>10, <3>1 DEF CreateNewFails, CopyDone, HandlerOk
  <2>11. CASE CreateDomainData(a)
    <3>1. /\ handler' \in [Attempts -> HandlerState]
          /\ \A b \in Attempts : handler'[b].pc \in HasTemp => handler[b].pc \in HasTemp
      BY <2>2, <2>11 DEF CreateDomainData, Step, HandlerPc, HasTemp
    <3>2. registered' \in BOOLEAN
      BY <2>11, Zenon DEF CreateDomainData
    <3> QED
      BY <2>11, <3>1, <3>2 DEF CreateDomainData
  <2>12. CASE HandlerFails(a) \/ HandlerDropped(a)
    <3>1. /\ handler' \in [Attempts -> HandlerState]
          /\ \A b \in Attempts : handler'[b].pc \in HasTemp => handler[b].pc \in HasTemp
      BY <2>2, <2>12 DEF HandlerFails, HandlerDropped, HandlerPc, HasTemp
    <3> QED
      BY <2>12, <3>1 DEF HandlerFails, HandlerDropped
  <2> QED
    BY <1>9, <2>4, <2>5, <2>6, <2>7, <2>8, <2>9, <2>10, <2>11, <2>12
    DEF HandlerStep, HandlerFault
<1>10. CASE UNCHANGED vars
  BY <1>10 DEF vars
<1> QED
  BY <1>1, <1>2, <1>3, <1>4, <1>5, <1>6, <1>7, <1>8, <1>9, <1>10
  DEF Next, Uploader, UploaderFault

(* Every variable keeps its type and no attempt exceeds MaxAttempts, with  *)
(* or without overlapping requests.                                        *)
THEOREM TypeCorrect == Spec => []TypeOK
<1>1. TypeInv => TypeOK
  BY DEF TypeInv
<1> QED
  BY <1>1, TypeInit, TypeStep, PTL DEF Spec
-----------------------------------------------------------------------------
(* The first chunks of nothing are an empty file.                          *)
LEMMA PrefixZero == Prefix(0) = <<>>
BY DEF Prefix

(* The chunk numbered i is the i-th of the encrypted file.                 *)
LEMMA EncryptedFile ==
  /\ Encrypted \in Seq(Nat)
  /\ Len(Encrypted) = NChunks
  /\ \A i \in 1..NChunks : Encrypted[i] = i
BY PrefixSeq DEF Encrypted

(* TaskFiles says something of running tasks only.                         *)
LEMMA EndedTask ==
  ASSUME NEW a \in Attempts, ~Live(a)
  PROVE  TaskFiles(a)
BY DEF TaskFiles, Live, Finished

(* The same in the next state.                                             *)
LEMMA EndedTaskNext ==
  ASSUME NEW a \in Attempts, ~Live(a)'
  PROVE  TaskFiles(a)'
BY DEF TaskFiles, Live, Finished

(* A step of the only running task keeps the invariant when it keeps what  *)
(* TaskFiles says of that task, and answers 200 only with the data stored. *)
LEMMA TaskStep ==
  ASSUME UploadInv, TypeInv', NEW a \in Attempts, Live(a),
         UNCHANGED <<up, attempt, key>>,
         \A b \in Attempts \ {a} : handler'[b] = handler[b],
         TaskFiles(a)', handler'[a].pc = "ok" => Stored'
  PROVE  UploadInv'
<1> USE DEF UploadInv
<1>1. \A b \in Attempts \ {a} : ~Live(b) /\ ~Live(b)'
  BY DEF OneTask, Live
<1>2. ~Acked /\ ~key /\ ~Acked' /\ ~key'
  BY DEF OneTask, Acked
<1>3. a <= attempt
  BY DEF OneTask, Live, Finished, TypeInv, TypeOK, Attempts
<1>4. OneTask'
  <2>1. \A b, c \in Attempts : Live(b)' /\ Live(c)' => b = c
    BY <1>1
  <2>2. \A b \in Attempts : b > attempt' => handler'[b].pc = "idle" /\ handler'[b].off = 0
    BY <1>3 DEF OneTask, TypeInv, TypeOK, Attempts
  <2>3. up' = "wait" => \A b \in Attempts : Live(b)' => b = attempt'
    BY <1>1 DEF OneTask
  <2> QED
    BY <1>2, <2>1, <2>2, <2>3 DEF OneTask, Live
<1>5. \A b \in Attempts : TaskFiles(b)'
  BY <1>1, EndedTaskNext
<1>6. up' = "wait" /\ handler'[attempt'].pc = "ok" => Stored'
  BY DEF OneTask
<1> QED
  BY <1>2, <1>4, <1>5, <1>6

(* Steps that leave every task where it is keep what TaskFiles says.       *)
LEMMA TasksRest ==
  ASSUME \A a \in Attempts : TaskFiles(a), UNCHANGED <<temp, dest, registered>>,
         \A a \in Attempts : /\ handler'[a].pc = handler[a].pc
                             /\ handler'[a].off = handler[a].off
  PROVE  \A a \in Attempts : TaskFiles(a)' /\ (Live(a)' <=> Live(a))
BY DEF TaskFiles, Live

(* Without overlapping requests every step keeps the invariant.            *)
LEMMA UploadStep == ~Overlap /\ UploadInv /\ [Next]_vars => UploadInv'
<1> SUFFICES ASSUME ~Overlap, UploadInv, [Next]_vars PROVE UploadInv'
  OBVIOUS
<1>t. TypeInv /\ TypeInv'
  BY TypeStep DEF UploadInv
<1> USE DEF files, services, peers
<1>1. CASE Prepare
  <2>1. \A a \in Attempts : TaskFiles(a)' /\ (Live(a)' <=> Live(a))
    BY <1>1, TasksRest DEF Prepare, UploadInv
  <2> QED
    BY <1>1, <1>t, <2>1 DEF Prepare, UploadInv, OneTask, Acked, Stored
<1>2. CASE SendUpload
  <2>1. attempt + 1 \in Attempts /\ "head" \in HandlerPc
    BY <1>2, <1>t DEF SendUpload, TypeInv, TypeOK, Attempts, HandlerPc
  <2>2. PICK n \in Attempts : n = attempt + 1
    BY <2>1
  <2>3. handler[n].off = 0
    BY <1>t, <2>2 DEF UploadInv, OneTask, TypeInv, TypeOK
  <2>4. /\ handler'[n].pc = "head" /\ handler'[n].off = 0
        /\ \A b \in Attempts \ {n} : handler'[b] = handler[b]
    BY <1>2, <1>t, <2>1, <2>2, <2>3, PcUpdate DEF SendUpload, TypeInv, TypeOK
  <2>5. \A b \in Attempts \ {n} : ~Live(b)'
    BY <1>2, <2>4 DEF SendUpload, Live
  <2>6. \A b \in Attempts : TaskFiles(b)'
    <3>1. TaskFiles(n)'
      BY <2>4 DEF TaskFiles
    <3> QED
      BY <2>5, <3>1, EndedTaskNext
  <2>7. up' = "wait" /\ attempt' = n /\ key' = key /\ ~Acked /\ ~key
    BY <1>2, <2>2 DEF SendUpload, Acked, UploadInv
  <2>8. OneTask'
    BY <1>t, <2>2, <2>4, <2>5, <2>7
    DEF OneTask, Acked, UploadInv, TypeInv, TypeOK, Attempts
  <2> QED
    BY <1>t, <2>4, <2>6, <2>7, <2>8 DEF UploadInv, Acked
<1>3. CASE ConnectionRefused
  <2>1. \A a \in Attempts : TaskFiles(a)' /\ (Live(a)' <=> Live(a))
    BY <1>3, TasksRest DEF ConnectionRefused, UploadInv
  <2> QED
    BY <1>3, <1>t, <2>1
    DEF ConnectionRefused, AfterFailedAttempt, UploadInv, OneTask, Acked, Stored,
        TypeInv, TypeOK, Attempts
<1>4. CASE ReceiveAnswer
  <2>1. \A a \in Attempts : TaskFiles(a)' /\ (Live(a)' <=> Live(a))
    BY <1>4, TasksRest DEF ReceiveAnswer, UploadInv
  <2>2. \A a \in Attempts : ~Live(a)
    BY <1>4 DEF ReceiveAnswer, UploadInv, OneTask, Live, Finished
  <2> QED
    BY <1>4, <1>t, <2>1, <2>2
    DEF ReceiveAnswer, AfterFailedAttempt, UploadInv, OneTask, Acked, Stored
<1>5. CASE ConnectionLost
  <2>1. attempt \in Attempts /\ TRUE \in BOOLEAN
    BY <1>5, <1>t DEF ConnectionLost, TypeInv
  <2>2. \A a \in Attempts : /\ handler'[a].pc = handler[a].pc
                            /\ handler'[a].off = handler[a].off
    BY <1>5, <1>t, <2>1, OrphanUpdate DEF ConnectionLost, TypeInv, TypeOK
  <2>3. \A a \in Attempts : TaskFiles(a)' /\ (Live(a)' <=> Live(a))
    BY <1>5, <2>2, TasksRest DEF ConnectionLost, UploadInv
  <2> QED
    BY <1>5, <1>t, <2>2, <2>3
    DEF ConnectionLost, AfterFailedAttempt, UploadInv, OneTask, Acked, Stored
<1>6. CASE SendShutdown \/ ShutdownAnswered \/ ShutdownFails
  <2>1. \A a \in Attempts : TaskFiles(a)' /\ (Live(a)' <=> Live(a))
    BY <1>6, TasksRest DEF SendShutdown, ShutdownAnswered, ShutdownFails, UploadInv
  <2> QED
    BY <1>6, <1>t, <2>1
    DEF SendShutdown, ShutdownAnswered, ShutdownFails, UploadInv, OneTask, Acked,
        Stored
<1>7. CASE RegisterKey
  <2>1. \A a \in Attempts : TaskFiles(a)' /\ (Live(a)' <=> Live(a))
    BY <1>7, TasksRest DEF RegisterKey, UploadInv
  <2>2. Acked /\ UNCHANGED <<dest, registered, handler, attempt>>
    BY <1>7 DEF RegisterKey, Acked
  <2>3. up' \in {"done", "failed"}
    BY <1>7 DEF RegisterKey
  <2> QED
    BY <1>t, <2>1, <2>2, <2>3 DEF UploadInv, OneTask, Stored
<1>8. CASE UploaderCrash
  <2>1. \A a \in Attempts : /\ handler'[a].pc = handler[a].pc
                            /\ handler'[a].off = handler[a].off
    <3>1. CASE up = "wait"
      <4>1. attempt \in Attempts /\ TRUE \in BOOLEAN
        BY <1>t, <3>1 DEF TypeInv
      <4> QED
        BY <1>8, <1>t, <3>1, <4>1, OrphanUpdate DEF UploaderCrash, TypeInv, TypeOK
    <3> QED
      BY <1>8, <3>1 DEF UploaderCrash
  <2>2. \A a \in Attempts : TaskFiles(a)' /\ (Live(a)' <=> Live(a))
    BY <1>8, <2>1, TasksRest DEF UploaderCrash, UploadInv
  <2> QED
    BY <1>8, <1>t, <2>1, <2>2 DEF UploaderCrash, UploadInv, OneTask, Acked, Stored
<1>9. CASE Server \/ UNCHANGED vars
  <2>1. UNCHANGED <<up, attempt, handler, temp, dest, registered, key>>
    BY <1>9 DEF Server, ServerStart, ServeShutdown, ServerExit, vars
  <2>2. \A a \in Attempts : TaskFiles(a)' /\ (Live(a)' <=> Live(a))
    BY <2>1, TasksRest DEF UploadInv
  <2> QED
    BY <1>t, <2>1, <2>2 DEF UploadInv, OneTask, Acked, Stored
<1>10. ASSUME NEW a \in Attempts, HandlerStep(a) \/ HandlerFault(a)
       PROVE  UploadInv'
  <2>1. /\ Live(a) /\ TaskFiles(a)
        /\ UNCHANGED <<up, attempt, key>>
    BY <1>10
    DEF HandlerStep, HandlerFault, CheckTemp, OpenTemp, CreateNewFails,
        ReceiveChunk, EndOfFile, ReadFields, OpenDest, CopyChunk, CopyDone,
        CreateDomainData, HandlerOk, HandlerFails, HandlerDropped, Step, Live,
        Finished, Awaiting, UploadInv
  <2>2. /\ handler \in [Attempts -> HandlerState]
        /\ handler[a].off \in Nat
    BY <1>t DEF TypeInv, TypeOK, HandlerState
  <2>3. handler[a].append \in BOOLEAN
    BY <2>2, Zenon DEF HandlerState
  <2>4. ASSUME NEW p \in HandlerPc, handler' = [handler EXCEPT ![a].pc = p]
        PROVE  /\ handler'[a].pc = p /\ handler'[a].off = handler[a].off
               /\ \A b \in Attempts \ {a} : handler'[b] = handler[b]
    BY <2>2, <2>4, PcUpdate
  <2>5. CASE CheckTemp(a)
    <3>1. /\ handler'[a].pc = "open" /\ handler'[a].off = handler[a].off
          /\ \A b \in Attempts \ {a} : handler'[b] = handler[b]
      BY <2>2, <2>5 DEF CheckTemp, HandlerState
    <3>2. TaskFiles(a)'
      BY <2>1, <2>5, <3>1 DEF CheckTemp, TaskFiles
    <3> QED
      BY <1>t, <2>1, <3>1, <3>2, TaskStep
  <2>6. CASE OpenTemp(a)
    <3>1. /\ handler'[a].pc = "recv" /\ handler'[a].off = 0 /\ temp' = <<>>
          /\ \A b \in Attempts \ {a} : handler'[b] = handler[b]
      BY <2>1, <2>4, <2>6 DEF OpenTemp, Step, HandlerPc, TaskFiles
    <3>2. TaskFiles(a)'
      BY <3>1, PrefixZero DEF TaskFiles
    <3> QED
      BY <1>t, <2>1, <3>1, <3>2, TaskStep
  <2>7. CASE ReceiveChunk(a)
    <3>1. handler[a].off \in 0..(NChunks - 1) /\ temp = Prefix(handler[a].off)
      BY <2>1, <2>2, <2>7 DEF ReceiveChunk, TaskFiles
    <3>2. temp' = Prefix(handler[a].off + 1)
      BY <2>2, <2>3, <2>7, <3>1, WriteChunkPrefix, Zenon DEF ReceiveChunk
    <3>3. /\ handler'[a].pc = "recv" /\ handler'[a].off = handler[a].off + 1
          /\ \A b \in Attempts \ {a} : handler'[b] = handler[b]
      BY <2>2, <2>7, OffUpdate DEF ReceiveChunk
    <3>4. TaskFiles(a)'
      BY <3>1, <3>2, <3>3 DEF TaskFiles
    <3> QED
      BY <1>t, <2>1, <3>3, <3>4, TaskStep
  <2>8. CASE EndOfFile(a) \/ ReadFields(a)
    <3>1. /\ temp' = Encrypted /\ handler'[a].pc \in {"fields", "source"}
          /\ \A b \in Attempts \ {a} : handler'[b] = handler[b]
      BY <2>1, <2>4, <2>8
      DEF EndOfFile, ReadFields, Step, HandlerPc, TaskFiles, Encrypted
    <3>2. TaskFiles(a)'
      BY <3>1 DEF TaskFiles
    <3> QED
      BY <1>t, <2>1, <3>1, <3>2, TaskStep
  <2>9. CASE OpenDest(a)
    <3>1. /\ handler'[a].pc = "copy" /\ handler'[a].off = 0
          /\ \A b \in Attempts \ {a} : handler'[b] = handler[b]
      BY <2>2, <2>9 DEF OpenDest, HandlerState
    <3>2. temp' = Encrypted /\ dest' = <<>>
      BY <2>1, <2>9 DEF OpenDest, TaskFiles
    <3>3. TaskFiles(a)'
      BY <3>1, <3>2, PrefixZero DEF TaskFiles
    <3> QED
      BY <1>t, <2>1, <3>1, <3>3, TaskStep
  <2>10. CASE CopyChunk(a)
    <3>1. /\ handler[a].off \in 0..(NChunks - 1)
          /\ temp = Encrypted /\ dest = Prefix(handler[a].off)
      BY <2>1, <2>2, <2>10, EncryptedFile DEF CopyChunk, TaskFiles
    <3>2. temp[handler[a].off + 1] = handler[a].off + 1
      BY <3>1, EncryptedFile
    <3>3. dest' = Prefix(handler[a].off + 1)
      BY <2>2, <2>10, <3>1, <3>2, WriteChunkPrefix, Zenon DEF CopyChunk
    <3>4. /\ handler'[a].pc = "copy" /\ handler'[a].off = handler[a].off + 1
          /\ \A b \in Attempts \ {a} : handler'[b] = handler[b]
      BY <2>2, <2>10, OffUpdate DEF CopyChunk
    <3>5. temp' = Encrypted /\ handler'[a].off \in 0..NChunks
      BY <2>10, <3>1, <3>4 DEF CopyChunk
    <3>6. TaskFiles(a)'
      BY <3>3, <3>4, <3>5 DEF TaskFiles
    <3> QED
      BY <1>t, <2>1, <3>4, <3>6, TaskStep
  <2>11. CASE CopyDone(a)
    <3>1. dest' = Encrypted
      BY <2>1, <2>2, <2>11, EncryptedFile DEF CopyDone, Step, TaskFiles, Encrypted
    <3>2. /\ handler'[a].pc = "create"
          /\ \A b \in Attempts \ {a} : handler'[b] = handler[b]
      BY <2>4, <2>11 DEF CopyDone, Step, HandlerPc
    <3>3. TaskFiles(a)'
      BY <3>1, <3>2 DEF TaskFiles
    <3> QED
      BY <1>t, <2>1, <3>2, <3>3, TaskStep
  <2>12. CASE CreateDomainData(a)
    <3>1. dest' = Encrypted /\ registered'
      BY <2>1, <2>12 DEF CreateDomainData, Step, TaskFiles
    <3>2. /\ handler'[a].pc = "created"
          /\ \A b \in Attempts \ {a} : handler'[b] = handler[b]
      BY <2>4, <2>12 DEF CreateDomainData, Step, HandlerPc
    <3>3. TaskFiles(a)'
      BY <3>1, <3>2 DEF TaskFiles
    <3> QED
      BY <1>t, <2>1, <3>2, <3>3, TaskStep
  <2>13. CASE HandlerOk(a)
    <3>1. Stored'
      BY <2>1, <2>13 DEF HandlerOk, Step, TaskFiles, Stored
    <3>2. /\ handler'[a].pc = "ok"
          /\ \A b \in Attempts \ {a} : handler'[b] = handler[b]
      BY <2>4, <2>13 DEF HandlerOk, Step, HandlerPc
    <3>3. TaskFiles(a)'
      BY <3>2 DEF TaskFiles
    <3> QED
      BY <1>t, <2>1, <3>1, <3>2, <3>3, TaskStep
  <2>14. CASE CreateNewFails(a) \/ HandlerFails(a) \/ HandlerDropped(a)
    <3>1. /\ handler'[a].pc \in {"err", "dropped"}
          /\ \A b \in Attempts \ {a} : handler'[b] = handler[b]
      BY <2>4, <2>14
      DEF CreateNewFails, HandlerFails, HandlerDropped, Step, HandlerPc
    <3>2. TaskFiles(a)'
      BY <3>1 DEF TaskFiles
    <3> QED
      BY <1>t, <2>1, <3>1, <3>2, TaskStep
  <2> QED
    BY <1>10, <2>5, <2>6, <2>7, <2>8, <2>9, <2>10, <2>11, <2>12, <2>13, <2>14
    DEF HandlerStep, HandlerFault
<1> QED
  BY <1>1, <1>2, <1>3, <1>4, <1>5, <1>6, <1>7, <1>8, <1>9, <1>10
  DEF Next, Uploader, UploaderFault

(* The initial states satisfy the invariant.                               *)
LEMMA UploadInit == Init => UploadInv
<1> SUFFICES ASSUME Init PROVE UploadInv
  OBVIOUS
<1>1. /\ up = "prepare" /\ ~key
      /\ \A a \in Attempts : handler[a].pc = "idle" /\ handler[a].off = 0
  BY DEF Init
<1> QED
  BY <1>1, TypeInit, EndedTask DEF UploadInv, OneTask, Live, Finished, Acked

(* When an abandoned request has ended before the next one is sent, an     *)
(* acknowledged upload is stored completely and listed by the data mesh,   *)
(* and stays so, for every number of attempts and of chunks.               *)
THEOREM AckedStored == ~Overlap => (Spec => []AckedMeansStored)
<1> SUFFICES ASSUME ~Overlap PROVE Spec => []AckedMeansStored
  OBVIOUS
<1>1. UploadInv => AckedMeansStored
  BY DEF UploadInv, AckedMeansStored, Stored
<1>2. UploadInv /\ [Next]_vars => UploadInv'
  BY UploadStep
<1> QED
  BY <1>1, <1>2, UploadInit, PTL DEF Spec

(* Under the same assumption the upload implements SealedStore: the key    *)
(* reaches the Capsule Manager only for a complete and listed file, and    *)
(* neither changes afterwards.                                             *)
THEOREM UploadSeals == ~Overlap => (Spec => SealedSpec)
<1> SUFFICES ASSUME ~Overlap PROVE Spec => SealedSpec
  OBVIOUS
<1> USE DEF Sealed!vars
<1>1. Init => Sealed!Init
  BY EncryptedFile DEF Init, Sealed!Init
<1>2. UploadInv /\ [Next]_vars => UploadInv'
  BY UploadStep
<1>3. UploadInv /\ UploadInv' /\ [Next]_vars => [Sealed!Next]_(Sealed!vars)
  <2> SUFFICES ASSUME UploadInv, UploadInv', [Next]_vars
               PROVE  [Sealed!Next]_(Sealed!vars)
    OBVIOUS
  <2> USE DEF files, services, peers
  <2>1. CASE RegisterKey
    BY <2>1 DEF RegisterKey, UploadInv, Acked, Stored, Sealed!Next, Sealed!Release
  <2>2. ASSUME ~RegisterKey PROVE key' = key /\ (registered => registered')
    <3>1. ASSUME NEW a \in Attempts, HandlerStep(a) \/ HandlerFault(a)
          PROVE  key' = key /\ (registered' = registered \/ registered' = TRUE)
      BY <3>1, Zenon
      DEF HandlerStep, HandlerFault, CheckTemp, OpenTemp, CreateNewFails,
          ReceiveChunk, EndOfFile, ReadFields, OpenDest, CopyChunk, CopyDone,
          CreateDomainData, HandlerOk, HandlerFails, HandlerDropped
    <3>2. ASSUME Uploader \/ UploaderFault \/ Server \/ UNCHANGED vars
          PROVE  key' = key /\ registered' = registered
      BY <2>2, <3>2
      DEF Uploader, UploaderFault, Server, Prepare, SendUpload,
          ConnectionRefused, ReceiveAnswer, ConnectionLost, SendShutdown,
          ShutdownAnswered, ShutdownFails, UploaderCrash, ServerStart,
          ServeShutdown, ServerExit, vars
    <3>3. Next \/ UNCHANGED vars
      OBVIOUS
    <3>4. key' = key /\ (registered' = registered \/ registered' = TRUE)
      BY <3>1, <3>2, <3>3 DEF Next
    <3>5. CASE registered' = registered
      BY <3>4, <3>5
    <3>6. CASE registered' = TRUE
      BY <3>4, <3>6
    <3> QED
      BY <3>4, <3>5, <3>6
  <2>3. ASSUME ~RegisterKey, key PROVE UNCHANGED <<dest, registered>>
    <3>1. \A a \in Attempts : ~Live(a)
      BY <2>3 DEF UploadInv, OneTask
    <3>2. ASSUME NEW a \in Attempts, HandlerStep(a) PROVE FALSE
      <4>1. handler[a].pc \notin Finished
        <5>1. CASE CheckTemp(a) \/ OpenTemp(a) \/ CreateNewFails(a) \/ ReceiveChunk(a)
          BY <5>1 DEF CheckTemp, OpenTemp, CreateNewFails, ReceiveChunk, Step, Finished
        <5>2. CASE EndOfFile(a) \/ ReadFields(a) \/ OpenDest(a) \/ CopyChunk(a)
          BY <5>2 DEF EndOfFile, ReadFields, OpenDest, CopyChunk, Step, Finished
        <5>3. CASE CopyDone(a) \/ CreateDomainData(a) \/ HandlerOk(a)
          BY <5>3 DEF CopyDone, CreateDomainData, HandlerOk, Step, Finished
        <5> QED
          BY <3>2, <5>1, <5>2, <5>3 DEF HandlerStep
      <4> QED
        BY <3>1, <4>1 DEF Live
    <3>3. ASSUME NEW a \in Attempts, HandlerFault(a) PROVE FALSE
      BY <3>1, <3>3
      DEF HandlerFault, HandlerFails, HandlerDropped, Live, Finished, Awaiting
    <3> QED
      BY <2>3, <3>2, <3>3
      DEF Next, Uploader, UploaderFault, Server, Prepare, SendUpload,
          ConnectionRefused, ReceiveAnswer, ConnectionLost, SendShutdown,
          ShutdownAnswered, ShutdownFails, UploaderCrash, ServerStart,
          ServeShutdown, ServerExit, vars
  <2>4. registered' \in BOOLEAN /\ key \in BOOLEAN
    BY DEF UploadInv, TypeInv, TypeOK
  <2>5. CASE ~RegisterKey /\ key
    BY <2>2, <2>3, <2>5
  <2>6. CASE ~RegisterKey /\ ~key
    <3>1. key' = FALSE /\ (registered => registered')
      BY <2>2, <2>4, <2>6
    <3> QED
      BY <2>4, <2>6, <3>1 DEF Sealed!Next, Sealed!Change
  <2> QED
    BY <2>1, <2>5, <2>6
<1> QED
  BY <1>1, <1>2, <1>3, UploadInit, PTL DEF Spec, SealedSpec, Sealed!Spec
-----------------------------------------------------------------------------
(* Requests may overlap now.  What the uploader's progress says of the     *)
(* registration and of the server does not depend on the files.            *)
Stopping == server \in {"draining", "exited"}

KeyInv ==
  /\ \A a \in Attempts : handler[a].pc \in {"created", "ok"} => registered
  /\ Acked => registered
  /\ stop = "served" \/ up \in {"register", "done"} => Stopping
  /\ key => registered /\ Stopping

(* The steps of the uploader and of the server keep KeyInv.                *)
LEMMA KeyUploaderStep ==
  ASSUME TypeInv, KeyInv, Uploader \/ UploaderFault \/ Server \/ UNCHANGED vars
  PROVE  KeyInv'
<1> USE DEF KeyInv, Stopping, Acked, files, services, peers
<1>1. ASSUME handler' = handler, registered' = registered
      PROVE  \A a \in Attempts : handler'[a].pc \in {"created", "ok"} => registered'
  BY <1>1
<1>2. CASE Prepare
  BY <1>1, <1>2 DEF Prepare
<1>3. CASE SendUpload
  <2>1. attempt + 1 \in Attempts /\ handler \in [Attempts -> HandlerState]
    BY <1>3 DEF SendUpload, TypeInv, TypeOK, Attempts
  <2>2. \A a \in Attempts : handler'[a].pc \in {"created", "ok"}
                             => handler[a].pc \in {"created", "ok"}
    BY <1>3, <2>1 DEF SendUpload, HandlerState
  <2> QED
    BY <1>3, <2>2 DEF SendUpload
<1>4. CASE ConnectionRefused
  BY <1>1, <1>4 DEF ConnectionRefused, AfterFailedAttempt
<1>5. CASE ReceiveAnswer
  <2>1. handler[attempt].pc = "ok" => registered
    BY <1>5 DEF ReceiveAnswer, TypeInv
  <2> QED
    BY <1>1, <1>5, <2>1 DEF ReceiveAnswer, AfterFailedAttempt
<1>6. CASE SendShutdown
  BY <1>1, <1>6 DEF SendShutdown
<1>7. CASE ShutdownAnswered
  BY <1>1, <1>7 DEF ShutdownAnswered
<1>8. CASE RegisterKey
  BY <1>1, <1>8 DEF RegisterKey
<1>9. CASE ConnectionLost \/ UploaderCrash
  <2>1. handler \in [Attempts -> HandlerState]
    BY DEF TypeInv, TypeOK
  <2>2. \A a \in Attempts : handler'[a].pc = handler[a].pc
    BY <1>9, <2>1 DEF ConnectionLost, UploaderCrash, HandlerState
  <2> QED
    BY <1>9, <2>2 DEF ConnectionLost, UploaderCrash, AfterFailedAttempt
<1>10. CASE ShutdownFails
  BY <1>1, <1>10 DEF ShutdownFails
<1>11. CASE Server
  <2>1. UNCHANGED <<up, attempt, handler, files, services>>
    BY <1>11 DEF Server, ServerStart, ServeShutdown, ServerExit
  <2>2. /\ Stopping => Stopping'
        /\ stop' = "served" => stop = "served" \/ Stopping'
    BY <1>11 DEF Server, ServerStart, ServeShutdown, ServerExit
  <2> QED
    BY <1>1, <2>1, <2>2
<1>12. CASE UNCHANGED vars
  BY <1>1, <1>12 DEF vars
<1> QED
  BY <1>2, <1>3, <1>4, <1>5, <1>6, <1>7, <1>8, <1>9, <1>10, <1>11, <1>12
  DEF Uploader, UploaderFault

(* A task reaches "created" only by registering the data.                  *)
LEMMA KeyHandlerStep ==
  ASSUME TypeInv, KeyInv, NEW a \in Attempts, HandlerStep(a) \/ HandlerFault(a)
  PROVE  KeyInv'
<1> USE DEF files, services, peers
<1>1. UNCHANGED <<up, stop, server, key>>
  BY Zenon
  DEF HandlerStep, HandlerFault, CheckTemp, OpenTemp, CreateNewFails,
      ReceiveChunk, EndOfFile, ReadFields, OpenDest, CopyChunk, CopyDone,
      CreateDomainData, HandlerOk, HandlerFails, HandlerDropped
<1>2. handler \in [Attempts -> HandlerState]
  BY DEF TypeInv, TypeOK
<1>3. CASE CreateDomainData(a)
  <2>1. registered'
    BY <1>3 DEF CreateDomainData
  <2> QED
    BY <1>1, <2>1 DEF KeyInv, Stopping, Acked
<1>4. CASE HandlerOk(a)
  <2>1. registered /\ registered' = registered
    BY <1>4 DEF HandlerOk, Step, KeyInv
  <2> QED
    BY <1>1, <2>1 DEF KeyInv, Stopping, Acked
<1>5. CASE ~CreateDomainData(a) /\ ~HandlerOk(a)
  <2>1. registered' = registered
    BY <1>5, Zenon
    DEF HandlerStep, HandlerFault, CheckTemp, OpenTemp, CreateNewFails,
        ReceiveChunk, EndOfFile, ReadFields, OpenDest, CopyChunk, CopyDone,
        HandlerFails, HandlerDropped
  <2>2. handler'[a].pc \in {"created", "ok"} => handler[a].pc \in {"created", "ok"}
    <3>1. CASE CheckTemp(a)
      BY <1>2, <3>1 DEF CheckTemp, HandlerState
    <3>2. CASE OpenDest(a)
      BY <1>2, <3>2 DEF OpenDest, HandlerState
    <3>3. CASE ReceiveChunk(a) \/ CopyChunk(a)
      BY <1>2, <3>3 DEF ReceiveChunk, CopyChunk, HandlerState
    <3>4. CASE OpenTemp(a) \/ CreateNewFails(a) \/ EndOfFile(a) \/ ReadFields(a)
      BY <1>2, <3>4 DEF OpenTemp, CreateNewFails, EndOfFile, ReadFields, Step, HandlerState
    <3>5. CASE CopyDone(a) \/ HandlerFails(a) \/ HandlerDropped(a)
      BY <1>2, <3>5 DEF CopyDone, HandlerFails, HandlerDropped, Step, HandlerState
    <3> QED
      BY <1>5, <3>1, <3>2, <3>3, <3>4, <3>5, Zenon DEF HandlerStep, HandlerFault
  <2>3. \A b \in Attempts \ {a} : handler'[b] = handler[b]
    BY <1>2, <1>5, Zenon
    DEF HandlerStep, HandlerFault, CheckTemp, OpenTemp, CreateNewFails,
        ReceiveChunk, EndOfFile, ReadFields, OpenDest, CopyChunk, CopyDone,
        HandlerFails, HandlerDropped, Step
  <2>4. \A b \in Attempts : handler'[b].pc \in {"created", "ok"} => registered'
    BY <2>1, <2>2, <2>3 DEF KeyInv
  <2> QED
    BY <1>1, <2>1, <2>4 DEF KeyInv, Stopping, Acked
<1> QED
  BY <1>3, <1>4, <1>5

(* Even when requests overlap and damage each other's files, the Capsule   *)
(* Manager gets the key only for data that the data mesh lists, and after  *)
(* the dmserver has stopped taking requests (main.py 165-186).             *)
THEOREM KeyLast == Spec => []KeyAfterShutdown
<1>1. Init => KeyInv
  BY DEF Init, KeyInv, Stopping, Acked
<1>2. TypeInv /\ KeyInv /\ [Next]_vars => KeyInv'
  BY KeyUploaderStep, KeyHandlerStep DEF Next
<1>3. KeyInv => KeyAfterShutdown
  BY DEF KeyInv, KeyAfterShutdown, Stopping
<1> QED
  BY <1>1, <1>2, <1>3, TypeInit, TypeStep, PTL DEF Spec
=============================================================================
