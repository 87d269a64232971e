------------------------------ MODULE CryptoFile ------------------------------
(***************************************************************************)
(* The format of an encrypted file: EncryptFile writes a header (version,  *)
(* schema, packet count, block length) and blocks of kBlockBytes bytes,    *)
(* the last one shorter; DecryptFile checks the header against the length  *)
(* of the file and decrypts block by block.  The file may be damaged in    *)
(* between: cut or extended at its end, with other numbers in its header,  *)
(* or both.  Blocks stay where they were written.                          *)
(*                                                                         *)
(* Bytes are counted.  A block is the record of the place where it starts  *)
(* and of the part of the plaintext it holds; a read that is not exactly a *)
(* block that was written does not authenticate.  Arithmetic on packet_cnt *)
(* (uint64_t) is modulo Word.                                              *)
(***************************************************************************)
EXTENDS Integers

CONSTANTS kBlockBytes,    \* bytes of a full block (8192)
          HeaderLen,      \* bytes of the file header (20)
          BlockHeaderLen, \* bytes of IV, tag and their lengths (66)
          Word,           \* 2^64
          BlockWord,      \* 2^32
          RawLens,        \* lengths of plaintexts
          KeyLens,        \* lengths of data keys
          MaxLen          \* bound on the length of a damaged file

(* block_data_len and packet_cnt of EncryptFile.                           *)
BlockDataLen == kBlockBytes - BlockHeaderLen

(* Fault: a plaintext that ends with a block gets another, empty one.      *)
PacketCntPlusOne(len) == len \div BlockDataLen + 1

PacketCnt(len) ==
  len \div BlockDataLen + IF len % BlockDataLen # 0 THEN 1 ELSE 0

(* A block has room for data, and encrypted files fit the file system.     *)
ASSUME SizeAssumption ==
  /\ kBlockBytes \in Nat /\ HeaderLen \in Nat /\ BlockHeaderLen \in Nat \ {0}
  /\ BlockHeaderLen < kBlockBytes /\ kBlockBytes < BlockWord
  /\ BlockWord \in Nat /\ Word \in Nat /\ MaxLen \in Nat
  /\ RawLens \subseteq Nat /\ KeyLens \subseteq Nat /\ MaxLen < Word
  /\ \A n \in RawLens : HeaderLen + PacketCnt(n) * kBlockBytes < Word

VARIABLES pc,      \* where the two functions are
          raw,     \* length of the plaintext
          key_len, \* length of the data key
          file,    \* the encrypted file
          damaged, \* it is not the file EncryptFile wrote
          i,       \* loop counter of either function
          pos,     \* position of the input stream of either function
          out      \* plaintext bytes DecryptFile has written, or Garbled

vars == <<pc, raw, key_len, file, damaged, i, pos, out>>

Garbled == -1
AesKeyLens == {16, 32}

Init ==
  /\ pc = "raw"
  /\ raw \in RawLens
  /\ key_len \in KeyLens
  /\ file = [packet_cnt |-> 0, block_len |-> 0, len |-> 0, blocks |-> {}]
  /\ damaged = FALSE
  /\ i = 0 /\ pos = 0 /\ out = 0
-----------------------------------------------------------------------------
(* EncryptFile.                                                            *)

(* The header; an empty file has no packet and is refused before that.     *)
EncryptFile ==
  /\ pc = "raw"
  /\ \/ /\ PacketCnt(raw) >= 1
        /\ pc' = "encrypting"
        /\ file' = [file EXCEPT !.packet_cnt = PacketCnt(raw),
                                !.block_len = kBlockBytes, !.len = HeaderLen]
     \/ PacketCnt(raw) < 1 /\ pc' = "failed" /\ UNCHANGED file
  /\ UNCHANGED <<raw, key_len, damaged, i, pos, out>>

LastBlock == i = file.packet_cnt - 1

RawBlockLen ==
  IF LastBlock THEN raw - (file.packet_cnt - 1) * BlockDataLen ELSE BlockDataLen

EncryptDataBlock ==
  /\ pc = "encrypting"
  /\ key_len \in AesKeyLens
  /\ file' = [file EXCEPT
       !.blocks = @ \cup {[at |-> file.len, off |-> pos, size |-> RawBlockLen]},
       !.len = @ + BlockHeaderLen + RawBlockLen]
  /\ pos' = pos + RawBlockLen
  /\ i' = i + 1
  /\ pc' = IF LastBlock THEN "stored" ELSE "encrypting"
  /\ UNCHANGED <<raw, key_len, damaged, out>>

(* A key that is neither an AES-128 nor an AES-256 key.                    *)
EncryptKeyError ==
  /\ pc = "encrypting" /\ key_len \notin AesKeyLens
  /\ pc' = "failed"
  /\ UNCHANGED <<raw, key_len, file, damaged, i, pos, out>>

(* Between the two functions the file changes its length, the numbers of   *)
(* its header, or both.                                                    *)
Damage ==
  /\ pc = "stored" /\ ~damaged
  /\ damaged' = TRUE
  /\ \E n \in (0..MaxLen) \cup {file.len},
        c \in 0..(Word - 1), b \in 0..(BlockWord - 1) :
       file' = [file EXCEPT !.len = n, !.packet_cnt = c, !.block_len = b]
  /\ file' # file
  /\ UNCHANGED <<pc, raw, key_len, i, pos, out>>
-----------------------------------------------------------------------------
(* DecryptFile.                                                            *)

Mul(m, n) == (m * n) % Word

(* Fault: the products are not checked for overflow.                       *)
HeaderOkUnchecked ==
  LET c == file.packet_cnt
      b == file.block_len
      body == file.len - HeaderLen
  IN  /\ body > 0 /\ c >= 1 /\ b # 0
      /\ body >= Mul(c - 1, b) /\ Mul(b, c) >= body

(* Fault: the header counts one block too many.                            *)
HeaderOkOffByOne ==
  LET c == file.packet_cnt
      b == file.block_len
      body == file.len - HeaderLen
  IN  /\ body > 0 /\ c >= 1 /\ b # 0
      /\ Mul(c - 1, b) \div b = c - 1 /\ Mul(c, b) \div b = c
      /\ body >= Mul(c, b) /\ Mul(b, c) >= body

HeaderOk ==
  LET c == file.packet_cnt
      b == file.block_len
      body == file.len - HeaderLen
  IN  /\ body > 0 /\ c >= 1 /\ b # 0
      /\ Mul(c - 1, b) \div b = c - 1 /\ Mul(c, b) \div b = c
      /\ body >= Mul(c - 1, b) /\ Mul(b, c) >= body

DecryptFile ==
  /\ pc = "stored"
  /\ pc' = IF HeaderOk THEN "decrypting" ELSE "refused"
  /\ i' = 0 /\ pos' = HeaderLen
  /\ UNCHANGED <<raw, key_len, file, damaged, out>>

(* The size of the buffer for the next read.                               *)
BlockLen ==
  IF LastBlock THEN file.len - HeaderLen - Mul(file.packet_cnt - 1, file.block_len)
  ELSE file.block_len

(* The next read gives exactly block b, all of it still in the file.       *)
Reads(b) ==
  /\ b.at = pos /\ BlockHeaderLen + b.size = BlockLen
  /\ pos + BlockLen <= file.len

(* Fault: an empty last block counts as the end of the file.               *)
DecryptDataBlockEmptyLast ==
  /\ pc = "decrypting"
  /\ \/ \E b \in file.blocks :
          /\ Reads(b)
          /\ out' = IF b.off = out THEN out + b.size ELSE Garbled
     \/ LastBlock /\ BlockLen = 0 /\ UNCHANGED out
  /\ pos' = pos + BlockLen
  /\ i' = i + 1
  /\ pc' = IF LastBlock THEN "done" ELSE "decrypting"
  /\ UNCHANGED <<raw, key_len, file, damaged>>

DecryptDataBlock ==
  /\ pc = "decrypting"
  /\ \E b \in file.blocks :
       /\ Reads(b)
       /\ out' = IF b.off = out THEN out + b.size ELSE Garbled
  /\ pos' = pos + BlockLen
  /\ i' = i + 1
  /\ pc' = IF LastBlock THEN "done" ELSE "decrypting"
  /\ UNCHANGED <<raw, key_len, file, damaged>>

(* A block is too short or does not authenticate.                          *)
DecryptError ==
  /\ pc = "decrypting"
  /\ \A b \in file.blocks : ~Reads(b)
  /\ pc' = "refused"
  /\ UNCHANGED <<raw, key_len, file, damaged, i, pos, out>>

Next ==
  \/ EncryptFile \/ EncryptDataBlock \/ EncryptKeyError \/ Damage
  \/ DecryptFile \/ DecryptDataBlock \/ DecryptError

Spec == Init /\ [][Next]_vars
-----------------------------------------------------------------------------
(* Properties.                                                             *)

(* The type of every variable.                                             *)
TypeOK ==
  /\ pc \in {"raw", "encrypting", "stored", "decrypting", "done", "failed", "refused"}
  /\ raw \in RawLens /\ key_len \in KeyLens /\ damaged \in BOOLEAN
  /\ file.packet_cnt \in 0..(Word - 1) /\ file.block_len \in 0..(BlockWord - 1)
  /\ file.len \in Nat
  /\ \A b \in file.blocks :
       b.at \in Nat /\ b.off \in Nat /\ b.size \in 1..BlockDataLen
  /\ i \in Nat /\ pos \in Nat /\ out \in Nat \cup {Garbled}

(* Whatever the header says, once DecryptFile has accepted it no read asks *)
(* for more than the file still has or for more than block_len, and the    *)
(* reads end exactly at the end of the file: the overflow and length       *)
(* checks (crypto_util.cc 227-238) are enough for the loop and for the     *)
(* size of the last block (242-250).                                       *)
ReadsExactly ==
  /\ pc = "decrypting" =>
       /\ BlockLen \in 0..file.block_len
       /\ pos + BlockLen <= file.len
  /\ pc = "done" => pos = file.len

(* DecryptFile accepts every file that EncryptFile has written: the count  *)
(* of EncryptFile (crypto_util.cc 337-342) passes the checks and the       *)
(* blocks are read where they were written.                                *)
EncryptedAccepted == pc = "refused" => damaged

(* DecryptFile succeeds only with the first packet_cnt blocks of the       *)
(* plaintext, each whole, once and in order, in a file that ends with the  *)
(* last of them.  A change of the length alone or of the header alone thus *)
(* never yields a part of the plaintext with a success; a file cut at the  *)
(* end of a block whose header counts the blocks left does, as no block    *)
(* says where it belongs (crypto_util.cc 227-250).                         *)
DecryptsCounted ==
  pc = "done" =>
    /\ file.packet_cnt \in 1..PacketCnt(raw)
    /\ out = IF file.packet_cnt = PacketCnt(raw) THEN raw
             ELSE file.packet_cnt * BlockDataLen
    /\ file.len = HeaderLen + file.packet_cnt * BlockHeaderLen + out
=============================================================================
