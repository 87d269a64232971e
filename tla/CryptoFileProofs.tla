--------------------------- MODULE CryptoFileProofs ---------------------------
(***************************************************************************)
(* Proofs about CryptoFile, for every size of blocks and headers and every *)
(* length of the plaintext: the reads of DecryptFile fit the file, files   *)
(* of EncryptFile are accepted, and what is decrypted are the first blocks *)
(* of the plaintext, as many as the header counts.                         *)
(***************************************************************************)
EXTENDS CryptoFile, TLAPS

(* Quotient and remainder of packet_cnt's division.                        *)
LEMMA DivMod ==
  ASSUME NEW n \in Nat, NEW d \in Nat \ {0}
  PROVE  /\ n \div d \in Nat /\ n % d \in 0..(d - 1)
         /\ n = d * (n \div d) + (n % d)
  OBVIOUS

(* One more block adds its size to the product.                            *)
LEMMA MulDistr ==
  ASSUME NEW m \in Int, NEW n \in Int, NEW k \in Int
  PROVE  (m + n) * k = m * k + n * k
  OBVIOUS

(* Products of lengths and counts are natural numbers.                     *)
LEMMA MulType ==
  ASSUME NEW m \in Nat, NEW n \in Nat
  PROVE  m * n \in Nat
  OBVIOUS

(* More blocks take no fewer bytes.                                        *)
LEMMA MulMono ==
  ASSUME NEW m \in Nat, NEW n \in Nat, NEW k \in Nat, m <= n
  PROVE  m * k <= n * k
  OBVIOUS

(* The products of the two bounds of DecryptFile commute.                  *)
LEMMA MulCommute ==
  ASSUME NEW m \in Nat, NEW n \in Nat
  PROVE  m * n = n * m
  OBVIOUS

(* The packet count of EncryptFile is the number of blocks that the        *)
(* plaintext needs: all but the last are full and the last is not empty.   *)
LEMMA PacketCntFacts ==
  ASSUME NEW n \in RawLens
  PROVE  /\ PacketCnt(n) \in Nat
         /\ n <= PacketCnt(n) * BlockDataLen
         /\ PacketCnt(n) >= 1 => (PacketCnt(n) - 1) * BlockDataLen < n
         /\ HeaderLen + PacketCnt(n) * kBlockBytes < Word
<1> DEFINE q == n \div BlockDataLen
           r == n % BlockDataLen
<1>1. n \in Nat /\ BlockDataLen \in Nat \ {0}
  BY SizeAssumption DEF BlockDataLen
<1>2. q \in Nat /\ r \in 0..(BlockDataLen - 1) /\ n = BlockDataLen * q + r
  BY <1>1, DivMod
<1>3. PacketCnt(n) = q + IF r # 0 THEN 1 ELSE 0
  BY DEF PacketCnt
<1> HIDE DEF q, r
<1>4. BlockDataLen * q = q * BlockDataLen
  BY <1>1, <1>2, MulCommute
<1>5. (q + 1) * BlockDataLen = q * BlockDataLen + BlockDataLen
  BY <1>1, <1>2, MulDistr
<1>6. (q - 1) * BlockDataLen = q * BlockDataLen - BlockDataLen
  BY <1>1, <1>2
<1>7. CASE r = 0
  BY <1>1, <1>2, <1>3, <1>4, <1>6, <1>7, SizeAssumption
<1>8. CASE r # 0
  BY <1>1, <1>2, <1>3, <1>4, <1>5, <1>8, SizeAssumption
<1> QED
  BY <1>7, <1>8

(* What the checks of DecryptFile establish about numbers of its header:   *)
(* none of the products wraps.                                             *)
LEMMA NoOverflow ==
  ASSUME NEW c \in 1..(Word - 1), NEW b \in Nat \ {0},
         Mul(c, b) \div b = c
  PROVE  Mul(c, b) = c * b
<1> DEFINE p == c * b
           m == Mul(c, b)
<1>1. p \in Nat /\ Word \in Nat \ {0} /\ c \in Nat
  BY SizeAssumption, MulType
<1>2. m = p % Word /\ m \div b = c
  BY DEF Mul
<1>3. b * c = p
  BY <1>1, MulCommute
<1> HIDE DEF p, m
<1>4. p % Word \in Nat /\ p \div Word \in Nat /\ p = Word * (p \div Word) + (p % Word)
  BY <1>1
<1>5. Word * (p \div Word) \in Nat
  BY <1>1, <1>4, MulType
<1>6. m \in Nat /\ m <= p
  BY <1>1, <1>2, <1>4, <1>5
<1>7. m = b * (m \div b) + (m % b) /\ m % b \in Nat
  BY <1>6, DivMod
<1>8. m >= p
  BY <1>1, <1>2, <1>3, <1>6, <1>7
<1>9. m = p
  BY <1>1, <1>6, <1>8
<1> QED
  BY <1>9 DEF m, p
-----------------------------------------------------------------------------
(* The inductive invariant.                                                *)

Cnt == PacketCnt(raw)

(* The length of the data of the last block, and of the whole file.        *)
Rest == raw - (Cnt - 1) * BlockDataLen
End == HeaderLen + (Cnt - 1) * kBlockBytes + BlockHeaderLen + Rest

(* Block k of the file that EncryptFile writes.                            *)
Piece(k) ==
  [at |-> HeaderLen + k * kBlockBytes, off |-> k * BlockDataLen,
   size |-> IF k = Cnt - 1 THEN Rest ELSE BlockDataLen]

Blocks == [at : Nat, off : Nat, size : 1..BlockDataLen]

TypeInv ==
  /\ pc \in {"raw", "encrypting", "stored", "decrypting", "done", "failed", "refused"}
  /\ raw \in RawLens /\ key_len \in KeyLens /\ damaged \in BOOLEAN
  /\ file \in [packet_cnt : 0..(Word - 1), block_len : 0..(BlockWord - 1),
               len : Nat, blocks : SUBSET Blocks]
  /\ i \in Nat /\ pos \in Nat /\ out \in Nat \cup {Garbled}

(* EncryptFile before its first block and in its loop.                     *)
EncInv ==
  /\ pc = "raw" => i = 0 /\ pos = 0 /\ file.blocks = {}
  /\ pc = "encrypting" =>
       /\ i < Cnt /\ pos = i * BlockDataLen
       /\ file.packet_cnt = Cnt /\ file.block_len = kBlockBytes
       /\ file.len = HeaderLen + i * kBlockBytes
       /\ file.blocks = {Piece(k) : k \in 0..(i - 1)}
  /\ pc \in {"raw", "encrypting"} => ~damaged
  /\ pc \in {"raw", "encrypting", "stored"} => out = 0

HeaderIntact == file.packet_cnt = Cnt /\ file.block_len = kBlockBytes

(* A finished file: its blocks are where they were written, and header and *)
(* length fit them unless it was damaged.                                  *)
FileInv ==
  pc \in {"stored", "decrypting", "done", "refused"} =>
    /\ Cnt >= 1
    /\ file.blocks = {Piece(k) : k \in 0..(Cnt - 1)}
    /\ ~damaged => HeaderIntact /\ file.len = End

(* DecryptFile in its loop: the header fits the file and the position the  *)
(* loop counter.                                                           *)
LoopInv ==
  pc = "decrypting" =>
    LET c == file.packet_cnt
        b == file.block_len
    IN  /\ c >= 1 /\ b >= 1 /\ i <= c - 1
        /\ Mul(c - 1, b) = (c - 1) * b
        /\ (c - 1) * b <= file.len - HeaderLen
        /\ file.len - HeaderLen <= (c - 1) * b + b
        /\ pos = HeaderLen + i * b

(* What has been read are the first i blocks, and what has been written is *)
(* their plaintext.                                                        *)
Chain ==
  \/ /\ i \in 0..(Cnt - 1)
     /\ pos = HeaderLen + i * kBlockBytes /\ out = i * BlockDataLen
  \/ i = Cnt /\ pos = End /\ out = raw

IInv ==
  /\ TypeInv /\ EncInv /\ FileInv /\ LoopInv
  /\ pc = "decrypting" => Chain
  /\ pc = "done" => Chain /\ pos = file.len /\ i = file.packet_cnt /\ i >= 1
  /\ pc = "refused" => damaged

(* The numbers of a plaintext that is not empty.                           *)
LEMMA CntFacts ==
  ASSUME raw \in RawLens
  PROVE  /\ raw \in Nat /\ Cnt \in Nat /\ BlockDataLen \in Nat \ {0}
         /\ Cnt < Word
         /\ Cnt >= 1 => Rest \in 1..BlockDataLen /\ End \in Nat
                         /\ Cnt - 1 \in Nat /\ (Cnt - 1) * kBlockBytes \in Nat
<1>1. /\ raw \in Nat /\ Cnt \in Nat /\ BlockDataLen \in Nat \ {0}
      /\ HeaderLen \in Nat /\ kBlockBytes \in Nat \ {0} /\ BlockHeaderLen \in Nat
  BY PacketCntFacts, SizeAssumption DEF Cnt, BlockDataLen
<1>2. /\ raw <= Cnt * BlockDataLen
      /\ Cnt >= 1 => (Cnt - 1) * BlockDataLen < raw
      /\ HeaderLen + Cnt * kBlockBytes < Word
  BY PacketCntFacts DEF Cnt
<1>3. Cnt <= Cnt * kBlockBytes
  BY <1>1, MulMono, MulCommute
<1>4. Cnt < Word
  BY <1>1, <1>2, <1>3, MulType, SizeAssumption
<1>5. ASSUME Cnt >= 1
      PROVE  Rest \in 1..BlockDataLen /\ Cnt - 1 \in Nat
  <2>1. Cnt * BlockDataLen = (Cnt - 1) * BlockDataLen + BlockDataLen
    BY <1>1
  <2>2. Cnt - 1 \in Nat /\ (Cnt - 1) * BlockDataLen \in Nat
    BY <1>1, <1>5, MulType
  <2> QED
    BY <1>1, <1>2, <1>5, <2>1, <2>2 DEF Rest
<1>6. ASSUME Cnt >= 1
      PROVE  (Cnt - 1) * kBlockBytes \in Nat /\ End \in Nat
  <2>1. (Cnt - 1) * kBlockBytes \in Nat
    BY <1>1, <1>5, <1>6, MulType
  <2> QED
    BY <1>1, <1>5, <1>6, <2>1 DEF End
<1> QED
  BY <1>1, <1>4, <1>5, <1>6

(* Multiples of the block size.                                            *)
LEMMA Multiples ==
  ASSUME NEW k \in Nat, NEW j \in Nat
  PROVE  /\ kBlockBytes = BlockHeaderLen + BlockDataLen
         /\ k * kBlockBytes \in Nat /\ k * BlockDataLen \in Nat
         /\ (k + 1) * kBlockBytes = k * kBlockBytes + kBlockBytes
         /\ (k + 1) * BlockDataLen = k * BlockDataLen + BlockDataLen
         /\ k < j => k * kBlockBytes < j * kBlockBytes
<1>1. kBlockBytes \in Nat \ {0} /\ BlockDataLen \in Nat /\ BlockHeaderLen \in Nat
  BY SizeAssumption DEF BlockDataLen
<1>2. k * kBlockBytes \in Nat /\ k * BlockDataLen \in Nat /\ j * kBlockBytes \in Nat
  BY <1>1, MulType
<1>3. (k + 1) * kBlockBytes = k * kBlockBytes + kBlockBytes
  BY <1>1, MulDistr
<1>4. (k + 1) * BlockDataLen = k * BlockDataLen + BlockDataLen
  BY <1>1, MulDistr
<1>5. ASSUME k < j PROVE k * kBlockBytes < j * kBlockBytes
  <2>1. (k + 1) * kBlockBytes <= j * kBlockBytes
    BY <1>1, <1>5, MulMono
  <2> QED
    BY <1>1, <1>2, <1>3, <2>1
<1> QED
  BY <1>1, <1>2, <1>3, <1>4, <1>5 DEF BlockDataLen

(* A block that EncryptFile writes is a block of the file.                 *)
LEMMA PieceType ==
  ASSUME raw \in RawLens, Cnt >= 1, NEW k \in 0..(Cnt - 1)
  PROVE  Piece(k) \in Blocks
<1>1. Rest \in 1..BlockDataLen /\ BlockDataLen \in 1..BlockDataLen
  BY CntFacts
<1>2. k \in Nat /\ HeaderLen \in Nat
  BY CntFacts, SizeAssumption
<1>3. k * kBlockBytes \in Nat /\ k * BlockDataLen \in Nat
  BY <1>2, Multiples
<1> QED
  BY <1>1, <1>2, <1>3 DEF Piece, Blocks

(* The initial states satisfy the invariant.                               *)
LEMMA InitInv == Init => IInv
<1> SUFFICES ASSUME Init PROVE IInv
  OBVIOUS
<1>1. TypeInv
  <2>1. 0 \in 0..(Word - 1) /\ 0 \in 0..(BlockWord - 1)
    BY SizeAssumption
  <2>2. {} \in SUBSET Blocks
    OBVIOUS
  <2> QED
    BY <2>1, <2>2 DEF Init, TypeInv
<1> QED
  BY <1>1 DEF Init, IInv, EncInv, FileInv, LoopInv

(* Writing the header keeps the invariant.                                 *)
LEMMA EncryptFileInv == IInv /\ EncryptFile => IInv'
<1> SUFFICES ASSUME IInv, EncryptFile PROVE IInv'
  OBVIOUS
<1> USE DEF IInv
<1>1. Cnt \in Nat /\ Cnt < Word /\ raw' = raw /\ Cnt' = Cnt
  BY CntFacts DEF TypeInv, EncryptFile, Cnt
<1>2. TypeInv'
  <2>1. Cnt \in 0..(Word - 1) /\ kBlockBytes \in 0..(BlockWord - 1) /\ HeaderLen \in Nat
    BY <1>1, SizeAssumption
  <2>2. file' \in [packet_cnt : 0..(Word - 1), block_len : 0..(BlockWord - 1),
                  len : Nat, blocks : SUBSET Blocks]
    BY <2>1 DEF TypeInv, EncryptFile, Cnt
  <2>3. pc' \in {"encrypting", "failed"}
    BY DEF EncryptFile
  <2> QED
    BY <2>2, <2>3 DEF TypeInv, EncryptFile
<1>3. EncInv'
  <2>1. CASE pc' = "encrypting"
    <3>1. /\ i' = 0 /\ pos' = 0 /\ Cnt' >= 1 /\ file'.blocks = {}
          /\ file'.packet_cnt = Cnt' /\ file'.block_len = kBlockBytes
          /\ file'.len = HeaderLen /\ ~damaged' /\ out' = 0
      BY <1>1, <2>1 DEF TypeInv, EncInv, EncryptFile, Cnt
    <3>2. 0 * BlockDataLen = 0 /\ HeaderLen + 0 * kBlockBytes = HeaderLen
      BY CntFacts, SizeAssumption DEF TypeInv
    <3> QED
      BY <1>1, <2>1, <3>1, <3>2 DEF EncInv
  <2>2. CASE pc' = "failed"
    BY <2>2 DEF EncInv
  <2> QED
    BY <2>1, <2>2 DEF EncryptFile
<1> QED
  BY <1>2, <1>3 DEF EncryptFile, FileInv, LoopInv

(* What is derived from the length of the plaintext stays with it.         *)
LEMMA RawSame ==
  ASSUME raw' = raw
  PROVE  /\ Cnt' = Cnt /\ Rest' = Rest /\ End' = End
         /\ \A k : Piece(k)' = Piece(k)
  BY DEF Cnt, Rest, End, Piece

(* Writing a block keeps the invariant.                                    *)
LEMMA EncryptDataBlockInv == IInv /\ EncryptDataBlock => IInv'
<1> SUFFICES ASSUME IInv, EncryptDataBlock PROVE IInv'
  OBVIOUS
<1> USE DEF IInv
<1>1. /\ raw' = raw /\ raw \in RawLens /\ i \in Nat /\ i < Cnt /\ pos = i * BlockDataLen
      /\ file.packet_cnt = Cnt /\ file.block_len = kBlockBytes
      /\ file.len = HeaderLen + i * kBlockBytes
      /\ file.blocks = {Piece(k) : k \in 0..(i - 1)}
      /\ i' = i + 1 /\ out' = 0 /\ damaged' = damaged /\ ~damaged
  BY DEF TypeInv, EncInv, EncryptDataBlock
<1>2. /\ Cnt \in Nat /\ BlockDataLen \in Nat \ {0} /\ Rest \in 1..BlockDataLen
      /\ kBlockBytes \in Nat /\ HeaderLen \in Nat /\ BlockHeaderLen \in Nat
  BY <1>1, CntFacts, SizeAssumption
<1>3. RawBlockLen = IF i = Cnt - 1 THEN Rest ELSE BlockDataLen
  BY <1>1 DEF RawBlockLen, LastBlock, Rest
<1>4. [at |-> file.len, off |-> pos, size |-> RawBlockLen] = Piece(i)
  BY <1>1, <1>3 DEF Piece
<1>5. file' = [file EXCEPT !.blocks = @ \cup {Piece(i)},
                           !.len = @ + BlockHeaderLen + RawBlockLen]
  BY <1>4 DEF EncryptDataBlock
<1>6. /\ file'.blocks = {Piece(k) : k \in 0..i}
      /\ file'.packet_cnt = Cnt /\ file'.block_len = kBlockBytes
      /\ file'.len = file.len + BlockHeaderLen + RawBlockLen
  <2>1. {Piece(k) : k \in 0..(i - 1)} \cup {Piece(i)} = {Piece(k) : k \in 0..i}
    <3>1. 0..i = 0..(i - 1) \cup {i}
      BY <1>1
    <3> HIDE DEF IInv
    <3> QED
      BY <3>1
  <2> QED
    BY <1>1, <1>5, <2>1 DEF TypeInv
<1>7. TypeInv'
  <2>1. Piece(i) \in Blocks
    BY <1>1, <1>2, PieceType
  <2>2. RawBlockLen \in Nat
    BY <1>2, <1>3
  <2>3. file' \in [packet_cnt : 0..(Word - 1), block_len : 0..(BlockWord - 1),
                  len : Nat, blocks : SUBSET Blocks]
    <3> DEFINE bs == file.blocks \cup {Piece(i)}
               n == file.len + BlockHeaderLen + RawBlockLen
    <3>1. bs \in SUBSET Blocks /\ n \in Nat
      BY <1>2, <2>1, <2>2 DEF TypeInv
    <3>2. file' = [file EXCEPT !.blocks = bs, !.len = n]
      BY <1>5 DEF TypeInv
    <3> HIDE DEF bs, n
    <3> QED
      BY <3>1, <3>2 DEF TypeInv
  <2>4. pos' \in Nat /\ i' \in Nat /\ pc' \in {"encrypting", "stored"}
    BY <2>2 DEF TypeInv, EncryptDataBlock
  <2> QED
    BY <2>3, <2>4 DEF TypeInv, EncryptDataBlock
<1>8. Cnt' = Cnt /\ End' = End /\ \A k : Piece(k)' = Piece(k)
  BY <1>1, RawSame
<1>9. CASE i = Cnt - 1
  <2>1. pc' = "stored" /\ file'.len = End
    BY <1>1, <1>2, <1>3, <1>6, <1>9 DEF EncryptDataBlock, LastBlock, End
  <2>2. {Piece(k)' : k \in 0..(Cnt - 1)} = {Piece(k) : k \in 0..i}
    BY <1>8, <1>9
  <2>3. Cnt' >= 1 /\ HeaderIntact' /\ file'.len = End'
    BY <1>1, <1>2, <1>6, <1>8, <2>1 DEF HeaderIntact
  <2>4. file'.blocks = {Piece(k)' : k \in 0..(Cnt' - 1)}
    BY <1>6, <1>8, <2>2
  <2>5. FileInv'
    BY <2>3, <2>4 DEF FileInv
  <2> QED
    BY <1>1, <1>7, <2>1, <2>5 DEF EncInv, LoopInv
<1>10. CASE i # Cnt - 1
  <2>1. pc' = "encrypting" /\ i + 1 < Cnt /\ RawBlockLen = BlockDataLen
    BY <1>1, <1>2, <1>3, <1>10 DEF EncryptDataBlock, LastBlock
  <2>2. /\ kBlockBytes = BlockHeaderLen + BlockDataLen
        /\ i * kBlockBytes \in Nat /\ i * BlockDataLen \in Nat
        /\ (i + 1) * kBlockBytes = i * kBlockBytes + kBlockBytes
        /\ (i + 1) * BlockDataLen = i * BlockDataLen + BlockDataLen
    BY <1>1, Multiples
  <2>3. file'.len = HeaderLen + i' * kBlockBytes
    BY <1>1, <1>2, <1>6, <2>1, <2>2
  <2>4. pos' = i' * BlockDataLen
    BY <1>1, <2>1, <2>2 DEF EncryptDataBlock
  <2>5. {Piece(k)' : k \in 0..(i' - 1)} = {Piece(k) : k \in 0..i}
    <3>1. i' - 1 = i
      BY <1>1
    <3> QED
      BY <1>8, <3>1
  <2>6. EncInv'
    BY <1>1, <1>6, <1>8, <2>1, <2>3, <2>4, <2>5 DEF EncInv
  <2> QED
    BY <1>7, <2>1, <2>6 DEF FileInv, LoopInv
<1> QED
  BY <1>9, <1>10

(* A key of another length ends encryption and keeps the invariant.        *)
LEMMA EncryptKeyErrorInv == IInv /\ EncryptKeyError => IInv'
  BY DEF IInv, TypeInv, EncInv, FileInv, LoopInv, EncryptKeyError

(* Damage to length and header keeps the invariant.                        *)
LEMMA DamageInv == IInv /\ Damage => IInv'
<1> SUFFICES ASSUME IInv, Damage PROVE IInv'
  OBVIOUS
<1>0. TypeInv /\ EncInv /\ FileInv
  BY DEF IInv
<1>1. /\ pc = "stored" /\ pc' = "stored" /\ ~damaged /\ damaged' = TRUE
      /\ raw' = raw /\ key_len' = key_len /\ i' = i /\ pos' = pos /\ out' = out
      /\ out = 0
  BY <1>0, Zenon DEF Damage, EncInv
<1>2. Cnt' = Cnt /\ End' = End /\ \A k : Piece(k)' = Piece(k)
  BY <1>1, RawSame
<1>3. /\ Cnt >= 1 /\ HeaderIntact /\ file.len = End
      /\ file.blocks = {Piece(k) : k \in 0..(Cnt - 1)}
  BY <1>0, <1>1 DEF FileInv
<1>4. TypeInv'
  <2>1. file' \in [packet_cnt : 0..(Word - 1), block_len : 0..(BlockWord - 1),
                  len : Nat, blocks : SUBSET Blocks]
    <3>1. PICK n \in (0..MaxLen) \cup {file.len},
               c \in 0..(Word - 1), b \in 0..(BlockWord - 1) :
            file' = [file EXCEPT !.len = n, !.packet_cnt = c, !.block_len = b]
      BY DEF Damage
    <3>2. n \in Nat
      BY <1>0, SizeAssumption DEF TypeInv
    <3> QED
      BY <1>0, <3>1, <3>2 DEF TypeInv
  <2> QED
    BY <1>0, <1>1, <2>1 DEF TypeInv
<1>5. file'.blocks = file.blocks
  BY <1>0 DEF Damage, TypeInv
<1>6. file'.blocks = {Piece(k)' : k \in 0..(Cnt' - 1)}
  BY <1>2, <1>3, <1>5
<1>7. FileInv'
  BY <1>1, <1>2, <1>3, <1>5, <1>6 DEF FileInv
<1> QED
  BY <1>1, <1>4, <1>7 DEF IInv, EncInv, LoopInv

(* A product below Word is not changed by the arithmetic of uint64_t.      *)
LEMMA MulSmall ==
  ASSUME NEW m \in Nat, NEW n \in Nat \ {0}, m * n < Word
  PROVE  Mul(m, n) = m * n /\ (m * n) \div n = m
<1> DEFINE p == m * n
<1>1. p \in Nat /\ p < Word /\ Word \in Nat
  BY MulType, SizeAssumption
<1>2. p \div n = m
  BY DEF p
<1> HIDE DEF p
<1>3. p % Word = p
  BY <1>1
<1> QED
  BY <1>2, <1>3 DEF Mul, p

(* The header of a file that EncryptFile wrote passes the checks.          *)
LEMMA IntactOk ==
  ASSUME raw \in RawLens, Cnt >= 1, HeaderIntact, file.len = End
  PROVE  HeaderOk
<1> DEFINE c == Cnt
           b == kBlockBytes
           q == (Cnt - 1) * kBlockBytes
<1>1. /\ c \in Nat /\ c - 1 \in Nat /\ b \in Nat \ {0} /\ HeaderLen \in Nat
      /\ BlockHeaderLen \in Nat /\ Rest \in 1..BlockDataLen /\ q \in Nat
      /\ b = BlockHeaderLen + BlockDataLen /\ BlockDataLen \in Nat
  BY CntFacts, SizeAssumption DEF BlockDataLen
<1>2. c * b = q + b
  BY <1>1
<1>3. HeaderLen + c * b < Word
  BY PacketCntFacts DEF Cnt
<1>4. Mul(c, b) = c * b /\ (c * b) \div b = c
  <2>1. c * b < Word
    BY <1>1, <1>2, <1>3, SizeAssumption
  <2> QED
    BY <1>1, <2>1, MulSmall
<1>5. Mul(c - 1, b) = q /\ q \div b = c - 1
  <2>1. q < Word
    BY <1>1, <1>2, <1>3, SizeAssumption
  <2> QED
    BY <1>1, <2>1, MulSmall
<1>6. Mul(b, c) = c * b
  <2>1. b * c = c * b
    BY <1>1, MulCommute
  <2> QED
    BY <1>4, <2>1 DEF Mul
<1>7. file.packet_cnt = c /\ file.block_len = b /\ file.len = HeaderLen + q + BlockHeaderLen + Rest
  BY DEF HeaderIntact, End
<1> HIDE DEF c, b, q
<1>8. /\ file.len - HeaderLen > 0 /\ file.len - HeaderLen >= q
      /\ c * b >= file.len - HeaderLen /\ c >= 1 /\ b # 0
  BY <1>1, <1>2, <1>7 DEF c
<1> QED
  BY <1>4, <1>5, <1>6, <1>7, <1>8 DEF HeaderOk

(* Checking the header keeps the invariant.                                *)
LEMMA DecryptFileInv == IInv /\ DecryptFile => IInv'
<1> SUFFICES ASSUME IInv, DecryptFile PROVE IInv'
  OBVIOUS
<1> USE DEF IInv
<1> DEFINE c == file.packet_cnt
           b == file.block_len
<1>1. /\ pc = "stored" /\ i' = 0 /\ pos' = HeaderLen /\ file' = file
      /\ raw' = raw /\ damaged' = damaged /\ out' = 0 /\ raw \in RawLens
      /\ pc' = IF HeaderOk THEN "decrypting" ELSE "refused"
  BY DEF DecryptFile, EncInv, TypeInv
<1>2. /\ c \in 0..(Word - 1) /\ b \in Nat /\ file.len \in Nat /\ HeaderLen \in Nat
      /\ kBlockBytes \in Nat /\ Cnt >= 1 /\ Cnt \in Nat /\ BlockDataLen \in Nat
  BY <1>1, CntFacts, SizeAssumption DEF TypeInv, FileInv
<1>3. TypeInv'
  BY <1>1, <1>2 DEF TypeInv, DecryptFile
<1>4. Cnt' = Cnt /\ End' = End /\ \A k : Piece(k)' = Piece(k)
  BY <1>1, RawSame
<1>5. FileInv'
  <2>1. {Piece(k)' : k \in 0..(Cnt - 1)} = {Piece(k) : k \in 0..(Cnt - 1)}
    BY <1>4
  <2> QED
    BY <1>1, <1>4, <2>1 DEF FileInv, HeaderIntact
<1>6. CASE HeaderOk
  <2>1. /\ c \in 1..(Word - 1) /\ b \in Nat \ {0}
        /\ Mul(c - 1, b) \div b = c - 1 /\ Mul(c, b) \div b = c
        /\ file.len - HeaderLen >= Mul(c - 1, b) /\ Mul(b, c) >= file.len - HeaderLen
    BY <1>2, <1>6 DEF HeaderOk
  <2> HIDE DEF c, b
  <2>2. Mul(c - 1, b) = (c - 1) * b
    <3>1. CASE c = 1
      <4>1. 0 * b = 0 /\ 0 % Word = 0
        BY <2>1, SizeAssumption
      <4> QED
        BY <3>1, <4>1 DEF Mul
    <3>2. CASE c # 1
      <4>1. c - 1 \in 1..(Word - 1)
        BY <2>1, <3>2, SizeAssumption
      <4> QED
        BY <2>1, <4>1, NoOverflow
    <3> QED
      BY <3>1, <3>2
  <2>3. Mul(b, c) = (c - 1) * b + b
    <3>1. Mul(c, b) = c * b /\ c * b = b * c
      BY <2>1, NoOverflow, MulCommute, SizeAssumption
    <3>2. c * b = (c - 1) * b + b
      BY <2>1, SizeAssumption
    <3> QED
      BY <3>1, <3>2 DEF Mul
  <2>4. 0 * b = 0 /\ HeaderLen + 0 = HeaderLen /\ 0 <= c - 1 /\ c >= 1 /\ b >= 1
    BY <1>2, <2>1, SizeAssumption
  <2>5. LoopInv'
    BY <1>1, <2>1, <2>2, <2>3, <2>4 DEF LoopInv, c, b, Mul
  <2>6. Chain'
    <3>1. 0 \in 0..(Cnt - 1) /\ HeaderLen = HeaderLen + 0 * kBlockBytes /\ 0 = 0 * BlockDataLen
      BY <1>2
    <3> QED
      BY <1>1, <1>4, <3>1 DEF Chain
  <2> QED
    BY <1>1, <1>3, <1>5, <1>6, <2>5, <2>6 DEF EncInv
<1>7. CASE ~HeaderOk
  <2>1. damaged
    BY <1>1, <1>2, <1>7, IntactOk DEF FileInv, TypeInv
  <2> QED
    BY <1>1, <1>3, <1>5, <1>7, <2>1 DEF EncInv, LoopInv
<1> QED
  BY <1>6, <1>7

(* The size of the next read, from the loop invariant.                     *)
LEMMA ReadSize ==
  ASSUME TypeInv, LoopInv, pc = "decrypting"
  PROVE  /\ BlockLen \in 0..file.block_len
         /\ pos + BlockLen <= file.len
         /\ LastBlock => pos + BlockLen = file.len
         /\ ~LastBlock => BlockLen = file.block_len /\ i + 1 <= file.packet_cnt - 1
<1> DEFINE c == file.packet_cnt
           b == file.block_len
           q == (c - 1) * b
<1>1. /\ c \in Nat /\ c - 1 \in Nat /\ b \in Nat /\ i \in Nat /\ i <= c - 1
      /\ file.len \in Nat /\ HeaderLen \in Nat
      /\ Mul(c - 1, b) = q /\ q <= file.len - HeaderLen
      /\ file.len - HeaderLen <= q + b /\ pos = HeaderLen + i * b
  BY SizeAssumption DEF TypeInv, LoopInv
<1>2. q \in Nat /\ i * b \in Nat
  BY <1>1, MulType
<1>3. CASE LastBlock
  <2>1. i * b = q /\ BlockLen = file.len - HeaderLen - q
    BY <1>1, <1>3 DEF LastBlock, BlockLen
  <2> HIDE DEF q
  <2> QED
    BY <1>1, <1>2, <1>3, <2>1
<1>4. CASE ~LastBlock
  <2>0. /\ i \in Nat /\ c \in Nat /\ b \in Nat /\ i <= c - 1
        /\ i # c - 1 /\ BlockLen = b
    BY <1>1, <1>4 DEF LastBlock, BlockLen
  <2>1. i + 1 <= c - 1 /\ BlockLen = b
    <3> HIDE DEF c, b, q
    <3> QED
      BY <2>0
  <2>2. (i + 1) * b <= q
    <3>1. i + 1 \in Nat
      BY <1>1
    <3> QED
      BY <1>1, <2>1, <3>1, MulMono
  <2>3. (i + 1) * b = i * b + b
    <3> HIDE DEF c, b, q
    <3> QED
      BY <2>0, MulDistr
  <2>4. pos + b <= file.len /\ b \in 0..b
    <3> DEFINE r == i * b
               t == (i + 1) * b
    <3> HIDE DEF q, r, t
    <3>1. r \in Nat /\ q \in Nat /\ t = r + b /\ t <= q
      BY <1>2, <2>2, <2>3 DEF r, t
    <3>2. pos = HeaderLen + r
      BY <1>1 DEF r
    <3> QED
      BY <1>1, <3>1, <3>2
  <2> QED
    BY <1>4, <2>1, <2>4
<1> QED
  BY <1>3, <1>4

(* A block that does not authenticate keeps the invariant.                 *)
LEMMA DecryptErrorInv == IInv /\ DecryptError => IInv'
<1> SUFFICES ASSUME IInv, DecryptError PROVE IInv'
  OBVIOUS
<1> USE DEF IInv
<1>1. /\ pc = "decrypting" /\ pc' = "refused" /\ file' = file /\ raw' = raw
      /\ damaged' = damaged /\ i' = i /\ pos' = pos /\ out' = out
      /\ raw \in RawLens /\ key_len' = key_len
  BY DEF DecryptError, TypeInv
<1>2. damaged
  <2> SUFFICES ASSUME ~damaged PROVE FALSE
    BY DEF TypeInv
  <2>1. /\ file.packet_cnt = Cnt /\ file.block_len = kBlockBytes /\ file.len = End
        /\ Cnt >= 1 /\ file.blocks = {Piece(k) : k \in 0..(Cnt - 1)}
    BY <1>1 DEF FileInv, HeaderIntact
  <2>2. /\ i \in Nat /\ i <= Cnt - 1 /\ pos = HeaderLen + i * kBlockBytes
        /\ Mul(Cnt - 1, kBlockBytes) = (Cnt - 1) * kBlockBytes
    BY <1>1, <2>1 DEF LoopInv, TypeInv
  <2>3. /\ Cnt \in Nat /\ Rest \in Nat /\ (Cnt - 1) * kBlockBytes \in Nat
        /\ HeaderLen \in Nat /\ BlockHeaderLen \in Nat /\ kBlockBytes \in Nat
    BY <1>1, <2>1, CntFacts, SizeAssumption
  <2>4. Piece(i) \in file.blocks
    BY <2>1, <2>2, <2>3
  <2>5. Piece(i).at = pos
    BY <2>2 DEF Piece
  <2>6. BlockHeaderLen + Piece(i).size = BlockLen
    <3>1. CASE i = Cnt - 1
      <4>1. Piece(i).size = Rest
        BY <3>1 DEF Piece
      <4>2. BlockLen = End - HeaderLen - (Cnt - 1) * kBlockBytes
        BY <2>1, <2>2, <3>1 DEF BlockLen, LastBlock
      <4> QED
        BY <2>3, <4>1, <4>2 DEF End
    <3>2. CASE i # Cnt - 1
      BY <2>1, <2>3, <3>2, SizeAssumption DEF Piece, BlockLen, LastBlock, BlockDataLen
    <3> QED
      BY <3>1, <3>2
  <2>7. pos + BlockLen <= file.len
    BY <1>1, ReadSize
  <2> QED
    BY <2>4, <2>5, <2>6, <2>7 DEF DecryptError, Reads
<1>3. Cnt' = Cnt /\ End' = End /\ \A k : Piece(k)' = Piece(k)
  BY <1>1, RawSame
<1>4. {Piece(k)' : k \in 0..(Cnt - 1)} = {Piece(k) : k \in 0..(Cnt - 1)}
  BY <1>3
<1>5. FileInv'
  BY <1>1, <1>3, <1>4 DEF FileInv, HeaderIntact
<1> QED
  BY <1>1, <1>2, <1>5 DEF TypeInv, EncInv, LoopInv

(* A block that is read extends the prefix by itself.                      *)
LEMMA ChainStep ==
  ASSUME raw \in RawLens, Cnt >= 1, Chain,
         NEW k \in 0..(Cnt - 1), Piece(k).at = pos
  PROVE  /\ pos = HeaderLen + k * kBlockBytes /\ out = k * BlockDataLen /\ i = k
         /\ Piece(k).off = out /\ out \in Nat
         /\ k = Cnt - 1 => pos + BlockHeaderLen + Piece(k).size = End
                           /\ out + Piece(k).size = raw
         /\ k # Cnt - 1 =>
              /\ k + 1 \in 0..(Cnt - 1)
              /\ pos + BlockHeaderLen + Piece(k).size = HeaderLen + (k + 1) * kBlockBytes
              /\ out + Piece(k).size = (k + 1) * BlockDataLen
<1>1. /\ raw \in Nat /\ Cnt \in Nat /\ Rest \in 1..BlockDataLen /\ k \in Nat
      /\ Cnt - 1 \in Nat /\ k <= Cnt - 1 /\ (Cnt - 1) * kBlockBytes \in Nat
      /\ HeaderLen \in Nat /\ BlockHeaderLen \in Nat \ {0} /\ BlockDataLen \in Nat
  BY CntFacts, SizeAssumption
<1>2. pos = HeaderLen + k * kBlockBytes
  BY DEF Piece
<1>3. k * kBlockBytes \in Nat /\ k * BlockDataLen \in Nat
  BY <1>1, Multiples
<1>4. out = k * BlockDataLen /\ i = k
  <2>1. CASE /\ i \in 0..(Cnt - 1)
             /\ pos = HeaderLen + i * kBlockBytes /\ out = i * BlockDataLen
    <3>1. i \in Nat /\ i * kBlockBytes \in Nat
      BY <1>1, <2>1, Multiples
    <3>2. ~(i < k) /\ ~(k < i)
      <4>1. i < k => i * kBlockBytes < k * kBlockBytes
        BY <1>1, <3>1, Multiples
      <4>2. k < i => k * kBlockBytes < i * kBlockBytes
        BY <1>1, <3>1, Multiples
      <4> QED
        BY <1>1, <1>2, <1>3, <2>1, <3>1, <4>1, <4>2
    <3>3. i = k
      BY <1>1, <3>1, <3>2
    <3> QED
      BY <2>1, <3>3
  <2>2. CASE pos = End
    <3>1. k * kBlockBytes <= (Cnt - 1) * kBlockBytes
      BY <1>1, MulMono, SizeAssumption
    <3> QED
      BY <1>1, <1>2, <1>3, <2>2, <3>1 DEF End
  <2> QED
    BY <2>1, <2>2 DEF Chain
<1>5. CASE k = Cnt - 1
  <2>1. Piece(k).size = Rest /\ Piece(k).off = out
    BY <1>4, <1>5 DEF Piece
  <2>2. pos + BlockHeaderLen + Rest = End
    BY <1>2, <1>5 DEF End
  <2>3. out + Rest = raw
    <3> DEFINE t == k * BlockDataLen
    <3>1. t \in Nat /\ out = t /\ Rest = raw - t
      BY <1>3, <1>4, <1>5 DEF Rest
    <3> HIDE DEF t
    <3> QED
      BY <1>1, <3>1
  <2> QED
    BY <1>2, <1>3, <1>4, <1>5, <2>1, <2>2, <2>3
<1>6. CASE k # Cnt - 1
  <2>1. Piece(k).size = BlockDataLen /\ Piece(k).off = out
    BY <1>4, <1>6 DEF Piece
  <2>2. k + 1 \in 0..(Cnt - 1)
    BY <1>1, <1>6
  <2>3. /\ kBlockBytes = BlockHeaderLen + BlockDataLen
        /\ (k + 1) * kBlockBytes = k * kBlockBytes + kBlockBytes
        /\ (k + 1) * BlockDataLen = k * BlockDataLen + BlockDataLen
    BY <1>1, Multiples
  <2>4. pos + BlockHeaderLen + BlockDataLen = HeaderLen + (k + 1) * kBlockBytes
    BY <1>1, <1>2, <1>3, <2>3
  <2> QED
    BY <1>2, <1>3, <1>4, <1>6, <2>1, <2>2, <2>3, <2>4
<1> QED
  BY <1>5, <1>6

(* Decrypting a block keeps the invariant.                                 *)
LEMMA DecryptDataBlockInv == IInv /\ DecryptDataBlock => IInv'
<1> SUFFICES ASSUME IInv, DecryptDataBlock PROVE IInv'
  OBVIOUS
<1> USE DEF IInv
<1>1. /\ pc = "decrypting" /\ file' = file /\ raw' = raw /\ key_len' = key_len
      /\ damaged' = damaged /\ i' = i + 1 /\ pos' = pos + BlockLen
      /\ pc' = IF LastBlock THEN "done" ELSE "decrypting"
      /\ raw \in RawLens /\ i \in Nat /\ pos \in Nat /\ file.len \in Nat
  BY DEF DecryptDataBlock, TypeInv
<1>2. Cnt >= 1 /\ file.blocks = {Piece(k) : k \in 0..(Cnt - 1)}
  BY <1>1 DEF FileInv
<1>3. PICK k \in 0..(Cnt - 1) :
        Reads(Piece(k)) /\ out' = IF Piece(k).off = out THEN out + Piece(k).size ELSE Garbled
  BY <1>2 DEF DecryptDataBlock
<1>4. /\ Piece(k).at = pos /\ BlockHeaderLen + Piece(k).size = BlockLen
      /\ Piece(k).size \in Nat
  BY <1>1, <1>2, <1>3, PieceType DEF Reads, Blocks
<1>5. /\ pos = HeaderLen + k * kBlockBytes /\ i = k
      /\ out' = out + Piece(k).size /\ out \in Nat
      /\ k = Cnt - 1 => pos + BlockHeaderLen + Piece(k).size = End
                        /\ out + Piece(k).size = raw
      /\ k # Cnt - 1 =>
           /\ k + 1 \in 0..(Cnt - 1)
           /\ pos + BlockHeaderLen + Piece(k).size = HeaderLen + (k + 1) * kBlockBytes
           /\ out + Piece(k).size = (k + 1) * BlockDataLen
  BY <1>1, <1>2, <1>3, <1>4, ChainStep
<1>6. pos' = pos + BlockHeaderLen + Piece(k).size
  BY <1>1, <1>4, SizeAssumption
<1>7. Cnt' = Cnt /\ End' = End /\ \A n : Piece(n)' = Piece(n)
  BY <1>1, RawSame
<1>8. Chain'
  <2>1. Cnt \in Nat
    BY <1>1, CntFacts
  <2>2. CASE k = Cnt - 1
    <3>1. i' = Cnt /\ pos' = End /\ out' = raw
      BY <1>1, <1>5, <1>6, <2>1, <2>2
    <3> QED
      BY <1>1, <1>7, <3>1 DEF Chain
  <2>3. CASE k # Cnt - 1
    <3>1. i' = k + 1 /\ k + 1 \in 0..(Cnt - 1)
      BY <1>1, <1>5, <2>3
    <3>2. pos' = HeaderLen + (k + 1) * kBlockBytes /\ out' = (k + 1) * BlockDataLen
      BY <1>5, <1>6, <2>3
    <3> QED
      BY <1>7, <3>1, <3>2 DEF Chain
  <2> QED
    BY <2>2, <2>3
<1>9. FileInv'
  <2>1. {Piece(n)' : n \in 0..(Cnt - 1)} = {Piece(n) : n \in 0..(Cnt - 1)}
    BY <1>7
  <2> QED
    BY <1>1, <1>7, <2>1 DEF FileInv, HeaderIntact
<1>10. BlockLen \in Nat
  BY <1>1, <1>4, SizeAssumption
<1>11. TypeInv'
  <2>1. out' \in Nat
    BY <1>4, <1>5
  <2> QED
    BY <1>1, <1>10, <2>1 DEF TypeInv
<1>12. CASE LastBlock
  <2>1. pc' = "done" /\ pos' = file.len
    BY <1>1, <1>12, ReadSize
  <2>2. i' = file'.packet_cnt /\ i' >= 1
    BY <1>1, <1>12 DEF TypeInv, LastBlock
  <2> QED
    BY <1>1, <1>8, <1>9, <1>11, <2>1, <2>2 DEF EncInv, LoopInv
<1>13. CASE ~LastBlock
  <2>1. /\ pc' = "decrypting" /\ BlockLen = file.block_len
        /\ i + 1 <= file.packet_cnt - 1
    BY <1>1, <1>13, ReadSize
  <2>2. LoopInv'
    <3> DEFINE b == file.block_len
    <3>1. /\ b \in Nat /\ pos = HeaderLen + i * b /\ HeaderLen \in Nat
          /\ i' = i + 1 /\ i \in Nat /\ pos' = pos + b
      BY <1>1, <2>1, SizeAssumption DEF LoopInv, TypeInv
    <3> HIDE DEF b
    <3>2. (i + 1) * b = i * b + b /\ i * b \in Nat
      BY <3>1, MulDistr, MulType
    <3>3. pos' = HeaderLen + i' * b
      BY <3>1, <3>2
    <3> QED
      BY <1>1, <2>1, <3>3 DEF LoopInv, b, Mul
  <2> QED
    BY <1>8, <1>9, <1>11, <2>1, <2>2 DEF EncInv
<1> QED
  BY <1>12, <1>13

(* A stuttering step keeps the invariant.                                  *)
LEMMA StutterInv == IInv /\ UNCHANGED vars => IInv'
<1> SUFFICES ASSUME IInv, UNCHANGED vars PROVE IInv'
  OBVIOUS
<1>1. /\ pc' = pc /\ raw' = raw /\ key_len' = key_len /\ file' = file
      /\ damaged' = damaged /\ i' = i /\ pos' = pos /\ out' = out
  BY DEF vars
<1>2. Cnt' = Cnt /\ Rest' = Rest /\ End' = End /\ \A k : Piece(k)' = Piece(k)
  BY <1>1, RawSame
<1>3. TypeInv'
  BY <1>1 DEF IInv, TypeInv
<1>4. EncInv'
  BY <1>1, <1>2 DEF IInv, EncInv
<1>5. FileInv'
  BY <1>1, <1>2 DEF IInv, FileInv, HeaderIntact
<1>6. LoopInv'
  BY <1>1 DEF IInv, LoopInv, Mul
<1>7. Chain' = Chain
  BY <1>1, <1>2 DEF Chain
<1> QED
  BY <1>1, <1>3, <1>4, <1>5, <1>6, <1>7 DEF IInv

(* The invariant holds in every reachable state, for every size.           *)
LEMMA Invariance == Spec => []IInv
<1>1. IInv /\ [Next]_vars => IInv'
  BY EncryptFileInv, EncryptDataBlockInv, EncryptKeyErrorInv, DamageInv,
     DecryptFileInv, DecryptDataBlockInv, DecryptErrorInv, StutterInv DEF Next
<1> QED
  BY <1>1, InitInv, PTL DEF Spec
-----------------------------------------------------------------------------
(* The type invariant of the two functions, damaged headers included.      *)
THEOREM TypeCorrect == Spec => []TypeOK
<1>1. IInv => TypeOK
  BY DEF IInv, TypeInv, TypeOK, Blocks
<1> QED
  BY <1>1, Invariance, PTL

(* For every header DecryptFile accepts, its reads stay within the file    *)
(* and end with it.                                                        *)
THEOREM ReadsFit == Spec => []ReadsExactly
<1>1. IInv => ReadsExactly
  BY ReadSize DEF IInv, ReadsExactly
<1> QED
  BY <1>1, Invariance, PTL

(* Every file that EncryptFile writes is accepted by DecryptFile.          *)
THEOREM Accepted == Spec => []EncryptedAccepted
<1>1. IInv => EncryptedAccepted
  BY DEF IInv, EncryptedAccepted
<1> QED
  BY <1>1, Invariance, PTL

(* What DecryptFile finishes with, damaged in length and header or not,    *)
(* are the first packet_cnt blocks of the plaintext and a file that ends   *)
(* with them.                                                              *)
THEOREM Counted == Spec => []DecryptsCounted
<1>1. ASSUME IInv, pc = "done"
      PROVE  /\ file.packet_cnt \in 1..Cnt
             /\ out = IF file.packet_cnt = Cnt THEN raw
                      ELSE file.packet_cnt * BlockDataLen
             /\ file.len = HeaderLen + file.packet_cnt * BlockHeaderLen + out
  <2>1. /\ Chain /\ pos = file.len /\ i = file.packet_cnt /\ i >= 1 /\ i \in Nat
        /\ raw \in RawLens /\ Cnt >= 1
    BY <1>1 DEF IInv, TypeInv, FileInv
  <2>2. /\ raw \in Nat /\ Cnt \in Nat /\ Cnt - 1 \in Nat /\ BlockDataLen \in Nat
        /\ HeaderLen \in Nat /\ BlockHeaderLen \in Nat
        /\ kBlockBytes = BlockHeaderLen + BlockDataLen
    BY <2>1, CntFacts, Multiples, SizeAssumption
  <2>3. ASSUME NEW k \in Nat
        PROVE  /\ k * kBlockBytes = k * BlockHeaderLen + k * BlockDataLen
               /\ k * BlockHeaderLen \in Nat /\ k * BlockDataLen \in Nat
    BY <2>2, <2>3, MulType
  <2>4. CASE /\ i \in 0..(Cnt - 1)
             /\ pos = HeaderLen + i * kBlockBytes /\ out = i * BlockDataLen
    <3>1. i \in 1..Cnt /\ i # Cnt
      BY <2>1, <2>2, <2>4
    <3>2. file.len = HeaderLen + i * BlockHeaderLen + out
      BY <2>1, <2>2, <2>3, <2>4
    <3> QED
      BY <2>1, <2>4, <3>1, <3>2
  <2>5. CASE i = Cnt /\ pos = End /\ out = raw
    <3>1. Cnt * BlockHeaderLen = (Cnt - 1) * BlockHeaderLen + BlockHeaderLen
      BY <2>2
    <3>2. End = HeaderLen + Cnt * BlockHeaderLen + raw
      <4> DEFINE m == (Cnt - 1) * BlockHeaderLen
                 n == (Cnt - 1) * BlockDataLen
      <4>1. (Cnt - 1) * kBlockBytes = m + n /\ m \in Nat /\ n \in Nat
        BY <2>2, <2>3
      <4>2. Rest = raw - n /\ Cnt * BlockHeaderLen = m + BlockHeaderLen
        BY <3>1 DEF Rest
      <4> HIDE DEF m, n
      <4> QED
        BY <2>2, <4>1, <4>2 DEF End
    <3> QED
      BY <2>1, <2>2, <2>5, <3>2
  <2> QED
    BY <2>1, <2>4, <2>5 DEF Chain
<1>2. IInv => DecryptsCounted
  BY <1>1 DEF DecryptsCounted, Cnt
<1> QED
  BY <1>2, Invariance, PTL
=============================================================================
