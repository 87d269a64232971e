\* Blocks of 5 bytes with 2 bytes of header: plaintexts of up to 3 blocks,
\* and products that overflow a word of 32.
CONSTANTS
  kBlockBytes = 5
  HeaderLen = 3
  BlockHeaderLen = 2
  Word = 32
  BlockWord = 16
  RawLens = {0, 1, 2, 3, 4, 5, 6, 7, 8, 9}
  KeyLens = {16, 20, 32}
  MaxLen = 22
SPECIFICATION Spec
INVARIANTS TypeOK ReadsExactly EncryptedAccepted DecryptsCounted
CHECK_DEADLOCK FALSE
