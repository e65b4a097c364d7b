----------------------------- MODULE LocalFiles -----------------------------
(* The encrypted envelope of every tdata file (td/storage.py): the payload *)
(* behind its own length, padded to the cipher's 16-byte block. A sealed   *)
(* envelope is the sequence of its words; who can open it, and what a      *)
(* missing or damaged file does, is the subject of module TDesktop.        *)
EXTENDS QDataStream

WordsPerBlock == 4

\* The words that fill n words up to whole blocks.
Padding(n) == [i \in 1 .. ((-n) % WordsPerBlock) |-> 0]

\* The data of an EncryptedDescriptor built for size bytes and written with
\* words: without a size it has no stream, and what is written is lost.
EncryptedDescriptor(size, words) == IF size = 0 THEN <<>> ELSE <<0>> \o words

\* The first word of the sealed data is the size, which counts itself.
PrepareEncrypted(data) ==
  LET plain == IF data = <<>> THEN <<0>> ELSE data
  IN  [(plain \o Padding(Len(plain))) EXCEPT ![1] = 4 * Len(plain)]

DecryptLocal(sealed) ==
  LET dataLen == sealed[1]
      full    == 4 * Len(sealed)
  IN  IF \/ sealed = <<>>
         \/ Len(sealed) % WordsPerBlock # 0
         \/ dataLen > full
         \/ dataLen <= full - 16
         \/ dataLen < 4
      THEN [ok |-> FALSE, words |-> <<>>]
      ELSE [ok |-> TRUE, words |-> SubSeq(sealed, 2, dataLen \div 4)]
=============================================================================
