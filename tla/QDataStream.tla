---------------------------- MODULE QDataStream ----------------------------
(* The Qt stream opentele reads and writes tdata with                      *)
(* (td/qdatastream.py), at the granularity of 4-byte words: an int32 or a  *)
(* uint32 is one word, a uint64 two, a byte array or a string the size in  *)
(* bytes followed by its words. Every text and blob of an instance is a    *)
(* whole number of words long. Words above 2^31 - 1 are written negative.  *)
EXTENDS Integers, Sequences

Uint64   == Int \X Int   \* <<high word, low word>>
Zero64   == <<0, 0>>
NullSize == -1         \* 0xFFFFFFFF, the size of a null QByteArray

Rest(s, n) == SubSeq(s, n + 1, Len(s))

\* Whether n more words can be read: if not, the status becomes ReadPastEnd.
Has(s, n) == Len(s) >= n

\* The i-th word; reading past the end gives 0.
WordAt(s, i) == IF Has(s, i) THEN s[i] ELSE 0

\* The i-th uint64 of the stream.
U64At(s, i) == <<s[2 * i - 1], s[2 * i]>>

\* The words of a sequence of uint64.
U64Words(values) == [i \in 1 .. 2 * Len(values) |-> values[(i + 1) \div 2][2 - (i % 2)]]

WriteBytes(words) == <<4 * Len(words)>> \o words

\* stream >> QByteArray, and readQString: ok is false when the stream ends
\* before the array does, as it does for a size above 2^31 - 1.
ReadBytes(s) ==
  LET size  == IF s = <<>> THEN 0 ELSE Head(s)
      words == IF size = NullSize THEN 0 ELSE (size + 3) \div 4
  IN  IF size >= NullSize /\ Has(s, 1 + words)
      THEN [ok |-> TRUE, value |-> SubSeq(s, 2, 1 + words), rest |-> Rest(s, 1 + words)]
      ELSE [ok |-> FALSE, value |-> <<>>, rest |-> <<>>]
=============================================================================
