------------------------ MODULE StorageAccountProofs ------------------------
(***************************************************************************)
(* The invariants of StorageAccount, for every value of its constants: any *)
(* maps, authorizations and configurations Telegram Desktop may have       *)
(* written, keys of any length and any number of saves.  First what the    *)
(* authorization and the configuration are read as, then the inductive     *)
(* invariant and the steps.                                                *)
(***************************************************************************)
EXTENDS StorageMapProofs

(***************************************************************************)
(* The keys of an authorization                                            *)
(***************************************************************************)

\* An authorization key of a data center, and the words it is written with.
AuthKey == [dc : Int, key : [1 .. KeyWords -> Int]]
KeyRecord(k) == <<k.dc>> \o k.key
KeyRecords(ks) == [i \in DOMAIN ks |-> KeyRecord(ks[i])]

\* A key is its data center and KeyWords words.
LEMMA KeyRecordIs ==
  ASSUME NEW k \in AuthKey
  PROVE  /\ KeyRecord(k) \in Seq(Int) /\ Len(KeyRecord(k)) = 1 + KeyWords
         /\ KeyRecord(k)[1] = k.dc
         /\ \A j \in 1 .. KeyWords : KeyRecord(k)[j + 1] = k.key[j]
<1>1. KeyWords \in Nat /\ k.key \in [1 .. KeyWords -> Int] /\ k.dc \in Int
  BY KeyWordsAssumption DEF AuthKey
<1>2. k.key \in Seq(Int) /\ Len(k.key) = KeyWords
  BY <1>1
<1> QED
  BY <1>1, <1>2, OneWord DEF KeyRecord

\* A list of keys is its count and its keys, each of the same length.
LEMMA WriteKeysIs ==
  ASSUME NEW ks \in Seq(AuthKey)
  PROVE  /\ KeyRecords(ks) \in Seq(Seq(Int)) /\ Len(KeyRecords(ks)) = Len(ks)
         /\ WriteKeys(ks) = <<Len(ks)>> \o FlattenSeq(KeyRecords(ks))
         /\ FlattenSeq(KeyRecords(ks)) \in Seq(Int)
         /\ WriteKeys(ks) \in Seq(Int)
         /\ Placed(FlattenSeq(KeyRecords(ks)), KeyRecords(ks), 1 + KeyWords)
<1> DEFINE ss == KeyRecords(ks)
<1>0. DOMAIN ks = 1 .. Len(ks) /\ Len(ks) \in Nat /\ \A i \in 1 .. Len(ks) : ks[i] \in AuthKey
  OBVIOUS
<1>1. ss \in Seq(Seq(Int)) /\ Len(ss) = Len(ks) /\ DOMAIN ss = DOMAIN ks
  BY <1>0, KeyRecordIs DEF KeyRecords
<1>2. \A i \in DOMAIN ss : Len(ss[i]) = 1 + KeyWords
  BY <1>0, <1>1, KeyRecordIs DEF KeyRecords
<1>3. WriteKeys(ks) = <<Len(ks)>> \o FlattenSeq(ss)
  BY DEF WriteKeys, KeyRecords, KeyRecord
<1> HIDE DEF ss
<1>4. 1 + KeyWords \in Nat
  BY KeyWordsAssumption
<1>5. FlattenSeq(ss) \in Seq(Int)
  BY <1>1, FlattenType
<1>6. Placed(FlattenSeq(ss), ss, 1 + KeyWords)
  <2> DEFINE n == 1 + KeyWords
  <2>1. n \in Nat /\ \A i \in DOMAIN ss : Len(ss[i]) = n
    BY <1>2, <1>4
  <2> HIDE DEF n
  <2>2. Placed(FlattenSeq(ss), ss, n)
    BY <1>1, <2>1, FlattenUniform
  <2> QED
    BY <2>2 DEF n
<1>7. WriteKeys(ks) \in Seq(Int)
  BY <1>0, <1>3, <1>5, OneWord
<1> QED
  BY <1>1, <1>3, <1>5, <1>6, <1>7 DEF ss

\* The words of a key are inside the list.
LEMMA PlaceInside ==
  ASSUME NEW n \in Nat, NEW m \in Nat, NEW i \in 1 .. m, NEW j \in 1 .. n
  PROVE  Place(i, n, j) \in 1 .. m * n
<1>1. (i - 1) * n \in Nat /\ i * n \in Nat /\ m * n \in Nat /\ i * n <= m * n
  <2>1. i - 1 \in Nat /\ i \in Nat /\ i - 1 <= i /\ i <= m
    OBVIOUS
  <2> QED
    BY <2>1, ProductGrows
<1>2. i * n = (i - 1) * n + n
  OBVIOUS
<1> DEFINE x == (i - 1) * n
           y == i * n
           z == m * n
<1>3. x \in Nat /\ y \in Nat /\ z \in Nat /\ y <= z /\ y = x + n /\ Place(i, n, j) = x + j
  BY <1>1, <1>2 DEF Place
<1> HIDE DEF x, y, z
<1>4. Place(i, n, j) \in 1 .. z
  BY <1>3
<1> QED
  BY <1>4 DEF z

\* The keys that were written are read.
LEMMA KeysRead ==
  ASSUME NEW ks \in Seq(AuthKey), NEW t \in Seq(Int)
  PROVE  ReadKeys(WriteKeys(ks) \o t) = [ok |-> TRUE, keys |-> ks, rest |-> t]
<1> DEFINE n == Len(ks)
           each == 1 + KeyWords
           ss == KeyRecords(ks)
           w == FlattenSeq(ss)
           s == WriteKeys(ks) \o t
<1>1. /\ n \in Nat /\ n \in Int /\ each \in Nat /\ each = 1 + KeyWords /\ KeyWords \in Nat
      /\ DOMAIN ks = 1 .. n /\ \A i \in 1 .. n : ks[i] \in AuthKey
  BY KeyWordsAssumption
<1>2. /\ ss \in Seq(Seq(Int)) /\ Len(ss) = n /\ w \in Seq(Int)
      /\ WriteKeys(ks) = <<n>> \o w /\ Placed(w, ss, each)
      /\ \A i \in 1 .. n : ss[i] = KeyRecord(ks[i])
  BY <1>1, WriteKeysIs DEF KeyRecords
<1> HIDE DEF w, ss
<1>3. Len(w) = n * each /\ n * each \in Nat
      /\ \A i \in 1 .. n, j \in 1 .. each : w[Place(i, each, j)] = ss[i][j]
  <2>1. n * each \in Nat
    BY <1>1, ProductGrows
  <2> QED
    BY <1>2, <2>1 DEF Placed
<1> HIDE DEF n, each
<1>4. s = <<n>> \o (w \o t)
  <2>1. <<n>> \in Seq(Int)
    BY <1>1
  <2> QED
    BY <1>2, <2>1, WordsAssociative
<1> HIDE DEF s
<1>5. /\ w \o t \in Seq(Int) /\ Len(w \o t) = n * each + Len(t) /\ Len(t) \in Nat
      /\ Rest(w \o t, n * each) = t
      /\ \A i \in 1 .. n * each : (w \o t)[i] = w[i]
  <2>1. Len(t) \in Nat
    OBVIOUS
  <2> QED
    BY <1>2, <1>3, <2>1, ConcatParts, SMTT(30)
<1> DEFINE body == w \o t
           total == n * each
<1> HIDE DEF body, total
<1>6. /\ body \in Seq(Int) /\ total \in Nat /\ Len(body) = total + Len(t) /\ Len(t) \in Nat
      /\ Rest(body, total) = t /\ \A i \in 1 .. total : body[i] = w[i]
      /\ s = <<n>> \o body
  BY <1>3, <1>4, <1>5 DEF body, total
<1>7. /\ s \in Seq(Int) /\ s # <<>> /\ Len(s) = Len(body) + 1 /\ Head(s) = n /\ Tail(s) = body
      /\ \A i \in 1 .. Len(body) : s[i + 1] = body[i]
  BY <1>1, <1>6, OneWord, SMTT(30)
<1>8. Rest(s, 1 + total) = t
  <2>1. Rest(s, 1 + total) = Rest(body, total)
    <3>1. Tail(s) = SubSeq(s, 2, Len(s))
      BY <1>7
    <3>2. SubSeq(s, (1 + total) + 1, Len(s)) = SubSeq(body, total + 1, Len(body))
      BY <1>6, <1>7, SMTT(30)
    <3> QED
      BY <3>2 DEF Rest
  <2> QED
    BY <1>6, <2>1
<1>9. ASSUME NEW i \in 1 .. n, NEW j \in 1 .. each
      PROVE  s[Place(i, each, j) + 1] = KeyRecord(ks[i])[j] /\ Place(i, each, j) + 1 \in 1 .. Len(s)
  <2> DEFINE p == Place(i, each, j)
  <2>1. p \in 1 .. total
    BY <1>1, PlaceInside DEF total
  <2>2. w[p] = KeyRecord(ks[i])[j]
    BY <1>2, <1>3
  <2> HIDE DEF p
  <2>3. s[p + 1] = w[p] /\ p + 1 \in 1 .. Len(s)
    BY <1>6, <1>7, <2>1
  <2> QED
    BY <2>2, <2>3 DEF p
<1> DEFINE At(i) == 1 + (i - 1) * each
           read == [i \in 1 .. n |->
                      [dc |-> s[At(i) + 1], key |-> SubSeq(s, At(i) + 2, At(i) + each)]]
<1>10. ASSUME NEW i \in 1 .. n
       PROVE  [dc |-> s[At(i) + 1], key |-> SubSeq(s, At(i) + 2, At(i) + each)] = ks[i]
  <2> DEFINE at == At(i)
  <2>1. (i - 1) * each \in Nat
    <3>1. i - 1 \in Nat /\ i - 1 <= n
      BY <1>1
    <3> QED
      BY <1>1, <3>1, ProductGrows
  <2>2. \A j \in 1 .. each : Place(i, each, j) + 1 = at + j
    <3> DEFINE x == (i - 1) * each
    <3>1. at = 1 + x /\ x \in Nat /\ \A j \in 1 .. each : Place(i, each, j) = x + j
      BY <2>1 DEF Place
    <3> HIDE DEF at, x
    <3> QED
      BY <3>1
  <2>0. at \in Nat
    BY <2>1
  <2> HIDE DEF at
  <2>3. \A j \in 1 .. each : s[at + j] = KeyRecord(ks[i])[j] /\ at + j \in 1 .. Len(s)
    BY <1>9, <2>2
  <2>4. ks[i] \in AuthKey
    BY <1>1
  <2>5. /\ ks[i] = [dc |-> ks[i].dc, key |-> ks[i].key]
        /\ ks[i].key = [j \in 1 .. KeyWords |-> ks[i].key[j]]
    BY <2>4 DEF AuthKey
  <2>6. /\ KeyRecord(ks[i])[1] = ks[i].dc
        /\ \A j \in 1 .. KeyWords : KeyRecord(ks[i])[j + 1] = ks[i].key[j]
    BY <2>4, KeyRecordIs
  <2>7. s[at + 1] = ks[i].dc
    BY <1>1, <2>3, <2>6
  <2>8. \A j \in 1 .. KeyWords : s[at + 1 + j] = ks[i].key[j]
    <3> SUFFICES ASSUME NEW j \in 1 .. KeyWords PROVE s[at + 1 + j] = ks[i].key[j]
      OBVIOUS
    <3>1. j + 1 \in 1 .. each /\ at + 1 + j = at + (j + 1)
      BY <1>1, <2>0
    <3> QED
      BY <2>3, <2>6, <3>1
  <2>9. SubSeq(s, at + 2, at + each) = [j \in 1 .. KeyWords |-> s[at + 1 + j]]
    <3> DEFINE from == at + 2
               to == at + each
               sub == SubSeq(s, from, to)
    <3>1. each \in 1 .. each
      BY <1>1
    <3>2. at + each \in 1 .. Len(s)
      BY <2>3, <3>1
    <3>3. from \in Nat \ {0} /\ to \in 1 .. Len(s) /\ to - from + 1 = KeyWords
          /\ \A j \in 1 .. KeyWords : from + j - 1 = at + 1 + j
      BY <1>1, <2>0, <3>2
    <3> HIDE DEF from, to
    <3>4. sub \in Seq(Int) /\ Len(sub) = KeyWords
      BY <1>1, <1>7, <3>3
    <3>5. \A j \in 1 .. KeyWords : sub[j] = s[from + j - 1]
      BY <1>1, <1>7, <3>3
    <3> HIDE DEF sub
    <3>6. sub = [j \in 1 .. KeyWords |-> s[at + 1 + j]]
      BY <1>1, <3>3, <3>4, <3>5
    <3> QED
      BY <3>6 DEF sub, from, to
  <2>10. SubSeq(s, at + 2, at + each) = ks[i].key
    BY <2>5, <2>8, <2>9
  <2> QED
    BY <2>5, <2>7, <2>10 DEF at
<1> HIDE DEF At
<1>11. read = ks
  <2>1. ks = [i \in 1 .. n |-> ks[i]]
    BY <1>1
  <2>2. read = [i \in 1 .. n |-> ks[i]]
    BY <1>10
  <2> QED
    BY <2>1, <2>2
<1>12. ~(total > Len(body))
  BY <1>6
<1>13. (IF Head(s) > 0 THEN Head(s) ELSE 0) = n
  BY <1>1, <1>7
<1>14. ReadKeys(s) = [ok |-> TRUE, keys |-> read, rest |-> Rest(s, 1 + total)]
  BY <1>7, <1>12, <1>13 DEF ReadKeys, At, each, total
<1> QED
  BY <1>8, <1>11, <1>14 DEF s

(***************************************************************************)
(* The authorization                                                       *)
(***************************************************************************)

\* The ids in front of the keys, in the old form and in the wide one.
Ids(a, narrow) ==
  IF narrow THEN <<a.user[2], a.dc>> ELSE <<-1, -1>> \o a.user \o <<a.dc>>

\* The ids before the keys are two words in the old form and five in the wide one.
LEMMA IdsAre ==
  ASSUME NEW a, NEW narrow \in BOOLEAN, IsAuthorization(a, narrow)
  PROVE  /\ Ids(a, narrow) \in Seq(Int)
         /\ narrow => /\ Len(Ids(a, narrow)) = 2 /\ Ids(a, narrow)[1] = a.user[2]
                      /\ Ids(a, narrow)[2] = a.dc
         /\ ~narrow => /\ Len(Ids(a, narrow)) = 5 /\ Ids(a, narrow)[2] = -1
                       /\ Ids(a, narrow)[3] = a.user[1] /\ Ids(a, narrow)[4] = a.user[2]
                       /\ Ids(a, narrow)[5] = a.dc
<1> DEFINE u == a.user
           d == a.dc
<1>1. u \in Uint64 /\ d \in Int
  BY DEF IsAuthorization
<1> HIDE DEF u, d
<1>2. u = <<u[1], u[2]>> /\ u[1] \in Int /\ u[2] \in Int
  BY <1>1 DEF Uint64
<1> DEFINE x == u[1]
           y == u[2]
<1>5. x \in Int /\ y \in Int /\ u = <<x, y>>
  BY <1>2
<1> HIDE DEF x, y
<1>3. CASE narrow
  <2>1. Ids(a, narrow) = <<y, d>>
    BY <1>3 DEF Ids, u, d, y
  <2>2. <<y, d>> \in Seq(Int) /\ Len(<<y, d>>) = 2 /\ <<y, d>>[1] = y /\ <<y, d>>[2] = d
    BY <1>1, <1>5
  <2> QED
    BY <1>3, <2>1, <2>2 DEF u, d, y
<1>4. CASE ~narrow
  <2> DEFINE p == <<-1, -1>>
             q == <<x, y>>
             r == <<d>>
  <2>1. Ids(a, narrow) = (p \o q) \o r
    BY <1>4, <1>5 DEF Ids, u, d
  <2>2. /\ p \in Seq(Int) /\ Len(p) = 2 /\ p[2] = -1
        /\ q \in Seq(Int) /\ Len(q) = 2 /\ q[1] = x /\ q[2] = y
        /\ r \in Seq(Int) /\ Len(r) = 1 /\ r[1] = d
    BY <1>1, <1>5
  <2> HIDE DEF p, q, r
  <2> DEFINE pq == p \o q
  <2>3. pq \in Seq(Int) /\ Len(pq) = 4 /\ pq[2] = -1 /\ pq[3] = x /\ pq[4] = y
    <3>1. /\ pq \in Seq(Int) /\ Len(pq) = Len(p) + Len(q)
          /\ \A i \in 1 .. Len(p) : pq[i] = p[i]
          /\ \A i \in 1 .. Len(q) : pq[Len(p) + i] = q[i]
      <4>1. p \in Seq(Int) /\ q \in Seq(Int)
        BY <2>2
      <4> QED
        BY <4>1
    <3> HIDE DEF pq
    <3>2. 2 \in 1 .. Len(p) /\ 1 \in 1 .. Len(q) /\ 2 \in 1 .. Len(q)
          /\ Len(p) + 1 = 3 /\ Len(p) + 2 = 4 /\ Len(p) + Len(q) = 4
      BY <2>2
    <3> QED
      BY <2>2, <3>1, <3>2
  <2> HIDE DEF pq
  <2> DEFINE pqr == pq \o r
  <2>4. pqr \in Seq(Int) /\ Len(pqr) = 5 /\ pqr[2] = -1 /\ pqr[3] = x /\ pqr[4] = y /\ pqr[5] = d
    <3>1. /\ pqr \in Seq(Int) /\ Len(pqr) = Len(pq) + Len(r)
          /\ \A i \in 1 .. Len(pq) : pqr[i] = pq[i]
          /\ \A i \in 1 .. Len(r) : pqr[Len(pq) + i] = r[i]
      <4>1. pq \in Seq(Int) /\ r \in Seq(Int)
        BY <2>2, <2>3
      <4> QED
        BY <4>1
    <3> HIDE DEF pqr
    <3>2. 2 \in 1 .. Len(pq) /\ 3 \in 1 .. Len(pq) /\ 4 \in 1 .. Len(pq) /\ 1 \in 1 .. Len(r)
          /\ Len(pq) + 1 = 5 /\ Len(pq) + Len(r) = 5
      BY <2>2, <2>3
    <3> QED
      BY <2>2, <2>3, <3>1, <3>2
  <2>5. Ids(a, narrow) = pqr
    BY <2>1 DEF pq
  <2> HIDE DEF pqr
  <2> QED
    BY <1>4, <2>4, <2>5 DEF x, y, u, d
<1> QED
  BY <1>3, <1>4

\* An authorization is its ids and its two lists of keys, in either form; an
\* account that writes it back always writes the wide one.
LEMMA AuthorizationWords ==
  ASSUME NEW a, NEW narrow \in BOOLEAN, IsAuthorization(a, narrow)
  PROVE  /\ TelegramAuthorization(a, narrow)
              = Ids(a, narrow) \o (WriteKeys(a.keys) \o WriteKeys(a.destroy))
         /\ a.keys \in Seq(AuthKey) /\ a.destroy \in Seq(AuthKey)
         /\ WriteKeys(a.keys) \in Seq(Int) /\ WriteKeys(a.destroy) \in Seq(Int)
         /\ TelegramAuthorization(a, narrow) \in Seq(Int)
         /\ serializeMtpAuthorization(a) = TelegramAuthorization(a, FALSE)
         /\ IsAuthorization(a, FALSE)
<1>1. a.keys \in Seq(AuthKey) /\ a.destroy \in Seq(AuthKey)
  BY DEF IsAuthorization, AuthKeys, AuthKey
<1> DEFINE x == Ids(a, narrow)
           y == WriteKeys(a.keys)
           z == WriteKeys(a.destroy)
<1>2. x \in Seq(Int) /\ y \in Seq(Int) /\ z \in Seq(Int)
  BY <1>1, IdsAre, WriteKeysIs
<1>3. TelegramAuthorization(a, narrow) = (x \o y) \o z
  BY DEF TelegramAuthorization, Ids
<1>4. serializeMtpAuthorization(a) = TelegramAuthorization(a, FALSE)
  BY DEF serializeMtpAuthorization, TelegramAuthorization, WideIdsTag
<1>5. IsAuthorization(a, FALSE)
  BY DEF IsAuthorization
<1> HIDE DEF x, y, z
<1>6. (x \o y) \o z = x \o (y \o z) /\ (x \o y) \o z \in Seq(Int)
  BY <1>2, WordsAssociative, SMTT(30)
<1> QED
  BY <1>1, <1>2, <1>3, <1>4, <1>5, <1>6 DEF x, y, z

\* An authorization is read as it was written, if it has its main key.
MainKey(a) == \E i \in DOMAIN a.keys : a.keys[i].dc = a.dc

\* What Telegram Desktop or serializeMtpAuthorization wrote is read to the last
\* key, if it has a key for its main data center, and not at all without one.
LEMMA AuthorizationRead ==
  ASSUME NEW a, NEW narrow \in BOOLEAN, IsAuthorization(a, narrow)
  PROVE  setMtpAuthorization(TelegramAuthorization(a, narrow))
           = IF MainKey(a) THEN [ok |-> TRUE, auth |-> a] ELSE [ok |-> FALSE, auth |-> NoAuth]
<1> DEFINE s == TelegramAuthorization(a, narrow)
           front == Ids(a, narrow)
           k == WriteKeys(a.keys)
           d == WriteKeys(a.destroy)
           ids == IF narrow THEN 2 ELSE 5
<1>1. /\ s = front \o (k \o d) /\ k \in Seq(Int) /\ d \in Seq(Int) /\ s \in Seq(Int)
      /\ a.keys \in Seq(AuthKey) /\ a.destroy \in Seq(AuthKey)
  BY AuthorizationWords
<1>2. /\ front \in Seq(Int) /\ Len(front) = ids
      /\ narrow => front[1] = a.user[2] /\ front[2] = a.dc
      /\ ~narrow => front[2] = -1 /\ front[3] = a.user[1] /\ front[4] = a.user[2] /\ front[5] = a.dc
  BY IdsAre
<1>3. ReadKeys(k \o d) = [ok |-> TRUE, keys |-> a.keys, rest |-> d]
  BY <1>1, KeysRead
<1>4. ReadKeys(d) = [ok |-> TRUE, keys |-> a.destroy, rest |-> <<>>]
  <2>1. <<>> \in Seq(Int)
    OBVIOUS
  <2>2. ReadKeys(d \o <<>>) = [ok |-> TRUE, keys |-> a.destroy, rest |-> <<>>]
    BY <1>1, <2>1, KeysRead
  <2>3. d \o <<>> = d
    BY <1>1
  <2> QED
    BY <2>2, <2>3
<1>5. /\ a = [user |-> a.user, dc |-> a.dc, keys |-> a.keys, destroy |-> a.destroy]
      /\ a.user = <<a.user[1], a.user[2]>>
      /\ narrow => a.user[1] = 0 /\ a.dc # -1
  BY DEF IsAuthorization, WideIdsTag, Uint64
<1> HIDE DEF s, front, k, d
<1> DEFINE tail == k \o d
<1>6. tail \in Seq(Int)
  BY <1>1
<1> HIDE DEF tail
<1>7. /\ Rest(s, ids) = tail /\ Len(s) = ids + Len(tail) /\ Len(tail) \in Nat
      /\ \A i \in 1 .. ids : s[i] = front[i]
  <2>1. s = front \o tail
    BY <1>1 DEF tail
  <2>2. Len(tail) \in Nat
    BY <1>6
  <2> HIDE DEF ids
  <2>3. Rest(front \o tail, Len(front)) = tail /\ Len(front \o tail) = Len(front) + Len(tail)
        /\ \A i \in 1 .. Len(front) : (front \o tail)[i] = front[i]
    <3>1. front \in Seq(Int)
      BY <1>2
    <3> QED
      BY <1>6, <3>1, ConcatParts
  <2> QED
    BY <1>2, <2>1, <2>2, <2>3
<1>8. Has(s, ids) /\ Has(s, 2)
  BY <1>7 DEF Has
<1>9. (WordAt(s, 2) = WideIdsTag) = ~narrow
  <2>1. 2 \in 1 .. ids
    OBVIOUS
  <2>2. WordAt(s, 2) = front[2]
    BY <1>7, <1>8, <2>1 DEF WordAt
  <2> QED
    BY <1>2, <1>5, <2>2 DEF WideIdsTag
<1>10. WordAt(s, ids) = a.dc
  <2>1. ids \in 1 .. ids
    OBVIOUS
  <2>2. WordAt(s, ids) = front[ids]
    BY <1>7, <1>8, <2>1 DEF WordAt
  <2> QED
    BY <1>2, <2>2
<1>11. UserId(s, ~narrow) = a.user
  <2>1. CASE narrow
    <3>1. s[1] = front[1]
      BY <1>7, <2>1
    <3> QED
      BY <1>2, <1>5, <2>1, <3>1 DEF UserId
  <2>2. CASE ~narrow
    <3>1. s[3] = front[3] /\ s[4] = front[4]
      BY <1>7, <2>2
    <3> QED
      BY <1>2, <1>5, <2>2, <3>1 DEF UserId
  <2> QED
    BY <2>1, <2>2
<1>12. (IF ~narrow THEN 5 ELSE 2) = ids
  OBVIOUS
<1>13. ReadKeys(Rest(s, ids)) = [ok |-> TRUE, keys |-> a.keys, rest |-> d]
  BY <1>3, <1>7 DEF tail
<1> HIDE DEF ids
<1>14. (\A i \in DOMAIN a.keys : a.keys[i].dc # a.dc) <=> ~MainKey(a)
  BY DEF MainKey
<1>15. setMtpAuthorization(s)
         = IF \A i \in DOMAIN a.keys : a.keys[i].dc # a.dc THEN [ok |-> FALSE, auth |-> NoAuth]
           ELSE [ok |-> TRUE, auth |-> [user |-> UserId(s, ~narrow), dc |-> a.dc, keys |-> a.keys,
                                        destroy |-> a.destroy]]
  <2>1. CASE narrow
    <3>1. ids = 2
      BY <2>1 DEF ids
    <3>2. /\ WordAt(s, 2) # WideIdsTag /\ Has(s, 2) /\ WordAt(s, 2) = a.dc
          /\ ReadKeys(Rest(s, 2)) = [ok |-> TRUE, keys |-> a.keys, rest |-> d]
      BY <1>8, <1>9, <1>10, <1>13, <2>1, <3>1
    <3>3. /\ ReadKeys(Rest(s, 2)).ok /\ ReadKeys(Rest(s, 2)).keys = a.keys
          /\ ReadKeys(Rest(s, 2)).rest = d
          /\ ReadKeys(d).ok /\ ReadKeys(d).keys = a.destroy
      BY <1>4, <3>2
    <3> QED
      BY <2>1, <3>2, <3>3 DEF setMtpAuthorization
  <2>2. CASE ~narrow
    <3>1. ids = 5
      BY <2>2 DEF ids
    <3>2. /\ WordAt(s, 2) = WideIdsTag /\ Has(s, 5) /\ WordAt(s, 5) = a.dc
          /\ ReadKeys(Rest(s, 5)) = [ok |-> TRUE, keys |-> a.keys, rest |-> d]
      BY <1>8, <1>9, <1>10, <1>13, <2>2, <3>1
    <3>3. /\ ReadKeys(Rest(s, 5)).ok /\ ReadKeys(Rest(s, 5)).keys = a.keys
          /\ ReadKeys(Rest(s, 5)).rest = d
          /\ ReadKeys(d).ok /\ ReadKeys(d).keys = a.destroy
      BY <1>4, <3>2
    <3> QED
      BY <2>2, <3>2, <3>3, ZenonT(30) DEF setMtpAuthorization
  <2> QED
    BY <2>1, <2>2
<1> QED
  BY <1>5, <1>11, <1>14, <1>15 DEF s

(***************************************************************************)
(* The fields of a configuration                                           *)
(***************************************************************************)

\* The fields of a configuration, and the values each may have.
Fields == Range(WriteOrder)
ValuesOf(f) == IF f \in StrFields THEN Seq(Int) ELSE IF f \in BoolFields THEN BOOLEAN ELSE Int
AreFields(g) == g = [f \in Fields |-> g[f]] /\ \A f \in Fields : g[f] \in ValuesOf(f)

\* The fields are read in the order they are written in, each one once.
LEMMA FieldsOrder ==
  /\ Len(WriteOrder) = 30 /\ DOMAIN WriteOrder = 1 .. 30 /\ ReadOrder = WriteOrder
  /\ \A i \in 1 .. 30 : WriteOrder[i] \in Fields
  /\ \A f \in Fields : \E i \in 1 .. 30 : WriteOrder[i] = f
  /\ \A f : ~(f \in StrFields /\ f \in BoolFields)
<1>1. Len(WriteOrder) = 30 /\ DOMAIN WriteOrder = 1 .. 30
  BY DEF WriteOrder
<1>2. ReadOrder = WriteOrder
  BY DEF ReadOrder, WriteOrder
<1>3. Fields = {WriteOrder[i] : i \in DOMAIN WriteOrder}
  BY DEF Fields, Range
<1>4. \A f : ~(f \in StrFields /\ f \in BoolFields)
  BY DEF StrFields, BoolFields
<1> QED
  BY <1>1, <1>2, <1>3, <1>4

\* A field is read as it was written, in front of whatever follows.
LEMMA FieldRead ==
  ASSUME NEW f, NEW v \in ValuesOf(f), NEW t \in Seq(Int)
  PROVE  /\ WriteField(f, v) \in Seq(Int)
         /\ ReadField(f, WriteField(f, v) \o t) = [ok |-> TRUE, value |-> v, rest |-> t]
<1>1. CASE f \in StrFields
  <2>1. v \in Seq(Int) /\ WriteField(f, v) = WriteBytes(v)
    BY <1>1 DEF ValuesOf, WriteField
  <2>2. ReadField(f, WriteField(f, v) \o t) = ReadBytes(WriteBytes(v) \o t)
    BY <1>1, <2>1 DEF ReadField
  <2> QED
    BY <2>1, <2>2, WrittenType, WrittenIsRead
<1>2. CASE f \in BoolFields
  <2> DEFINE w == IF v THEN 1 ELSE 0
  <2>1. v \in BOOLEAN /\ f \notin StrFields
    BY <1>2, FieldsOrder DEF ValuesOf
  <2>2. WriteField(f, v) = <<w>> /\ w \in Int /\ (w = 1) = v
    BY <1>2, <2>1 DEF WriteField
  <2> HIDE DEF w
  <2>3. <<w>> \o t # <<>> /\ Head(<<w>> \o t) = w /\ Tail(<<w>> \o t) = t
    BY <2>2, OneWord
  <2>4. <<w>> \in Seq(Int)
    BY <2>2
  <2> QED
    BY <1>2, <2>1, <2>2, <2>3, <2>4 DEF ReadField
<1>3. CASE f \notin StrFields /\ f \notin BoolFields
  <2>1. v \in Int /\ WriteField(f, v) = <<v>>
    BY <1>3 DEF WriteField, ValuesOf
  <2>2. <<v>> \o t # <<>> /\ Head(<<v>> \o t) = v /\ Tail(<<v>> \o t) = t
    BY <2>1, OneWord
  <2>3. <<v>> \in Seq(Int)
    BY <2>1
  <2> QED
    BY <1>3, <2>1, <2>2, <2>3 DEF ReadField
<1> QED
  BY <1>1, <1>2, <1>3

\* The values of all fields, and what the loop over the fields carries.
AnyValue == UNION {Seq(Int), BOOLEAN, Int}

\* Whatever is read for a field has its type.
LEMMA FieldType ==
  ASSUME NEW f, NEW s \in Seq(Int)
  PROVE  /\ ReadField(f, s).ok \in BOOLEAN
         /\ ReadField(f, s).rest \in Seq(Int)
         /\ ReadField(f, s).value \in AnyValue
         /\ ReadField(f, s).ok => ReadField(f, s).value \in ValuesOf(f)
<1>1. CASE f \in StrFields
  <2>1. ReadField(f, s) = ReadBytes(s)
    BY <1>1 DEF ReadField
  <2> QED
    BY <1>1, <2>1, ReadBytesType DEF ValuesOf, AnyValue
<1>2. CASE f \notin StrFields /\ s = <<>>
  <2>1. ReadField(f, s) = [ok |-> FALSE, value |-> 0, rest |-> <<>>]
    BY <1>2 DEF ReadField
  <2>2. <<>> \in Seq(Int) /\ 0 \in AnyValue
    BY DEF AnyValue
  <2> QED
    BY <2>1, <2>2
<1>3. CASE f \notin StrFields /\ s # <<>>
  <2>1. ReadField(f, s) = [ok |-> TRUE, value |-> IF f \in BoolFields THEN Head(s) = 1 ELSE Head(s),
                           rest |-> Tail(s)]
    BY <1>3 DEF ReadField
  <2>2. Head(s) \in Int /\ Tail(s) \in Seq(Int)
    BY <1>3
  <2> DEFINE v == IF f \in BoolFields THEN Head(s) = 1 ELSE Head(s)
  <2>3. v \in ValuesOf(f)
    <3>1. CASE f \in BoolFields
      <4>1. v = (Head(s) = 1) /\ ValuesOf(f) = BOOLEAN
        BY <1>3, <3>1 DEF ValuesOf
      <4> QED
        BY <4>1
    <3>2. CASE f \notin BoolFields
      BY <1>3, <2>2, <3>2 DEF ValuesOf
    <3> QED
      BY <3>1, <3>2
  <2> HIDE DEF v
  <2>4. ReadField(f, s) = [ok |-> TRUE, value |-> v, rest |-> Tail(s)]
    BY <2>1 DEF v
  <2>5. v \in AnyValue
    BY <2>3 DEF ValuesOf, AnyValue
  <2> QED
    BY <2>2, <2>3, <2>4, <2>5
<1> QED
  BY <1>1, <1>2, <1>3

\* What the loop over the fields carries.
Carried == [ok : BOOLEAN, rest : Seq(Int), fields : [Fields -> AnyValue]]

\* One more field is read, the others stay.
LEMMA CarriedNext ==
  ASSUME NEW acc \in Carried, NEW f \in Fields
  PROVE  /\ ReadNext(acc, f) \in Carried
         /\ ReadNext(acc, f).ok => acc.ok /\ ReadNext(acc, f).fields[f] \in ValuesOf(f)
         /\ \A e \in Fields : e # f => ReadNext(acc, f).fields[e] = acc.fields[e]
<1> DEFINE r == ReadField(f, acc.rest)
           fs == [acc.fields EXCEPT ![f] = r.value]
<1>1. acc.ok \in BOOLEAN /\ acc.rest \in Seq(Int) /\ acc.fields \in [Fields -> AnyValue]
  BY DEF Carried
<1>2. r.ok \in BOOLEAN /\ r.rest \in Seq(Int) /\ r.value \in AnyValue /\ (r.ok => r.value \in ValuesOf(f))
  BY <1>1, FieldType
<1>3. ReadNext(acc, f) = [ok |-> acc.ok /\ r.ok, rest |-> r.rest, fields |-> fs]
  BY DEF ReadNext
<1> HIDE DEF r
<1>4. fs \in [Fields -> AnyValue] /\ fs[f] = r.value /\ \A e \in Fields : e # f => fs[e] = acc.fields[e]
  BY <1>1, <1>2
<1> HIDE DEF fs
<1>5. (acc.ok /\ r.ok) \in BOOLEAN
  OBVIOUS
<1>6. ReadNext(acc, f) \in Carried
  BY <1>2, <1>3, <1>4, <1>5 DEF Carried
<1>7. ReadNext(acc, f).ok = (acc.ok /\ r.ok) /\ ReadNext(acc, f).fields = fs
  BY <1>3
<1> QED
  BY <1>2, <1>4, <1>6, <1>7

\* The turns of ReadFields.
FieldTurns(after, s) ==
  /\ after \in [0 .. 30 -> Carried]
  /\ after[0] = [ok |-> TRUE, rest |-> s, fields |-> Default.fields]
  /\ \A i \in 1 .. 30 : after[i] = ReadNext(after[i - 1], WriteOrder[i])
  /\ ReadFields(s) = after[30]

\* The fields of the built-in configuration have their types.
LEMMA DefaultFields == AreFields(Default.fields) /\ Default.fields \in [Fields -> AnyValue]
<1>1. AreFields(Default.fields)
  BY DefaultAssumption DEF IsConfig, AreFields, Fields, ValuesOf
<1>2. \A f \in Fields : Default.fields[f] \in AnyValue
  BY <1>1 DEF AreFields, ValuesOf, AnyValue
<1> QED
  BY <1>1, <1>2 DEF AreFields

\* ReadFields runs through its fields one turn at a time.
LEMMA FieldsRun ==
  ASSUME NEW s \in Seq(Int)
  PROVE  \E after : FieldTurns(after, s)
<1> DEFINE base == [ok |-> TRUE, rest |-> s, fields |-> Default.fields]
           F == [i \in 1 .. 30 |-> [acc \in Carried |-> ReadNext(acc, WriteOrder[i])]]
           Reads(g) == g = [i \in 0 .. 30 |-> IF i = 0 THEN base
                                             ELSE ReadNext(g[i - 1], WriteOrder[i])]
<1>1. base \in Carried
  BY DefaultFields DEF Carried
<1>2. ASSUME NEW i \in 1 .. 30, NEW acc \in Carried
      PROVE  ReadNext(acc, WriteOrder[i]) \in Carried
  BY FieldsOrder, CarriedNext
<1>3. F \in Turns(Carried, 30)
  BY <1>2 DEF Turns
<1> HIDE DEF base
<1>4. PICK h : IsRun(h, Carried, 30, base, F)
  <2> HIDE DEF F
  <2>1. 30 \in Nat
    OBVIOUS
  <2> QED
    BY <1>1, <1>3, <2>1, Recursion
<1>5. Reads(h)
  <2>1. h \in [0 .. 30 -> Carried] /\ h[0] = base /\ \A i \in 1 .. 30 : h[i] = F[i][h[i - 1]]
    BY <1>4 DEF IsRun
  <2>2. \A i \in 1 .. 30 : i - 1 \in 0 .. 30
    OBVIOUS
  <2>3. \A i \in 1 .. 30 : h[i] = ReadNext(h[i - 1], WriteOrder[i])
    BY <2>1, <2>2
  <2>4. \A i \in 0 .. 30 : i = 0 \/ i \in 1 .. 30
    OBVIOUS
  <2> HIDE DEF F
  <2> QED
    BY <2>1, <2>3, <2>4
<1> DEFINE g == CHOOSE r : Reads(r)
<1>6. ReadFields(s) = g[30]
  <2>1. Len(ReadOrder) = 30 /\ ReadOrder = WriteOrder
    BY FieldsOrder
  <2> QED
    BY <2>1 DEF ReadFields, base
<1>7. Reads(g)
  <2> HIDE DEF Reads
  <2> QED
    BY <1>5
<1> HIDE DEF g, F
<1>8. g[0] = base
  BY <1>7
<1>11. ASSUME NEW i \in 1 .. 30 PROVE g[i] = ReadNext(g[i - 1], WriteOrder[i])
  <2>1. i \in 0 .. 30 /\ i # 0
    OBVIOUS
  <2> QED
    BY <1>7, <2>1
<1>9. \A i \in 0 .. 30 : g[i] \in Carried
  <2> DEFINE S == {i \in 0 .. 30 : g[i] \in Carried}
  <2>1. 0 \in S
    BY <1>1, <1>8
  <2>2. ASSUME NEW i \in 1 .. 30, i - 1 \in S PROVE i \in S
    <3>1. g[i - 1] \in Carried /\ i \in 0 .. 30
      BY <2>2
    <3>2. g[i] \in Carried
      BY <1>2, <1>11, <3>1
    <3> QED
      BY <3>1, <3>2
  <2> HIDE DEF S
  <2>3. \A i \in 0 .. 30 : i \in S
    BY <2>1, <2>2, BoundedInduction
  <2> QED
    BY <2>3 DEF S
<1>10. g \in [0 .. 30 -> Carried]
  <2>1. g = [i \in 0 .. 30 |-> g[i]]
    BY <1>7
  <2> QED
    BY <1>9, <2>1
<1> QED
  BY <1>6, <1>8, <1>10, <1>11 DEF FieldTurns, base

\* Fields that are read at all have their types.
LEMMA FieldsType ==
  ASSUME NEW s \in Seq(Int)
  PROVE  ReadFields(s).ok => AreFields(ReadFields(s).fields)
<1>1. PICK after : FieldTurns(after, s)
  BY FieldsRun
<1>2. after \in [0 .. 30 -> Carried] /\ after[0] = [ok |-> TRUE, rest |-> s, fields |-> Default.fields]
      /\ ReadFields(s) = after[30]
  BY <1>1 DEF FieldTurns
<1>3. \A i \in 1 .. 30 : after[i] = ReadNext(after[i - 1], WriteOrder[i])
  BY <1>1 DEF FieldTurns
<1> DEFINE S == {i \in 0 .. 30 : after[i].ok => AreFields(after[i].fields)}
<1>4. 0 \in S
  <2>1. after[0].fields = Default.fields /\ 0 \in 0 .. 30
    BY <1>2
  <2>2. AreFields(after[0].fields)
    BY <2>1, DefaultFields
  <2> QED
    BY <2>1, <2>2
<1>5. ASSUME NEW i \in 1 .. 30, i - 1 \in S PROVE i \in S
  <2> DEFINE acc == after[i - 1]
             f == WriteOrder[i]
             next == ReadNext(acc, f)
  <2>1. acc.ok => AreFields(acc.fields)
    BY <1>5
  <2>2. acc \in Carried /\ f \in Fields
    <3>1. i - 1 \in 0 .. 30
      OBVIOUS
    <3> QED
      BY <1>2, <3>1, FieldsOrder
  <2>3. after[i] = next
    BY <1>3
  <2> HIDE DEF acc, f
  <2>4. /\ next \in Carried
        /\ next.ok => acc.ok /\ next.fields[f] \in ValuesOf(f)
        /\ \A e \in Fields : e # f => next.fields[e] = acc.fields[e]
    BY <2>2, CarriedNext
  <2> HIDE DEF next
  <2>5. next.fields = [e \in Fields |-> next.fields[e]]
    BY <2>4 DEF Carried
  <2>6. next.ok => \A e \in Fields : next.fields[e] \in ValuesOf(e)
    BY <2>1, <2>4 DEF AreFields
  <2>7. next.ok => AreFields(next.fields)
    BY <2>5, <2>6 DEF AreFields
  <2> QED
    BY <2>3, <2>7
<1> HIDE DEF S
<1>6. \A i \in 0 .. 30 : i \in S
  BY <1>4, <1>5, BoundedInduction
<1>7. 30 \in S
  BY <1>6
<1> QED
  BY <1>2, <1>7 DEF S

\* The words of the fields, and what is read after i of them.
FieldList(g) == [i \in 1 .. 30 |-> WriteField(WriteOrder[i], g[WriteOrder[i]])]
ReadSoFar(g, i) ==
  [f \in Fields |-> IF \E j \in 1 .. i : WriteOrder[j] = f THEN g[f] ELSE Default.fields[f]]

\* The state of ReadFields after i fields of a configuration that was written.
FieldsAt(g, i) == [ok |-> TRUE, rest |-> From(FieldList(g), i), fields |-> ReadSoFar(g, i)]

\* The words of the fields are the fields in order.
LEMMA FieldListIs ==
  ASSUME NEW g, AreFields(g)
  PROVE  /\ FieldList(g) \in Seq(Seq(Int)) /\ Len(FieldList(g)) = 30
         /\ FieldsWords(g) = FlattenSeq(FieldList(g)) /\ FieldsWords(g) \in Seq(Int)
         /\ \A i \in 1 .. 30 : /\ FieldList(g)[i] = WriteField(WriteOrder[i], g[WriteOrder[i]])
                               /\ g[WriteOrder[i]] \in ValuesOf(WriteOrder[i])
<1>1. \A i \in 1 .. 30 : g[WriteOrder[i]] \in ValuesOf(WriteOrder[i])
  BY FieldsOrder DEF AreFields
<1>2. <<>> \in Seq(Int)
  OBVIOUS
<1>3. \A i \in 1 .. 30 : WriteField(WriteOrder[i], g[WriteOrder[i]]) \in Seq(Int)
  BY <1>1, <1>2, FieldRead
<1>4. FieldList(g) \in Seq(Seq(Int)) /\ Len(FieldList(g)) = 30
  BY <1>3 DEF FieldList
<1>5. FieldsWords(g) = FlattenSeq(FieldList(g))
  BY FieldsOrder DEF FieldsWords, FieldList
<1>6. FlattenSeq(FieldList(g)) \in Seq(Int)
  BY <1>4, FlattenType
<1> QED
  BY <1>1, <1>4, <1>5, <1>6 DEF FieldList

\* The fields that were written are read.
LEMMA FieldsRead ==
  ASSUME NEW g, AreFields(g)
  PROVE  ReadFields(FieldsWords(g)).ok /\ ReadFields(FieldsWords(g)).fields = g
<1> DEFINE ws == FieldsWords(g)
           fl == FieldList(g)
<1>1. /\ fl \in Seq(Seq(Int)) /\ Len(fl) = 30 /\ ws = FlattenSeq(fl) /\ ws \in Seq(Int)
      /\ \A i \in 1 .. 30 : /\ fl[i] = WriteField(WriteOrder[i], g[WriteOrder[i]])
                            /\ g[WriteOrder[i]] \in ValuesOf(WriteOrder[i])
  BY FieldListIs
<1> HIDE DEF ws, fl
<1>2. PICK after : FieldTurns(after, ws)
  BY <1>1, FieldsRun
<1>3. after[0] = [ok |-> TRUE, rest |-> ws, fields |-> Default.fields] /\ ReadFields(ws) = after[30]
  BY <1>2 DEF FieldTurns
<1>4. \A i \in 1 .. 30 : after[i] = ReadNext(after[i - 1], WriteOrder[i])
  BY <1>2 DEF FieldTurns
<1> DEFINE S == {i \in 0 .. 30 : after[i] = FieldsAt(g, i)}
<1>5. 0 \in S
  <2>1. From(fl, 0) = ws
    BY <1>1, FromStart
  <2>2. ReadSoFar(g, 0) = Default.fields
    BY DefaultFields DEF ReadSoFar, AreFields
  <2>3. after[0] = FieldsAt(g, 0)
    BY <1>3, <2>1, <2>2 DEF FieldsAt, fl
  <2> QED
    BY <2>3
<1>6. ASSUME NEW i \in 1 .. 30, i - 1 \in S PROVE i \in S
  <2> DEFINE f == WriteOrder[i]
             v == g[f]
             t == From(fl, i)
             r == ReadField(f, From(fl, i - 1))
  <2>1. after[i - 1] = FieldsAt(g, i - 1)
    BY <1>6
  <2>2. From(fl, i - 1) = fl[i] \o t /\ t \in Seq(Int)
    <3>1. fl \in Seq(Seq(Int)) /\ i \in 1 .. Len(fl) /\ i \in 0 .. Len(fl)
      BY <1>1
    <3>2. From(fl, i - 1) = fl[i] \o From(fl, i)
      BY <3>1, FromNext
    <3>3. From(fl, i) \in Seq(Int)
      BY <3>1, FromType
    <3> QED
      BY <3>2, <3>3
  <2>3. v \in ValuesOf(f) /\ fl[i] = WriteField(f, v) /\ f \in Fields
    BY <1>1, FieldsOrder
  <2>4. r = [ok |-> TRUE, value |-> v, rest |-> t]
    <3> HIDE DEF f, v, t
    <3> QED
      BY <2>2, <2>3, FieldRead
  <2>5. [ReadSoFar(g, i - 1) EXCEPT ![f] = v] = ReadSoFar(g, i)
    <3> DEFINE x == ReadSoFar(g, i - 1)
    <3>1. \A j : j \in 1 .. i <=> j \in 1 .. i - 1 \/ j = i
      OBVIOUS
    <3>2. x = [e \in Fields |-> IF \E j \in 1 .. i - 1 : WriteOrder[j] = e THEN g[e]
                                ELSE Default.fields[e]]
      BY DEF ReadSoFar
    <3>3. ReadSoFar(g, i) = [e \in Fields |-> IF e = f THEN v ELSE x[e]]
      BY <3>1, <3>2 DEF ReadSoFar
    <3> HIDE DEF x, f, v
    <3>4. [x EXCEPT ![f] = v] = [e \in Fields |-> IF e = f THEN v ELSE x[e]]
      BY <2>3, <3>2
    <3> QED
      BY <3>3, <3>4 DEF x
  <2> DEFINE old == FieldsAt(g, i - 1)
  <2>6. old.ok /\ ReadField(f, old.rest) = r /\ old.fields = ReadSoFar(g, i - 1)
    BY DEF FieldsAt, fl
  <2>7. after[i] = FieldsAt(g, i)
    <3> HIDE DEF r, f, v, t, old
    <3>1. ReadNext(old, f) = [ok |-> old.ok /\ r.ok, rest |-> r.rest,
                              fields |-> [old.fields EXCEPT ![f] = r.value]]
      BY <2>6 DEF ReadNext
    <3>2. (old.ok /\ r.ok) = TRUE
      BY <2>4, <2>6
    <3>3. ReadNext(old, f) = [ok |-> TRUE, rest |-> t, fields |-> ReadSoFar(g, i)]
      <4>1. r.rest = t /\ r.value = v
        BY <2>4
      <4>2. [old.fields EXCEPT ![f] = r.value] = ReadSoFar(g, i)
        BY <2>5, <2>6, <4>1
      <4> QED
        BY <3>1, <3>2, <4>1, <4>2
    <3>4. after[i] = ReadNext(old, f)
      BY <1>4, <2>1 DEF old, f
    <3> QED
      BY <3>3, <3>4 DEF FieldsAt, t, fl
  <2> QED
    BY <2>7
<1> HIDE DEF S
<1>7. \A i \in 0 .. 30 : i \in S
  BY <1>5, <1>6, BoundedInduction
<1>8. after[30] = FieldsAt(g, 30)
  <2>1. 30 \in S
    BY <1>7
  <2> QED
    BY <2>1 DEF S
<1>9. ReadSoFar(g, 30) = g
  <2>1. \A f \in Fields : \E j \in 1 .. 30 : WriteOrder[j] = f
    BY FieldsOrder
  <2>2. ReadSoFar(g, 30) = [f \in Fields |-> g[f]]
    BY <2>1 DEF ReadSoFar
  <2> QED
    BY <2>2 DEF AreFields
<1> QED
  BY <1>3, <1>8, <1>9 DEF ws, FieldsAt

(***************************************************************************)
(* The endpoints of a configuration                                        *)
(***************************************************************************)

\* An endpoint; whether it can be written; and without its secret.
AnEndpoint == [dc : Int, flags : Int, port : Int, ip : Seq(Int), secret : Seq(Int)]
Writable(e) == 4 * Len(e.ip) \in 1 .. 45 /\ 4 * Len(e.secret) <= 32

\* An endpoint as Telegram Desktop writes it.
EndpointHead(e) == <<e.dc, e.flags, e.port>> \o WriteBytes(e.ip)
EndpointRecord(e) == EndpointHead(e) \o WriteBytes(e.secret)
Stripped(e) == [e EXCEPT !.secret = <<>>]

\* The words of an endpoint, one by one.
LEMMA HeadIs ==
  ASSUME NEW e \in AnEndpoint
  PROVE  /\ EndpointHead(e) \in Seq(Int) /\ Len(EndpointHead(e)) = 4 + Len(e.ip)
         /\ EndpointHead(e)[1] = e.dc /\ EndpointHead(e)[2] = e.flags /\ EndpointHead(e)[3] = e.port
         /\ EndpointHead(e)[4] = 4 * Len(e.ip)
         /\ \A j \in 1 .. Len(e.ip) : EndpointHead(e)[4 + j] = e.ip[j]
         /\ EndpointRecord(e) \in Seq(Int)
<1> DEFINE x == e.dc
           y == e.flags
           z == e.port
           ip == e.ip
           three == <<x, y, z>>
           w == WriteBytes(ip)
<1>1. x \in Int /\ y \in Int /\ z \in Int /\ ip \in Seq(Int) /\ e.secret \in Seq(Int)
  BY DEF AnEndpoint
<1> HIDE DEF x, y, z, ip
<1>2. three \in Seq(Int) /\ Len(three) = 3 /\ three[1] = x /\ three[2] = y /\ three[3] = z
  BY <1>1
<1>3. w \in Seq(Int) /\ Len(w) = Len(ip) + 1 /\ w[1] = 4 * Len(ip) /\ \A j \in 1 .. Len(ip) : w[j + 1] = ip[j]
  <2>1. 4 * Len(ip) \in Int
    BY <1>1
  <2> QED
    BY <1>1, <2>1, OneWord DEF WriteBytes
<1> HIDE DEF three, w
<1> DEFINE h == three \o w
<1>4. /\ h \in Seq(Int) /\ Len(h) = Len(three) + Len(w)
      /\ \A i \in 1 .. Len(three) : h[i] = three[i]
      /\ \A i \in 1 .. Len(w) : h[Len(three) + i] = w[i]
  <2>1. three \in Seq(Int) /\ w \in Seq(Int)
    BY <1>2, <1>3
  <2> QED
    BY <2>1
<1> HIDE DEF h
<1> DEFINE n == Len(ip)
<1>5. n \in Nat /\ Len(h) = 4 + n /\ h[1] = x /\ h[2] = y /\ h[3] = z /\ h[4] = 4 * n
  <2>1. n \in Nat
    BY <1>1
  <2> HIDE DEF n
  <2>2. Len(w) = n + 1 /\ Len(three) = 3 /\ w[1] = 4 * n
    BY <1>2, <1>3 DEF n
  <2>3. 1 \in 1 .. Len(w) /\ Len(three) + 1 = 4 /\ 1 \in 1 .. 3 /\ 2 \in 1 .. 3 /\ 3 \in 1 .. 3
    BY <2>1, <2>2
  <2> QED
    BY <1>2, <1>4, <2>1, <2>2, <2>3
<1>6. ASSUME NEW j \in 1 .. n PROVE h[4 + j] = ip[j]
  <2>1. j + 1 \in 1 .. Len(w) /\ Len(three) + (j + 1) = 4 + j
    BY <1>2, <1>3, <1>5
  <2>2. h[Len(three) + (j + 1)] = w[j + 1]
    BY <1>4, <2>1
  <2> QED
    BY <1>3, <2>1, <2>2
<1>7. h = EndpointHead(e)
  BY DEF EndpointHead, h, three, w, x, y, z, ip
<1>8. EndpointRecord(e) \in Seq(Int)
  <2>1. WriteBytes(e.secret) \in Seq(Int)
    BY <1>1, WrittenType
  <2> QED
    BY <1>4, <1>7, <2>1 DEF EndpointRecord
<1> QED
  BY <1>4, <1>5, <1>6, <1>7, <1>8 DEF x, y, z, ip

\* An endpoint without its secret, field by field.
LEMMA StrippedIs ==
  ASSUME NEW e \in AnEndpoint
  PROVE  Stripped(e) = [dc |-> e.dc, flags |-> e.flags, port |-> e.port, ip |-> e.ip, secret |-> <<>>]
<1>1. ASSUME NEW A, NEW B, NEW d \in A, NEW f \in A, NEW p \in A, NEW i \in B, NEW x \in B, NEW v
      PROVE  [[dc |-> d, flags |-> f, port |-> p, ip |-> i, secret |-> x] EXCEPT !.secret = v]
               = [dc |-> d, flags |-> f, port |-> p, ip |-> i, secret |-> v]
  OBVIOUS
<1>2. PICK d \in Int, f \in Int, p \in Int, i \in Seq(Int), x \in Seq(Int) :
        e = [dc |-> d, flags |-> f, port |-> p, ip |-> i, secret |-> x]
  BY DEF AnEndpoint
<1>3. Stripped(e) = [dc |-> d, flags |-> f, port |-> p, ip |-> i, secret |-> <<>>]
  BY <1>1, <1>2 DEF Stripped
<1> QED
  BY <1>2, <1>3

\* Sequences that agree word by word are equal.
LEMMA SameWords ==
  ASSUME NEW x \in Seq(Int), NEW y \in Seq(Int), Len(x) = Len(y),
         \A j \in 1 .. Len(y) : x[j] = y[j]
  PROVE  x = y
OBVIOUS

\* An endpoint is read as it was written, without its secret.
LEMMA EndpointRead ==
  ASSUME NEW e \in AnEndpoint, Writable(e), NEW t \in Seq(Int), NEW acc,
         acc.ok, acc.rest = EndpointRecord(e) \o t
  PROVE  ReadEndpoint(acc, 2)
           = [ok |-> TRUE, rest |-> t, endpoints |-> Append(acc.endpoints, Stripped(e))]
<1> DEFINE h == EndpointHead(e)
           sec == WriteBytes(e.secret)
           n == Len(e.ip)
           after == sec \o t
           s == acc.rest
<1>1. /\ h \in Seq(Int) /\ Len(h) = 4 + n
      /\ h[1] = e.dc /\ h[2] = e.flags /\ h[3] = e.port /\ h[4] = 4 * n
      /\ \A j \in 1 .. n : h[4 + j] = e.ip[j]
  BY HeadIs
<1>2. e.ip \in Seq(Int) /\ e.secret \in Seq(Int) /\ n \in Nat /\ Len(e.secret) \in Nat
  BY DEF AnEndpoint
<1>3. 4 * n \in 1 .. 45 /\ 4 * Len(e.secret) <= 32
  BY DEF Writable
<1>4. sec \in Seq(Int) /\ sec # <<>> /\ sec[1] = 4 * Len(e.secret) /\ Len(sec) = Len(e.secret) + 1
  <2>1. 4 * Len(e.secret) \in Int
    BY <1>2
  <2> QED
    BY <1>2, <2>1, OneWord DEF WriteBytes
<1>5. ReadBytes(after) = [ok |-> TRUE, value |-> e.secret, rest |-> t]
  BY <1>2, WrittenIsRead
<1>14. Stripped(e) = [dc |-> e.dc, flags |-> e.flags, port |-> e.port, ip |-> e.ip, secret |-> <<>>]
  BY StrippedIs
<1> HIDE DEF h, sec
<1>6. after \in Seq(Int) /\ Len(after) >= 1 /\ after[1] = 4 * Len(e.secret)
  <2>1. /\ sec \o t \in Seq(Int) /\ Len(sec \o t) = Len(sec) + Len(t)
        /\ \A i \in 1 .. Len(sec) : (sec \o t)[i] = sec[i]
    <3>1. sec \in Seq(Int)
      BY <1>4
    <3> QED
      BY <3>1, ConcatParts
  <2>2. Len(sec) >= 1 /\ Len(sec) \in Nat /\ Len(t) \in Nat
    BY <1>2, <1>4
  <2> HIDE DEF n
  <2> QED
    BY <1>4, <2>1, <2>2
<1>7. s = h \o after
  <2>1. s = (h \o sec) \o t
    BY DEF EndpointRecord, h, sec
  <2> QED
    BY <1>1, <1>4, <2>1, WordsAssociative
<1> HIDE DEF after, n, s
<1>8. /\ Rest(s, 4 + n) = after /\ s \in Seq(Int) /\ Len(s) = (4 + n) + Len(after)
      /\ \A i \in 1 .. 4 + n : s[i] = h[i]
  <2>1. h \in Seq(Int)
    BY <1>1
  <2>2. /\ Rest(h \o after, Len(h)) = after /\ h \o after \in Seq(Int)
        /\ Len(h \o after) = Len(h) + Len(after)
        /\ \A i \in 1 .. Len(h) : (h \o after)[i] = h[i]
    BY <1>6, <2>1, ConcatParts
  <2> QED
    BY <1>1, <1>7, <2>2
<1>9. s[1] = e.dc /\ s[2] = e.flags /\ s[3] = e.port /\ s[4] = 4 * n
  <2>1. 1 \in 1 .. 4 + n /\ 2 \in 1 .. 4 + n /\ 3 \in 1 .. 4 + n /\ 4 \in 1 .. 4 + n
    BY <1>2
  <2> QED
    BY <1>1, <1>8, <2>1
<1>10. SubSeq(s, 5, 4 + n) = e.ip
  <2>1. \A j \in 1 .. n : 4 + j \in 1 .. 4 + n
    BY <1>2
  <2>2. \A j \in 1 .. n : s[4 + j] = e.ip[j]
    BY <1>1, <1>8, <2>1
  <2>3. Len(s) >= 4 + n
    BY <1>2, <1>6, <1>8
  <2> DEFINE sub == SubSeq(s, 5, 4 + n)
  <2>4. sub \in Seq(Int) /\ Len(sub) = n /\ \A j \in 1 .. n : sub[j] = s[4 + j]
    BY <1>2, <1>8, <2>3
  <2> HIDE DEF sub
  <2>5. sub = e.ip
    <3> DEFINE ip == e.ip
    <3>1. ip \in Seq(Int) /\ Len(ip) = n
      BY <1>2 DEF n
    <3>2. \A j \in 1 .. n : sub[j] = ip[j]
      BY <2>2, <2>4
    <3> HIDE DEF ip
    <3>3. sub = ip
      BY <2>4, <3>1, <3>2, SameWords
    <3> QED
      BY <3>3 DEF ip
  <2> QED
    BY <2>5 DEF sub
<1>11. WordAt(s, 4) = 4 * n /\ (4 * n) \div 4 = n
  <2>1. Has(s, 4)
    BY <1>2, <1>6, <1>8 DEF Has
  <2> QED
    BY <1>2, <1>9, <2>1 DEF WordAt
<1>12. Has(s, 4 + n) /\ WordAt(after, 1) \in 0 .. 32
  <2>1. Len(s) >= 4 + n
    BY <1>2, <1>6, <1>8
  <2>2. Has(after, 1)
    BY <1>6 DEF Has
  <2> DEFINE m == Len(e.secret)
  <2>3. m \in Nat /\ 4 * m <= 32 /\ WordAt(after, 1) = 4 * m
    BY <1>2, <1>3, <1>6, <2>2 DEF WordAt
  <2> HIDE DEF m
  <2>4. 4 * m \in 0 .. 32
    BY <2>3
  <2> QED
    BY <2>1, <2>3, <2>4 DEF Has
<1>13. ~(4 * n <= 0) /\ ~(4 * n > 45)
  BY <1>2, <1>3
<1> DEFINE new == [dc |-> s[1], flags |-> s[2], port |-> s[3], ip |-> SubSeq(s, 5, 4 + n),
                   secret |-> <<>>]
<1>15. new = Stripped(e)
  BY <1>9, <1>10, <1>14
<1>16. ReadEndpoint(acc, 2) = [ok |-> TRUE, rest |-> t, endpoints |-> Append(acc.endpoints, new)]
  <2>1. /\ ReadBytes(after).ok /\ ReadBytes(after).rest = t /\ 2 > 0
    BY <1>5
  <2> DEFINE size == 4 * n
             at == 4 + n
  <2>2. /\ WordAt(s, 4) = size /\ 4 + size \div 4 = at
        /\ Rest(s, at) = after /\ Has(s, at) /\ ~(size <= 0) /\ ~(size > 45)
    BY <1>8, <1>11, <1>12, <1>13
  <2> HIDE DEF size, at
  <2>3. new = [dc |-> s[1], flags |-> s[2], port |-> s[3], ip |-> SubSeq(s, 5, at), secret |-> <<>>]
    BY DEF at
  <2> HIDE DEF new
  <2> QED
    BY <1>12, <2>1, <2>2, <2>3 DEF ReadEndpoint, s
<1> QED
  BY <1>15, <1>16

\* What the loop over the endpoints carries.
Loaded == [ok : BOOLEAN, endpoints : Seq(AnEndpoint), rest : Seq(Int)]

\* A word is a number, also past the end.
LEMMA WordAtType ==
  ASSUME NEW s \in Seq(Int), NEW i \in Nat \ {0}
  PROVE  WordAt(s, i) \in Int
BY DEF WordAt, Has

\* Whatever a stream holds, ReadEndpoint gives typed endpoints.
LEMMA ReadEndpointType ==
  ASSUME NEW acc \in Loaded, NEW version \in Int
  PROVE  ReadEndpoint(acc, version) \in Loaded
<1> DEFINE s      == acc.rest
           ipSize == WordAt(s, 4)
           at     == 4 + ipSize \div 4
           after  == Rest(s, at)
           secret == IF version > 0 THEN ReadBytes(after)
                     ELSE [ok |-> TRUE, value |-> <<>>, rest |-> after]
           bad == \/ ~acc.ok
                  \/ ipSize <= 0 \/ ipSize > 45
                  \/ ~Has(s, at)
                  \/ version > 0 /\ WordAt(after, 1) \notin 0 .. 32
                  \/ ~secret.ok
           new == [dc |-> s[1], flags |-> s[2], port |-> s[3], ip |-> SubSeq(s, 5, at),
                   secret |-> <<>>]
<1>1. s \in Seq(Int) /\ acc.endpoints \in Seq(AnEndpoint) /\ ipSize \in Int
  <2>1. acc.rest \in Seq(Int) /\ 4 \in Nat \ {0}
    BY DEF Loaded
  <2> QED
    BY <2>1, WordAtType DEF Loaded
<1>2. ReadEndpoint(acc, version) =
        IF bad THEN [ok |-> FALSE, endpoints |-> <<>>, rest |-> <<>>]
        ELSE [ok |-> TRUE, rest |-> secret.rest, endpoints |-> Append(acc.endpoints, new)]
  BY DEF ReadEndpoint
<1>3. CASE bad
  <2>1. <<>> \in Seq(AnEndpoint) /\ <<>> \in Seq(Int)
    OBVIOUS
  <2>2. ReadEndpoint(acc, version) = [ok |-> FALSE, endpoints |-> <<>>, rest |-> <<>>]
    BY <1>2, <1>3
  <2> QED
    BY <2>1, <2>2 DEF Loaded
<1>4. CASE ~bad
  <2>1. ipSize > 0 /\ Has(s, at)
    BY <1>1, <1>4
  <2> HIDE DEF ipSize, s
  <2>2. at \in Nat /\ at >= 4 /\ Len(s) >= at
    BY <1>1, <2>1 DEF Has
  <2> HIDE DEF at
  <2>3. after \in Seq(Int)
    BY <1>1, <2>2, RestType
  <2> HIDE DEF after
  <2>4. secret.rest \in Seq(Int)
    BY <2>3, ReadBytesType
  <2>5. s[1] \in Int /\ s[2] \in Int /\ s[3] \in Int /\ SubSeq(s, 5, at) \in Seq(Int)
    <3>1. 1 \in 1 .. Len(s) /\ 2 \in 1 .. Len(s) /\ 3 \in 1 .. Len(s) /\ Len(s) \in Nat
      BY <1>1, <2>2
    <3>2. s[1] \in Int /\ s[2] \in Int /\ s[3] \in Int
      BY <1>1, <3>1
    <3>3. SubSeq(s, 5, at) \in Seq(Int)
      BY <1>1, <2>2, <3>1
    <3> QED
      BY <3>2, <3>3
  <2>6. new \in AnEndpoint
    <3>1. <<>> \in Seq(Int)
      OBVIOUS
    <3> QED
      BY <2>5, <3>1 DEF AnEndpoint
  <2> HIDE DEF new, secret
  <2>7. Append(acc.endpoints, new) \in Seq(AnEndpoint)
    BY <1>1, <2>6
  <2>8. ReadEndpoint(acc, version)
          = [ok |-> TRUE, rest |-> secret.rest, endpoints |-> Append(acc.endpoints, new)]
    <3> HIDE DEF bad
    <3> QED
      BY <1>2, <1>4
  <2> QED
    BY <2>4, <2>7, <2>8 DEF Loaded
<1> QED
  BY <1>3, <1>4

\* The head of the list: its version, how many endpoints it announces, and
\* where they start.
Version(s) == IF WordAt(s, 1) < 0 THEN -s[1] ELSE 0
Announced(s) == LET count == WordAt(s, IF Version(s) > 0 THEN 2 ELSE 1)
                IN  IF count > 0 THEN count ELSE 0
Endpoints(s) == IF Version(s) > 0 THEN Rest(s, 2) ELSE Rest(s, 1)

\* The turns of constructFromSerialized.
EndpointTurns(after, s) ==
  /\ after \in [0 .. Announced(s) -> Loaded]
  /\ after[0] = [ok |-> TRUE, endpoints |-> <<>>, rest |-> Endpoints(s)]
  /\ \A i \in 1 .. Announced(s) : after[i] = ReadEndpoint(after[i - 1], Version(s))
  /\ constructFromSerialized(s) = after[Announced(s)]

\* The head of a list of endpoints has its types.
LEMMA HeadType ==
  ASSUME NEW s \in Seq(Int)
  PROVE  Version(s) \in Int /\ Announced(s) \in Nat /\ Endpoints(s) \in Seq(Int)
<1>1. WordAt(s, 1) \in Int /\ WordAt(s, 2) \in Int
  BY WordAtType
<1>2. Version(s) \in Int
  <2>1. CASE Has(s, 1)
    <3>1. s[1] = WordAt(s, 1)
      BY <2>1 DEF WordAt
    <3> QED
      BY <1>1, <3>1 DEF Version
  <2>2. CASE ~Has(s, 1)
    <3>1. WordAt(s, 1) = 0
      BY <2>2 DEF WordAt
    <3> QED
      BY <3>1 DEF Version
  <2> QED
    BY <2>1, <2>2
<1>3. Announced(s) \in Nat
  <2>1. Version(s) > 0 => Announced(s) = IF WordAt(s, 2) > 0 THEN WordAt(s, 2) ELSE 0
    BY DEF Announced
  <2>2. ~(Version(s) > 0) => Announced(s) = IF WordAt(s, 1) > 0 THEN WordAt(s, 1) ELSE 0
    BY DEF Announced
  <2> QED
    BY <1>1, <2>1, <2>2
<1>4. Endpoints(s) \in Seq(Int)
  BY RestType DEF Endpoints
<1> QED
  BY <1>2, <1>3, <1>4

\* constructFromSerialized runs through the endpoints one turn at a time.
LEMMA EndpointsRun ==
  ASSUME NEW s \in Seq(Int)
  PROVE  \E after : EndpointTurns(after, s)
<1> DEFINE n == Announced(s)
           v == Version(s)
           base == [ok |-> TRUE, endpoints |-> <<>>, rest |-> Endpoints(s)]
           F == [i \in 1 .. n |-> [acc \in Loaded |-> ReadEndpoint(acc, v)]]
           Reads(g) == g = [i \in 0 .. n |-> IF i = 0 THEN base ELSE ReadEndpoint(g[i - 1], v)]
<1>1. n \in Nat /\ v \in Int /\ Endpoints(s) \in Seq(Int)
  BY HeadType
<1>2. base \in Loaded
  <2>1. <<>> \in Seq(AnEndpoint)
    OBVIOUS
  <2> QED
    BY <1>1, <2>1 DEF Loaded
<1> DEFINE g == CHOOSE r : Reads(r)
<1>3. constructFromSerialized(s) = g[n]
  BY DEF constructFromSerialized, Announced, Version, Endpoints
<1> HIDE DEF n, v, base
<1>4. \A acc \in Loaded : ReadEndpoint(acc, v) \in Loaded
  BY <1>1, ReadEndpointType
<1>5. F \in Turns(Loaded, n)
  BY <1>4 DEF Turns
<1>6. PICK h : IsRun(h, Loaded, n, base, F)
  <2> HIDE DEF F
  <2> QED
    BY <1>1, <1>2, <1>5, Recursion
<1>7. Reads(h)
  <2>1. h \in [0 .. n -> Loaded] /\ h[0] = base /\ \A i \in 1 .. n : h[i] = F[i][h[i - 1]]
    BY <1>6 DEF IsRun
  <2>2. \A i \in 1 .. n : i - 1 \in 0 .. n
    BY <1>1
  <2>3. \A i \in 1 .. n : h[i] = ReadEndpoint(h[i - 1], v)
    BY <2>1, <2>2
  <2>4. \A i \in 0 .. n : i = 0 \/ i \in 1 .. n
    BY <1>1
  <2> HIDE DEF F
  <2> QED
    BY <2>1, <2>3, <2>4
<1>8. Reads(g)
  <2> HIDE DEF Reads
  <2> QED
    BY <1>7
<1> HIDE DEF g, F
<1>9. g[0] = base
  BY <1>1, <1>8
<1>10. ASSUME NEW i \in 1 .. n PROVE g[i] = ReadEndpoint(g[i - 1], v)
  <2>1. i \in 0 .. n /\ i # 0
    BY <1>1
  <2> QED
    BY <1>8, <2>1
<1>11. \A i \in 0 .. n : g[i] \in Loaded
  <2> DEFINE S == {i \in 0 .. n : g[i] \in Loaded}
  <2>1. 0 \in S
    BY <1>1, <1>2, <1>9
  <2>2. ASSUME NEW i \in 1 .. n, i - 1 \in S PROVE i \in S
    <3>1. g[i - 1] \in Loaded /\ i \in 0 .. n
      BY <1>1, <2>2
    <3>2. g[i] \in Loaded
      BY <1>4, <1>10, <3>1
    <3> QED
      BY <3>1, <3>2
  <2> HIDE DEF S
  <2>3. \A i \in 0 .. n : i \in S
    BY <1>1, <2>1, <2>2, BoundedInduction
  <2> QED
    BY <2>3 DEF S
<1>12. g \in [0 .. n -> Loaded]
  <2>1. g = [i \in 0 .. n |-> g[i]]
    BY <1>8
  <2> QED
    BY <1>11, <2>1
<1> QED
  BY <1>3, <1>9, <1>10, <1>12 DEF EndpointTurns, n, v, base

\* The words of the endpoints, and the endpoints without their secrets.
EndpointRecords(es) == [i \in DOMAIN es |-> EndpointRecord(es[i])]
AllStripped(es) == [i \in DOMAIN es |-> Stripped(es[i])]

\* A list of endpoints, endpoint by endpoint.
LEMMA EndpointListIs ==
  ASSUME NEW es \in Seq(AnEndpoint)
  PROVE  /\ Len(es) \in Nat /\ DOMAIN es = 1 .. Len(es)
         /\ EndpointRecords(es) \in Seq(Seq(Int)) /\ Len(EndpointRecords(es)) = Len(es)
         /\ \A i \in 1 .. Len(es) : /\ es[i] \in AnEndpoint
                                    /\ EndpointRecords(es)[i] = EndpointRecord(es[i])
                                    /\ AllStripped(es)[i] = Stripped(es[i])
         /\ AllStripped(es) \in Seq(AnEndpoint) /\ Len(AllStripped(es)) = Len(es)
<1>1. Len(es) \in Nat /\ DOMAIN es = 1 .. Len(es) /\ \A i \in 1 .. Len(es) : es[i] \in AnEndpoint
  OBVIOUS
<1>2. EndpointRecords(es) \in Seq(Seq(Int)) /\ Len(EndpointRecords(es)) = Len(es)
  <2>1. \A i \in 1 .. Len(es) : EndpointRecord(es[i]) \in Seq(Int)
    BY <1>1, HeadIs
  <2> QED
    BY <1>1, <2>1 DEF EndpointRecords
<1>3. AllStripped(es) \in Seq(AnEndpoint) /\ Len(AllStripped(es)) = Len(es)
  <2>1. \A e \in AnEndpoint : Stripped(e) \in AnEndpoint
    <3> SUFFICES ASSUME NEW e \in AnEndpoint PROVE Stripped(e) \in AnEndpoint
      OBVIOUS
    <3>1. /\ e.dc \in Int /\ e.flags \in Int /\ e.port \in Int /\ e.ip \in Seq(Int)
          /\ <<>> \in Seq(Int)
      BY DEF AnEndpoint
    <3>2. Stripped(e) = [dc |-> e.dc, flags |-> e.flags, port |-> e.port, ip |-> e.ip, secret |-> <<>>]
      BY StrippedIs
    <3> QED
      BY <3>1, <3>2 DEF AnEndpoint
  <2>2. \A i \in 1 .. Len(es) : Stripped(es[i]) \in AnEndpoint
    BY <1>1, <2>1
  <2> QED
    BY <1>1, <2>2 DEF AllStripped
<1> QED
  BY <1>1, <1>2, <1>3 DEF EndpointRecords, AllStripped

\* The list of endpoints as it is written: its head, the endpoints, an empty
\* list of keys.
Listed(es) == FlattenSeq(EndpointRecords(es)) \o <<0>>

\* The head of the list announces version 2 and all its endpoints.
LEMMA OptionsAre ==
  ASSUME NEW es \in Seq(AnEndpoint)
  PROVE  /\ TelegramOptions(es) = <<-2, Len(es)>> \o Listed(es)
         /\ TelegramOptions(es) \in Seq(Int) /\ Listed(es) \in Seq(Int)
         /\ Version(TelegramOptions(es)) = 2
         /\ Announced(TelegramOptions(es)) = Len(es)
         /\ Endpoints(TelegramOptions(es)) = Listed(es)
<1> DEFINE n == Len(es)
           w == FlattenSeq(EndpointRecords(es))
           two == <<-2, n>>
           l == Listed(es)
           s == TelegramOptions(es)
<1>1. n \in Nat /\ w \in Seq(Int)
  BY EndpointListIs, FlattenType
<1>2. s = (two \o w) \o <<0>>
  BY DEF TelegramOptions, EndpointRecords, EndpointRecord, EndpointHead
<1>3. <<0>> \in Seq(Int)
  OBVIOUS
<1> HIDE DEF n, w
<1>4. two \in Seq(Int) /\ Len(two) = 2 /\ two[1] = -2 /\ two[2] = n
  BY <1>1
<1> HIDE DEF two, s
<1>5. l = w \o <<0>> /\ l \in Seq(Int)
  <2>1. l = w \o <<0>>
    BY DEF Listed, w
  <2> QED
    BY <1>1, <1>3, <2>1, ConcatParts
<1>6. s = two \o l
  <2> DEFINE z == <<0>>
  <2>1. z \in Seq(Int)
    BY <1>3
  <2> HIDE DEF z
  <2>2. (two \o w) \o z = two \o (w \o z)
    BY <1>1, <1>4, <2>1, WordsAssociative
  <2> QED
    BY <1>2, <1>5, <2>2 DEF z
<1> HIDE DEF l
<1>7. /\ Rest(two \o l, Len(two)) = l /\ two \o l \in Seq(Int)
      /\ Len(two \o l) = Len(two) + Len(l)
      /\ \A i \in 1 .. Len(two) : (two \o l)[i] = two[i]
  <2>1. two \in Seq(Int) /\ l \in Seq(Int)
    BY <1>4, <1>5
  <2> QED
    BY <2>1, ConcatParts
<1>8. /\ Rest(s, 2) = l /\ s \in Seq(Int) /\ Len(s) >= 2 /\ s[1] = -2 /\ s[2] = n
  <2>1. 1 \in 1 .. Len(two) /\ 2 \in 1 .. Len(two) /\ Len(l) \in Nat
    BY <1>4, <1>5
  <2> QED
    BY <1>4, <1>6, <1>7, <2>1
<1>9. WordAt(s, 1) = -2 /\ WordAt(s, 2) = n
  BY <1>8 DEF WordAt, Has
<1>10. Version(s) = 2
  <2> DEFINE k == s[1]
  <2>1. k \in Int /\ k = -2 /\ WordAt(s, 1) < 0
    BY <1>8, <1>9
  <2>2. Version(s) = -k
    BY <2>1 DEF Version
  <2> HIDE DEF k
  <2>3. -k = 2
    <3>1. k = 0 - 2
      BY <2>1
    <3>2. \A x \in Int : -x = 0 - x
      OBVIOUS
    <3>3. -k = 0 - k
      BY <2>1, <3>2
    <3>4. 0 - k = 2
      BY <3>1
    <3> QED
      BY <3>3, <3>4
  <2> QED
    BY <2>2, <2>3
<1>11. Announced(s) = n
  BY <1>1, <1>9, <1>10 DEF Announced
<1>12. Endpoints(s) = l
  BY <1>8, <1>10 DEF Endpoints
<1> QED
  BY <1>5, <1>6, <1>8, <1>10, <1>11, <1>12 DEF s, l, two, n

\* The state of the loop after i of the endpoints.
EndpointsAt(es, i) ==
  [ok |-> TRUE, endpoints |-> SubSeq(AllStripped(es), 1, i), rest |-> From(EndpointRecords(es), i) \o <<0>>]

\* The endpoints Telegram Desktop wrote are all read, without their secrets.
LEMMA EndpointsRead ==
  ASSUME NEW es \in Seq(AnEndpoint), \A i \in DOMAIN es : Writable(es[i])
  PROVE  /\ constructFromSerialized(TelegramOptions(es)).ok
         /\ constructFromSerialized(TelegramOptions(es)).endpoints = AllStripped(es)
<1> DEFINE n == Len(es)
           s == TelegramOptions(es)
           rs == EndpointRecords(es)
           st == AllStripped(es)
<1>1. /\ n \in Nat /\ DOMAIN es = 1 .. n /\ rs \in Seq(Seq(Int)) /\ Len(rs) = n
      /\ st \in Seq(AnEndpoint) /\ Len(st) = n
      /\ \A i \in 1 .. n : es[i] \in AnEndpoint /\ rs[i] = EndpointRecord(es[i]) /\ st[i] = Stripped(es[i])
  BY EndpointListIs
<1>2. /\ s \in Seq(Int) /\ Version(s) = 2 /\ Announced(s) = n /\ Endpoints(s) = Listed(es)
  BY OptionsAre
<1> HIDE DEF n, s, rs, st
<1>3. PICK after : EndpointTurns(after, s)
  BY <1>2, EndpointsRun
<1>4. after[0] = [ok |-> TRUE, endpoints |-> <<>>, rest |-> Listed(es)]
  BY <1>2, <1>3 DEF EndpointTurns
<1>5. \A i \in 1 .. n : after[i] = ReadEndpoint(after[i - 1], 2)
  BY <1>2, <1>3 DEF EndpointTurns
<1>6. constructFromSerialized(s) = after[n]
  BY <1>2, <1>3 DEF EndpointTurns
<1> DEFINE S == {i \in 0 .. n : after[i] = EndpointsAt(es, i)}
<1>7. 0 \in S
  <2>1. From(rs, 0) = FlattenSeq(rs)
    BY <1>1, FromStart
  <2>2. SubSeq(st, 1, 0) = <<>>
    BY <1>1
  <2>3. after[0] = EndpointsAt(es, 0)
    BY <1>4, <2>1, <2>2 DEF EndpointsAt, Listed, rs, st
  <2> QED
    BY <1>1, <2>3
<1>8. ASSUME NEW i \in 1 .. n, i - 1 \in S PROVE i \in S
  <2> DEFINE e == es[i]
             acc == after[i - 1]
             t == From(rs, i) \o <<0>>
  <2>1. acc = EndpointsAt(es, i - 1) /\ i \in 0 .. n
    BY <1>1, <1>8
  <2>2. e \in AnEndpoint /\ Writable(e) /\ rs[i] = EndpointRecord(e) /\ st[i] = Stripped(e)
    BY <1>1
  <2>3. From(rs, i) \in Seq(Int) /\ <<0>> \in Seq(Int) /\ rs[i] \in Seq(Int)
    <3>1. i \in 0 .. Len(rs) /\ rs[i] \in Seq(Int)
      BY <1>1, <2>1
    <3>2. From(rs, i) \in Seq(Int)
      BY <1>1, <3>1, FromType
    <3> QED
      BY <3>1, <3>2
  <2>4. From(rs, i - 1) = rs[i] \o From(rs, i)
    BY <1>1, FromNext
  <2>5. t \in Seq(Int)
    BY <2>3, ConcatParts
  <2>6. (rs[i] \o From(rs, i)) \o <<0>> = rs[i] \o t
    BY <2>3, WordsAssociative
  <2>7. acc.ok /\ acc.endpoints = SubSeq(st, 1, i - 1) /\ acc.rest = From(rs, i - 1) \o <<0>>
    BY <2>1 DEF EndpointsAt, rs, st
  <2>8. acc.rest = EndpointRecord(e) \o t
    BY <2>2, <2>4, <2>6, <2>7
  <2> HIDE DEF t, acc, e
  <2>9. ReadEndpoint(acc, 2) = [ok |-> TRUE, rest |-> t, endpoints |-> Append(acc.endpoints, Stripped(e))]
    BY <2>2, <2>5, <2>7, <2>8, EndpointRead
  <2>10. SubSeq(st, 1, i) = Append(SubSeq(st, 1, i - 1), st[i])
    <3>1. i \in 1 .. Len(st)
      BY <1>1
    <3> QED
      BY <1>1, <3>1, FirstBlocks
  <2>11. Append(acc.endpoints, Stripped(e)) = SubSeq(st, 1, i)
    BY <2>2, <2>7, <2>10
  <2>12. after[i] = EndpointsAt(es, i)
    <3>1. after[i] = ReadEndpoint(acc, 2)
      BY <1>5 DEF acc
    <3>2. EndpointsAt(es, i) = [ok |-> TRUE, endpoints |-> SubSeq(st, 1, i), rest |-> t]
      BY DEF EndpointsAt, rs, st, t
    <3> QED
      BY <2>9, <2>11, <3>1, <3>2
  <2> QED
    BY <2>1, <2>12
<1> HIDE DEF S
<1>9. \A i \in 0 .. n : i \in S
  BY <1>1, <1>7, <1>8, BoundedInduction
<1>10. after[n] = EndpointsAt(es, n)
  <2>1. n \in S
    BY <1>1, <1>9
  <2> QED
    BY <2>1 DEF S
<1>11. SubSeq(st, 1, n) = st
  BY <1>1
<1> QED
  BY <1>6, <1>10, <1>11 DEF EndpointsAt, s, st

(***************************************************************************)
(* The configuration                                                       *)
(***************************************************************************)

\* A configuration an account may hold: its fields have their types.
IsTyped(c) ==
  /\ c = [test |-> c.test, endpoints |-> c.endpoints, fields |-> c.fields]
  /\ c.test \in BOOLEAN /\ c.endpoints \in Seq(AnEndpoint) /\ AreFields(c.fields)

\* A given configuration has its types, and its endpoints can be written.
LEMMA ConfigIs ==
  ASSUME NEW c, IsConfig(c)
  PROVE  IsTyped(c) /\ \A i \in DOMAIN c.endpoints : Writable(c.endpoints[i])
<1>1. /\ c = [test |-> c.test, endpoints |-> c.endpoints, fields |-> c.fields]
      /\ c.test \in BOOLEAN
  BY DEF IsConfig
<1>2. c.endpoints \in Seq(AnEndpoint)
  BY DEF IsConfig, AnEndpoint
<1>3. AreFields(c.fields)
  <2>1. c.fields = [f \in Fields |-> c.fields[f]]
    BY DEF IsConfig, Fields
  <2>2. \A f \in Fields : c.fields[f] \in ValuesOf(f)
    BY DEF IsConfig, Fields, ValuesOf
  <2> QED
    BY <2>1, <2>2 DEF AreFields
<1>4. ASSUME NEW i \in DOMAIN c.endpoints PROVE Writable(c.endpoints[i])
  <2>1. 4 * Len(c.endpoints[i].ip) \in 1 .. 45 /\ 4 * Len(c.endpoints[i].secret) <= 32
    BY DEF IsConfig
  <2> QED
    BY <2>1 DEF Writable
<1> QED
  BY <1>1, <1>2, <1>3, <1>4 DEF IsTyped

\* What is understood of a configuration, field by field.
LEMMA UnderstoodIs ==
  ASSUME NEW c, IsConfig(c)
  PROVE  Understood(c) = [test |-> c.test, endpoints |-> AllStripped(c.endpoints), fields |-> c.fields]
<1>1. ASSUME NEW t, NEW es, NEW fs, NEW v
      PROVE  [[test |-> t, endpoints |-> es, fields |-> fs] EXCEPT !.endpoints = v]
               = [test |-> t, endpoints |-> v, fields |-> fs]
  OBVIOUS
<1>2. Understood(c) = [c EXCEPT !.endpoints = AllStripped(c.endpoints)]
  BY DEF Understood, AllStripped, Stripped
<1>3. c = [test |-> c.test, endpoints |-> c.endpoints, fields |-> c.fields]
  BY DEF IsConfig
<1> DEFINE t == c.test
           es == c.endpoints
           fs == c.fields
           v == AllStripped(c.endpoints)
<1>4. c = [test |-> t, endpoints |-> es, fields |-> fs] /\ Understood(c) = [c EXCEPT !.endpoints = v]
  BY <1>2, <1>3
<1>5. Understood(c) = [test |-> t, endpoints |-> v, fields |-> fs]
  <2> HIDE DEF t, es, fs, v
  <2> QED
    BY <1>1, <1>4
<1> QED
  BY <1>5

\* The words of a configuration: its head, and what its reader finds behind it.
BehindHead(s, w, fs) == ReadBytes(Rest(s, 2)) = [ok |-> TRUE, value |-> w, rest |-> fs]

\* The reader of a configuration finds its head, and the two parts behind it.
LEMMA ConfigParts ==
  ASSUME NEW t \in BOOLEAN, NEW w \in Seq(Int), NEW fs \in Seq(Int), NEW s,
         s = <<1, IF t THEN 1 ELSE 0>> \o WriteBytes(w) \o fs
  PROVE  /\ s \in Seq(Int) /\ Has(s, 2) /\ s[1] = 1 /\ (s[2] = 1 <=> t)
         /\ BehindHead(s, w, fs)
<1> DEFINE b == IF t THEN 1 ELSE 0
           two == <<1, b>>
           x == WriteBytes(w)
           l == x \o fs
<1>1. b \in Int /\ (b = 1 <=> t)
  OBVIOUS
<1>2. s = (two \o x) \o fs
  OBVIOUS
<1> HIDE DEF b
<1>3. two \in Seq(Int) /\ Len(two) = 2 /\ two[1] = 1 /\ two[2] = b
  BY <1>1
<1>4. x \in Seq(Int)
  BY WrittenType
<1> HIDE DEF two, x
<1>5. s = two \o l
  BY <1>2, <1>3, <1>4, WordsAssociative
<1>6. l \in Seq(Int)
  BY <1>4
<1>7. ReadBytes(l) = [ok |-> TRUE, value |-> w, rest |-> fs]
  BY WrittenIsRead DEF x
<1> HIDE DEF l
<1>8. /\ Rest(two \o l, Len(two)) = l /\ two \o l \in Seq(Int)
      /\ Len(two \o l) = Len(two) + Len(l)
      /\ \A i \in 1 .. Len(two) : (two \o l)[i] = two[i]
  <2>1. two \in Seq(Int)
    BY <1>3
  <2> QED
    BY <1>6, <2>1, ConcatParts
<1>9. /\ Rest(s, 2) = l /\ s \in Seq(Int) /\ Len(s) >= 2 /\ s[1] = 1 /\ s[2] = b
  <2>1. 1 \in 1 .. Len(two) /\ 2 \in 1 .. Len(two) /\ Len(l) \in Nat
    BY <1>3, <1>6
  <2> DEFINE r == two \o l
  <2>2. s = r
    BY <1>5
  <2>3. Rest(r, 2) = l /\ r \in Seq(Int) /\ Len(r) >= 2
    BY <1>3, <1>8, <2>1
  <2>4. r[1] = 1 /\ r[2] = b
    BY <1>3, <1>8, <2>1
  <2> HIDE DEF r
  <2> QED
    BY <2>2, <2>3, <2>4
<1> QED
  BY <1>1, <1>7, <1>9 DEF Has, BehindHead

\* What Telegram Desktop writes is read field by field and endpoint by endpoint.
LEMMA ConfigRead ==
  ASSUME NEW c, IsConfig(c)
  PROVE  /\ TelegramConfig(c) \in Seq(Int)
         /\ FromSerializedConfig(TelegramConfig(c)) = [ok |-> TRUE, config |-> Understood(c)]
<1> DEFINE s == TelegramConfig(c)
           w == TelegramOptions(c.endpoints)
           fs == FieldsWords(c.fields)
<1>1. IsTyped(c) /\ \A i \in DOMAIN c.endpoints : Writable(c.endpoints[i])
  BY ConfigIs
<1>2. c.test \in BOOLEAN /\ c.endpoints \in Seq(AnEndpoint) /\ AreFields(c.fields)
  BY <1>1 DEF IsTyped
<1>3. w \in Seq(Int) /\ fs \in Seq(Int)
  <2>1. w \in Seq(Int)
    BY <1>2, OptionsAre
  <2>2. fs \in Seq(Int)
    BY <1>2, FieldListIs
  <2> QED
    BY <2>1, <2>2
<1>4. s = <<1, IF c.test THEN 1 ELSE 0>> \o WriteBytes(w) \o fs
  BY DEF TelegramConfig
<1> HIDE DEF s, w, fs
<1> DEFINE t == c.test
<1>t. t \in BOOLEAN /\ s = <<1, IF t THEN 1 ELSE 0>> \o WriteBytes(w) \o fs
  BY <1>2, <1>4
<1> HIDE DEF t
<1>5. /\ s \in Seq(Int) /\ Has(s, 2) /\ s[1] = 1 /\ (s[2] = 1 <=> t)
      /\ BehindHead(s, w, fs)
  <2>1. s \in Seq(Int) /\ Has(s, 2)
    BY <1>3, <1>t, ConfigParts
  <2>2. s[1] = 1 /\ (s[2] = 1 <=> t)
    BY <1>3, <1>t, ConfigParts
  <2>3. BehindHead(s, w, fs)
    BY <1>3, <1>t, ConfigParts
  <2> QED
    BY <2>1, <2>2, <2>3
<1>6. ReadFields(fs).ok /\ ReadFields(fs).fields = c.fields
  BY <1>2, FieldsRead DEF fs
<1>7. constructFromSerialized(w).ok /\ constructFromSerialized(w).endpoints = AllStripped(c.endpoints)
  BY <1>1, <1>2, EndpointsRead DEF w
<1>8. FromSerializedConfig(s)
        = [ok |-> TRUE, config |-> [test |-> s[2] = 1, endpoints |-> AllStripped(c.endpoints),
                                    fields |-> c.fields]]
  <2> DEFINE o == ReadBytes(Rest(s, 2))
  <2>1. o.value = w /\ o.rest = fs
    BY <1>5 DEF BehindHead
  <2>2. /\ ReadFields(o.rest).ok /\ ReadFields(o.rest).fields = c.fields
        /\ constructFromSerialized(o.value).ok
        /\ constructFromSerialized(o.value).endpoints = AllStripped(c.endpoints)
    BY <1>6, <1>7, <2>1
  <2>3. Has(s, 2) /\ s[1] = 1
    BY <1>5
  <2>4. FromSerializedConfig(s)
          = IF ~Has(s, 2) \/ s[1] # 1 \/ ~ReadFields(o.rest).ok \/ ~constructFromSerialized(o.value).ok
            THEN [ok |-> FALSE, config |-> Default]
            ELSE [ok |-> TRUE, config |-> [test |-> s[2] = 1,
                     endpoints |-> constructFromSerialized(o.value).endpoints,
                     fields |-> ReadFields(o.rest).fields]]
    BY DEF FromSerializedConfig
  <2> HIDE DEF o
  <2> QED
    BY <2>2, <2>3, <2>4
<1>9. Understood(c) = [test |-> c.test, endpoints |-> AllStripped(c.endpoints), fields |-> c.fields]
  BY UnderstoodIs
<1>10. FromSerializedConfig(s) = [ok |-> TRUE, config |-> Understood(c)]
  <2>1. (s[2] = 1) = c.test
    BY <1>5, <1>t DEF t
  <2> QED
    BY <1>8, <1>9, <2>1
<1> QED
  BY <1>5, <1>10 DEF s

\* Whatever the words are, what is read from them has the types of a configuration.
LEMMA ConfigType ==
  ASSUME NEW s \in Seq(Int)
  PROVE  IsTyped(FromSerializedConfig(s).config)
<1> DEFINE o == ReadBytes(Rest(s, 2))
           fields == ReadFields(o.rest)
           endpoints == constructFromSerialized(o.value)
           bad == ~Has(s, 2) \/ s[1] # 1 \/ ~fields.ok \/ ~endpoints.ok
<1>1. FromSerializedConfig(s)
        = IF bad THEN [ok |-> FALSE, config |-> Default]
          ELSE [ok |-> TRUE, config |-> [test |-> s[2] = 1, endpoints |-> endpoints.endpoints,
                                         fields |-> fields.fields]]
  BY DEF FromSerializedConfig
<1>2. o.value \in Seq(Int) /\ o.rest \in Seq(Int)
  <2>1. Rest(s, 2) \in Seq(Int)
    BY RestType
  <2> QED
    BY <2>1, ReadBytesType
<1> HIDE DEF o
<1>3. fields.ok => AreFields(fields.fields)
  BY <1>2, FieldsType
<1>4. endpoints.endpoints \in Seq(AnEndpoint)
  <2> DEFINE w == o.value
             n == Announced(w)
  <2>1. w \in Seq(Int)
    BY <1>2
  <2> HIDE DEF w
  <2>2. PICK after : EndpointTurns(after, w)
    BY <2>1, EndpointsRun
  <2>3. n \in 0 .. n
    <3>1. n \in Nat
      BY <2>1, HeadType
    <3> HIDE DEF n
    <3> QED
      BY <3>1
  <2>4. constructFromSerialized(w) \in Loaded
    BY <2>2, <2>3 DEF EndpointTurns
  <2>5. constructFromSerialized(w).endpoints \in Seq(AnEndpoint)
    BY <2>4 DEF Loaded
  <2> QED
    BY <2>5 DEF w
<1> HIDE DEF fields, endpoints
<1>5. CASE bad
  <2>1. FromSerializedConfig(s).config = Default
    BY <1>1, <1>5
  <2>2. IsTyped(Default)
    BY DefaultAssumption, ConfigIs
  <2> QED
    BY <2>1, <2>2
<1>6. CASE ~bad
  <2>1. FromSerializedConfig(s).config
          = [test |-> s[2] = 1, endpoints |-> endpoints.endpoints, fields |-> fields.fields]
    BY <1>1, <1>6
  <2>2. fields.ok
    BY <1>6
  <2> QED
    BY <1>3, <1>4, <2>1, <2>2 DEF IsTyped
<1> QED
  BY <1>5, <1>6

\* What an account writes of its configuration is a sequence of words.
LEMMA ConfigWordsType ==
  ASSUME NEW c, IsTyped(c)
  PROVE  ConfigWords(c) \in Seq(Int)
<1> DEFINE es == c.endpoints
           written == {i \in DOMAIN es : es[i].dc % 10000 <= 1000}
           parts == [i \in DOMAIN es |-> IF i \in written THEN EndpointWords(es[i]) ELSE <<>>]
           n == Cardinality(written)
           w == OptionsWords(es)
           fs == FieldsWords(c.fields)
<1>1. c.test \in BOOLEAN /\ es \in Seq(AnEndpoint) /\ AreFields(c.fields)
  BY DEF IsTyped
<1>2. n \in Nat
  <2>1. IsFiniteSet(1 .. Len(es))
    BY <1>1, FS_Interval
  <2>2. written \subseteq 1 .. Len(es)
    BY <1>1
  <2> HIDE DEF written
  <2>3. IsFiniteSet(written)
    BY <2>1, <2>2, FS_Subset
  <2> QED
    BY <2>3, FS_CardinalityType
<1>3. w = <<-2, n>> \o FlattenSeq(parts) \o <<0>>
  BY DEF OptionsWords
<1>4. \A e \in AnEndpoint : EndpointWords(e) \in Seq(Int)
  <2> SUFFICES ASSUME NEW e \in AnEndpoint PROVE EndpointWords(e) \in Seq(Int)
    OBVIOUS
  <2>1. e.dc \in Int /\ e.flags \in Int /\ e.ip \in Seq(Int) /\ e.secret \in Seq(Int)
    BY DEF AnEndpoint
  <2>2. WriteBytes(e.ip) \in Seq(Int) /\ WriteBytes(e.secret) \in Seq(Int)
    BY <2>1, WrittenType
  <2>3. <<e.dc, e.flags>> \in Seq(Int)
    BY <2>1
  <2> QED
    BY <2>2, <2>3 DEF EndpointWords
<1> HIDE DEF n, written, w
<1>5. parts \in Seq(Seq(Int))
  <2>1. <<>> \in Seq(Int)
    OBVIOUS
  <2>2. DOMAIN es = 1 .. Len(es) /\ Len(es) \in Nat /\ \A i \in 1 .. Len(es) : es[i] \in AnEndpoint
    BY <1>1
  <2>3. \A i \in 1 .. Len(es) : parts[i] \in Seq(Int)
    BY <1>4, <2>1, <2>2
  <2>4. parts = [i \in 1 .. Len(es) |-> parts[i]]
    BY <2>2
  <2> HIDE DEF parts
  <2> QED
    BY <2>2, <2>3, <2>4
<1> HIDE DEF parts
<1>6. w \in Seq(Int)
  <2>1. FlattenSeq(parts) \in Seq(Int)
    BY <1>5, FlattenType
  <2>2. <<-2, n>> \in Seq(Int) /\ <<0>> \in Seq(Int)
    BY <1>2
  <2> QED
    BY <1>3, <2>1, <2>2
<1>7. fs \in Seq(Int)
  BY <1>1, FieldListIs
<1>8. ConfigWords(c) = <<1, IF c.test THEN 1 ELSE 0>> \o WriteBytes(w) \o fs
  BY DEF ConfigWords, w
<1> DEFINE t == c.test
           s == ConfigWords(c)
<1>9. t \in BOOLEAN /\ s = <<1, IF t THEN 1 ELSE 0>> \o WriteBytes(w) \o fs
  BY <1>1, <1>8
<1> HIDE DEF fs, t, s
<1>10. s \in Seq(Int)
  BY <1>6, <1>7, <1>9, ConfigParts
<1> QED
  BY <1>10 DEF s

(***************************************************************************)
(* The invariant of the account                                            *)
(***************************************************************************)

\* The map Telegram Desktop wrote, where it can be read.
Written == Meaning(Known(given.blocks))

\* Whether the file is still the one Telegram Desktop wrote.
MapIsGiven    == saves = 0 /\ pc \notin {"writeConfig", "writeData"}
ConfigIsGiven == saves = 0 /\ pc # "writeData"

\* The types of the state.
Shape ==
  /\ given \in Givens /\ lenient \in BOOLEAN /\ saves \in 0 .. MaxSaves
  /\ pc \in {"start", "map", "data", "config", "ready", "raised", "writeConfig",
             "writeData", "saved"}
  /\ files = [map |-> files.map, config |-> files.config, data |-> files.data]
  /\ account = [map |-> account.map, config |-> account.config, auth |-> account.auth,
                isLoaded |-> account.isLoaded]
  /\ account.map \in Maps /\ partial \in Maps
  /\ account.isLoaded \in BOOLEAN
  /\ IsTyped(account.config)

\* The three files say the blocks, the configuration and the authorization.
FilesSay(bs, w, narrow) ==
  /\ Says(files.map, FlattenSeq(BlockList(bs)))
  /\ w \in Seq(Int) /\ Says(files.config, WriteBytes(w))
  /\ ConfigIsGiven => w = TelegramConfig(given.config)
  /\ narrow \in BOOLEAN /\ IsAuthorization(given.auth, narrow)
  /\ Says(files.data, <<MtpAuthorization>> \o WriteBytes(TelegramAuthorization(given.auth, narrow)))

\* The blocks are the ones of Telegram Desktop, or say what they said.
BlocksSay(bs) ==
  /\ IsMap(bs)
  /\ IF MapIsGiven THEN bs = given.blocks
     ELSE bs \in Seq(Whole) /\ Readable /\ Written \in Maps /\ Meaning(bs) = Saved(Written)

\* What the account holds at every point of its way.
AccountHas(bs) ==
  /\ pc \in {"start", "map"} => account = NewAccount
  /\ pc = "map" => \E k : AtBlock(bs, k, partial, left)
  /\ pc \in {"data", "raised"} =>
       ~account.isLoaded /\ ReadableOf(bs) /\ account.map = Meaning(Known(bs))
  /\ pc = "raised" => ~HasMainKey
  /\ pc \in {"config", "ready"} =>
       IF account.isLoaded THEN ReadableOf(bs) /\ account.map = Meaning(Known(bs))
       ELSE ~ReadableOf(bs) /\ account.map = EmptyMap
  /\ pc \in {"writeConfig", "writeData", "saved"} => account.isLoaded
  /\ pc \in {"writeConfig", "writeData"} =>
       saves < MaxSaves /\ account.map = IF saves = 0 THEN Written ELSE Saved(Written)
  /\ pc = "saved" => saves > 0
  /\ account.isLoaded => account.auth = given.auth /\ HasMainKey
  /\ saves = 0 /\ pc = "ready" => account.config = Understood(given.config)

\* The inductive invariant: some blocks, words and form of the ids account for
\* everything on disk and in the account.
Holds(bs, w, narrow) == FilesSay(bs, w, narrow) /\ BlocksSay(bs) /\ AccountHas(bs)
IInv == Shape /\ \E bs, w, narrow : Holds(bs, w, narrow)

\* What is sealed is found again.
LEMMA SealSays ==
  ASSUME NEW w \in Seq(Int)
  PROVE  Says(Seal(w), w)
<1>1. Len(w) \in Nat /\ (Len(w) = 0 => w = <<>>)
  OBVIOUS
<1>2. 4 * Len(w) \in Nat /\ (4 * Len(w) = 0 => w = <<>>)
  BY <1>1
<1> QED
  BY <1>2, SealedSays DEF Seal

\* What is written before and after a payload.
LEMMA PayloadRead ==
  ASSUME NEW w \in Seq(Int)
  PROVE  /\ WriteBytes(w) \in Seq(Int)
         /\ ReadBytes(WriteBytes(w)) = [ok |-> TRUE, value |-> w, rest |-> <<>>]
<1> DEFINE s == WriteBytes(w)
           none == <<>>
<1>1. s \in Seq(Int)
  BY WrittenType
<1>2. none \in Seq(Int) /\ s \o none = s
  BY <1>1
<1> HIDE DEF none
<1>3. ReadBytes(s \o none) = [ok |-> TRUE, value |-> w, rest |-> none]
  BY <1>2, WrittenIsRead
<1> HIDE DEF s
<1>4. ReadBytes(s) = [ok |-> TRUE, value |-> w, rest |-> none]
  BY <1>2, <1>3
<1> QED
  BY <1>1, <1>4 DEF s, none

\* The payload of the authorization file is found behind its marker.
LEMMA DataRead ==
  ASSUME NEW w \in Seq(Int), NEW s, s = <<MtpAuthorization>> \o WriteBytes(w)
  PROVE  /\ s \in Seq(Int) /\ WordAt(s, 1) = MtpAuthorization
         /\ ReadBytes(Tail(s)).value = w
<1> DEFINE x == WriteBytes(w)
           v == MtpAuthorization
           r == <<v>> \o x
<1>1. x \in Seq(Int) /\ ReadBytes(x).value = w
  BY PayloadRead
<1>2. v \in Int /\ s = r
  BY DEF MtpAuthorization
<1> HIDE DEF x, v
<1>3. r \in Seq(Int) /\ Tail(r) = x /\ r[1] = v /\ Len(r) = Len(x) + 1
  BY <1>1, <1>2, OneWord
<1> HIDE DEF r
<1>4. Len(r) >= 1
  BY <1>1, <1>3
<1>5. WordAt(r, 1) = v
  BY <1>3, <1>4 DEF WordAt, Has
<1>6. r \in Seq(Int) /\ WordAt(r, 1) = v /\ ReadBytes(Tail(r)).value = w
  BY <1>1, <1>3, <1>5
<1> QED
  BY <1>2, <1>6 DEF v

\* A new account has an empty map.
LEMMA EmptyIsMap == EmptyMap \in Maps /\ NewAccount.map = EmptyMap
<1>1. <<>> \in Seq(Whole)
  OBVIOUS
<1>2. Meaning(<<>>) \in Maps
  BY <1>1, MeaningType
<1> QED
  BY <1>2, NothingKnown DEF NewAccount

\* A given, field by field.
LEMMA GivenIs ==
  ASSUME NEW g \in Givens
  PROVE  /\ IsMap(g.blocks) /\ g.narrow \in BOOLEAN
         /\ IsAuthorization(g.auth, g.narrow) /\ IsConfig(g.config)
BY GivensAssumption

\* What depends on the given files and the environment alone does not change.
LEMMA SameGiven ==
  ASSUME given' = given, lenient' = lenient
  PROVE  /\ Written' = Written /\ (Readable' <=> Readable) /\ (HasMainKey' <=> HasMainKey)
         /\ \A bs : ReadableOf(bs)' <=> ReadableOf(bs)
<1>1. Written' = Written
  BY DEF Written
<1>2. Readable' <=> Readable
  BY DEF Readable
<1>3. HasMainKey' <=> HasMainKey
  BY DEF HasMainKey
<1>4. \A bs : ReadableOf(bs)' <=> ReadableOf(bs)
  BY DEF ReadableOf
<1> QED
  BY <1>1, <1>2, <1>3, <1>4

\* A point of the map is the same point after a step that keeps the environment.
LEMMA SameBlock ==
  ASSUME NEW bs, NEW k, NEW m, NEW s, AtBlock(bs, k, m, s),
         lenient' = lenient, partial' = m, left' = s
  PROVE  AtBlock(bs, k, partial, left)'
<1>1. AtBlock(bs, k, m, s)'
  BY DEF AtBlock
<1> QED
  BY <1>1 DEF AtBlock

\* A call that only reads leaves the files as they are.
LEMMA FilesKept ==
  ASSUME NEW bs, NEW w, NEW narrow, FilesSay(bs, w, narrow), BlocksSay(bs),
         given' = given, lenient' = lenient, files' = files, saves' = saves,
         pc \notin {"writeConfig", "writeData"}, pc' \notin {"writeConfig", "writeData"}
  PROVE  FilesSay(bs, w, narrow)' /\ BlocksSay(bs)'
<1>1. (MapIsGiven' <=> MapIsGiven) /\ (ConfigIsGiven' <=> ConfigIsGiven)
  BY DEF MapIsGiven, ConfigIsGiven
<1>2. FilesSay(bs, w, narrow)'
  BY <1>1 DEF FilesSay
<1>3. Written' = Written /\ (Readable' <=> Readable)
  BY SameGiven
<1>4. BlocksSay(bs)'
  BY <1>1, <1>3 DEF BlocksSay
<1> QED
  BY <1>2, <1>4

\* Initially the files are the ones of Telegram Desktop.
LEMMA InitHolds == Init => IInv
<1> SUFFICES ASSUME Init PROVE IInv
  OBVIOUS
<1>1. /\ given \in Givens /\ lenient \in BOOLEAN /\ files = TelegramFiles(given)
      /\ account = NewAccount /\ pc = "start" /\ partial = EmptyMap /\ saves = 0
  BY DEF Init
<1> DEFINE bs == given.blocks
           w == TelegramConfig(given.config)
           narrow == given.narrow
           a == TelegramAuthorization(given.auth, narrow)
           m == FlattenSeq(BlockList(bs))
<1>2. IsMap(bs) /\ narrow \in BOOLEAN /\ IsAuthorization(given.auth, narrow) /\ IsConfig(given.config)
  BY <1>1, GivenIs
<1>3. Shape
  <2>1. account = [map |-> EmptyMap, config |-> Default, auth |-> NoAuth, isLoaded |-> FALSE]
    BY <1>1 DEF NewAccount
  <2>2. account.map \in Maps /\ partial \in Maps
    BY <1>1, <2>1, EmptyIsMap
  <2>3. IsTyped(account.config)
    BY <2>1, DefaultAssumption, ConfigIs
  <2>4. files = [map |-> files.map, config |-> files.config, data |-> files.data]
    BY <1>1 DEF TelegramFiles
  <2>5. saves \in 0 .. MaxSaves
    BY <1>1, BoundAssumption
  <2>6. account = [map |-> account.map, config |-> account.config, auth |-> account.auth,
                   isLoaded |-> account.isLoaded] /\ account.isLoaded \in BOOLEAN
    BY <2>1
  <2> QED
    BY <1>1, <2>2, <2>3, <2>4, <2>5, <2>6 DEF Shape
<1>4. m \in Seq(Int) /\ w \in Seq(Int) /\ a \in Seq(Int)
  <2>1. m \in Seq(Int)
    BY <1>2, LastBlock
  <2>2. w \in Seq(Int)
    BY <1>2, ConfigRead
  <2>3. a \in Seq(Int)
    BY <1>2, AuthorizationWords
  <2> QED
    BY <2>1, <2>2, <2>3
<1>5. /\ files.map = Seal(m) /\ files.config = Seal(WriteBytes(w))
      /\ files.data = Seal(<<MtpAuthorization>> \o WriteBytes(a))
  BY <1>1 DEF TelegramFiles, BlockList
<1>6. FilesSay(bs, w, narrow)
  <2> HIDE DEF m, a
  <2>1. Says(files.map, m)
    BY <1>4, <1>5, SealSays
  <2>2. Says(files.config, WriteBytes(w))
    <3>1. WriteBytes(w) \in Seq(Int)
      BY <1>4, PayloadRead
    <3> HIDE DEF w
    <3> QED
      BY <1>5, <3>1, SealSays
  <2>3. Says(files.data, <<MtpAuthorization>> \o WriteBytes(a))
    <3> DEFINE d == <<MtpAuthorization>> \o WriteBytes(a)
    <3>1. d \in Seq(Int)
      BY <1>4, DataRead
    <3>2. files.data = Seal(d)
      BY <1>5
    <3> HIDE DEF d
    <3>3. Says(files.data, d)
      BY <3>1, <3>2, SealSays
    <3> QED
      BY <3>3 DEF d
  <2> QED
    BY <1>2, <1>4, <2>1, <2>2, <2>3 DEF FilesSay, m, a
<1>7. BlocksSay(bs)
  BY <1>1, <1>2 DEF BlocksSay, MapIsGiven
<1>8. AccountHas(bs)
  <2>1. account.isLoaded = FALSE
    BY <1>1 DEF NewAccount
  <2> QED
    BY <1>1, <2>1 DEF AccountHas
<1>9. Holds(bs, w, narrow)
  BY <1>6, <1>7, <1>8 DEF Holds
<1> QED
  BY <1>3, <1>9 DEF IInv

\* A call that leaves the map, the account and its parts alone, or loads them.
LEMMA ShapeNext ==
  ASSUME Shape, NEW m \in Maps, NEW c, IsTyped(c), NEW a, NEW loaded \in BOOLEAN,
         given' = given, lenient' = lenient, files' = files, saves' = saves,
         account' = [map |-> m, config |-> c, auth |-> a, isLoaded |-> loaded],
         partial' \in Maps,
         pc' \in {"start", "map", "data", "config", "ready", "raised", "writeConfig",
                  "writeData", "saved"}
  PROVE  Shape'
<1>1. /\ account'.map = m /\ account'.config = c /\ account'.auth = a /\ account'.isLoaded = loaded
      /\ account' = [map |-> account'.map, config |-> account'.config, auth |-> account'.auth,
                     isLoaded |-> account'.isLoaded]
  OBVIOUS
<1>2. /\ given' \in Givens /\ lenient' \in BOOLEAN /\ saves' \in 0 .. MaxSaves
      /\ files' = [map |-> files'.map, config |-> files'.config, data |-> files'.data]
  BY DEF Shape
<1> QED
  BY <1>1, <1>2 DEF Shape

\* The fields of the account, named.
LEMMA AccountIs ==
  ASSUME Shape
  PROVE  /\ account = [map |-> account.map, config |-> account.config, auth |-> account.auth,
                       isLoaded |-> account.isLoaded]
         /\ account.map \in Maps /\ partial \in Maps /\ account.isLoaded \in BOOLEAN
         /\ IsTyped(account.config)
BY DEF Shape

(***************************************************************************)
(* The steps                                                               *)
(***************************************************************************)

\* The parts of IInv' from the same witnesses.
LEMMA Together ==
  ASSUME NEW bs, NEW w, NEW narrow, Shape', FilesSay(bs, w, narrow)', BlocksSay(bs)', AccountHas(bs)'
  PROVE  IInv'
<1>1. Holds(bs, w, narrow)'
  BY DEF Holds
<1> QED
  BY <1>1 DEF IInv

\* An account that is not touched keeps its shape.
LEMMA ShapeSame ==
  ASSUME Shape, given' = given, lenient' = lenient, files' = files, saves' = saves,
         account' = account, partial' \in Maps,
         pc' \in {"start", "map", "data", "config", "ready", "raised", "writeConfig",
                  "writeData", "saved"}
  PROVE  Shape'
BY DEF Shape

\* start: the map opens at its first block.
LEMMA StartHolds ==
  ASSUME IInv, Start
  PROVE  IInv'
<1>1. PICK bs, w, narrow : Holds(bs, w, narrow)
  BY DEF IInv
<1>2. Shape /\ FilesSay(bs, w, narrow) /\ BlocksSay(bs) /\ AccountHas(bs)
  BY <1>1 DEF IInv, Holds
<1>3. DecryptLocal(files.map).ok /\ DecryptLocal(files.map).words = FlattenSeq(BlockList(bs))
  BY <1>2 DEF FilesSay, Says
<1>4. /\ pc = "start" /\ pc' = "map" /\ left' = FlattenSeq(BlockList(bs)) /\ partial' = EmptyMap
      /\ given' = given /\ lenient' = lenient /\ files' = files /\ account' = account /\ saves' = saves
  BY <1>3 DEF Start
<1>5. FilesSay(bs, w, narrow)' /\ BlocksSay(bs)'
  BY <1>2, <1>4, FilesKept
<1>6. Shape'
  BY <1>2, <1>4, EmptyIsMap, ShapeSame
<1>7. AtBlock(bs, 0, partial, left)'
  <2>1. IsMap(bs)
    BY <1>2 DEF BlocksSay
  <2>2. AtBlock(bs, 0, EmptyMap, FlattenSeq(BlockList(bs)))
    BY <2>1, AtStart
  <2> QED
    BY <1>4, <2>2, SameBlock
<1>8. account = NewAccount
  BY <1>2, <1>4 DEF AccountHas
<1>9. AccountHas(bs)'
  <2>1. account'.isLoaded = FALSE
    BY <1>4, <1>8 DEF NewAccount
  <2>2. \E k : AtBlock(bs, k, partial, left)'
    BY <1>7
  <2> QED
    BY <1>4, <1>8, <2>1, <2>2 DEF AccountHas
<1> QED
  BY <1>5, <1>6, <1>9, Together

\* A map that ends in an error leaves the account as it was made.
LEMMA ReadFails ==
  ASSUME IInv, pc = "map", pc' = "config", left' = left, partial' = partial,
         given' = given, lenient' = lenient, files' = files, account' = account, saves' = saves,
         NEW bs, NEW w, NEW narrow, Holds(bs, w, narrow), ~ReadableOf(bs)
  PROVE  IInv'
<1>1. Shape /\ FilesSay(bs, w, narrow) /\ BlocksSay(bs) /\ AccountHas(bs)
  BY DEF IInv, Holds
<1>2. FilesSay(bs, w, narrow)' /\ BlocksSay(bs)'
  BY <1>1, FilesKept
<1>3. Shape'
  BY <1>1, AccountIs, ShapeSame
<1>4. account.isLoaded = FALSE /\ account.map = EmptyMap
  BY <1>1 DEF AccountHas, NewAccount
<1>5. ~ReadableOf(bs)'
  BY SameGiven
<1>6. AccountHas(bs)'
  BY <1>4, <1>5 DEF AccountHas
<1> QED
  BY <1>2, <1>3, <1>6, Together

\* A map that is read on is read to another point.
LEMMA ReadsOn ==
  ASSUME IInv, pc = "map", pc' = "map",
         given' = given, lenient' = lenient, files' = files, account' = account, saves' = saves,
         NEW bs, NEW w, NEW narrow, Holds(bs, w, narrow), NEW k, AtBlock(bs, k, partial, left)'
  PROVE  IInv'
<1>1. Shape /\ FilesSay(bs, w, narrow) /\ BlocksSay(bs) /\ AccountHas(bs)
  BY DEF IInv, Holds
<1>2. FilesSay(bs, w, narrow)' /\ BlocksSay(bs)'
  BY <1>1, FilesKept
<1>3. partial' \in Maps
  <2>1. SubSeq(bs, 1, k) \in Seq(Whole) /\ partial' = Meaning(SubSeq(bs, 1, k))
    BY DEF AtBlock
  <2> QED
    BY <2>1, MeaningType
<1>4. Shape'
  BY <1>1, <1>3, ShapeSame
<1>5. account = NewAccount
  BY <1>1 DEF AccountHas
<1>6. AccountHas(bs)'
  <2>1. account'.isLoaded = FALSE
    BY <1>5 DEF NewAccount
  <2>2. \E i : AtBlock(bs, i, partial, left)'
    OBVIOUS
  <2> QED
    BY <1>5, <2>1, <2>2 DEF AccountHas
<1> QED
  BY <1>2, <1>4, <1>6, Together

\* One turn of MapData.read gets to the next block, or the map cannot be read.
LEMMA ReadMapBlockHolds ==
  ASSUME IInv, ReadMapBlock
  PROVE  IInv'
<1>1. PICK bs, w, narrow : Holds(bs, w, narrow)
  BY DEF IInv
<1> DEFINE block == ReadBlock(Head(left), Tail(left), partial)
<1>2. /\ pc = "map" /\ left # <<>> /\ Head(left) \in KnownKeys
      /\ given' = given /\ lenient' = lenient /\ files' = files /\ account' = account /\ saves' = saves
      /\ block.ok => left' = block.rest /\ partial' = block.map /\ pc' = "map"
      /\ ~block.ok => pc' = "config" /\ left' = left /\ partial' = partial
  BY DEF ReadMapBlock
<1>3. PICK k : AtBlock(bs, k, partial, left)
  BY <1>1, <1>2 DEF Holds, AccountHas
<1>4. IsMap(bs)
  BY <1>1 DEF Holds, BlocksSay
<1>5. IF block.ok THEN AtBlock(bs, k + 1, block.map, block.rest) ELSE ~ReadableOf(bs)
  BY <1>2, <1>3, <1>4, AtNext
<1> HIDE DEF block
<1>6. CASE block.ok
  <2> DEFINE j == k + 1
  <2>1. AtBlock(bs, j, block.map, block.rest)
    BY <1>5, <1>6
  <2> HIDE DEF j
  <2>2. AtBlock(bs, j, partial, left)'
    BY <1>2, <1>6, <2>1, SameBlock
  <2> QED
    BY <1>1, <1>2, <1>6, <2>2, ReadsOn
<1>7. CASE ~block.ok
  BY <1>1, <1>2, <1>5, <1>7, ReadFails
<1> QED
  BY <1>6, <1>7

\* A key of a newer version ends the map, or makes it unreadable.
LEMMA UnknownKeyHolds ==
  ASSUME IInv, UnknownKey
  PROVE  IInv'
<1>1. PICK bs, w, narrow : Holds(bs, w, narrow)
  BY DEF IInv
<1>2. /\ pc = "map" /\ left # <<>> /\ Head(left) \notin KnownKeys
      /\ given' = given /\ lenient' = lenient /\ files' = files /\ account' = account /\ saves' = saves
      /\ partial' = partial
      /\ lenient => left' = <<>> /\ pc' = "map"
      /\ ~lenient => pc' = "config" /\ left' = left
  BY DEF UnknownKey
<1>3. PICK k : AtBlock(bs, k, partial, left)
  BY <1>1, <1>2 DEF Holds, AccountHas
<1>4. IsMap(bs)
  BY <1>1 DEF Holds, BlocksSay
<1>5. IF lenient THEN AtBlock(bs, k, partial, <<>>) ELSE ~ReadableOf(bs)
  BY <1>2, <1>3, <1>4, AtNext
<1>6. CASE lenient
  <2>1. AtBlock(bs, k, partial, left)'
    BY <1>2, <1>5, <1>6, SameBlock
  <2> QED
    BY <1>1, <1>2, <1>6, <2>1, ReadsOn
<1>7. CASE ~lenient
  BY <1>1, <1>2, <1>5, <1>7, ReadFails
<1> QED
  BY <1>6, <1>7

\* At its end the account has the meaning of the whole map.
LEMMA FinishMapHolds ==
  ASSUME IInv, FinishMap
  PROVE  IInv'
<1>1. PICK bs, w, narrow : Holds(bs, w, narrow)
  BY DEF IInv
<1>2. Shape /\ FilesSay(bs, w, narrow) /\ BlocksSay(bs) /\ AccountHas(bs)
  BY <1>1 DEF IInv, Holds
<1>3. /\ pc = "map" /\ left = <<>> /\ account' = [account EXCEPT !.map = partial] /\ pc' = "data"
      /\ given' = given /\ lenient' = lenient /\ files' = files /\ saves' = saves
      /\ left' = left /\ partial' = partial
  BY DEF FinishMap
<1>4. FilesSay(bs, w, narrow)' /\ BlocksSay(bs)'
  BY <1>2, <1>3, FilesKept
<1>5. account = [map |-> EmptyMap, config |-> Default, auth |-> NoAuth, isLoaded |-> FALSE]
  BY <1>2, <1>3 DEF AccountHas, NewAccount
<1>6. account' = [map |-> partial, config |-> Default, auth |-> NoAuth, isLoaded |-> FALSE]
  BY <1>3, <1>5
<1>7. Shape'
  <2>1. partial \in Maps /\ IsTyped(Default)
    BY <1>2, AccountIs, DefaultAssumption, ConfigIs
  <2> QED
    BY <1>2, <1>3, <1>6, <2>1, ShapeNext
<1>8. ReadableOf(bs) /\ partial = Meaning(Known(bs))
  <2>1. PICK k : AtBlock(bs, k, partial, left)
    BY <1>2, <1>3 DEF AccountHas
  <2>2. AtBlock(bs, k, partial, <<>>)
    BY <1>3, <2>1
  <2>3. IsMap(bs)
    BY <1>2 DEF BlocksSay
  <2> QED
    BY <2>2, <2>3, AtEnd
<1>9. ReadableOf(bs)' /\ account'.map = Meaning(Known(bs)) /\ account'.isLoaded = FALSE
  BY <1>3, <1>6, <1>8, SameGiven
<1>10. AccountHas(bs)'
  BY <1>3, <1>9 DEF AccountHas
<1> QED
  BY <1>4, <1>7, <1>10, Together

\* Another account that opens the folder begins anew.
LEMMA ReopenHolds ==
  ASSUME IInv, Reopen
  PROVE  IInv'
<1>1. PICK bs, w, narrow : Holds(bs, w, narrow)
  BY DEF IInv
<1>2. Shape /\ FilesSay(bs, w, narrow) /\ BlocksSay(bs)
  BY <1>1 DEF IInv, Holds
<1>3. /\ pc = "saved" /\ account' = NewAccount /\ pc' = "start"
      /\ given' = given /\ lenient' = lenient /\ files' = files /\ saves' = saves /\ partial' = partial
  BY DEF Reopen
<1>4. FilesSay(bs, w, narrow)' /\ BlocksSay(bs)'
  BY <1>2, <1>3, FilesKept
<1>5. account' = [map |-> EmptyMap, config |-> Default, auth |-> NoAuth, isLoaded |-> FALSE]
  BY <1>3 DEF NewAccount
<1>6. Shape'
  <2>1. EmptyMap \in Maps /\ partial \in Maps /\ IsTyped(Default)
    BY <1>2, AccountIs, EmptyIsMap, DefaultAssumption, ConfigIs
  <2> QED
    BY <1>2, <1>3, <1>5, <2>1, ShapeNext
<1>7. account'.isLoaded = FALSE
  BY <1>5
<1>8. AccountHas(bs)'
  BY <1>3, <1>7 DEF AccountHas
<1> QED
  BY <1>4, <1>6, <1>8, Together

\* readMtpData loads the authorization, or raises without the main key.
LEMMA ReadMtpDataHolds ==
  ASSUME IInv, ReadMtpData
  PROVE  IInv'
<1>1. PICK bs, w, narrow : Holds(bs, w, narrow)
  BY DEF IInv
<1>2. Shape /\ FilesSay(bs, w, narrow) /\ BlocksSay(bs) /\ AccountHas(bs)
  BY <1>1 DEF IInv, Holds
<1> DEFINE mtp  == DecryptLocal(files.data)
           auth == setMtpAuthorization(ReadBytes(Tail(mtp.words)).value)
           a    == TelegramAuthorization(given.auth, narrow)
           d    == <<MtpAuthorization>> \o WriteBytes(a)
<1>3. /\ pc = "data" /\ given' = given /\ lenient' = lenient /\ files' = files /\ saves' = saves
      /\ partial' = partial
      /\ IF mtp.ok /\ WordAt(mtp.words, 1) = MtpAuthorization /\ auth.ok
         THEN account' = [account EXCEPT !.auth = auth.auth, !.isLoaded = TRUE] /\ pc' = "config"
         ELSE account' = account /\ pc' = "raised"
  BY DEF ReadMtpData
<1>4. mtp.ok /\ mtp.words = d /\ narrow \in BOOLEAN /\ IsAuthorization(given.auth, narrow)
  BY <1>2 DEF FilesSay, Says
<1>5. WordAt(d, 1) = MtpAuthorization /\ ReadBytes(Tail(d)).value = a
  <2>1. a \in Seq(Int)
    BY <1>4, AuthorizationWords
  <2> HIDE DEF a
  <2> QED
    BY <2>1, DataRead
<1>6. auth = setMtpAuthorization(a) /\ WordAt(mtp.words, 1) = MtpAuthorization
  BY <1>4, <1>5
<1> HIDE DEF mtp, auth, d
<1>7. auth = IF MainKey(given.auth) THEN [ok |-> TRUE, auth |-> given.auth]
             ELSE [ok |-> FALSE, auth |-> NoAuth]
  BY <1>4, <1>6, AuthorizationRead
<1> HIDE DEF a
<1>8. HasMainKey <=> MainKey(given.auth)
  BY DEF HasMainKey, MainKey
<1>9. ~account.isLoaded /\ ReadableOf(bs) /\ account.map = Meaning(Known(bs))
  BY <1>2, <1>3 DEF AccountHas
<1>10. ReadableOf(bs)' /\ (HasMainKey' <=> HasMainKey)
  BY <1>3, <1>9, SameGiven
<1>11. pc' \in {"config", "raised"}
  BY <1>3
<1>12. FilesSay(bs, w, narrow)' /\ BlocksSay(bs)'
  BY <1>2, <1>3, <1>11, FilesKept
<1>13. CASE HasMainKey
  <2>1. auth.ok /\ auth.auth = given.auth
    BY <1>7, <1>8, <1>13
  <2>2. account' = [account EXCEPT !.auth = given.auth, !.isLoaded = TRUE] /\ pc' = "config"
    BY <1>3, <1>4, <1>6, <2>1
  <2> DEFINE m == account.map
             c == account.config
             g == given.auth
             e == account.auth
             l == account.isLoaded
  <2>3. /\ account = [map |-> m, config |-> c, auth |-> e, isLoaded |-> l]
        /\ account' = [account EXCEPT !.auth = g, !.isLoaded = TRUE]
        /\ m \in Maps /\ IsTyped(c) /\ partial' \in Maps
    BY <1>2, <1>3, <2>2, AccountIs
  <2> HIDE DEF m, c, g, e, l
  <2>4. account' = [map |-> m, config |-> c, auth |-> g, isLoaded |-> TRUE]
    BY <2>3
  <2>5. Shape'
    BY <1>2, <1>3, <2>2, <2>3, <2>4, ShapeNext
  <2>6. account'.isLoaded /\ account'.map = m /\ account'.auth = g
    BY <2>4
  <2>7. AccountHas(bs)'
    BY <1>3, <1>9, <1>10, <1>13, <2>2, <2>6 DEF AccountHas, m, g
  <2> QED
    BY <1>12, <2>5, <2>7, Together
<1>14. CASE ~HasMainKey
  <2>1. ~auth.ok
    BY <1>7, <1>8, <1>14
  <2>2. account' = account /\ pc' = "raised"
    BY <1>3, <2>1
  <2>3. Shape'
    BY <1>2, <1>3, <2>2, AccountIs, ShapeSame
  <2>4. AccountHas(bs)'
    BY <1>3, <1>9, <1>10, <1>14, <2>2 DEF AccountHas
  <2> QED
    BY <1>12, <2>3, <2>4, Together
<1> QED
  BY <1>13, <1>14

\* readMtpConfig reads what was written, and something typed in every case.
LEMMA ReadMtpConfigHolds ==
  ASSUME IInv, ReadMtpConfig
  PROVE  IInv'
<1>1. PICK bs, w, narrow : Holds(bs, w, narrow)
  BY DEF IInv
<1>2. Shape /\ FilesSay(bs, w, narrow) /\ BlocksSay(bs) /\ AccountHas(bs)
  BY <1>1 DEF IInv, Holds
<1> DEFINE file   == DecryptLocal(files.config)
           bytes  == ReadBytes(file.words)
           config == FromSerializedConfig(bytes.value)
           m      == account.map
           a      == account.auth
           l      == account.isLoaded
           d      == IF config.ok THEN config.config ELSE account.config
<1>3. /\ pc = "config" /\ pc' = "ready"
      /\ given' = given /\ lenient' = lenient /\ files' = files /\ saves' = saves
      /\ partial' = partial
      /\ IF file.ok /\ bytes.ok /\ config.ok
         THEN account' = [account EXCEPT !.config = config.config]
         ELSE account' = account
  BY DEF ReadMtpConfig
<1>4. w \in Seq(Int) /\ file.ok /\ file.words = WriteBytes(w)
  BY <1>2 DEF FilesSay, Says
<1>5. bytes.ok /\ bytes.value = w
  BY <1>4, PayloadRead
<1>6. config = FromSerializedConfig(w)
  BY <1>5
<1> HIDE DEF file, bytes, config
<1>7. IsTyped(config.config)
  BY <1>4, <1>6, ConfigType
<1>8. saves = 0 => config.ok /\ config.config = Understood(given.config)
  <2> SUFFICES ASSUME saves = 0
               PROVE  config = [ok |-> TRUE, config |-> Understood(given.config)]
    OBVIOUS
  <2>1. w = TelegramConfig(given.config)
    BY <1>2, <1>3 DEF FilesSay, ConfigIsGiven
  <2>2. IsConfig(given.config)
    BY <1>2, GivenIs DEF Shape
  <2> QED
    BY <1>6, <2>1, <2>2, ConfigRead
<1>9. /\ account = [map |-> m, config |-> account.config, auth |-> a, isLoaded |-> l]
      /\ m \in Maps /\ l \in BOOLEAN /\ IsTyped(account.config) /\ partial' \in Maps
  BY <1>2, <1>3, AccountIs
<1>10. IsTyped(d)
  BY <1>7, <1>9
<1>11. account' = [map |-> m, config |-> d, auth |-> a, isLoaded |-> l]
  <2>1. CASE config.ok
    <3> DEFINE e == config.config
               f == account.config
    <3>1. account' = [account EXCEPT !.config = e] /\ d = e
      BY <1>3, <1>4, <1>5, <2>1
    <3>2. account = [map |-> m, config |-> f, auth |-> a, isLoaded |-> l]
      BY <1>9
    <3> HIDE DEF m, a, l, e, f, d
    <3> QED
      BY <3>1, <3>2
  <2>2. CASE ~config.ok
    BY <1>3, <1>9, <2>2
  <2> QED
    BY <2>1, <2>2
<1>12. saves = 0 => d = Understood(given.config)
  BY <1>8
<1>13. IF l THEN ReadableOf(bs) /\ m = Meaning(Known(bs)) ELSE ~ReadableOf(bs) /\ m = EmptyMap
  BY <1>2, <1>3 DEF AccountHas
<1>14. l => a = given.auth /\ HasMainKey
  BY <1>2 DEF AccountHas
<1>15. FilesSay(bs, w, narrow)' /\ BlocksSay(bs)'
  BY <1>2, <1>3, FilesKept
<1> HIDE DEF m, a, l, d
<1>16. Shape'
  BY <1>2, <1>3, <1>9, <1>10, <1>11, ShapeNext
<1>17. /\ account'.map = m /\ account'.auth = a /\ account'.isLoaded = l /\ account'.config = d
  BY <1>11
<1>18. (ReadableOf(bs)' <=> ReadableOf(bs)) /\ (HasMainKey' <=> HasMainKey)
  BY <1>3, SameGiven
<1>19. AccountHas(bs)'
  BY <1>3, <1>12, <1>13, <1>14, <1>17, <1>18 DEF AccountHas
<1> QED
  BY <1>15, <1>16, <1>19, Together

\* Saving leaves the account as it is, and puts one file anew.
LEMMA ShapeSaved ==
  ASSUME Shape, given' = given, lenient' = lenient, account' = account, partial' = partial,
         NEW f \in {"map", "config", "data"}, NEW sealed, files' = [files EXCEPT ![f] = sealed],
         saves' \in 0 .. MaxSaves, pc' \in {"writeConfig", "writeData", "saved"}
  PROVE  /\ Shape' /\ files'[f] = sealed
         /\ \A g \in {"map", "config", "data"} : g # f => files'[g] = files[g]
<1>1. files = [map |-> files.map, config |-> files.config, data |-> files.data]
  BY DEF Shape
<1> DEFINE x == files.map
           y == files.config
           z == files.data
<1>2. files = [map |-> x, config |-> y, data |-> z]
  BY <1>1
<1> HIDE DEF x, y, z
<1>3. /\ files'[f] = sealed
      /\ \A g \in {"map", "config", "data"} : g # f => files'[g] = files[g]
      /\ files' = [map |-> files'.map, config |-> files'.config, data |-> files'.data]
  BY <1>2
<1>4. Shape'
  BY <1>3 DEF Shape
<1> QED
  BY <1>3, <1>4

\* writeMap: the new blocks mean what the old ones did, but for the
\* background keys.
LEMMA WriteMapHolds ==
  ASSUME IInv, WriteMap
  PROVE  IInv'
<1>1. PICK bs, w, narrow : Holds(bs, w, narrow)
  BY DEF IInv
<1>2. Shape /\ FilesSay(bs, w, narrow) /\ BlocksSay(bs) /\ AccountHas(bs)
  BY <1>1 DEF IInv, Holds
<1> DEFINE m == account.map
           sealed == PrepareEncrypted(prepareToWrite(m))
<1>3. /\ pc = "ready" /\ account.isLoaded /\ saves < MaxSaves /\ pc' = "writeConfig"
      /\ files' = [files EXCEPT !["map"] = sealed]
      /\ given' = given /\ lenient' = lenient /\ account' = account /\ saves' = saves
      /\ left' = left /\ partial' = partial
  BY DEF WriteMap
<1>4. m \in Maps
  BY <1>2, AccountIs
<1>5. PICK new \in Seq(Whole) : FlattenSeq(BlockList(new)) = MapWords(m) /\ Meaning(new) = Saved(m)
  BY <1>4, SavedMap
<1>6. Says(sealed, FlattenSeq(BlockList(new)))
  BY <1>4, <1>5, SealedMap
<1> HIDE DEF sealed
<1>7. Shape' /\ files'.map = sealed /\ files'.config = files.config /\ files'.data = files.data
  <2>1. saves' \in 0 .. MaxSaves
    BY <1>2, <1>3 DEF Shape
  <2> QED
    BY <1>2, <1>3, <2>1, ShapeSaved
<1>8. Readable /\ Written \in Maps /\ m = IF saves = 0 THEN Written ELSE Saved(Written)
  <2>1. ReadableOf(bs) /\ m = Meaning(Known(bs))
    BY <1>2, <1>3 DEF AccountHas
  <2>2. CASE saves = 0
    <3>1. bs = given.blocks
      BY <1>2, <1>3, <2>2 DEF BlocksSay, MapIsGiven
    <3>2. Readable /\ m = Written
      BY <2>1, <3>1 DEF Readable, ReadableOf, Written
    <3> QED
      BY <1>4, <2>2, <3>2
  <2>3. CASE saves # 0
    <3>1. bs \in Seq(Whole) /\ Readable /\ Written \in Maps /\ Meaning(bs) = Saved(Written)
      BY <1>2, <2>3 DEF BlocksSay, MapIsGiven
    <3>2. Known(bs) = bs
      BY <3>1, WholeReadable
    <3> QED
      BY <2>1, <2>3, <3>1, <3>2
  <2> QED
    BY <2>2, <2>3
<1>9. Saved(m) = Saved(Written)
  <2>1. CASE saves = 0
    BY <1>8, <2>1
  <2>2. CASE saves # 0
    <3>1. m = Saved(Written)
      BY <1>8, <2>2
    <3> QED
      BY <1>8, <3>1, SavedAgain
  <2> QED
    BY <2>1, <2>2
<1> HIDE DEF m
<1>10. ~MapIsGiven' /\ (ConfigIsGiven' <=> ConfigIsGiven)
  BY <1>3 DEF MapIsGiven, ConfigIsGiven
<1>11. FilesSay(new, w, narrow)'
  BY <1>2, <1>3, <1>6, <1>7, <1>10 DEF FilesSay
<1>12. (Readable' <=> Readable) /\ Written' = Written /\ (HasMainKey' <=> HasMainKey)
  BY <1>3, SameGiven
<1>13. BlocksSay(new)'
  <2>1. IsMap(new)
    BY <1>5, WholeReadable
  <2> QED
    BY <1>5, <1>8, <1>9, <1>10, <1>12, <2>1 DEF BlocksSay
<1>14. AccountHas(new)'
  <2>1. account.isLoaded => account.auth = given.auth /\ HasMainKey
    BY <1>2 DEF AccountHas
  <2> QED
    BY <1>3, <1>8, <1>12, <2>1 DEF AccountHas, m
<1> QED
  BY <1>7, <1>11, <1>13, <1>14, Together

\* writeMtpConfig leaves the map and the authorization alone.
LEMMA WriteMtpConfigHolds ==
  ASSUME IInv, WriteMtpConfig
  PROVE  IInv'
<1>1. PICK bs, w, narrow : Holds(bs, w, narrow)
  BY DEF IInv
<1>2. Shape /\ FilesSay(bs, w, narrow) /\ BlocksSay(bs) /\ AccountHas(bs)
  BY <1>1 DEF IInv, Holds
<1>a. PICK new : new = ConfigWords(account.config)
  OBVIOUS
<1> DEFINE sealed == Seal(WriteBytes(new))
<1>3. /\ pc = "writeConfig" /\ pc' = "writeData"
      /\ files' = [files EXCEPT !["config"] = sealed]
      /\ given' = given /\ lenient' = lenient /\ account' = account /\ saves' = saves
      /\ left' = left /\ partial' = partial
  BY <1>a DEF WriteMtpConfig
<1>4. new \in Seq(Int)
  BY <1>2, <1>a, AccountIs, ConfigWordsType
<1>5. Says(sealed, WriteBytes(new))
  BY <1>4, PayloadRead, SealSays
<1> HIDE DEF sealed
<1>6. Shape' /\ files'.config = sealed /\ files'.map = files.map /\ files'.data = files.data
  <2>1. saves' \in 0 .. MaxSaves
    BY <1>2, <1>3 DEF Shape
  <2> QED
    BY <1>2, <1>3, <2>1, ShapeSaved
<1>7. ~MapIsGiven /\ ~MapIsGiven' /\ ~ConfigIsGiven'
  BY <1>3 DEF MapIsGiven, ConfigIsGiven
<1>8. FilesSay(bs, new, narrow)'
  <2>1. Says(files'.config, WriteBytes(new))
    BY <1>5, <1>6
  <2>2. /\ Says(files'.map, FlattenSeq(BlockList(bs)))
        /\ narrow \in BOOLEAN /\ IsAuthorization(given'.auth, narrow)
        /\ Says(files'.data, <<MtpAuthorization>> \o WriteBytes(TelegramAuthorization(given'.auth, narrow)))
    BY <1>2, <1>3, <1>6 DEF FilesSay
  <2> QED
    BY <1>4, <1>7, <2>1, <2>2 DEF FilesSay
<1>9. (Readable' <=> Readable) /\ Written' = Written /\ (HasMainKey' <=> HasMainKey)
  BY <1>3, SameGiven
<1>10. BlocksSay(bs)'
  BY <1>2, <1>7, <1>9 DEF BlocksSay
<1>11. AccountHas(bs)'
  <2>1. /\ account.isLoaded => account.auth = given.auth /\ HasMainKey
        /\ account.isLoaded /\ saves < MaxSaves
        /\ account.map = IF saves = 0 THEN Written ELSE Saved(Written)
    BY <1>2, <1>3 DEF AccountHas
  <2> QED
    BY <1>3, <1>9, <2>1 DEF AccountHas
<1> QED
  BY <1>6, <1>8, <1>10, <1>11, Together

\* writeMtpData writes the wide form of the ids.
LEMMA WriteMtpDataHolds ==
  ASSUME IInv, WriteMtpData
  PROVE  IInv'
<1>1. PICK bs, w, narrow : Holds(bs, w, narrow)
  BY DEF IInv
<1>2. Shape /\ FilesSay(bs, w, narrow) /\ BlocksSay(bs) /\ AccountHas(bs)
  BY <1>1 DEF IInv, Holds
<1> DEFINE a == serializeMtpAuthorization(account.auth)
           sealed == Seal(<<MtpAuthorization>> \o WriteBytes(a))
<1>3. /\ pc = "writeData" /\ pc' = "saved"
      /\ files' = [files EXCEPT !["data"] = sealed]
      /\ given' = given /\ lenient' = lenient /\ account' = account /\ saves' = saves + 1
      /\ left' = left /\ partial' = partial
  BY DEF WriteMtpData
<1>4. /\ account.isLoaded /\ saves < MaxSaves /\ account.auth = given.auth /\ HasMainKey
  BY <1>2, <1>3 DEF AccountHas
<1>5. /\ IsAuthorization(given.auth, FALSE) /\ a = TelegramAuthorization(given.auth, FALSE)
      /\ a \in Seq(Int)
  <2>1. narrow \in BOOLEAN /\ IsAuthorization(given.auth, narrow)
    BY <1>2 DEF FilesSay
  <2>2. IsAuthorization(given.auth, FALSE) /\ a = TelegramAuthorization(given.auth, FALSE)
    BY <1>4, <2>1, AuthorizationWords
  <2>3. TelegramAuthorization(given.auth, FALSE) \in Seq(Int)
    BY <2>2, AuthorizationWords
  <2> QED
    BY <2>2, <2>3
<1> HIDE DEF a
<1>6. Says(sealed, <<MtpAuthorization>> \o WriteBytes(a))
  <2> DEFINE d == <<MtpAuthorization>> \o WriteBytes(a)
  <2>1. d \in Seq(Int)
    BY <1>5, DataRead
  <2> HIDE DEF d
  <2>2. Says(Seal(d), d)
    BY <2>1, SealSays
  <2> QED
    BY <2>2 DEF d
<1> HIDE DEF sealed
<1>7. saves' \in 0 .. MaxSaves /\ saves' > 0 /\ saves' # 0
  BY <1>2, <1>3, <1>4, BoundAssumption DEF Shape
<1>8. Shape' /\ files'.data = sealed /\ files'.map = files.map /\ files'.config = files.config
  BY <1>2, <1>3, <1>7, ShapeSaved
<1>9. ~MapIsGiven /\ ~MapIsGiven' /\ ~ConfigIsGiven'
  BY <1>3, <1>7 DEF MapIsGiven, ConfigIsGiven
<1>10. FilesSay(bs, w, FALSE)'
  BY <1>2, <1>3, <1>5, <1>6, <1>8, <1>9 DEF FilesSay
<1>11. (Readable' <=> Readable) /\ Written' = Written /\ (HasMainKey' <=> HasMainKey)
  BY <1>3, SameGiven
<1>12. BlocksSay(bs)'
  BY <1>2, <1>9, <1>11 DEF BlocksSay
<1>13. AccountHas(bs)'
  BY <1>3, <1>4, <1>7, <1>11 DEF AccountHas
<1> QED
  BY <1>8, <1>10, <1>12, <1>13, Together

(***************************************************************************)
(* The theorems                                                            *)
(***************************************************************************)

\* Every step keeps the invariant, one action at a time.
LEMMA NextHolds ==
  ASSUME IInv, [Next]_vars
  PROVE  IInv'
<1>1. CASE Start
  BY <1>1, StartHolds
<1>2. CASE ReadMapBlock
  BY <1>2, ReadMapBlockHolds
<1>3. CASE UnknownKey
  BY <1>3, UnknownKeyHolds
<1>4. CASE FinishMap
  BY <1>4, FinishMapHolds
<1>5. CASE ReadMtpData
  BY <1>5, ReadMtpDataHolds
<1>6. CASE ReadMtpConfig
  BY <1>6, ReadMtpConfigHolds
<1>7. CASE WriteMap
  BY <1>7, WriteMapHolds
<1>8. CASE WriteMtpConfig
  BY <1>8, WriteMtpConfigHolds
<1>9. CASE WriteMtpData
  BY <1>9, WriteMtpDataHolds
<1>10. CASE Reopen
  BY <1>10, ReopenHolds
<1>11. CASE UNCHANGED vars
  <2>1. /\ given' = given /\ lenient' = lenient /\ files' = files /\ account' = account
        /\ pc' = pc /\ left' = left /\ partial' = partial /\ saves' = saves
    BY <1>11 DEF vars
  <2>2. PICK bs, w, narrow : Holds(bs, w, narrow)
    BY DEF IInv
  <2>3. Shape /\ FilesSay(bs, w, narrow) /\ BlocksSay(bs) /\ AccountHas(bs)
    BY <2>2 DEF IInv, Holds
  <2>4. (MapIsGiven' <=> MapIsGiven) /\ (ConfigIsGiven' <=> ConfigIsGiven)
    BY <2>1 DEF MapIsGiven, ConfigIsGiven
  <2>5. /\ Written' = Written /\ (Readable' <=> Readable) /\ (HasMainKey' <=> HasMainKey)
        /\ (ReadableOf(bs)' <=> ReadableOf(bs))
    BY <2>1, SameGiven
  <2>6. Shape'
    BY <2>1, <2>3 DEF Shape
  <2>7. FilesSay(bs, w, narrow)'
    BY <2>1, <2>3, <2>4 DEF FilesSay
  <2>8. BlocksSay(bs)'
    BY <2>1, <2>3, <2>4, <2>5 DEF BlocksSay
  <2>9. (\E k : AtBlock(bs, k, partial, left)) => \E k : AtBlock(bs, k, partial, left)'
    <3> SUFFICES ASSUME NEW k, AtBlock(bs, k, partial, left)
                 PROVE  AtBlock(bs, k, partial, left)'
      OBVIOUS
    <3> QED
      BY <2>1, SameBlock
  <2>10. AccountHas(bs)'
    BY <2>1, <2>3, <2>5, <2>9 DEF AccountHas, NewAccount
  <2> QED
    BY <2>6, <2>7, <2>8, <2>10, Together
<1> QED
  BY <1>1, <1>2, <1>3, <1>4, <1>5, <1>6, <1>7, <1>8, <1>9, <1>10, <1>11 DEF Next

\* The invariant holds for every set of givens and every number of saves.
THEOREM AccountInvariant == Spec => []IInv
<1>1. Init => IInv
  BY InitHolds
<1>2. IInv /\ [Next]_vars => IInv'
  BY NextHolds
<1> QED
  BY <1>1, <1>2, PTL DEF Spec

\* The dictionaries of a map hold plain peers.
LEMMA MapShape ==
  ASSUME NEW m \in Maps
  PROVE  /\ DOMAIN m.keys = KeyNames
         /\ \A field \in {"drafts", "cursors", "botStorages"} :
              \A p \in DOMAIN m[field] : Len(p) = 2 /\ IsLegacy(p)
<1>1. m.keys \in [KeyNames -> Uint64] /\ m.drafts \in PairMaps /\ m.cursors \in PairMaps
      /\ m.botStorages \in PairMaps
  BY DEF Maps
<1>2. ASSUME NEW f \in PairMaps, NEW p \in DOMAIN f
      PROVE  Len(p) = 2 /\ IsLegacy(p)
  <2>1. PICK D \in SUBSET PeerIds : f \in [D -> Uint64]
    BY DEF PairMaps
  <2>2. p \in Int \X Int /\ IsLegacy(p)
    BY <2>1 DEF PeerIds, Uint64
  <2> QED
    BY <2>2
<1>3. ASSUME NEW field \in {"drafts", "cursors", "botStorages"}
      PROVE  m[field] \in PairMaps
  BY <1>1
<1> QED
  BY <1>1, <1>2, <1>3

\* TypeOK holds: in particular, whatever forms the peers of a map were stored
\* in, PeerId.Serialize never meets an id that still has the flag.
THEOREM TypeCorrect == Spec => []TypeOK
<1>1. IInv => TypeOK
  <2> SUFFICES ASSUME IInv PROVE TypeOK
    OBVIOUS
  <2>1. PICK bs, w, narrow : FilesSay(bs, w, narrow)
    BY DEF IInv, Holds
  <2>2. /\ given \in Givens /\ lenient \in BOOLEAN /\ saves \in 0 .. MaxSaves
        /\ pc \in {"start", "map", "data", "config", "ready", "raised", "writeConfig",
                   "writeData", "saved"}
        /\ account.map \in Maps /\ partial \in Maps /\ account.isLoaded \in BOOLEAN
    BY DEF IInv, Shape
  <2>3. DOMAIN files = {"map", "config", "data"}
    <3>1. files = [map |-> files.map, config |-> files.config, data |-> files.data]
      BY DEF IInv, Shape
    <3> QED
      BY <3>1
  <2>4. \A f \in DOMAIN files : files[f] # <<>> /\ Len(files[f]) % WordsPerBlock = 0
    <3>1. /\ files.map # <<>> /\ Len(files.map) % WordsPerBlock = 0
          /\ files.config # <<>> /\ Len(files.config) % WordsPerBlock = 0
          /\ files.data # <<>> /\ Len(files.data) % WordsPerBlock = 0
      BY <2>1 DEF FilesSay, Says
    <3> QED
      BY <2>3, <3>1
  <2>5. \A m \in {account.map, partial} :
          /\ DOMAIN m.keys = KeyNames
          /\ \A field \in {"drafts", "cursors", "botStorages"} :
               \A p \in DOMAIN m[field] : Len(p) = 2 /\ IsLegacy(p)
    BY <2>2, MapShape
  <2> QED
    BY <2>2, <2>3, <2>4, <2>5 DEF TypeOK
<1> QED
  BY <1>1, AccountInvariant, PTL

\* An account holds the whole map Telegram Desktop wrote or none of it, for every
\* map of any blocks, in any order and number, damaged or with keys of a newer
\* version: MapData.read assigns its fields only after its loop.
THEOREM MapReadWhole == Spec => []MapIsRead
<1>1. IInv => MapIsRead
  <2> SUFFICES ASSUME IInv, saves = 0
               PROVE  account.map = IF pc \in {"start", "map"} \/ ~Readable THEN EmptyMap ELSE Written
    BY DEF MapIsRead, Written
  <2>1. PICK bs : BlocksSay(bs) /\ AccountHas(bs)
    BY DEF IInv, Holds
  <2>2. pc \in {"start", "map", "data", "config", "ready", "raised", "writeConfig",
                "writeData", "saved"}
    BY DEF IInv, Shape
  <2>3. CASE pc \in {"start", "map"}
    BY <2>1, <2>3 DEF AccountHas, NewAccount
  <2>4. CASE pc \in {"data", "raised", "config", "ready"}
    <3>1. bs = given.blocks
      BY <2>1, <2>4 DEF BlocksSay, MapIsGiven
    <3>2. (ReadableOf(bs) <=> Readable) /\ Meaning(Known(bs)) = Written
      BY <3>1 DEF ReadableOf, Readable, Written
    <3>3. IF Readable THEN account.map = Written ELSE account.map = EmptyMap
      BY <2>1, <2>4, <3>2 DEF AccountHas
    <3> QED
      BY <2>4, <3>3
  <2>5. CASE pc \in {"writeConfig", "writeData"}
    <3>1. Readable
      BY <2>1, <2>5 DEF BlocksSay, MapIsGiven
    <3>2. account.map = Written
      BY <2>1, <2>5 DEF AccountHas
    <3> QED
      BY <2>5, <3>1, <3>2
  <2>6. CASE pc = "saved"
    <3>1. saves > 0
      BY <2>1, <2>6 DEF AccountHas
    <3> QED
      BY <3>1
  <2> QED
    BY <2>2, <2>3, <2>4, <2>5, <2>6
<1> QED
  BY <1>1, AccountInvariant, PTL

\* The map an account saves is the map the next one reads, for every map and
\* after any number of saves: prepareToWrite and MapData.read agree on every block.
THEOREM MapSurvivesSave == Spec => []ResaveKeepsMap
<1>1. IInv => ResaveKeepsMap
  <2> SUFFICES ASSUME IInv, saves > 0, pc \in {"data", "config", "ready", "writeConfig", "writeData"}
               PROVE  account.map = Saved(Written)
    BY DEF ResaveKeepsMap, Written
  <2>1. PICK bs : BlocksSay(bs) /\ AccountHas(bs)
    BY DEF IInv, Holds
  <2>2. bs \in Seq(Whole) /\ Meaning(bs) = Saved(Written)
    BY <2>1 DEF BlocksSay, MapIsGiven
  <2>3. Known(bs) = bs /\ ReadableOf(bs)
    BY <2>2, WholeReadable
  <2>4. CASE pc \in {"data", "config", "ready"}
    BY <2>1, <2>2, <2>3, <2>4 DEF AccountHas
  <2>5. CASE pc \in {"writeConfig", "writeData"}
    BY <2>1, <2>5 DEF AccountHas
  <2> QED
    BY <2>4, <2>5
<1> QED
  BY <1>1, AccountInvariant, PTL

\* An account that is loaded has every key that was written, in either form of
\* the ids and after any number of saves, and one for its main data center.
THEOREM AuthorizationIsKept == Spec => []AuthorizationKept
<1>1. IInv => AuthorizationKept
  <2> SUFFICES ASSUME IInv PROVE AuthorizationKept
    OBVIOUS
  <2>1. PICK bs : BlocksSay(bs) /\ AccountHas(bs)
    BY DEF IInv, Holds
  <2>2. account.isLoaded \in BOOLEAN
    BY DEF IInv, Shape
  <2>3. account.isLoaded => account.auth = given.auth /\ HasMainKey
    BY <2>1 DEF AccountHas
  <2>4. pc = "raised" => ~HasMainKey
    BY <2>1 DEF AccountHas
  <2>5. ASSUME pc = "ready" PROVE account.isLoaded = Readable
    <3>1. account.isLoaded <=> ReadableOf(bs)
      BY <2>1, <2>5 DEF AccountHas
    <3>2. ReadableOf(bs) <=> Readable
      <4>1. CASE saves = 0
        <5>1. bs = given.blocks
          BY <2>1, <2>5, <4>1 DEF BlocksSay, MapIsGiven
        <5> QED
          BY <5>1 DEF ReadableOf, Readable
      <4>2. CASE saves # 0
        <5>1. bs \in Seq(Whole) /\ Readable
          BY <2>1, <4>2 DEF BlocksSay, MapIsGiven
        <5>2. ReadableOf(bs)
          BY <5>1, WholeReadable
        <5> QED
          BY <5>1, <5>2
      <4> QED
        BY <4>1, <4>2
    <3>3. Readable \in BOOLEAN
      BY DEF Readable
    <3> QED
      BY <2>2, <3>1, <3>2, <3>3
  <2> QED
    BY <2>3, <2>4, <2>5 DEF AuthorizationKept
<1> QED
  BY <1>1, AccountInvariant, PTL

\* The configuration of Telegram Desktop is read field by field and endpoint by
\* endpoint, whatever became of the map.
THEOREM ConfigReadWhole == Spec => []ConfigIsRead
<1>1. IInv => ConfigIsRead
  BY DEF IInv, Holds, AccountHas, ConfigIsRead
<1> QED
  BY <1>1, AccountInvariant, PTL
=============================================================================
