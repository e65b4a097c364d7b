-------------------------- MODULE StorageMapProofs --------------------------
(***************************************************************************)
(* What is written into the files of an account is read back: sequences,   *)
(* streams, the envelope, and the map, whose blocks are read for what they *)
(* mean, whatever blocks these are, and written so that they mean the      *)
(* same.  Nothing here is about a behaviour: module StorageAccountProofs   *)
(* follows an account through its calls.                                   *)
(***************************************************************************)
EXTENDS StorageAccount, SequenceTheorems, FiniteSetTheorems, WellFoundedInduction, TLAPS

(***************************************************************************)
(* Induction and recursion. The induction theorems of the library take an  *)
(* operator; these take a set, which the provers can instantiate.          *)
(***************************************************************************)

\* The least element of a set of natural numbers.
LEMMA LeastNat ==
  ASSUME NEW T, T \subseteq Nat, T # {}
  PROVE  \E x \in T : \A y \in T : x <= y
<1>1. IsWellFoundedOn({p \in Nat \X Nat : p[1] < p[2]}, Nat)
  BY NatLessThanWellFounded DEF OpToRel
<1>2. PICK x \in T : \A y \in T : <<y, x>> \notin {p \in Nat \X Nat : p[1] < p[2]}
  BY <1>1, WFMin
<1>3. \A y \in T : ~(y < x)
  <2> SUFFICES ASSUME NEW y \in T, y < x PROVE FALSE
    OBVIOUS
  <2>1. y \in Nat /\ x \in Nat
    OBVIOUS
  <2>2. <<y, x>> \in {p \in Nat \X Nat : p[1] < p[2]}
    BY <2>1
  <2> QED
    BY <1>2, <2>2
<1> QED
  BY <1>3

\* Induction over the natural numbers.
LEMMA SetInduction ==
  ASSUME NEW S, 0 \in S, \A n \in Nat : n \in S => n + 1 \in S
  PROVE  \A n \in Nat : n \in S
<1> SUFFICES ASSUME Nat \ S # {} PROVE FALSE
  OBVIOUS
<1>1. PICK x \in Nat \ S : \A y \in Nat \ S : x <= y
  BY LeastNat
<1>2. x # 0 /\ x - 1 \in Nat
  BY <1>1
<1>3. x - 1 \in S
  BY <1>1, <1>2
<1> QED
  BY <1>2, <1>3, <1>1

\* Induction up to a bound.
LEMMA BoundedInduction ==
  ASSUME NEW S, NEW n \in Nat, 0 \in S, \A k \in 1 .. n : k - 1 \in S => k \in S
  PROVE  \A k \in 0 .. n : k \in S
<1> DEFINE T == {k \in Nat : k <= n => k \in S}
<1>1. 0 \in T
  OBVIOUS
<1>2. ASSUME NEW k \in Nat, k \in T
      PROVE  k + 1 \in T
  <2>1. CASE k + 1 <= n
    <3>1. k \in S /\ k + 1 \in 1 .. n /\ (k + 1) - 1 = k
      BY <1>2, <2>1
    <3> QED
      BY <3>1
  <2>2. CASE ~(k + 1 <= n)
    BY <2>2
  <2> QED
    BY <2>1, <2>2
<1> HIDE DEF T
<1>3. \A k \in Nat : k \in T
  BY <1>1, <1>2, SetInduction
<1> QED
  BY <1>3 DEF T

\* Induction over the sequences of a set, one element more at the end.
LEMMA SeqInduction ==
  ASSUME NEW A, NEW S, <<>> \in S,
         \A s \in Seq(A), a \in A : s \in S => Append(s, a) \in S
  PROVE  \A s \in Seq(A) : s \in S
<1> DEFINE T == {n \in Nat : \A s \in Seq(A) : Len(s) = n => s \in S}
<1>1. 0 \in T
  BY EmptySeq
<1>2. ASSUME NEW n \in Nat, n \in T
      PROVE  n + 1 \in T
  <2> SUFFICES ASSUME NEW s \in Seq(A), Len(s) = n + 1
               PROVE  s \in S
    OBVIOUS
  <2>1. PICK front \in Seq(A), last \in A : s = Append(front, last) /\ Len(front) = n
    <3>1. SubSeq(s, 1, n) \in Seq(A) /\ Len(SubSeq(s, 1, n)) = n /\ s[n + 1] \in A
      OBVIOUS
    <3>2. s = Append(SubSeq(s, 1, n), s[n + 1])
      OBVIOUS
    <3> QED
      BY <3>1, <3>2
  <2> QED
    BY <1>2, <2>1
<1> HIDE DEF T
<1>3. \A n \in Nat : n \in T
  BY <1>1, <1>2, SetInduction
<1> QED
  BY <1>3 DEF T

\* A loop of n turns, each a function of the state it finds, and its run.
Turns(A, n) == [1 .. n -> [A -> A]]
IsRun(h, A, n, base, F) ==
  h \in [0 .. n -> A] /\ h[0] = base /\ \A i \in 1 .. n : h[i] = F[i][h[i - 1]]

\* A recursive function on 0 .. n whose turns stay in a set has its values there.
LEMMA Recursion ==
  ASSUME NEW A, NEW n \in Nat, NEW base \in A, NEW F \in Turns(A, n)
  PROVE  \E h : IsRun(h, A, n, base, F)
<1> DEFINE S == {k \in Nat : \E h : IsRun(h, A, k, base, F)}
<1>0. \A k \in 1 .. n, a \in A : F[k][a] \in A
  BY DEF Turns
<1>1. 0 \in S
  <2> DEFINE h == [i \in 0 .. 0 |-> base]
  <2>1. IsRun(h, A, 0, base, F)
    BY DEF IsRun
  <2> QED
    BY <2>1
<1>2. ASSUME NEW k \in 1 .. n, k - 1 \in S
      PROVE  k \in S
  <2>1. k - 1 \in Nat /\ k \in Nat
    OBVIOUS
  <2>2. PICK h : IsRun(h, A, k - 1, base, F)
    BY <1>2
  <2>3. h \in [0 .. k - 1 -> A] /\ h[0] = base /\ \A i \in 1 .. k - 1 : h[i] = F[i][h[i - 1]]
    BY <2>2 DEF IsRun
  <2> DEFINE g == [i \in 0 .. k |-> IF i = k THEN F[k][h[k - 1]] ELSE h[i]]
  <2>4. h[k - 1] \in A
    BY <2>1, <2>3
  <2>5. g \in [0 .. k -> A]
    <3>1. \A i \in 0 .. k : i # k => i \in 0 .. k - 1
      BY <2>1
    <3> QED
      BY <1>0, <2>3, <2>4, <3>1
  <2>6. g[0] = base
    BY <2>1, <2>3
  <2>7. \A i \in 1 .. k - 1 : g[i] = h[i] /\ g[i - 1] = h[i - 1]
    BY <2>1
  <2>8. g[k] = F[k][h[k - 1]] /\ g[k - 1] = h[k - 1]
    BY <2>1
  <2>9. \A i \in 1 .. k : i = k \/ i \in 1 .. k - 1
    BY <2>1
  <2>10. IsRun(g, A, k, base, F)
    <3> HIDE DEF g
    <3> QED
      BY <2>3, <2>5, <2>6, <2>7, <2>8, <2>9 DEF IsRun
  <2> QED
    BY <2>1, <2>10
<1> HIDE DEF S
<1>3. \A k \in 0 .. n : k \in S
  BY <1>1, <1>2, BoundedInduction
<1> QED
  BY <1>3 DEF S

(***************************************************************************)
(* FlattenSeq                                                              *)
(***************************************************************************)

\* The running concatenation that FlattenSeq is defined with.
Run(ss, f) == f = [i \in 1 .. Len(ss) |-> IF i = 1 THEN ss[i] ELSE f[i - 1] \o ss[i]]

\* FlattenSeq(ss) is the last value of the recursion that joins the parts.
LEMMA FlattenRuns ==
  ASSUME NEW X, NEW ss \in Seq(Seq(X)), ss # <<>>
  PROVE  \E f \in [1 .. Len(ss) -> Seq(X)] : Run(ss, f) /\ FlattenSeq(ss) = f[Len(ss)]
<1> DEFINE n == Len(ss)
           A == Seq(X)
           base == <<>>
           F == [i \in 1 .. n |-> [front \in A |-> front \o ss[i]]]
<1>1. n \in Nat /\ n > 0
  BY EmptySeq
<1>2. F \in Turns(A, n)
  <2>1. \A i \in 1 .. n, front \in Seq(X) : front \o ss[i] \in Seq(X)
    BY <1>1, ConcatProperties
  <2> QED
    BY <2>1 DEF Turns
<1>3. PICK h : IsRun(h, A, n, base, F)
  <2>1. base \in A
    OBVIOUS
  <2> HIDE DEF F, n, A, base
  <2> QED
    BY <1>1, <1>2, <2>1, Recursion
<1>4. \A i \in 1 .. n : i - 1 \in 0 .. n /\ h[i - 1] \in Seq(X) /\ h[i] = h[i - 1] \o ss[i]
  <2>1. \A i \in 1 .. n : i - 1 \in 0 .. n
    BY <1>1
  <2>2. h \in [0 .. n -> Seq(X)] /\ \A i \in 1 .. n : h[i] = F[i][h[i - 1]]
    BY <1>3 DEF IsRun
  <2>3. \A i \in 1 .. n : h[i - 1] \in Seq(X)
    BY <2>1, <2>2
  <2> QED
    BY <2>1, <2>2, <2>3
<1> DEFINE f == [i \in 1 .. n |-> h[i]]
<1>5. f \in [1 .. n -> Seq(X)]
  BY <1>1, <1>3 DEF IsRun
<1>6. f[1] = ss[1]
  <2>1. 1 \in 1 .. n /\ 1 - 1 = 0 /\ ss[1] \in Seq(X)
    BY <1>1
  <2> QED
    <3>1. h[0] = <<>> /\ h[1] = h[0] \o ss[1]
      BY <1>3, <1>4, <2>1 DEF IsRun
    <3> QED
      BY <2>1, <3>1, ConcatEmptySeq
<1>7. \A i \in 1 .. n : i # 1 => f[i] = f[i - 1] \o ss[i]
  <2>1. \A i \in 1 .. n : i # 1 => i - 1 \in 1 .. n
    BY <1>1
  <2> QED
    BY <1>4, <2>1
<1>8. Run(ss, f)
  <2> HIDE DEF f
  <2> QED
    BY <1>5, <1>6, <1>7 DEF Run
<1> HIDE DEF f
<1> DEFINE g == CHOOSE r : Run(ss, r)
<1>9. Run(ss, g) /\ FlattenSeq(ss) = g[n]
  <2>1. FlattenSeq(ss) = g[n]
    BY <1>1 DEF FlattenSeq, Run
  <2> QED
    BY <1>8, <2>1
<1> HIDE DEF g
<1>10. g \in [1 .. n -> Seq(X)]
  <2> DEFINE S == {k \in 0 .. n : k = 0 \/ g[k] \in Seq(X)}
  <2>1. 0 \in S
    BY <1>1
  <2>2. ASSUME NEW k \in 1 .. n, k - 1 \in S
        PROVE  k \in S
    <3>1. ss[k] \in Seq(X) /\ k \in 0 .. n
      BY <1>1
    <3>2. CASE k = 1
      BY <1>9, <3>1, <3>2 DEF Run
    <3>3. CASE k # 1
      <4>1. g[k] = g[k - 1] \o ss[k]
        BY <1>9, <3>3 DEF Run
      <4>2. k - 1 # 0
        BY <1>1, <3>3
      <4> QED
        <5>1. g[k - 1] \in Seq(X)
          BY <2>2, <4>2
        <5> QED
          <6>1. g[k - 1] \o ss[k] \in Seq(X)
            BY <3>1, <5>1, ConcatProperties
          <6> QED
            BY <3>1, <4>1, <6>1
    <3> QED
      BY <3>2, <3>3
  <2> HIDE DEF S
  <2>3. \A k \in 0 .. n : k \in S
    BY <1>1, <2>1, <2>2, BoundedInduction
  <2>4. \A k \in 1 .. n : g[k] \in Seq(X)
    BY <1>1, <2>3 DEF S
  <2>5. g = [i \in 1 .. n |-> g[i]]
    BY <1>9 DEF Run
  <2> QED
    BY <2>4, <2>5
<1> QED
  BY <1>9, <1>10

\* No parts give no words.
LEMMA FlattenEmpty == FlattenSeq(<<>>) = <<>>
BY DEF FlattenSeq

\* Flattening is defined from the left: one more sequence is appended.
LEMMA FlattenAppend ==
  ASSUME NEW X, NEW ss \in Seq(Seq(X)), NEW s \in Seq(X)
  PROVE  /\ FlattenSeq(ss) \in Seq(X)
         /\ FlattenSeq(Append(ss, s)) = FlattenSeq(ss) \o s
<1> DEFINE n == Len(ss)
           tt == Append(ss, s)
<1>1. /\ n \in Nat /\ tt \in Seq(Seq(X)) /\ Len(tt) = n + 1 /\ tt # <<>>
      /\ \A i \in 1 .. n : tt[i] = ss[i]
      /\ tt[n + 1] = s
  BY AppendProperties
<1> HIDE DEF tt
<1>2. PICK g \in [1 .. n + 1 -> Seq(X)] : Run(tt, g) /\ FlattenSeq(tt) = g[n + 1]
  BY <1>1, FlattenRuns
<1>3. CASE ss = <<>>
  <2>1. n = 0 /\ FlattenSeq(ss) = <<>>
    BY <1>3, FlattenEmpty
  <2>2. g[1] = s
    BY <1>1, <1>2, <2>1 DEF Run
  <2> QED
    BY <1>2, <2>1, <2>2, ConcatEmptySeq, EmptySeq DEF tt
<1>4. CASE ss # <<>>
  <2>1. PICK f \in [1 .. n -> Seq(X)] : Run(ss, f) /\ FlattenSeq(ss) = f[n]
    BY <1>4, FlattenRuns
  <2>2. n >= 1
    BY <1>1, <1>4, EmptySeq
  <2> DEFINE S == {k \in 0 .. n : k = 0 \/ f[k] = g[k]}
  <2>3. 0 \in S
    BY <1>1
  <2>4. ASSUME NEW k \in 1 .. n, k - 1 \in S
        PROVE  k \in S
    <3>1. tt[k] = ss[k] /\ k \in 0 .. n /\ k \in 1 .. n + 1
      BY <1>1
    <3>2. CASE k = 1
      BY <1>1, <1>2, <2>1, <3>1, <3>2 DEF Run
    <3>3. CASE k # 1
      <4>1. f[k] = f[k - 1] \o ss[k]
        BY <2>1, <3>3 DEF Run
      <4>2. g[k] = g[k - 1] \o tt[k]
        BY <1>1, <1>2, <3>1, <3>3 DEF Run
      <4>3. f[k - 1] = g[k - 1]
        BY <1>1, <2>4, <3>3
      <4> QED
        BY <3>1, <4>1, <4>2, <4>3
    <3> QED
      BY <3>2, <3>3
  <2> HIDE DEF S
  <2>5. \A k \in 0 .. n : k \in S
    BY <1>1, <2>3, <2>4, BoundedInduction
  <2>6. f[n] = g[n] /\ f[n] \in Seq(X)
    <3>1. n \in 0 .. n /\ n # 0 /\ n \in 1 .. n
      BY <1>1, <2>2
    <3> QED
      BY <2>5, <3>1 DEF S
  <2>7. g[n + 1] = g[n] \o tt[n + 1]
    <3>1. n + 1 \in 1 .. Len(tt) /\ n + 1 # 1 /\ (n + 1) - 1 = n
      BY <1>1, <2>2
    <3> QED
      BY <1>2, <3>1 DEF Run
  <2> QED
    BY <1>1, <1>2, <2>1, <2>6, <2>7 DEF tt
<1> QED
  BY <1>3, <1>4

\* Sequences over X are joined to a sequence over X.
LEMMA FlattenType ==
  ASSUME NEW X, NEW ss \in Seq(Seq(X))
  PROVE  FlattenSeq(ss) \in Seq(X)
<1>1. <<>> \in Seq(X)
  OBVIOUS
<1> QED
  BY <1>1, FlattenAppend

\* One more sequence at the front.
LEMMA FlattenCons ==
  ASSUME NEW X, NEW s \in Seq(X), NEW ss \in Seq(Seq(X))
  PROVE  FlattenSeq(<<s>> \o ss) = s \o FlattenSeq(ss)
<1> DEFINE S == {tt \in Seq(Seq(X)) : FlattenSeq(<<s>> \o tt) = s \o FlattenSeq(tt)}
<1>0. <<>> \in Seq(Seq(X)) /\ <<s>> \in Seq(Seq(X))
  OBVIOUS
<1>1. <<>> \in S
  <2>1. <<s>> \o <<>> = Append(<<>>, s)
    BY <1>0
  <2>2. FlattenSeq(Append(<<>>, s)) = <<>> \o s
    BY <1>0, FlattenAppend, FlattenEmpty
  <2>3. <<>> \o s = s /\ s \o <<>> = s
    BY ConcatEmptySeq
  <2> QED
    BY <1>0, <2>1, <2>2, <2>3, FlattenEmpty
<1>2. ASSUME NEW tt \in Seq(Seq(X)), NEW t \in Seq(X), tt \in S
      PROVE  Append(tt, t) \in S
  <2>1. /\ <<s>> \o tt \in Seq(Seq(X)) /\ Append(tt, t) \in Seq(Seq(X))
        /\ <<s>> \o Append(tt, t) = Append(<<s>> \o tt, t)
    BY <1>0
  <2>2. FlattenSeq(Append(<<s>> \o tt, t)) = FlattenSeq(<<s>> \o tt) \o t
    BY <2>1, FlattenAppend
  <2>3. FlattenSeq(Append(tt, t)) = FlattenSeq(tt) \o t /\ FlattenSeq(tt) \in Seq(X)
    BY FlattenAppend
  <2>4. (s \o FlattenSeq(tt)) \o t = s \o (FlattenSeq(tt) \o t)
    BY <2>3, ConcatAssociative
  <2> QED
    BY <1>2, <2>1, <2>2, <2>3, <2>4
<1> HIDE DEF S
<1>3. ss \in S
  BY <1>1, <1>2, SeqInduction
<1> QED
  BY <1>3 DEF S

(***************************************************************************)
(* The envelope: what is sealed is read                                    *)
(***************************************************************************)

\* The padding of n words is at most three words and fills the last block.
LEMMA PaddingFills ==
  ASSUME NEW n \in Nat
  PROVE  /\ Padding(n) \in Seq(Int)
         /\ Len(Padding(n)) \in 0 .. 3
         /\ (n + Len(Padding(n))) % WordsPerBlock = 0
<1> DEFINE p == (-n) % 4
<1>1. p \in 0 .. 3 /\ (n + p) % 4 = 0
  BY SMT
<1>2. Padding(n) = [i \in 1 .. p |-> 0]
  BY DEF Padding, WordsPerBlock
<1>3. Padding(n) \in Seq(Int) /\ Len(Padding(n)) = p
  BY <1>1, <1>2
<1> QED
  BY <1>1, <1>3 DEF WordsPerBlock

\* A header word and a payload, as one sequence.
LEMMA Headed ==
  ASSUME NEW w \in Seq(Int)
  PROVE  /\ <<0>> \o w \in Seq(Int)
         /\ Len(<<0>> \o w) = Len(w) + 1
         /\ \A i \in 1 .. Len(w) : (<<0>> \o w)[i + 1] = w[i]
         /\ <<0>> \o w # <<>>
<1>1. <<0>> \in Seq(Int) /\ Len(<<0>>) = 1
  OBVIOUS
<1>2. <<0>> \o w \in Seq(Int) /\ Len(<<0>> \o w) = Len(w) + 1
  BY <1>1
<1>3. \A i \in 1 .. Len(w) : (<<0>> \o w)[i + 1] = w[i]
  BY <1>1
<1> QED
  BY <1>2, <1>3

\* The envelope's data, its first word replaced.
Resized(s, v) == [s EXCEPT ![1] = v]

\* The first word of a sequence is replaced.
LEMMA FirstReplaced ==
  ASSUME NEW s \in Seq(Int), Len(s) >= 1, NEW v \in Int
  PROVE  /\ Resized(s, v) \in Seq(Int)
         /\ Len(Resized(s, v)) = Len(s)
         /\ Resized(s, v)[1] = v
         /\ \A i \in 2 .. Len(s) : Resized(s, v)[i] = s[i]
<1>1. Len(s) \in Nat /\ s \in [1 .. Len(s) -> Int]
  OBVIOUS
<1>2. Resized(s, v) = [i \in 1 .. Len(s) |-> IF i = 1 THEN v ELSE s[i]]
  BY <1>1 DEF Resized
<1> QED
  BY <1>1, <1>2

\* Padding and the size leave the words after the first one as they are.
LEMMA SizedAndPadded ==
  ASSUME NEW plain \in Seq(Int), NEW pad \in Seq(Int), Len(plain) >= 1, NEW size \in Int
  PROVE  /\ Resized(plain \o pad, size) \in Seq(Int)
         /\ Len(Resized(plain \o pad, size)) = Len(plain) + Len(pad)
         /\ Resized(plain \o pad, size)[1] = size
         /\ \A i \in 2 .. Len(plain) : Resized(plain \o pad, size)[i] = plain[i]
<1>1. /\ plain \o pad \in Seq(Int)
      /\ Len(plain \o pad) = Len(plain) + Len(pad)
      /\ \A i \in 1 .. Len(plain) : (plain \o pad)[i] = plain[i]
  OBVIOUS
<1>2. Len(plain) \in Nat /\ Len(pad) \in Nat /\ Len(plain \o pad) >= 1
  BY <1>1
<1> DEFINE s == plain \o pad
           sealed == Resized(s, size)
<1>3. s \in Seq(Int) /\ Len(s) >= 1
  BY <1>1, <1>2
<1> HIDE DEF s
<1>4. /\ sealed \in Seq(Int)
      /\ Len(sealed) = Len(s)
      /\ sealed[1] = size
      /\ \A i \in 2 .. Len(s) : sealed[i] = s[i]
  BY <1>3, FirstReplaced
<1>5. \A i \in 2 .. Len(plain) : i \in 2 .. Len(s) /\ s[i] = plain[i]
  BY <1>1, <1>2 DEF s
<1> QED
  BY <1>1, <1>4, <1>5 DEF s

\* The plain data of a descriptor is a header word and the payload, also for
\* the descriptor of size 0, which has no data at all.
LEMMA SealedShape ==
  ASSUME NEW w \in Seq(Int), NEW size \in Nat, size = 0 => w = <<>>
  PROVE  LET sealed == PrepareEncrypted(EncryptedDescriptor(size, w))
         IN  /\ sealed \in Seq(Int)
             /\ sealed[1] = 4 * (Len(w) + 1)
             /\ \A i \in 1 .. Len(w) : sealed[i + 1] = w[i]
             /\ Len(sealed) \in Len(w) + 1 .. Len(w) + 4
             /\ Len(sealed) % WordsPerBlock = 0
<1> DEFINE data  == EncryptedDescriptor(size, w)
           plain == <<0>> \o w
           pad   == Padding(Len(plain))
<1>1. plain = IF data = <<>> THEN <<0>> ELSE data
  <2>1. CASE size = 0
    <3>1. w = <<>> /\ data = <<>>
      BY <2>1 DEF EncryptedDescriptor
    <3>2. <<0>> \o w = <<0>>
      BY <3>1
    <3> QED
      BY <3>1, <3>2
  <2>2. CASE size # 0
    BY <2>2, Headed DEF EncryptedDescriptor
  <2> QED
    BY <2>1, <2>2
<1>2. PrepareEncrypted(data) = Resized(plain \o pad, 4 * Len(plain))
  BY <1>1 DEF PrepareEncrypted, Resized
<1>3. /\ plain \in Seq(Int)
      /\ Len(plain) = Len(w) + 1
      /\ \A i \in 1 .. Len(w) : plain[i + 1] = w[i]
  BY Headed
<1> HIDE DEF plain, data
<1>4. /\ pad \in Seq(Int)
      /\ Len(pad) \in 0 .. 3
      /\ (Len(plain) + Len(pad)) % WordsPerBlock = 0
  BY <1>3, PaddingFills
<1> HIDE DEF pad
<1> DEFINE sealed == Resized(plain \o pad, 4 * Len(plain))
<1>5. /\ sealed \in Seq(Int)
      /\ Len(sealed) = Len(plain) + Len(pad)
      /\ sealed[1] = 4 * Len(plain)
      /\ \A i \in 2 .. Len(plain) : sealed[i] = plain[i]
  <2> DEFINE bytes == 4 * Len(plain)
  <2>1. Len(plain) >= 1 /\ bytes \in Int
    BY <1>3
  <2> HIDE DEF bytes
  <2>2. /\ Resized(plain \o pad, bytes) \in Seq(Int)
        /\ Len(Resized(plain \o pad, bytes)) = Len(plain) + Len(pad)
        /\ Resized(plain \o pad, bytes)[1] = bytes
        /\ \A i \in 2 .. Len(plain) : Resized(plain \o pad, bytes)[i] = plain[i]
    BY <1>3, <1>4, <2>1, SizedAndPadded
  <2> QED
    BY <2>2 DEF bytes
<1> HIDE DEF sealed
<1>6. \A i \in 1 .. Len(w) : sealed[i + 1] = w[i]
  BY <1>3, <1>5
<1>7. Len(sealed) \in Len(w) + 1 .. Len(w) + 4
  <2>1. Len(w) \in Nat /\ Len(sealed) = Len(w) + 1 + Len(pad)
    BY <1>3, <1>5
  <2> QED
    <3> DEFINE k == Len(w)
               q == Len(pad)
    <3>1. k \in Nat /\ q \in 0 .. 3 /\ Len(sealed) = k + 1 + q
      BY <1>4, <2>1
    <3> HIDE DEF k, q
    <3>2. Len(sealed) \in k + 1 .. k + 4
      BY <3>1
    <3> QED
      BY <3>2 DEF k
<1>8. sealed[1] = 4 * (Len(w) + 1) /\ Len(sealed) % WordsPerBlock = 0
  BY <1>3, <1>4, <1>5
<1> QED
  BY <1>2, <1>5, <1>6, <1>7, <1>8 DEF sealed, data

(* SealedIsRead: DecryptLocal reads back every payload that was written to  *)
(* an EncryptedDescriptor of its size (td/storage.py): the empty map, whose *)
(* descriptor has size 0 and no stream, as well as every other one.         *)
THEOREM SealedIsRead ==
  ASSUME NEW w \in Seq(Int), NEW size \in Nat, size = 0 => w = <<>>
  PROVE  DecryptLocal(PrepareEncrypted(EncryptedDescriptor(size, w)))
           = [ok |-> TRUE, words |-> w]
<1> DEFINE sealed == PrepareEncrypted(EncryptedDescriptor(size, w))
<1>1. /\ sealed \in Seq(Int)
      /\ sealed[1] = 4 * (Len(w) + 1)
      /\ \A i \in 1 .. Len(w) : sealed[i + 1] = w[i]
      /\ Len(sealed) \in Len(w) + 1 .. Len(w) + 4
      /\ Len(sealed) % WordsPerBlock = 0
  BY SealedShape
<1> HIDE DEF sealed
<1>2. /\ sealed # <<>>
      /\ ~(sealed[1] > 4 * Len(sealed))
      /\ ~(sealed[1] <= 4 * Len(sealed) - 16)
      /\ ~(sealed[1] < 4)
  BY <1>1
<1>3. DecryptLocal(sealed) = [ok |-> TRUE, words |-> SubSeq(sealed, 2, sealed[1] \div 4)]
  BY <1>1, <1>2 DEF DecryptLocal
<1>4. sealed[1] \div 4 = Len(w) + 1
  BY <1>1
<1>5. SubSeq(sealed, 2, Len(w) + 1) = w
  BY <1>1
<1> QED
  BY <1>3, <1>4, <1>5 DEF sealed

(***************************************************************************)
(* Parts of a sequence of words                                            *)
(***************************************************************************)

\* Concatenation of word sequences is associative.
LEMMA WordsAssociative ==
  ASSUME NEW x \in Seq(Int), NEW y \in Seq(Int), NEW z \in Seq(Int)
  PROVE  (x \o y) \o z = x \o (y \o z)
BY ConcatAssociative, SMTT(30)

\* The greatest element of a set of indices.
LEMMA MaxOfIndices ==
  ASSUME NEW n \in Nat, NEW T, T \subseteq 1 .. n, T # {}
  PROVE  Max(T) \in T /\ \A y \in T : Max(T) >= y
<1> DEFINE D == {n - y : y \in T}
<1>1. D \subseteq Nat /\ D # {}
  OBVIOUS
<1>2. PICK d \in D : \A e \in D : d <= e
  BY <1>1, LeastNat
<1>3. PICK x \in T : d = n - x
  BY <1>2
<1>4. \A y \in T : x >= y
  <2> SUFFICES ASSUME NEW y \in T PROVE x >= y
    OBVIOUS
  <2>1. x \in Int /\ y \in Int /\ n - y \in D
    OBVIOUS
  <2>2. d <= n - y
    BY <1>2, <2>1
  <2> HIDE DEF D
  <2> QED
    BY <1>3, <2>1, <2>2
<1>5. \E z \in T : \A y \in T : z >= y
  BY <1>4
<1> QED
  BY <1>5 DEF Max

\* The sequences that are left of ss after the first k, as one.
From(ss, k) == FlattenSeq([i \in 1 .. Len(ss) - k |-> ss[k + i]])

\* From the start all parts are left.
LEMMA FromStart ==
  ASSUME NEW X, NEW ss \in Seq(Seq(X))
  PROVE  From(ss, 0) = FlattenSeq(ss)
<1>1. [i \in 1 .. Len(ss) - 0 |-> ss[0 + i]] = ss
  OBVIOUS
<1> QED
  BY <1>1 DEF From

\* What is left of the parts is a sequence over the same set.
LEMMA FromType ==
  ASSUME NEW X, NEW ss \in Seq(Seq(X)), NEW k \in 0 .. Len(ss)
  PROVE  From(ss, k) \in Seq(X)
<1> DEFINE tt == [i \in 1 .. Len(ss) - k |-> ss[k + i]]
<1>1. Len(ss) - k \in Nat /\ \A i \in 1 .. Len(ss) - k : k + i \in 1 .. Len(ss)
  OBVIOUS
<1>2. tt \in Seq(Seq(X))
  BY <1>1
<1> HIDE DEF tt
<1>3. FlattenSeq(tt) \in Seq(X)
  BY <1>2, FlattenType
<1> QED
  BY <1>3 DEF From, tt

\* Behind the last part nothing is left.
LEMMA FromEnd ==
  ASSUME NEW X, NEW ss \in Seq(Seq(X))
  PROVE  From(ss, Len(ss)) = <<>>
<1>1. [i \in 1 .. Len(ss) - Len(ss) |-> ss[Len(ss) + i]] = <<>>
  OBVIOUS
<1> QED
  BY <1>1, FlattenEmpty DEF From

\* The next of the sequences that are left.
LEMMA FromNext ==
  ASSUME NEW X, NEW ss \in Seq(Seq(X)), NEW k \in 1 .. Len(ss)
  PROVE  From(ss, k - 1) = ss[k] \o From(ss, k)
<1> DEFINE n == Len(ss)
           tt == [i \in 1 .. n - k |-> ss[k + i]]
           uu == [i \in 1 .. n - (k - 1) |-> ss[k - 1 + i]]
<1>1. n \in Nat /\ n - k \in Nat /\ n - (k - 1) = n - k + 1
  OBVIOUS
<1>2. \A i \in 1 .. n - k : k + i \in 1 .. n
  BY <1>1
<1>3. tt \in Seq(Seq(X)) /\ Len(tt) = n - k
  BY <1>1, <1>2
<1>4. ss[k] \in Seq(X)
  OBVIOUS
<1>5. uu = <<ss[k]>> \o tt
  <2>1. <<ss[k]>> \o tt = [i \in 1 .. n - k + 1 |-> IF i = 1 THEN ss[k] ELSE tt[i - 1]]
    BY <1>1, <1>3, <1>4
  <2>2. \A i \in 1 .. n - k + 1 : i # 1 => i - 1 \in 1 .. n - k /\ tt[i - 1] = ss[k - 1 + i]
    BY <1>1
  <2>3. \A i \in 1 .. n - k + 1 : ss[k - 1 + i] = IF i = 1 THEN ss[k] ELSE tt[i - 1]
    BY <2>2
  <2> HIDE DEF tt
  <2> QED
    BY <1>1, <2>1, <2>3
<1> HIDE DEF tt, uu
<1>6. FlattenSeq(<<ss[k]>> \o tt) = ss[k] \o FlattenSeq(tt)
  BY <1>3, <1>4, FlattenCons
<1>7. From(ss, k) = FlattenSeq(tt) /\ From(ss, k - 1) = FlattenSeq(uu)
  BY DEF From, tt, uu
<1> QED
  BY <1>5, <1>6, <1>7

\* A product of natural numbers grows with its factor.
LEMMA ProductGrows ==
  ASSUME NEW n \in Nat, NEW a \in Nat, NEW b \in Nat, a <= b
  PROVE  a * n \in Nat /\ b * n \in Nat /\ a * n <= b * n
<1>1. a * n \in Nat /\ b * n \in Nat /\ (b - a) * n \in Nat
  <2>1. \A x, y \in Nat : x * y \in Nat
    OBVIOUS
  <2>2. b - a \in Nat
    OBVIOUS
  <2> QED
    BY <2>1, <2>2
<1>2. (b - a) * n = b * n - a * n
  OBVIOUS
<1> QED
  BY <1>1, <1>2

\* In a sequence of records of n words each, the words of a record are found
\* by its number.
Place(i, n, j) == (i - 1) * n + j
Placed(w, ss, n) ==
  /\ Len(w) = Len(ss) * n
  /\ \A i \in 1 .. Len(ss), j \in 1 .. n : w[Place(i, n, j)] = ss[i][j]

\* Parts of one length n: the j-th item of the i-th part is at (i - 1) * n + j.
LEMMA FlattenUniform ==
  ASSUME NEW X, NEW n \in Nat, NEW ss \in Seq(Seq(X)), \A i \in DOMAIN ss : Len(ss[i]) = n
  PROVE  Placed(FlattenSeq(ss), ss, n)
<1> DEFINE Good(tt) == /\ Len(FlattenSeq(tt)) = Len(tt) * n
                       /\ \A i \in 1 .. Len(tt), j \in 1 .. n :
                            FlattenSeq(tt)[(i - 1) * n + j] = tt[i][j]
           S == {tt \in Seq(Seq(X)) : (\A i \in DOMAIN tt : Len(tt[i]) = n) => Good(tt)}
<1>1. <<>> \in S
  BY FlattenEmpty
<1>2. ASSUME NEW tt \in Seq(Seq(X)), NEW s \in Seq(X), tt \in S
      PROVE  Append(tt, s) \in S
  <2> DEFINE uu == Append(tt, s)
             m == Len(tt)
  <2> SUFFICES ASSUME \A i \in DOMAIN uu : Len(uu[i]) = n
               PROVE  Good(uu)
    BY AppendProperties
  <2>1. /\ m \in Nat /\ Len(uu) = m + 1 /\ uu[m + 1] = s
        /\ \A i \in 1 .. m : uu[i] = tt[i]
        /\ DOMAIN uu = 1 .. m + 1 /\ DOMAIN tt = 1 .. m
    OBVIOUS
  <2>2. Len(s) = n /\ \A i \in DOMAIN tt : Len(tt[i]) = n
    <3>1. m + 1 \in DOMAIN uu
      BY <2>1
    <3>2. \A i \in DOMAIN tt : i \in DOMAIN uu
      BY <2>1
    <3> HIDE DEF uu
    <3> QED
      BY <2>1, <3>1, <3>2
  <2>3. Good(tt)
    BY <1>2, <2>2
  <2>4. FlattenSeq(uu) = FlattenSeq(tt) \o s /\ FlattenSeq(tt) \in Seq(X)
    BY FlattenAppend
  <2> DEFINE f == FlattenSeq(tt)
  <2>5. m * n \in Nat /\ Len(f) = m * n /\ (m + 1) * n = m * n + n
    BY <2>1, <2>3, ProductGrows
  <2> HIDE DEF uu
  <2>6. Len(FlattenSeq(uu)) = (m + 1) * n
    <3>1. Len(f \o s) = Len(f) + Len(s)
      BY <2>4
    <3> QED
      BY <2>2, <2>4, <2>5, <3>1
  <2>7. ASSUME NEW i \in 1 .. m + 1, NEW j \in 1 .. n
        PROVE  (f \o s)[(i - 1) * n + j] = uu[i][j]
    <3>1. CASE i \in 1 .. m
      <4>1. i - 1 \in Nat /\ i \in Nat /\ i - 1 <= i /\ i <= m /\ i * n = (i - 1) * n + n
        BY <2>1, <3>1
      <4>2. (i - 1) * n \in Nat /\ i * n <= m * n
        BY <4>1, ProductGrows, <2>1
      <4>3. (i - 1) * n + j \in 1 .. Len(f)
        <5> DEFINE p == (i - 1) * n
                   q == m * n
        <5>1. p \in Nat /\ q \in Nat /\ p + n <= q /\ Len(f) = q
          BY <2>5, <4>1, <4>2
        <5> HIDE DEF p, q
        <5>2. p + j \in 1 .. Len(f)
          BY <5>1
        <5> QED
          BY <5>2 DEF p
      <4>4. (f \o s)[(i - 1) * n + j] = f[(i - 1) * n + j]
        <5> HIDE DEF f
        <5> DEFINE p == (i - 1) * n + j
        <5>1. f \in Seq(X) /\ p \in 1 .. Len(f)
          BY <2>4, <4>3 DEF f
        <5> HIDE DEF p
        <5>2. (f \o s)[p] = f[p]
          BY <5>1
        <5> QED
          BY <5>2 DEF p
      <4> QED
        BY <2>1, <2>3, <3>1, <4>4
    <3>2. CASE i = m + 1
      <4>1. (i - 1) * n + j = Len(f) + j
        BY <2>1, <2>5, <3>2
      <4>2. (f \o s)[Len(f) + j] = s[j]
        <5>1. f \in Seq(X)
          BY <2>4
        <5> HIDE DEF f
        <5>2. Len(f) \in Nat /\ j \in 1 .. Len(s)
          BY <2>2, <5>1
        <5> QED
          BY <5>1, <5>2
      <4> QED
        BY <2>1, <3>2, <4>1, <4>2
    <3>3. i \in 1 .. m \/ i = m + 1
      BY <2>1
    <3> QED
      BY <3>1, <3>2, <3>3
  <2> QED
    BY <2>1, <2>4, <2>6, <2>7
<1> HIDE DEF S
<1>3. ss \in S
  BY <1>1, <1>2, SeqInduction
<1> QED
  BY <1>3 DEF S, Placed, Place

(***************************************************************************)
(* Streams: what is written is read                                        *)
(***************************************************************************)

\* Both parts of a concatenation are found again in it.
LEMMA ConcatParts ==
  ASSUME NEW X, NEW a \in Seq(X), NEW t \in Seq(X)
  PROVE  /\ SubSeq(a \o t, 1, Len(a)) = a
         /\ Rest(a \o t, Len(a)) = t
         /\ a \o t \in Seq(X)
         /\ Len(a \o t) = Len(a) + Len(t)
         /\ \A i \in 1 .. Len(a) : (a \o t)[i] = a[i]
         /\ \A i \in 1 .. Len(t) : (a \o t)[Len(a) + i] = t[i]
<1>1. /\ a \o t \in Seq(X)
      /\ Len(a \o t) = Len(a) + Len(t)
      /\ \A i \in 1 .. Len(a) : (a \o t)[i] = a[i]
      /\ \A i \in 1 .. Len(t) : (a \o t)[Len(a) + i] = t[i]
      /\ Len(a) \in Nat /\ Len(t) \in Nat
  OBVIOUS
<1> DEFINE s == a \o t
<1> HIDE DEF s
<1>2. SubSeq(s, 1, Len(a)) = a
  BY <1>1 DEF s
<1>3. SubSeq(s, Len(a) + 1, Len(a) + Len(t)) = t
  BY <1>1 DEF s
<1> QED
  BY <1>1, <1>2, <1>3 DEF s, Rest

\* A word in front of a stream.
LEMMA OneWord ==
  ASSUME NEW X, NEW w \in X, NEW t \in Seq(X)
  PROVE  /\ <<w>> \o t \in Seq(X) /\ <<w>> \o t # <<>>
         /\ Len(<<w>> \o t) = Len(t) + 1
         /\ Head(<<w>> \o t) = w /\ Tail(<<w>> \o t) = t
         /\ (<<w>> \o t)[1] = w
         /\ \A i \in 1 .. Len(t) : (<<w>> \o t)[i + 1] = t[i]
<1>1. <<w>> \in Seq(X) /\ Len(<<w>>) = 1
  OBVIOUS
<1>2. /\ <<w>> \o t \in Seq(X) /\ Len(<<w>> \o t) = Len(t) + 1
      /\ (<<w>> \o t)[1] = w
      /\ \A i \in 1 .. Len(t) : (<<w>> \o t)[i + 1] = t[i]
  BY <1>1
<1>3. <<w>> \o t # <<>> /\ Head(<<w>> \o t) = w
  BY <1>2
<1>4. Tail(<<w>> \o t) = t
  BY <1>2
<1> QED
  BY <1>2, <1>3, <1>4

\* A written byte array is its size and its words.
LEMMA WrittenType ==
  ASSUME NEW w \in Seq(Int)
  PROVE  WriteBytes(w) \in Seq(Int) /\ Len(WriteBytes(w)) = Len(w) + 1
         /\ Head(WriteBytes(w)) = 4 * Len(w) /\ Tail(WriteBytes(w)) = w
<1>1. 4 * Len(w) \in Int
  OBVIOUS
<1> QED
  BY <1>1, OneWord DEF WriteBytes

\* A byte array that was written is read.
LEMMA WrittenIsRead ==
  ASSUME NEW w \in Seq(Int), NEW t \in Seq(Int)
  PROVE  ReadBytes(WriteBytes(w) \o t) = [ok |-> TRUE, value |-> w, rest |-> t]
<1> DEFINE a == WriteBytes(w)
           s == a \o t
<1>1. a \in Seq(Int) /\ Len(a) = Len(w) + 1 /\ Head(a) = 4 * Len(w) /\ Tail(a) = w
  BY WrittenType
<1>2. Len(w) \in Nat /\ Len(t) \in Nat
  OBVIOUS
<1> HIDE DEF a
<1>3. /\ s \in Seq(Int) /\ Len(s) = Len(w) + 1 + Len(t)
      /\ SubSeq(s, 1, Len(w) + 1) = a /\ Rest(s, Len(w) + 1) = t
      /\ \A i \in 1 .. Len(w) + 1 : s[i] = a[i]
  <2>1. s \in Seq(Int)
    BY <1>1, ConcatParts
  <2>4. Len(s) = Len(a) + Len(t)
    BY <1>1, ConcatParts
  <2>5. \A i \in 1 .. Len(a) : s[i] = a[i]
    BY <1>1, ConcatParts
  <2>2. SubSeq(s, 1, Len(a)) = a 
    BY <1>1, ConcatParts
  <2>3. Rest(s, Len(a)) = t
    BY <1>1, ConcatParts
  
  <2> HIDE DEF s
  <2> QED
    BY <1>1, <2>1, <2>2, <2>3, <2>4, <2>5
<1> HIDE DEF s
<1>4. s # <<>> /\ Head(s) = 4 * Len(w)
  <2>1. a[1] = 4 * Len(w) /\ 1 \in 1 .. Len(w) + 1
    BY <1>1, <1>2
  <2> QED
    BY <1>2, <1>3, <2>1
<1>5. SubSeq(s, 2, Len(w) + 1) = w
  <2>1. \A i \in 1 .. Len(w) : s[i + 1] = w[i]
    <3>1. \A i \in 1 .. Len(w) : i + 1 \in 1 .. Len(w) + 1 /\ Tail(a)[i] = a[i + 1]
      BY <1>1, <1>2, SMTT(30)
    <3> QED
      BY <1>1, <1>3, <3>1
  <2> QED
    BY <1>2, <1>3, <2>1
<1>6. 4 * Len(w) # NullSize /\ (4 * Len(w) + 3) \div 4 = Len(w) /\ 4 * Len(w) >= NullSize
  BY <1>2 DEF NullSize
<1>7. Has(s, 1 + Len(w)) /\ 1 + Len(w) = Len(w) + 1
  BY <1>2, <1>3 DEF Has
<1>8. ReadBytes(s) = [ok |-> TRUE, value |-> SubSeq(s, 2, 1 + Len(w)), rest |-> Rest(s, 1 + Len(w))]
  BY <1>4, <1>6, <1>7 DEF ReadBytes
<1> QED
  BY <1>3, <1>5, <1>7, <1>8 DEF s, a

\* What is left of a stream is a sequence of words.
LEMMA RestType ==
  ASSUME NEW s \in Seq(Int), NEW n \in Nat
  PROVE  Rest(s, n) \in Seq(Int)
BY DEF Rest

\* Whatever a stream holds, ReadBytes gives words.
LEMMA ReadBytesType ==
  ASSUME NEW s \in Seq(Int)
  PROVE  /\ ReadBytes(s).ok \in BOOLEAN
         /\ ReadBytes(s).value \in Seq(Int)
         /\ ReadBytes(s).rest \in Seq(Int)
<1> DEFINE size  == IF s = <<>> THEN 0 ELSE Head(s)
           words == IF size = NullSize THEN 0 ELSE (size + 3) \div 4
<1>1. size \in Int
  OBVIOUS
<1> HIDE DEF size
<1>2. CASE size >= NullSize /\ Has(s, 1 + words)
  <2>1. words \in Nat
    BY <1>1, <1>2 DEF NullSize
  <2> HIDE DEF words
  <2>2. SubSeq(s, 2, 1 + words) \in Seq(Int) /\ Rest(s, 1 + words) \in Seq(Int)
    BY <1>2, <2>1 DEF Has, Rest
  <2> QED
    BY <1>2, <2>2 DEF ReadBytes, size, words
<1>3. CASE ~(size >= NullSize /\ Has(s, 1 + words))
  BY <1>3 DEF ReadBytes, size
<1> QED
  BY <1>2, <1>3

\* A uint64 is written as two words.
LEMMA U64Type ==
  ASSUME NEW vs \in Seq(Uint64)
  PROVE  U64Words(vs) \in Seq(Int) /\ Len(U64Words(vs)) = 2 * Len(vs)
<1>1. \A i \in 1 .. 2 * Len(vs) : (i + 1) \div 2 \in 1 .. Len(vs) /\ 2 - (i % 2) \in {1, 2}
  OBVIOUS
<1>2. \A i \in 1 .. 2 * Len(vs) : vs[(i + 1) \div 2] \in Int \X Int
  BY <1>1 DEF Uint64
<1>3. \A i \in 1 .. 2 * Len(vs) : vs[(i + 1) \div 2][2 - (i % 2)] \in Int
  BY <1>1, <1>2
<1>4. 2 * Len(vs) \in Nat
  OBVIOUS
<1> QED
  BY <1>3, <1>4 DEF U64Words

\* The uint64 values that were written are read.
LEMMA U64Read ==
  ASSUME NEW vs \in Seq(Uint64), NEW t \in Seq(Int), NEW i \in 1 .. Len(vs)
  PROVE  U64At(U64Words(vs) \o t, i) = vs[i]
<1> DEFINE a == U64Words(vs)
<1>1. a \in Seq(Int) /\ Len(a) = 2 * Len(vs)
  BY U64Type
<1>2. Len(vs) \in Nat /\ 2 * i - 1 \in 1 .. 2 * Len(vs) /\ 2 * i \in 1 .. 2 * Len(vs)
  OBVIOUS
<1>3. a[2 * i - 1] = vs[i][1]
  <2>1. ((2 * i - 1) + 1) \div 2 = i /\ 2 - ((2 * i - 1) % 2) = 1
    BY <1>2
  <2> QED
    BY <1>2, <2>1 DEF U64Words
<1>4. a[2 * i] = vs[i][2]
  <2>1. (2 * i + 1) \div 2 = i /\ 2 - ((2 * i) % 2) = 2
    BY <1>2
  <2> QED
    BY <1>2, <2>1 DEF U64Words
<1> HIDE DEF a
<1>5. \A j \in 1 .. 2 * Len(vs) : (a \o t)[j] = a[j]
  BY <1>1, ConcatParts
<1>6. vs[i] \in Int \X Int
  BY DEF Uint64
<1>7. vs[i] = <<vs[i][1], vs[i][2]>>
  BY <1>6
<1> QED
  BY <1>2, <1>3, <1>4, <1>5, <1>7 DEF U64At, a

(***************************************************************************)
(* Peers and the pairs of a block                                          *)
(***************************************************************************)

\* The peer ids of a map: without the flag of the serialized form.
PeerIds == {p \in Uint64 : IsLegacy(p)}

\* The dictionaries of a map: finitely many peers, each with a file key.
PairMaps == UNION {[D -> Uint64] : D \in {D \in SUBSET PeerIds : IsFiniteSet(D)}}

\* FromSerialized gives a plain peer id for every stored value: the flag is gone.
LEMMA PeerRead ==
  ASSUME NEW v \in Uint64
  PROVE  FromSerialized(v) \in PeerIds
<1>1. v[1] \in Int /\ v[2] \in Int
  BY DEF Uint64
<1>2. CASE ~IsLegacy(v)
  <2>1. ((v[1] - 8388608) \div 8388608) % 2 = 0
    BY <1>1, <1>2 DEF IsLegacy, ReservedFlag
  <2>2. FromSerialized(v) = <<v[1] - 8388608, v[2]>>
    BY <1>2 DEF FromSerialized, ReservedFlag
  <2> QED
    BY <1>1, <2>1, <2>2 DEF PeerIds, Uint64, IsLegacy, ReservedFlag
<1>3. CASE IsLegacy(v) /\ v[1] % 16 \in DOMAIN LegacyShift
  <2>1. LegacyShift[v[1] % 16] \in {0, 1, 2, 127}
    BY <1>3 DEF LegacyShift
  <2>2. FromSerialized(v) = <<LegacyShift[v[1] % 16] * 65536, v[2]>>
    BY <1>3 DEF FromSerialized
  <2>3. PICK n \in {0, 65536, 131072, 8323072} : FromSerialized(v) = <<n, v[2]>>
    BY <2>1, <2>2
  <2>4. n \in Int /\ (n \div 8388608) % 2 = 0
    BY <2>3
  <2> QED
    BY <1>1, <2>3, <2>4 DEF PeerIds, Uint64, IsLegacy, ReservedFlag
<1>4. CASE IsLegacy(v) /\ v[1] % 16 \notin DOMAIN LegacyShift
  BY <1>4 DEF FromSerialized, PeerIds, Uint64, Zero64, IsLegacy, ReservedFlag
<1> QED
  BY <1>2, <1>3, <1>4

\* A peer that is written is read as itself.
LEMMA PeerKept ==
  ASSUME NEW p \in PeerIds
  PROVE  Serialize(p) \in Uint64 /\ FromSerialized(Serialize(p)) = p
<1>1. p[1] \in Int /\ p[2] \in Int /\ p = <<p[1], p[2]>> /\ (p[1] \div 8388608) % 2 = 0
  BY DEF PeerIds, Uint64, IsLegacy, ReservedFlag
<1>2. Serialize(p) = <<p[1] + 8388608, p[2]>>
  BY DEF Serialize, ReservedFlag
<1>3. ((p[1] + 8388608) \div 8388608) % 2 # 0
  BY <1>1
<1>4. (p[1] + 8388608) - 8388608 = p[1]
  BY <1>1
<1> QED
  BY <1>1, <1>2, <1>3, <1>4 DEF FromSerialized, IsLegacy, ReservedFlag, Uint64

\* A dictionary with one more peer is a dictionary.
LEMMA PutType ==
  ASSUME NEW f \in PairMaps, NEW p \in PeerIds, NEW k \in Uint64
  PROVE  Put(f, p, k) \in PairMaps
<1>1. PICK D \in SUBSET PeerIds : IsFiniteSet(D) /\ f \in [D -> Uint64]
  BY DEF PairMaps
<1> DEFINE E == {p} \cup D
<1>2. E \in SUBSET PeerIds /\ IsFiniteSet(E)
  BY <1>1, FS_AddElement
<1>3. Put(f, p, k) \in [E -> Uint64]
  BY <1>1 DEF Put
<1> QED
  BY <1>2, <1>3 DEF PairMaps

\* Two words inside the stream make a uint64.
LEMMA U64AtType ==
  ASSUME NEW s \in Seq(Int), NEW i \in Nat \ {0}, 2 * i <= Len(s)
  PROVE  U64At(s, i) \in Uint64
<1>1. 2 * i - 1 \in 1 .. Len(s) /\ 2 * i \in 1 .. Len(s)
  OBVIOUS
<1> QED
  BY <1>1 DEF U64At, Uint64

\* What the loop over the pairs of a block does, turn by turn.
PairTurns(after, s, count, old) ==
  /\ after \in [0 .. count -> PairMaps]
  /\ after[0] = old
  /\ \A i \in 1 .. count :
       after[i] = Put(after[i - 1], FromSerialized(U64At(s, 2 * i)), U64At(s, 2 * i - 1))
  /\ ReadPairs(s, count, old) = after[count]

\* ReadPairs runs through its pairs one turn at a time, among the dictionaries.
LEMMA PairsRun ==
  ASSUME NEW s \in Seq(Int), NEW count \in Nat, 4 * count <= Len(s), NEW old \in PairMaps
  PROVE  \E after : PairTurns(after, s, count, old)
<1> DEFINE F == [i \in 1 .. count |-> [f \in PairMaps |->
                   Put(f, FromSerialized(U64At(s, 2 * i)), U64At(s, 2 * i - 1))]]
           Reads(g) == g = [i \in 0 .. count |->
                         IF i = 0 THEN old
                         ELSE Put(g[i - 1], FromSerialized(U64At(s, 2 * i)), U64At(s, 2 * i - 1))]
<1>1. ASSUME NEW i \in 1 .. count, NEW f \in PairMaps
      PROVE  Put(f, FromSerialized(U64At(s, 2 * i)), U64At(s, 2 * i - 1)) \in PairMaps
  <2>1. /\ 2 * i \in Nat \ {0} /\ 2 * (2 * i) <= Len(s)
        /\ 2 * i - 1 \in Nat \ {0} /\ 2 * (2 * i - 1) <= Len(s)
    OBVIOUS
  <2>2. U64At(s, 2 * i) \in Uint64
    BY <2>1, U64AtType
  <2>3. U64At(s, 2 * i - 1) \in Uint64
    BY <2>1, U64AtType
  <2> QED
    BY <2>2, <2>3, PeerRead, PutType
<1>2. F \in Turns(PairMaps, count)
  BY <1>1 DEF Turns
<1>3. PICK h : IsRun(h, PairMaps, count, old, F)
  <2> HIDE DEF F
  <2> QED
    BY <1>2, Recursion
<1>4. \A i \in 1 .. count : i - 1 \in 0 .. count
  OBVIOUS
<1>5. Reads(h)
  <2>1. h \in [0 .. count -> PairMaps] /\ h[0] = old /\ \A i \in 1 .. count : h[i] = F[i][h[i - 1]]
    BY <1>3 DEF IsRun
  <2>2. \A i \in 1 .. count : h[i - 1] \in PairMaps
    BY <1>4, <2>1
  <2>3. \A i \in 1 .. count :
          h[i] = Put(h[i - 1], FromSerialized(U64At(s, 2 * i)), U64At(s, 2 * i - 1))
    BY <2>1, <2>2
  <2>4. \A i \in 0 .. count : i = 0 \/ i \in 1 .. count
    OBVIOUS
  <2> HIDE DEF F
  <2> QED
    BY <2>1, <2>3, <2>4
<1> DEFINE g == CHOOSE r : Reads(r)
<1>6. ReadPairs(s, count, old) = g[count]
  BY DEF ReadPairs
<1>7. Reads(g)
  <2> HIDE DEF Reads
  <2> QED
    BY <1>5
<1> HIDE DEF g, F
<1>8. g[0] = old
  BY <1>7
<1>9. \A i \in 1 .. count :
        g[i] = Put(g[i - 1], FromSerialized(U64At(s, 2 * i)), U64At(s, 2 * i - 1))
  BY <1>7, SMTT(30)
<1>10. \A i \in 0 .. count : g[i] \in PairMaps
  <2> DEFINE S == {i \in 0 .. count : g[i] \in PairMaps}
  <2>1. 0 \in S
    BY <1>8
  <2>2. \A i \in 1 .. count : i - 1 \in S => i \in S
    BY <1>1, <1>9
  <2> HIDE DEF S
  <2>3. \A i \in 0 .. count : i \in S
    BY <2>1, <2>2, BoundedInduction
  <2> QED
    BY <2>3 DEF S
<1>11. g \in [0 .. count -> PairMaps]
  <2>1. g = [i \in 0 .. count |-> g[i]]
    BY <1>7
  <2> QED
    BY <1>10, <2>1
<1> QED
  BY <1>6, <1>8, <1>9, <1>11 DEF PairTurns

(***************************************************************************)
(* Of the pairs that name a peer the last one counts                       *)
(***************************************************************************)

\* A pair of a block, and the last pair of every peer.
Pair == [peer : Uint64, stored : Uint64, key : Uint64]

Latest(ps) == [p \in {ps[i].peer : i \in DOMAIN ps} |->
                 ps[Max({i \in DOMAIN ps : ps[i].peer = p})].key]

\* The number of the pair that counts for p.
LEMMA LatestIndex ==
  ASSUME NEW ps \in Seq(Pair), NEW p \in {ps[i].peer : i \in DOMAIN ps}
  PROVE  LET j == Max({i \in DOMAIN ps : ps[i].peer = p})
         IN  /\ j \in DOMAIN ps /\ ps[j].peer = p
             /\ \A i \in DOMAIN ps : ps[i].peer = p => i <= j
             /\ Latest(ps)[p] = ps[j].key
<1> DEFINE T == {i \in DOMAIN ps : ps[i].peer = p}
<1>1. Len(ps) \in Nat /\ T \subseteq 1 .. Len(ps) /\ T # {}
  OBVIOUS
<1> HIDE DEF T
<1>2. Max(T) \in T /\ \A y \in T : Max(T) >= y
  BY <1>1, MaxOfIndices
<1>3. Latest(ps)[p] = ps[Max(T)].key
  BY DEF Latest, T
<1> QED
  BY <1>2, <1>3, <1>1 DEF T

\* A pair that counts, from its number.
LEMMA LatestOf ==
  ASSUME NEW ps \in Seq(Pair), NEW j \in DOMAIN ps,
         \A i \in DOMAIN ps : ps[i].peer = ps[j].peer => i <= j
  PROVE  Latest(ps)[ps[j].peer] = ps[j].key
<1> DEFINE p == ps[j].peer
           k == Max({i \in DOMAIN ps : ps[i].peer = p})
<1>1. p \in {ps[i].peer : i \in DOMAIN ps}
  OBVIOUS
<1> HIDE DEF p
<1>2. k \in DOMAIN ps /\ ps[k].peer = p /\ Latest(ps)[p] = ps[k].key
  BY <1>1, LatestIndex
<1>3. \A i \in DOMAIN ps : ps[i].peer = p => i <= k
  BY <1>1, LatestIndex
<1> HIDE DEF k
<1>4. k <= j /\ j <= k
  BY <1>2, <1>3 DEF p
<1>5. k = j
  BY <1>2, <1>4
<1> QED
  BY <1>2, <1>5 DEF p

\* The last pairs of plain peers are a dictionary.
LEMMA LatestType ==
  ASSUME NEW ps \in Seq(Pair), \A i \in DOMAIN ps : ps[i].peer \in PeerIds
  PROVE  Latest(ps) \in PairMaps
<1> DEFINE D == {ps[i].peer : i \in DOMAIN ps}
<1>1. D \in SUBSET PeerIds
  OBVIOUS
<1>2. IsFiniteSet(D)
  <2>1. IsFiniteSet(1 .. Len(ps)) /\ DOMAIN ps = 1 .. Len(ps)
    BY FS_Interval
  <2> DEFINE f == [i \in 1 .. Len(ps) |-> ps[i].peer]
  <2>2. f \in Surjection(1 .. Len(ps), D)
    BY <2>1 DEF Surjection
  <2> HIDE DEF f, D
  <2> QED
    BY <2>1, <2>2, FS_Surjection
<1>3. ASSUME NEW p \in D
      PROVE  Latest(ps)[p] \in Uint64
  <2>1. PICK j \in DOMAIN ps : Latest(ps)[p] = ps[j].key
    BY LatestIndex
  <2>2. ps[j] \in Pair
    OBVIOUS
  <2> QED
    BY <2>1, <2>2 DEF Pair
<1>4. Latest(ps) = [p \in D |-> Latest(ps)[p]]
  BY DEF Latest
<1> HIDE DEF D
<1>5. Latest(ps) \in [D -> Uint64]
  BY <1>3, <1>4
<1> QED
  BY <1>1, <1>2, <1>5 DEF PairMaps

\* One more pair: its peer gets its key.
LEMMA LatestPut ==
  ASSUME NEW ps \in Seq(Pair), NEW x \in Pair
  PROVE  Latest(Append(ps, x)) = Put(Latest(ps), x.peer, x.key)
<1> DEFINE qs == Append(ps, x)
           n == Len(ps)
           D == {ps[i].peer : i \in DOMAIN ps}
<1>1. /\ qs \in Seq(Pair) /\ n \in Nat /\ DOMAIN ps = 1 .. n /\ DOMAIN qs = 1 .. n + 1
      /\ \A i \in 1 .. n : qs[i] = ps[i]
      /\ qs[n + 1] = x
  OBVIOUS
<1> HIDE DEF qs
<1>2. {qs[i].peer : i \in DOMAIN qs} = {x.peer} \cup D
  <2>1. \A i \in 1 .. n + 1 : i \in 1 .. n \/ i = n + 1
    BY <1>1
  <2>2. \A i \in 1 .. n : i \in 1 .. n + 1
    BY <1>1
  <2>3. n + 1 \in 1 .. n + 1
    BY <1>1
  <2> QED
    BY <1>1, <2>1, <2>2, <2>3
<1>3. Latest(qs)[x.peer] = x.key
  <2>1. n + 1 \in DOMAIN qs /\ \A i \in DOMAIN qs : i <= n + 1
    BY <1>1
  <2>2. Latest(qs)[qs[n + 1].peer] = qs[n + 1].key
    BY <1>1, <2>1, LatestOf
  <2> QED
    BY <1>1, <2>2
<1>4. ASSUME NEW p \in D, p # x.peer
      PROVE  Latest(qs)[p] = Latest(ps)[p]
  <2>1. PICK j \in DOMAIN ps : /\ ps[j].peer = p
                               /\ \A i \in DOMAIN ps : ps[i].peer = p => i <= j
                               /\ Latest(ps)[p] = ps[j].key
    BY <1>4, LatestIndex
  <2>2. j \in DOMAIN qs /\ qs[j] = ps[j]
    BY <1>1, <2>1
  <2>3. \A i \in DOMAIN qs : qs[i].peer = qs[j].peer => i <= j
    <3> SUFFICES ASSUME NEW i \in DOMAIN qs, qs[i].peer = qs[j].peer PROVE i <= j
      OBVIOUS
    <3>1. i # n + 1
      BY <1>1, <1>4, <2>1, <2>2
    <3>2. i \in DOMAIN ps /\ qs[i] = ps[i]
      BY <1>1, <3>1
    <3> QED
      BY <2>1, <2>2, <3>2
  <2>4. Latest(qs)[qs[j].peer] = qs[j].key
    BY <1>1, <2>2, <2>3, LatestOf
  <2> QED
    BY <2>1, <2>2, <2>4
<1>5. DOMAIN Latest(qs) = {x.peer} \cup D /\ DOMAIN Latest(ps) = D
  BY <1>2 DEF Latest
<1>6. Latest(qs) = [p \in {x.peer} \cup D |-> Latest(qs)[p]]
  BY <1>2 DEF Latest
<1>7. \A p \in {x.peer} \cup D : Latest(qs)[p] = IF p = x.peer THEN x.key ELSE Latest(ps)[p]
  BY <1>3, <1>4
<1> HIDE DEF D
<1> QED
  BY <1>5, <1>6, <1>7 DEF Put, qs

(***************************************************************************)
(* The pairs of a block are read into the dictionary                       *)
(***************************************************************************)

\* Pairs whose peer is what its stored form is read as.
ReadPair == {x \in Pair : x.peer = FromSerialized(x.stored)}

\* Pairs that are read name plain peers.
LEMMA ReadPairType ==
  ASSUME NEW ps \in Seq(ReadPair)
  PROVE  /\ ps \in Seq(Pair)
         /\ \A i \in DOMAIN ps : ps[i].peer \in PeerIds /\ ps[i].peer = FromSerialized(ps[i].stored)
         /\ Latest(ps) \in PairMaps
<1>1. ps \in Seq(Pair)
  BY DEF ReadPair
<1>2. \A i \in DOMAIN ps : ps[i] \in ReadPair
  OBVIOUS
<1>3. \A i \in DOMAIN ps : ps[i].stored \in Uint64 /\ ps[i].peer = FromSerialized(ps[i].stored)
  BY <1>2 DEF ReadPair, Pair
<1>4. \A i \in DOMAIN ps : ps[i].peer \in PeerIds
  BY <1>3, PeerRead
<1>5. Latest(ps) \in PairMaps
  BY <1>1, <1>4, LatestType
<1> QED
  BY <1>1, <1>3, <1>4, <1>5

\* A pair is four words, and both its numbers are found in them.
LEMMA FourWords ==
  ASSUME NEW a \in Uint64, NEW b \in Uint64
  PROVE  /\ a \o b \in Seq(Int) /\ Len(a \o b) = 4
         /\ a = <<(a \o b)[1], (a \o b)[2]>> /\ b = <<(a \o b)[3], (a \o b)[4]>>
<1>1. /\ a \in Seq(Int) /\ Len(a) = 2 /\ a = <<a[1], a[2]>>
      /\ b \in Seq(Int) /\ Len(b) = 2 /\ b = <<b[1], b[2]>>
  <2>1. \A x, y \in Int : <<x, y>> \in Seq(Int) /\ Len(<<x, y>>) = 2
    OBVIOUS
  <2>2. a = <<a[1], a[2]>> /\ a[1] \in Int /\ a[2] \in Int
    BY DEF Uint64
  <2>3. b = <<b[1], b[2]>> /\ b[1] \in Int /\ b[2] \in Int
    BY DEF Uint64
  <2>4. a \in Seq(Int) /\ Len(a) = 2
    BY <2>1, <2>2
  <2>5. b \in Seq(Int) /\ Len(b) = 2
    BY <2>1, <2>3
  <2> QED
    BY <2>2, <2>3, <2>4, <2>5
<1>2. /\ a \o b \in Seq(Int) /\ Len(a \o b) = Len(a) + Len(b)
      /\ \A i \in 1 .. Len(a) : (a \o b)[i] = a[i]
      /\ \A i \in 1 .. Len(b) : (a \o b)[Len(a) + i] = b[i]
  <2>1. a \in Seq(Int) /\ b \in Seq(Int)
    BY <1>1
  <2> QED
    BY <2>1
<1>3. 1 \in 1 .. Len(a) /\ 2 \in 1 .. Len(a) /\ 1 \in 1 .. Len(b) /\ 2 \in 1 .. Len(b)
      /\ Len(a) + 1 = 3 /\ Len(a) + 2 = 4 /\ Len(a) + Len(b) = 4
  BY <1>1
<1>4. (a \o b)[1] = a[1] /\ (a \o b)[2] = a[2] /\ (a \o b)[3] = b[1] /\ (a \o b)[4] = b[2]
  BY <1>2, <1>3
<1> QED
  BY <1>1, <1>2, <1>3, <1>4

\* The i-th pair of a block is at the i-th pair of uint64.
LEMMA PairWordsRead ==
  ASSUME NEW ps \in Seq(Pair), NEW t \in Seq(Int)
  PROVE  /\ PairWords(ps) \in Seq(Int)
         /\ Len(PairWords(ps)) = 4 * Len(ps)
         /\ \A i \in 1 .. Len(ps) : /\ U64At(PairWords(ps) \o t, 2 * i - 1) = ps[i].key
                                    /\ U64At(PairWords(ps) \o t, 2 * i) = ps[i].stored
<1> DEFINE ss == [i \in DOMAIN ps |-> ps[i].key \o ps[i].stored]
           w == PairWords(ps)
<1>1. \A i \in 1 .. Len(ps) : ps[i].key \in Uint64 /\ ps[i].stored \in Uint64
  <2>1. \A i \in 1 .. Len(ps) : ps[i] \in Pair
    OBVIOUS
  <2> QED
    BY <2>1 DEF Pair
<1>0. DOMAIN ps = 1 .. Len(ps) /\ Len(ps) \in Nat
  OBVIOUS
<1>2. ss \in Seq(Seq(Int)) /\ Len(ss) = Len(ps)
  <2>1. \A i \in 1 .. Len(ps) : ps[i].key \o ps[i].stored \in Seq(Int)
    BY <1>1, FourWords
  <2> QED
    BY <1>0, <2>1
<1>3. \A i \in DOMAIN ss : Len(ss[i]) = 4
  <2>1. \A i \in 1 .. Len(ps) : Len(ps[i].key \o ps[i].stored) = 4
    BY <1>1, FourWords
  <2> QED
    BY <1>0, <2>1
<1>4. w = FlattenSeq(ss)
  BY DEF PairWords
<1>5. w \in Seq(Int)
  <2> HIDE DEF ss, w
  <2> QED
    BY <1>2, <1>4, FlattenType
<1>6. /\ Len(w) = Len(ss) * 4
      /\ \A i \in 1 .. Len(ss), j \in 1 .. 4 : w[(i - 1) * 4 + j] = ss[i][j]
  <2> HIDE DEF ss, w
  <2>0. PICK n \in Nat : n = 4
    OBVIOUS
  <2>3. \A i \in DOMAIN ss : Len(ss[i]) = n
    BY <1>3, <2>0
  <2>1. Placed(FlattenSeq(ss), ss, n)
    BY <1>2, <2>3, FlattenUniform
  <2> QED
    BY <1>4, <2>0, <2>1 DEF Placed, Place
<1>7. ASSUME NEW i \in 1 .. Len(ps)
      PROVE  /\ U64At(w \o t, 2 * i - 1) = ps[i].key
             /\ U64At(w \o t, 2 * i) = ps[i].stored
  <2>0. Len(ps) \in Nat /\ Len(w) = 4 * Len(ps)
    <3> HIDE DEF w, ss
    <3> QED
      BY <1>2, <1>6
  <2>1. \A j \in 1 .. 4 : (w \o t)[(i - 1) * 4 + j] = (ps[i].key \o ps[i].stored)[j]
    <3> SUFFICES ASSUME NEW j \in 1 .. 4
                 PROVE  (w \o t)[(i - 1) * 4 + j] = (ps[i].key \o ps[i].stored)[j]
      OBVIOUS
    <3>1. (i - 1) * 4 + j \in 1 .. Len(w)
      BY <2>0
    <3>2. \A k \in 1 .. Len(w) : (w \o t)[k] = w[k]
      <4> HIDE DEF w
      <4> QED
        BY <1>5, ConcatParts
    <3>3. ss[i] = ps[i].key \o ps[i].stored
      BY <1>0
    <3>4. w[(i - 1) * 4 + j] = ss[i][j]
      BY <1>2, <1>6
    <3> HIDE DEF w, ss
    <3> QED
      BY <3>1, <3>2, <3>3, <3>4
  <2>2. /\ 2 * (2 * i - 1) - 1 = (i - 1) * 4 + 1 /\ 2 * (2 * i - 1) = (i - 1) * 4 + 2
        /\ 2 * (2 * i) - 1 = (i - 1) * 4 + 3 /\ 2 * (2 * i) = (i - 1) * 4 + 4
    OBVIOUS
  <2> DEFINE four == ps[i].key \o ps[i].stored
             s == w \o t
             at == (i - 1) * 4
  <2> HIDE DEF w, ss
  <2> HIDE DEF s
  <2>6. \A j \in 1 .. 4 : s[at + j] = four[j]
    BY <2>1 DEF s
  <2> HIDE DEF four, at
  <2>5. s[at + 1] = four[1] /\ s[at + 2] = four[2] /\ s[at + 3] = four[3] /\ s[at + 4] = four[4]
    BY <2>6
  <2>3. U64At(s, 2 * i - 1) = <<four[1], four[2]>>
    BY <2>2, <2>5 DEF U64At, at
  <2>4. U64At(s, 2 * i) = <<four[3], four[4]>>
    BY <2>2, <2>5 DEF U64At, at
  <2> QED
    BY <1>1, <2>3, <2>4, FourWords DEF s, four
<1>8. Len(w) = 4 * Len(ps)
  <2> HIDE DEF w, ss
  <2> QED
    BY <1>0, <1>2, <1>6
<1> QED
  BY <1>5, <1>7, <1>8 DEF w

\* The pairs of a block are words.
LEMMA PairWordsType ==
  ASSUME NEW ps \in Seq(Pair)
  PROVE  PairWords(ps) \in Seq(Int)
<1>1. <<>> \in Seq(Int)
  OBVIOUS
<1> QED
  BY <1>1, PairWordsRead

\* A block's pairs are added, in their order, to those that were read before.
LEMMA PairsRead ==
  ASSUME NEW before \in Seq(ReadPair), NEW ps \in Seq(ReadPair), NEW t \in Seq(Int)
  PROVE  ReadPairs(PairWords(ps) \o t, Len(ps), Latest(before)) = Latest(before \o ps)
<1> DEFINE s == PairWords(ps) \o t
           n == Len(ps)
<1>1. /\ ps \in Seq(Pair) /\ before \in Seq(Pair) /\ n \in Nat
      /\ \A i \in DOMAIN ps : ps[i].peer = FromSerialized(ps[i].stored)
      /\ Latest(before) \in PairMaps
  BY ReadPairType
<1>2. PairWords(ps) \in Seq(Int) /\ Len(PairWords(ps)) = 4 * n
  BY <1>1, PairWordsRead
<1>3. \A i \in 1 .. n : U64At(s, 2 * i - 1) = ps[i].key /\ U64At(s, 2 * i) = ps[i].stored
  BY <1>1, PairWordsRead
<1>4. s \in Seq(Int)
  BY <1>2, ConcatParts
<1>5. 4 * n <= Len(s)
  <2>1. Len(s) = Len(PairWords(ps)) + Len(t)
    BY <1>2, ConcatParts
  <2> QED
    BY <1>2, <2>1
<1> HIDE DEF s
<1>10. PICK after : PairTurns(after, s, n, Latest(before))
  BY <1>1, <1>4, <1>5, PairsRun
<1>6. /\ after[0] = Latest(before)
      /\ \A i \in 1 .. n :
           after[i] = Put(after[i - 1], FromSerialized(U64At(s, 2 * i)), U64At(s, 2 * i - 1))
      /\ ReadPairs(s, n, Latest(before)) = after[n]
  BY <1>10 DEF PairTurns
<1> DEFINE upTo(i) == before \o SubSeq(ps, 1, i)
           S == {i \in 0 .. n : after[i] = Latest(upTo(i))}
<1>7. 0 \in S
  <2>1. SubSeq(ps, 1, 0) = <<>>
    OBVIOUS
  <2>2. upTo(0) = before
    BY <1>1, <2>1, ConcatEmptySeq
  <2> HIDE DEF upTo
  <2>3. after[0] = Latest(upTo(0))
    BY <1>6, <2>2
  <2> QED
    BY <1>1, <2>3
<1>8. ASSUME NEW i \in 1 .. n, i - 1 \in S
      PROVE  i \in S
  <2>1. ps[i] \in Pair /\ i \in DOMAIN ps
    BY <1>1
  <2>2. after[i] = Put(after[i - 1], ps[i].peer, ps[i].key)
    BY <1>1, <1>3, <1>6, <2>1
  <2>3. upTo(i - 1) \in Seq(Pair) /\ upTo(i) = Append(upTo(i - 1), ps[i])
    <3>1. SubSeq(ps, 1, i - 1) \in Seq(Pair) /\ SubSeq(ps, 1, i) = Append(SubSeq(ps, 1, i - 1), ps[i])
      BY <1>1
    <3>2. \A u \in Seq(Pair), x \in Pair : before \o Append(u, x) = Append(before \o u, x) /\ before \o u \in Seq(Pair)
      BY <1>1
    <3> QED
      BY <2>1, <3>1, <3>2
  <2>4. Latest(upTo(i)) = Put(Latest(upTo(i - 1)), ps[i].peer, ps[i].key)
    BY <2>1, <2>3, LatestPut
  <2>5. i \in 0 .. n
    BY <1>1
  <2> QED
    BY <1>8, <2>2, <2>4, <2>5
<1> HIDE DEF S
<1>9. \A i \in 0 .. n : i \in S
  BY <1>1, <1>7, <1>8, BoundedInduction
<1>11. after[n] = Latest(upTo(n)) /\ SubSeq(ps, 1, n) = ps
  BY <1>1, <1>9 DEF S
<1> QED
  BY <1>6, <1>11 DEF s

(***************************************************************************)
(* What one more block means                                               *)
(***************************************************************************)

\* A block of a known type that was read.
Whole == {b \in Block : b.type \in KnownKeys /\ ~b.damaged /\ IsWhole(b)}

\* What Telegram Desktop stores for a peer is exactly what is read as the peer.
LEMMA StoredIsRead ==
  ASSUME NEW stored \in Uint64, NEW peer \in Uint64
  PROVE  Stores(stored, peer) <=> peer = FromSerialized(stored)
<1>1. /\ stored[1] \in Int /\ stored[2] \in Int /\ stored = <<stored[1], stored[2]>>
      /\ peer[1] \in Int /\ peer[2] \in Int /\ peer = <<peer[1], peer[2]>>
  BY DEF Uint64
<1>2. CASE ~IsLegacy(stored)
  <2>1. FromSerialized(stored) = <<stored[1] - 8388608, stored[2]>>
    BY <1>2 DEF FromSerialized, ReservedFlag
  <2>2. Stores(stored, peer) <=> IsLegacy(peer) /\ stored = <<peer[1] + 8388608, peer[2]>>
    BY <1>2 DEF Stores, Serialize, ReservedFlag
  <2>3. ASSUME peer = FromSerialized(stored) PROVE Stores(stored, peer)
    <3>1. peer[1] = stored[1] - 8388608 /\ peer[2] = stored[2]
      BY <1>1, <2>1, <2>3
    <3>2. IsLegacy(peer)
      BY <2>3, PeerRead DEF PeerIds
    <3>3. peer[1] + 8388608 = stored[1]
      BY <1>1, <3>1
    <3> QED
      BY <1>1, <2>2, <3>1, <3>2, <3>3
  <2>4. ASSUME Stores(stored, peer) PROVE peer = FromSerialized(stored)
    <3>1. stored[1] = peer[1] + 8388608 /\ stored[2] = peer[2]
      BY <1>1, <2>2, <2>4
    <3>2. peer[1] = stored[1] - 8388608
      BY <1>1, <3>1
    <3> QED
      BY <1>1, <2>1, <3>1, <3>2
  <2> QED
    BY <2>3, <2>4
<1>3. CASE IsLegacy(stored)
  <2>1. ~(IsLegacy(peer) /\ stored = Serialize(peer))
    <3> SUFFICES ASSUME IsLegacy(peer), stored = Serialize(peer) PROVE FALSE
      OBVIOUS
    <3>1. (peer[1] \div 8388608) % 2 = 0 /\ stored[1] = peer[1] + 8388608
      BY <1>1 DEF IsLegacy, Serialize, ReservedFlag
    <3>2. (stored[1] \div 8388608) % 2 = 0
      BY <1>3 DEF IsLegacy, ReservedFlag
    <3> QED
      BY <1>1, <3>1, <3>2
  <2> DEFINE k == stored[1] % 16
  <2>2. Stores(stored, peer) <=>
          IF k \in DOMAIN LegacyShift THEN peer = <<LegacyShift[k] * 65536, stored[2]>>
          ELSE peer = Zero64
    BY <1>3, <2>1 DEF Stores
  <2>3. FromSerialized(stored) =
          IF k \in DOMAIN LegacyShift THEN <<LegacyShift[k] * 65536, stored[2]>> ELSE Zero64
    BY <1>3 DEF FromSerialized
  <2> QED
    BY <2>2, <2>3
<1> QED
  BY <1>2, <1>3

\* The pairs of the blocks of one type, in the order they come in.
PairsOf(bs, t) ==
  FlattenSeq([i \in DOMAIN bs |-> IF bs[i].type = t THEN bs[i].pairs ELSE <<>>])

\* The parts of a whole block have their types.
LEMMA WholeParts ==
  ASSUME NEW b \in Whole
  PROVE  /\ b \in Block /\ b.type \in Int /\ b.type \in KnownKeys /\ b.damaged = FALSE
         /\ b.keys \in Seq(Uint64) /\ b.words \in Seq(Int) /\ b.pairs \in Seq(Pair)
         /\ b.tokens \in Seq(Seq(Int))
         /\ b.type \in PairTypes => b.pairs \in Seq(ReadPair)
<1>1. /\ b \in Block /\ b.type \in Int /\ b.type \in KnownKeys /\ b.damaged = FALSE
      /\ b.keys \in Seq(Uint64) /\ b.words \in Seq(Int) /\ b.pairs \in Seq(Pair)
      /\ b.tokens \in Seq(Seq(Int)) /\ IsWhole(b)
  BY DEF Whole, Block, Pair
<1>2. ASSUME b.type \in PairTypes
      PROVE  b.pairs \in Seq(ReadPair)
  <2>1. \A i \in DOMAIN b.pairs : Stores(b.pairs[i].stored, b.pairs[i].peer)
    BY <1>1, <1>2 DEF IsWhole
  <2>2. \A i \in DOMAIN b.pairs : b.pairs[i] \in Pair
    BY <1>1
  <2>3. \A i \in DOMAIN b.pairs : b.pairs[i] \in ReadPair
    BY <2>1, <2>2, StoredIsRead DEF ReadPair, Pair
  <2> DEFINE ps == b.pairs
  <2>4. ps \in Seq(Pair) /\ \A i \in DOMAIN ps : ps[i] \in ReadPair
    BY <1>1, <2>3
  <2> HIDE DEF ps
  <2>5. ps \in Seq(ReadPair)
    BY <2>4
  <2> QED
    BY <2>5 DEF ps
<1> QED
  BY <1>1, <1>2

\* One more block.
LEMMA OneBlock ==
  ASSUME NEW bs \in Seq(Block), NEW b \in Block
  PROVE  /\ Append(bs, b) \in Seq(Block) /\ Len(bs) \in Nat
         /\ DOMAIN bs = 1 .. Len(bs)
         /\ DOMAIN Append(bs, b) = 1 .. Len(bs) + 1
         /\ \A i \in 1 .. Len(bs) : Append(bs, b)[i] = bs[i]
         /\ Append(bs, b)[Len(bs) + 1] = b
OBVIOUS

\* What one more block adds to the pairs of its type.
PairsGrow(X, bs, b, t) ==
  /\ PairsOf(bs, t) \in Seq(X)
  /\ PairsOf(Append(bs, b), t) =
       IF b.type = t THEN PairsOf(bs, t) \o b.pairs ELSE PairsOf(bs, t)

\* The pairs of the blocks before come first.
LEMMA PairsOfAppend ==
  ASSUME NEW X, NEW bs, NEW b, NEW t, bs \in Seq(Block), b \in Block,
         \A i \in DOMAIN bs : bs[i].type = t => bs[i].pairs \in Seq(X),
         b.type = t => b.pairs \in Seq(X)
  PROVE  PairsGrow(X, bs, b, t)
<1> DEFINE n == Len(bs)
           qs == Append(bs, b)
           ss == [i \in DOMAIN bs |-> IF bs[i].type = t THEN bs[i].pairs ELSE <<>>]
           uu == [i \in DOMAIN qs |-> IF qs[i].type = t THEN qs[i].pairs ELSE <<>>]
           s == IF b.type = t THEN b.pairs ELSE <<>>
<1>1. /\ n \in Nat /\ DOMAIN bs = 1 .. n /\ DOMAIN qs = 1 .. n + 1
      /\ \A i \in 1 .. n : qs[i] = bs[i]
      /\ qs[n + 1] = b
  BY OneBlock
<1> HIDE DEF n
<1>2. ss \in Seq(Seq(X)) /\ Len(ss) = n
  BY <1>1
<1>3. s \in Seq(X)
  OBVIOUS
<1> HIDE DEF qs
<1>4. uu = Append(ss, s)
  <2>1. Append(ss, s) = [i \in 1 .. n + 1 |-> IF i = n + 1 THEN s ELSE ss[i]]
    BY <1>1, <1>2, <1>3
  <2>2. \A i \in 1 .. n + 1 : i = n + 1 \/ i \in 1 .. n
    BY <1>1
  <2>3. \A i \in 1 .. n + 1 : uu[i] = IF i = n + 1 THEN s ELSE ss[i]
    BY <1>1, <2>2
  <2>4. uu = [i \in 1 .. n + 1 |-> uu[i]]
    BY <1>1
  <2> HIDE DEF uu, ss, s
  <2> QED
    BY <2>1, <2>3, <2>4
<1> HIDE DEF ss, uu, s
<1>5. FlattenSeq(ss) \in Seq(X) /\ FlattenSeq(Append(ss, s)) = FlattenSeq(ss) \o s
  BY <1>2, <1>3, FlattenAppend
<1>6. PairsOf(bs, t) = FlattenSeq(ss) /\ PairsOf(qs, t) = FlattenSeq(uu)
  BY DEF PairsOf, ss, uu
<1>7. b.type = t => PairsOf(qs, t) = PairsOf(bs, t) \o b.pairs
  BY <1>4, <1>5, <1>6 DEF s
<1>8. b.type # t => PairsOf(qs, t) = PairsOf(bs, t)
  <2> SUFFICES ASSUME b.type # t PROVE PairsOf(qs, t) = PairsOf(bs, t)
    OBVIOUS
  <2>1. s = <<>> /\ FlattenSeq(ss) \o <<>> = FlattenSeq(ss)
    BY <1>5, ConcatEmptySeq DEF s
  <2> QED
    BY <1>4, <1>5, <1>6, <2>1
<1>9. FlattenSeq(ss) \in Seq(X)
  BY <1>5
<1> QED
  BY <1>6, <1>7, <1>8, <1>9 DEF PairsGrow, qs

\* What pairs the blocks hold, one block more.
LEMMA PairsValueAppend ==
  ASSUME NEW bs \in Seq(Whole), NEW b \in Whole, NEW t \in PairTypes
  PROVE  /\ PairsOf(bs, t) \in Seq(ReadPair)
         /\ PairsValue(bs, t) = Latest(PairsOf(bs, t))
         /\ PairsValue(Append(bs, b), t) =
              IF b.type = t THEN Latest(PairsOf(bs, t) \o b.pairs) ELSE PairsValue(bs, t)
<1>1. bs \in Seq(Block) /\ b \in Block
  BY DEF Whole
<1>2. \A i \in DOMAIN bs : bs[i].type = t => bs[i].pairs \in Seq(ReadPair)
  <2>1. \A i \in DOMAIN bs : bs[i] \in Whole
    OBVIOUS
  <2> QED
    BY <2>1, WholeParts
<1>3. b.type = t => b.pairs \in Seq(ReadPair)
  BY WholeParts
<1> DEFINE X == ReadPair
<1>7. /\ \A i \in DOMAIN bs : bs[i].type = t => bs[i].pairs \in Seq(X)
      /\ b.type = t => b.pairs \in Seq(X)
  BY <1>2, <1>3
<1> HIDE DEF X
<1>8. PairsGrow(X, bs, b, t)
  BY <1>1, <1>7, PairsOfAppend
<1>4. /\ PairsOf(bs, t) \in Seq(ReadPair)
      /\ PairsOf(Append(bs, b), t) =
              IF b.type = t THEN PairsOf(bs, t) \o b.pairs ELSE PairsOf(bs, t)
  BY <1>8 DEF X, PairsGrow
<1>6. \A cs : PairsValue(cs, t) = Latest(PairsOf(cs, t))
  BY DEF PairsValue, PairsOf, Latest
<1> QED
  BY <1>4, <1>6

\* The greatest index of a set, when it is the last one.
LEMMA MaxIsLast ==
  ASSUME NEW n \in Nat, NEW T, T \subseteq 1 .. n + 1, n + 1 \in T
  PROVE  Max(T) = n + 1
<1>1. n + 1 \in Nat /\ T # {}
  OBVIOUS
<1> DEFINE m == n + 1
<1>3. m \in Nat /\ T \subseteq 1 .. m
  BY <1>1
<1> HIDE DEF m
<1>2. Max(T) \in T /\ \A y \in T : Max(T) >= y
  BY <1>1, <1>3, MaxOfIndices
<1> QED
  <2>1. m \in T /\ Max(T) \in 1 .. m
    BY <1>2, <1>3 DEF m
  <2>2. Max(T) >= m /\ Max(T) <= m /\ Max(T) \in Int
    BY <1>2, <1>3, <2>1
  <2>3. Max(T) = m
    BY <1>3, <2>2
  <2> QED
    BY <2>3 DEF m

\* Whether a block has a value of the field f, and which.
CarriesKey(b, f) ==
  b.type \in DOMAIN KeyFields /\ \E j \in DOMAIN b.keys : KeyFields[b.type][j] = f
KeyIn(b, f) == b.keys[CHOOSE j \in DOMAIN b.keys : KeyFields[b.type][j] = f]

\* One more block replaces the file keys it carries.
LEMMA KeyValueAppend ==
  ASSUME NEW bs \in Seq(Block), NEW b \in Block, NEW f
  PROVE  KeyValue(Append(bs, b), f) =
           IF CarriesKey(b, f) THEN KeyIn(b, f) ELSE KeyValue(bs, f)
<1> DEFINE Carries(c) == CarriesKey(c, f)
           Key(c) == KeyIn(c, f)
           At(cs) == {i \in DOMAIN cs : Carries(cs[i])}
           qs == Append(bs, b)
           n == Len(bs)
<1>1. \A cs : KeyValue(cs, f) = IF \E i \in DOMAIN cs : Carries(cs[i]) THEN Key(cs[Max(At(cs))]) ELSE Zero64
  BY DEF KeyValue, CarriesKey, KeyIn
<1>2. /\ n \in Nat /\ DOMAIN bs = 1 .. n /\ DOMAIN qs = 1 .. n + 1
      /\ \A i \in 1 .. n : qs[i] = bs[i]
      /\ qs[n + 1] = b
  BY OneBlock
<1> HIDE DEF Carries, Key, qs, n
<1>3. \A i \in 1 .. n + 1 : i = n + 1 \/ i \in 1 .. n
  BY <1>2
<1>6. \A i \in 1 .. n : i \in 1 .. n + 1
  BY <1>2
<1>7. n + 1 \in 1 .. n + 1
  BY <1>2
<1>4. CASE Carries(b)
  <2>1. At(qs) \subseteq 1 .. n + 1 /\ n + 1 \in At(qs)
    BY <1>2, <1>4, <1>7
  <2>2. Max(At(qs)) = n + 1
    BY <1>2, <2>1, MaxIsLast
  <2>3. KeyValue(qs, f) = Key(b)
    <3>1. \E i \in DOMAIN qs : Carries(qs[i])
      BY <2>1
    <3> QED
      BY <1>1, <1>2, <2>2, <3>1
  <2> QED
    BY <1>4, <2>3 DEF Carries, Key, qs
<1>5. CASE ~Carries(b)
  <2>1. At(qs) = At(bs)
    BY <1>2, <1>3, <1>5, <1>6
  <2>2. (\E i \in DOMAIN qs : Carries(qs[i])) <=> (\E i \in DOMAIN bs : Carries(bs[i]))
    BY <1>2, <1>3, <1>5, <1>6
  <2>3. CASE \E i \in DOMAIN bs : Carries(bs[i])
    <3>1. Max(At(bs)) \in 1 .. n
      <4>1. At(bs) \subseteq 1 .. n /\ At(bs) # {}
        BY <1>2, <2>3
      <4> HIDE DEF At
      <4> QED
        BY <1>2, <4>1, MaxOfIndices
    <3>2. qs[Max(At(qs))] = bs[Max(At(bs))]
      BY <1>2, <2>1, <3>1
    <3> QED
      BY <1>1, <1>5, <2>2, <2>3, <3>2 DEF Carries, qs
  <2>4. CASE ~\E i \in DOMAIN bs : Carries(bs[i])
    BY <1>1, <1>5, <2>2, <2>4 DEF Carries, qs
  <2> QED
    BY <2>3, <2>4
<1> QED
  BY <1>4, <1>5

\* One more token block replaces both token arrays.
LEMMA TokenValueAppend ==
  ASSUME NEW bs \in Seq(Block), NEW b \in Block, NEW which
  PROVE  TokenValue(Append(bs, b), which) =
           IF b.type = lskWebviewTokens THEN b.tokens[which] ELSE TokenValue(bs, which)
<1> DEFINE At(cs) == {i \in DOMAIN cs : cs[i].type = lskWebviewTokens}
           qs == Append(bs, b)
           n == Len(bs)
<1>1. \A cs : TokenValue(cs, which) = IF At(cs) = {} THEN <<>> ELSE cs[Max(At(cs))].tokens[which]
  BY DEF TokenValue
<1>2. /\ n \in Nat /\ DOMAIN bs = 1 .. n /\ DOMAIN qs = 1 .. n + 1
      /\ \A i \in 1 .. n : qs[i] = bs[i]
      /\ qs[n + 1] = b
  BY OneBlock
<1> HIDE DEF qs, n
<1>3. \A i \in 1 .. n + 1 : i = n + 1 \/ i \in 1 .. n
  BY <1>2
<1>6. \A i \in 1 .. n : i \in 1 .. n + 1
  BY <1>2
<1>7. n + 1 \in 1 .. n + 1
  BY <1>2
<1>4. CASE b.type = lskWebviewTokens
  <2>1. At(qs) \subseteq 1 .. n + 1 /\ n + 1 \in At(qs)
    BY <1>2, <1>4, <1>7
  <2>2. Max(At(qs)) = n + 1
    BY <1>2, <2>1, MaxIsLast
  <2>3. At(qs) # {} /\ qs[Max(At(qs))] = b
    BY <1>2, <2>1, <2>2
  <2> HIDE DEF At
  <2>4. TokenValue(qs, which) = b.tokens[which]
    BY <1>1, <2>3
  <2> QED
    BY <1>4, <2>4 DEF qs
<1>5. CASE b.type # lskWebviewTokens
  <2>1. At(qs) = At(bs)
    BY <1>2, <1>3, <1>5, <1>6
  <2>3. CASE At(bs) # {}
    <3>1. Max(At(bs)) \in 1 .. n
      <4>1. At(bs) \subseteq 1 .. n /\ At(bs) # {}
        BY <1>2, <2>3
      <4> HIDE DEF At
      <4> QED
        BY <1>2, <4>1, MaxOfIndices
    <3>2. qs[Max(At(qs))] = bs[Max(At(bs))]
      BY <1>2, <2>1, <3>1
    <3> QED
      BY <1>1, <1>5, <2>1, <2>3, <3>2 DEF qs
  <2>4. CASE At(bs) = {}
    BY <1>1, <1>5, <2>1, <2>4 DEF qs
  <2> QED
    BY <2>3, <2>4
<1> QED
  BY <1>4, <1>5

(***************************************************************************)
(* A whole block is read for what it means                                 *)
(***************************************************************************)

\* The lskType numbers, and which of them carry file keys alone.
LEMMA Types ==
  /\ lskDraft = 1 /\ lskDraftPosition = 2 /\ lskSelfSerialized = 21 /\ lskWebviewTokens = 25
  /\ lskBotStorages = 29 /\ PairTypes = {1, 2, 29} /\ LegacyArrays = {3, 5, 6}
  /\ DOMAIN KeyFields = {4} \cup 7 .. 20 \cup 22 .. 24 \cup 26 .. 28 \cup {30}
  /\ \A t \in {1, 2, 3, 5, 6, 21, 25, 29} : t \notin DOMAIN KeyFields
BY DEF lskDraft, lskDraftPosition, lskSelfSerialized, lskWebviewTokens, lskBotStorages,
       PairTypes, LegacyArrays, KeyFields

\* A block of pairs is no token block and carries no file keys alone.
LEMMA PairTypesApart ==
  \A t \in PairTypes : t # lskWebviewTokens /\ t \notin DOMAIN KeyFields
BY DEF lskDraft, lskDraftPosition, lskWebviewTokens, lskBotStorages, PairTypes, KeyFields

\* A block of file keys is of no other kind.
LEMMA KeyTypesApart ==
  \A t \in DOMAIN KeyFields :
    /\ t # lskDraft /\ t # lskDraftPosition /\ t # lskBotStorages
    /\ t # lskSelfSerialized /\ t # lskWebviewTokens /\ t \notin LegacyArrays
    /\ t \notin PairTypes
BY DEF lskDraft, lskDraftPosition, lskSelfSerialized, lskWebviewTokens, lskBotStorages,
       PairTypes, LegacyArrays, KeyFields

\* The fields of a block are a list.
IsList(s) == Len(s) \in Nat /\ DOMAIN s = 1 .. Len(s)

\* The fields of a block are a list.
LEMMA KeyFieldsLists == \A t \in DOMAIN KeyFields : IsList(KeyFields[t])
<1>1. /\ IsList(KeyFields[4])
      /\ IsList(KeyFields[7])
      /\ IsList(KeyFields[8])
      /\ IsList(KeyFields[9])
      /\ IsList(KeyFields[10])
  BY DEF KeyFields, IsList
<1>2. /\ IsList(KeyFields[11])
      /\ IsList(KeyFields[12])
      /\ IsList(KeyFields[13])
      /\ IsList(KeyFields[14])
      /\ IsList(KeyFields[15])
  BY DEF KeyFields, IsList
<1>3. /\ IsList(KeyFields[16])
  BY DEF KeyFields, IsList
<1>4. /\ IsList(KeyFields[17])
      /\ IsList(KeyFields[18])
      /\ IsList(KeyFields[19])
  BY DEF KeyFields, IsList
<1>5. /\ IsList(KeyFields[20])
  BY DEF KeyFields, IsList
<1>6. /\ IsList(KeyFields[22])
  BY DEF KeyFields, IsList
<1>7. /\ IsList(KeyFields[23])
  BY DEF KeyFields, IsList
<1>8. /\ IsList(KeyFields[24])
      /\ IsList(KeyFields[26])
      /\ IsList(KeyFields[27])
  BY DEF KeyFields, IsList
<1>9. /\ IsList(KeyFields[28])
      /\ IsList(KeyFields[30])
  BY DEF KeyFields, IsList
<1>10. \A t \in DOMAIN KeyFields :
        t \in {4, 7, 8, 9, 10, 11, 12, 13, 14, 15, 16, 17, 18, 19, 20, 22, 23, 24, 26, 27, 28, 30}
  BY DEF KeyFields, IsList
<1> QED
  BY <1>1, <1>2, <1>3, <1>4, <1>5, <1>6, <1>7, <1>8, <1>9, <1>10

\* The map m with the pairs of a block added to those of a field.
WithPairs(m, field, ps, t) ==
  [m EXCEPT ![field] = ReadPairs(PairWords(ps) \o t, Len(ps), m[field])]

\* The block of a map after its key type, with the pairs it announces.
LEMMA PairBlockReads ==
  ASSUME NEW ps \in Seq(Pair), NEW t \in Seq(Int), NEW field, NEW m
  PROVE  PairBlock((<<Len(ps)>> \o PairWords(ps)) \o t, field, m) =
           Read(t, WithPairs(m, field, ps, t))
<1> DEFINE n == Len(ps)
           w == PairWords(ps)
<1>1. n \in Nat /\ w \in Seq(Int) /\ Len(w) = 4 * n
  BY PairWordsRead
<1> HIDE DEF n, w
<1>2. <<n>> \in Seq(Int)
  BY <1>1
<1>3. (<<n>> \o w) \o t = <<n>> \o (w \o t)
  BY <1>1, <1>2, ConcatAssociative
<1>4. w \o t \in Seq(Int)
  BY <1>1, ConcatParts
<1>5. Rest(w \o t, Len(w)) = t
  BY <1>1, ConcatParts
<1>6. Len(w \o t) = Len(w) + Len(t)
  BY <1>1, ConcatParts
<1> DEFINE body == w \o t
           s == <<n>> \o body
<1> HIDE DEF body
<1>7. s # <<>> /\ Head(s) = n /\ Tail(s) = body
  BY <1>1, <1>4, OneWord DEF body
<1> HIDE DEF s
<1>8. FitsIn(n, 4, body)
  BY <1>1, <1>6 DEF FitsIn, body
<1>9. Rest(body, 4 * n) = t
  BY <1>1, <1>5 DEF body
<1>10. PairBlock(s, field, m) = Read(t, [m EXCEPT ![field] = ReadPairs(body, n, m[field])])
  BY <1>7, <1>8, <1>9 DEF PairBlock
<1> QED
  BY <1>3, <1>10 DEF WithPairs, s, body, n, w

\* The map a list of blocks means, one block more that carries no keys.
LEMMA MeaningParts ==
  ASSUME NEW bs \in Seq(Whole), NEW b \in Whole
  PROVE  /\ b.type \notin DOMAIN KeyFields =>
              Meaning(Append(bs, b)).keys = Meaning(bs).keys
         /\ b.type # lskWebviewTokens =>
              /\ Meaning(Append(bs, b)).tokenBots = Meaning(bs).tokenBots
              /\ Meaning(Append(bs, b)).tokenOther = Meaning(bs).tokenOther
         /\ b.type # lskDraft => Meaning(Append(bs, b)).drafts = Meaning(bs).drafts
         /\ b.type # lskDraftPosition => Meaning(Append(bs, b)).cursors = Meaning(bs).cursors
         /\ b.type # lskBotStorages => Meaning(Append(bs, b)).botStorages = Meaning(bs).botStorages
<1>1. bs \in Seq(Block) /\ b \in Block
  BY DEF Whole
<1>2. ASSUME b.type \notin DOMAIN KeyFields
      PROVE  Meaning(Append(bs, b)).keys = Meaning(bs).keys
  <2>1. \A f \in KeyNames : KeyValue(Append(bs, b), f) = KeyValue(bs, f)
    BY <1>1, <1>2, KeyValueAppend DEF CarriesKey
  <2> QED
    BY <2>1 DEF Meaning
<1>3. ASSUME b.type # lskWebviewTokens
      PROVE  /\ Meaning(Append(bs, b)).tokenBots = Meaning(bs).tokenBots
             /\ Meaning(Append(bs, b)).tokenOther = Meaning(bs).tokenOther
  <2>1. \A which \in {1, 2} : TokenValue(Append(bs, b), which) = TokenValue(bs, which)
    BY <1>1, <1>3, TokenValueAppend
  <2> QED
    BY <2>1 DEF Meaning
<1>4. \A t \in PairTypes : b.type # t => PairsValue(Append(bs, b), t) = PairsValue(bs, t)
  BY PairsValueAppend
<1>5. lskDraft \in PairTypes /\ lskDraftPosition \in PairTypes /\ lskBotStorages \in PairTypes
  BY DEF PairTypes
<1>6. \A cs : /\ Meaning(cs).drafts = PairsValue(cs, lskDraft)
              /\ Meaning(cs).cursors = PairsValue(cs, lskDraftPosition)
              /\ Meaning(cs).botStorages = PairsValue(cs, lskBotStorages)
  BY DEF Meaning
<1> QED
  BY <1>2, <1>3, <1>4, <1>5, <1>6

\* A map from its parts.
LEMMA MeaningRecord ==
  ASSUME NEW cs
  PROVE  Meaning(cs) = [keys |-> Meaning(cs).keys, drafts |-> Meaning(cs).drafts,
                        cursors |-> Meaning(cs).cursors,
                        botStorages |-> Meaning(cs).botStorages,
                        tokenBots |-> Meaning(cs).tokenBots,
                        tokenOther |-> Meaning(cs).tokenOther]
BY DEF Meaning

\* A block of pairs is read for what it means.
LEMMA ReadPairsBlock ==
  ASSUME NEW bs \in Seq(Whole), NEW b \in Whole, NEW t \in Seq(Int), b.type \in PairTypes
  PROVE  ReadBlock(b.type, BlockBody(b) \o t, Meaning(bs)) = Read(t, Meaning(Append(bs, b)))
<1> DEFINE ps == b.pairs
           old == PairsOf(bs, b.type)
           m == Meaning(bs)
           mm == Meaning(Append(bs, b))
<1>1. ps \in Seq(Pair) /\ ps \in Seq(ReadPair) /\ b.damaged = FALSE
  BY WholeParts
<1>2. old \in Seq(ReadPair)
  BY PairsValueAppend
<1>3. PairsValue(bs, b.type) = Latest(old)
  BY PairsValueAppend
<1>4. PairsValue(Append(bs, b), b.type) = Latest(old \o ps)
  BY PairsValueAppend
<1> HIDE DEF old, ps
<1>5. ReadPairs(PairWords(ps) \o t, Len(ps), Latest(old)) = Latest(old \o ps)
  BY <1>1, <1>2, PairsRead
<1>6. BlockBody(b) = <<Len(ps)>> \o PairWords(ps)
  <2>1. b.type # lskWebviewTokens /\ b.type \notin DOMAIN KeyFields
    BY PairTypesApart
  <2>2. BlockBody(b) = <<Len(b.pairs)>> \o PairWords(b.pairs)
    BY <1>1, <2>1 DEF BlockBody
  <2> QED
    BY <2>2 DEF ps
<1>11. /\ b.type \notin DOMAIN KeyFields => mm.keys = m.keys
       /\ b.type # lskWebviewTokens => mm.tokenBots = m.tokenBots /\ mm.tokenOther = m.tokenOther
       /\ b.type # lskDraft => mm.drafts = m.drafts
       /\ b.type # lskDraftPosition => mm.cursors = m.cursors
       /\ b.type # lskBotStorages => mm.botStorages = m.botStorages
  BY MeaningParts
<1> DEFINE s == BlockBody(b) \o t
<1>7. \A field : PairBlock(s, field, m) =
           Read(t, WithPairs(m, field, ps, t))
  <2> HIDE DEF m
  <2> TAKE field
  <2>1. PairBlock((<<Len(ps)>> \o PairWords(ps)) \o t, field, m) =
           Read(t, WithPairs(m, field, ps, t))
    BY <1>1, PairBlockReads
  <2> QED
    BY <1>6, <2>1
<1> HIDE DEF s
<1>8. CASE b.type = lskDraft
  <2>1. ReadBlock(b.type, s, m) = PairBlock(s, "drafts", m)
    BY <1>8, Types DEF ReadBlock
  <2>2. m.drafts = Latest(old) /\ mm.drafts = Latest(old \o ps)
    BY <1>3, <1>4, <1>8 DEF Meaning
  <2>3. /\ mm.keys = m.keys /\ mm.cursors = m.cursors /\ mm.botStorages = m.botStorages
        /\ mm.tokenBots = m.tokenBots /\ mm.tokenOther = m.tokenOther
    <3> HIDE DEF m, mm
    <3> QED
      BY <1>11, <1>8, Types
  <2>4. /\ m = [keys |-> m.keys, drafts |-> m.drafts, cursors |-> m.cursors,
                botStorages |-> m.botStorages, tokenBots |-> m.tokenBots, tokenOther |-> m.tokenOther]
        /\ mm = [keys |-> mm.keys, drafts |-> mm.drafts, cursors |-> mm.cursors,
                botStorages |-> mm.botStorages, tokenBots |-> mm.tokenBots, tokenOther |-> mm.tokenOther]
    BY MeaningRecord
  <2> HIDE DEF m, mm
  <2>5. [m EXCEPT !["drafts"] = Latest(old \o ps)] = mm
    BY <2>2, <2>3, <2>4
  <2>6. PairBlock(s, "drafts", m) = Read(t, mm)
    BY <1>5, <1>7, <2>2, <2>5 DEF WithPairs
  <2> QED
    BY <2>1, <2>6 DEF m, mm, s
<1>9. CASE b.type = lskDraftPosition
  <2>1. ReadBlock(b.type, s, m) = PairBlock(s, "cursors", m)
    BY <1>9, Types DEF ReadBlock
  <2>2. m.cursors = Latest(old) /\ mm.cursors = Latest(old \o ps)
    BY <1>3, <1>4, <1>9 DEF Meaning
  <2>3. /\ mm.keys = m.keys /\ mm.drafts = m.drafts /\ mm.botStorages = m.botStorages
        /\ mm.tokenBots = m.tokenBots /\ mm.tokenOther = m.tokenOther
    <3> HIDE DEF m, mm
    <3> QED
      BY <1>11, <1>9, Types
  <2>4. /\ m = [keys |-> m.keys, drafts |-> m.drafts, cursors |-> m.cursors,
                botStorages |-> m.botStorages, tokenBots |-> m.tokenBots, tokenOther |-> m.tokenOther]
        /\ mm = [keys |-> mm.keys, drafts |-> mm.drafts, cursors |-> mm.cursors,
                botStorages |-> mm.botStorages, tokenBots |-> mm.tokenBots, tokenOther |-> mm.tokenOther]
    BY MeaningRecord
  <2> HIDE DEF m, mm
  <2>5. [m EXCEPT !["cursors"] = Latest(old \o ps)] = mm
    BY <2>2, <2>3, <2>4
  <2>6. PairBlock(s, "cursors", m) = Read(t, mm)
    BY <1>5, <1>7, <2>2, <2>5 DEF WithPairs
  <2> QED
    BY <2>1, <2>6 DEF m, mm, s
<1>10. CASE b.type = lskBotStorages
  <2>1. ReadBlock(b.type, s, m) = PairBlock(s, "botStorages", m)
    BY <1>10, Types DEF ReadBlock
  <2>2. m.botStorages = Latest(old) /\ mm.botStorages = Latest(old \o ps)
    BY <1>3, <1>4, <1>10 DEF Meaning
  <2>3. /\ mm.keys = m.keys /\ mm.drafts = m.drafts /\ mm.cursors = m.cursors
        /\ mm.tokenBots = m.tokenBots /\ mm.tokenOther = m.tokenOther
    <3> HIDE DEF m, mm
    <3> QED
      BY <1>11, <1>10, Types
  <2>4. /\ m = [keys |-> m.keys, drafts |-> m.drafts, cursors |-> m.cursors,
                botStorages |-> m.botStorages, tokenBots |-> m.tokenBots, tokenOther |-> m.tokenOther]
        /\ mm = [keys |-> mm.keys, drafts |-> mm.drafts, cursors |-> mm.cursors,
                botStorages |-> mm.botStorages, tokenBots |-> mm.tokenBots, tokenOther |-> mm.tokenOther]
    BY MeaningRecord
  <2> HIDE DEF m, mm
  <2>5. [m EXCEPT !["botStorages"] = Latest(old \o ps)] = mm
    BY <2>2, <2>3, <2>4
  <2>6. PairBlock(s, "botStorages", m) = Read(t, mm)
    BY <1>5, <1>7, <2>2, <2>5 DEF WithPairs
  <2> QED
    BY <2>1, <2>6 DEF m, mm, s
<1> QED
  BY <1>8, <1>9, <1>10 DEF PairTypes

\* A block of file keys after its key type.
LEMMA ReadKeyBlock ==
  ASSUME NEW bs \in Seq(Whole), NEW b \in Whole, NEW t \in Seq(Int), b.type \in DOMAIN KeyFields
  PROVE  ReadBlock(b.type, BlockBody(b) \o t, Meaning(bs)) = Read(t, Meaning(Append(bs, b)))
<1> DEFINE names == KeyFields[b.type]
           vs == b.keys
           w == U64Words(vs)
           s == w \o t
           m == Meaning(bs)
           mm == Meaning(Append(bs, b))
<1>1. /\ bs \in Seq(Block) /\ b \in Block /\ vs \in Seq(Uint64) /\ b.damaged = FALSE
      /\ Len(vs) = Len(names)
  <2>1. IsWhole(b)
    BY DEF Whole
  <2>2. Len(vs) = Len(names)
    BY <2>1 DEF IsWhole
  <2>3. bs \in Seq(Block) /\ b \in Block
    BY DEF Whole
  <2>4. vs \in Seq(Uint64) /\ b.damaged = FALSE
    BY WholeParts
  <2> QED
    BY <2>2, <2>3, <2>4
<1>2. /\ b.type # lskDraft /\ b.type # lskDraftPosition /\ b.type # lskBotStorages
      /\ b.type # lskSelfSerialized /\ b.type # lskWebviewTokens /\ b.type \notin LegacyArrays
      /\ b.type \notin PairTypes
  BY KeyTypesApart
<1>3. BlockBody(b) = w
  BY <1>1, <1>2 DEF BlockBody
<1>4. DOMAIN names = 1 .. Len(names) /\ Len(names) \in Nat
  BY KeyFieldsLists DEF IsList
<1>5. ReadBlock(b.type, s, m) = KeyBlock(s, names, m)
  <2> HIDE DEF names, s, m
  <2> QED
    BY <1>2 DEF ReadBlock, names
<1> HIDE DEF names, vs
<1>6. w \in Seq(Int) /\ Len(w) = 2 * Len(vs)
  BY <1>1, U64Type
<1>7. \A i \in 1 .. Len(vs) : U64At(s, i) = vs[i]
  BY <1>1, U64Read
<1> HIDE DEF w
<1>8. Len(s) = Len(w) + Len(t)
  BY <1>6, ConcatParts
<1>9. Rest(s, Len(w)) = t
  BY <1>6, ConcatParts
<1> HIDE DEF s
<1>10. Has(s, 2 * Len(names)) /\ Rest(s, 2 * Len(names)) = t
  BY <1>1, <1>4, <1>6, <1>8, <1>9 DEF Has
<1> DEFINE New(old, f) == IF \E i \in DOMAIN names : names[i] = f
                          THEN U64At(s, CHOOSE i \in DOMAIN names : names[i] = f) ELSE old
<1>11. KeyBlock(s, names, m) =
         Read(t, [m EXCEPT !.keys = [f \in KeyNames |-> New(@[f], f)]])
  <2> HIDE DEF m
  <2> QED
    BY <1>10 DEF KeyBlock
<1>12. ASSUME NEW f \in KeyNames
       PROVE  mm.keys[f] = New(m.keys[f], f)
  <2>1. mm.keys[f] = KeyValue(Append(bs, b), f) /\ m.keys[f] = KeyValue(bs, f)
    BY DEF Meaning
  <2>2. KeyValue(Append(bs, b), f) =
           IF \E j \in DOMAIN vs : names[j] = f
           THEN vs[CHOOSE j \in DOMAIN vs : names[j] = f]
           ELSE KeyValue(bs, f)
    <3>1. CarriesKey(b, f) <=> \E j \in DOMAIN vs : names[j] = f
      BY DEF CarriesKey, names, vs
    <3>2. KeyIn(b, f) = vs[CHOOSE j \in DOMAIN vs : names[j] = f]
      BY DEF KeyIn, names, vs
    <3>3. KeyValue(Append(bs, b), f) = IF CarriesKey(b, f) THEN KeyIn(b, f) ELSE KeyValue(bs, f)
      BY <1>1, KeyValueAppend
    <3> QED
      BY <3>1, <3>2, <3>3
  <2>3. DOMAIN vs = DOMAIN names /\ DOMAIN vs = 1 .. Len(vs)
    BY <1>1, <1>4
  <2> DEFINE j == CHOOSE i \in DOMAIN names : names[i] = f
  <2>4. CASE \E i \in DOMAIN names : names[i] = f
    <3>1. j \in 1 .. Len(vs)
      BY <2>3, <2>4
    <3>2. U64At(s, j) = vs[j]
      BY <1>7, <3>1
    <3> HIDE DEF mm, m
    <3> QED
      BY <2>1, <2>2, <2>3, <2>4, <3>2
  <2>5. CASE ~\E i \in DOMAIN names : names[i] = f
    BY <2>1, <2>2, <2>3, <2>5
  <2> QED
    BY <2>4, <2>5
<1>13. /\ mm.tokenBots = m.tokenBots /\ mm.tokenOther = m.tokenOther
       /\ mm.drafts = m.drafts /\ mm.cursors = m.cursors /\ mm.botStorages = m.botStorages
  BY <1>2, MeaningParts
<1>14. mm.keys = [f \in KeyNames |-> New(m.keys[f], f)]
  <2>1. mm.keys = [f \in KeyNames |-> mm.keys[f]]
    BY DEF Meaning
  <2> HIDE DEF New, m, mm
  <2> QED
    BY <1>12, <2>1
<1>15. /\ m = [keys |-> m.keys, drafts |-> m.drafts, cursors |-> m.cursors,
               botStorages |-> m.botStorages, tokenBots |-> m.tokenBots, tokenOther |-> m.tokenOther]
       /\ mm = [keys |-> mm.keys, drafts |-> mm.drafts, cursors |-> mm.cursors,
               botStorages |-> mm.botStorages, tokenBots |-> mm.tokenBots, tokenOther |-> mm.tokenOther]
  BY MeaningRecord
<1>16. [m EXCEPT !.keys = [f \in KeyNames |-> New(@[f], f)]] = mm
  <2> HIDE DEF New, m, mm
  <2>1. [m EXCEPT !.keys = mm.keys] = mm
    BY <1>13, <1>15
  <2> QED
    BY <1>14, <2>1
<1> QED
  BY <1>3, <1>5, <1>11, <1>16 DEF s

\* Blocks of other types say nothing about the map.
LEMMA NothingMeant ==
  ASSUME NEW bs \in Seq(Whole), NEW b \in Whole,
         b.type = lskSelfSerialized \/ b.type \in LegacyArrays
  PROVE  Meaning(Append(bs, b)) = Meaning(bs)
<1>1. /\ b.type \notin DOMAIN KeyFields /\ b.type # lskWebviewTokens
      /\ b.type # lskDraft /\ b.type # lskDraftPosition /\ b.type # lskBotStorages
  BY KeyTypesApart DEF lskSelfSerialized, LegacyArrays, lskWebviewTokens, lskDraft,
     lskDraftPosition, lskBotStorages
<1> DEFINE m == Meaning(bs)
           mm == Meaning(Append(bs, b))
<1>2. /\ mm.keys = m.keys /\ mm.tokenBots = m.tokenBots /\ mm.tokenOther = m.tokenOther
      /\ mm.drafts = m.drafts /\ mm.cursors = m.cursors /\ mm.botStorages = m.botStorages
  BY <1>1, MeaningParts
<1>3. /\ m = [keys |-> m.keys, drafts |-> m.drafts, cursors |-> m.cursors,
              botStorages |-> m.botStorages, tokenBots |-> m.tokenBots, tokenOther |-> m.tokenOther]
      /\ mm = [keys |-> mm.keys, drafts |-> mm.drafts, cursors |-> mm.cursors,
              botStorages |-> mm.botStorages, tokenBots |-> mm.tokenBots, tokenOther |-> mm.tokenOther]
  BY MeaningRecord
<1> HIDE DEF m, mm
<1>4. mm = m
  BY <1>2, <1>3
<1> QED
  BY <1>4 DEF m, mm

\* A block of a kind that is read and thrown away is its words.
LEMMA OtherBody ==
  ASSUME NEW b, b.type = lskSelfSerialized \/ b.type \in LegacyArrays
  PROVE  BlockBody(b) = b.words
<1>1. b.type \notin DOMAIN KeyFields /\ b.type # lskWebviewTokens /\ b.type \notin PairTypes
  BY KeyTypesApart DEF lskSelfSerialized, LegacyArrays, lskWebviewTokens, PairTypes, lskDraft,
     lskDraftPosition, lskBotStorages
<1> QED
  BY <1>1 DEF BlockBody

\* A block of the account itself is read and thrown away.
LEMMA ReadSelfBlock ==
  ASSUME NEW bs \in Seq(Whole), NEW b \in Whole, NEW t \in Seq(Int), b.type = lskSelfSerialized
  PROVE  ReadBlock(b.type, BlockBody(b) \o t, Meaning(bs)) = Read(t, Meaning(Append(bs, b)))
<1> DEFINE w == Tail(b.words)
           s == b.words \o t
           m == Meaning(bs)
<1>1. b.words \in Seq(Int) /\ b.words # <<>> /\ b.words = WriteBytes(w)
  <2>1. IsWhole(b)
    BY DEF Whole
  <2> QED
    BY <2>1, WholeParts DEF IsWhole
<1>2. w \in Seq(Int)
  BY <1>1
<1> HIDE DEF w
<1>3. ReadBytes(s) = [ok |-> TRUE, value |-> w, rest |-> t]
  BY <1>1, <1>2, WrittenIsRead
<1> HIDE DEF s, m
<1>4. ReadBlock(b.type, s, m) = SelfBlock(s, m)
  <2>1. /\ b.type # lskDraft /\ b.type # lskDraftPosition /\ b.type # lskBotStorages
        /\ b.type # lskWebviewTokens /\ b.type \notin LegacyArrays /\ b.type \notin DOMAIN KeyFields
    BY KeyTypesApart DEF lskSelfSerialized, LegacyArrays, lskWebviewTokens, lskDraft,
       lskDraftPosition, lskBotStorages
  <2> QED
    BY <2>1 DEF ReadBlock
<1>5. SelfBlock(s, m) = Read(t, m)
  BY <1>3 DEF SelfBlock
<1> QED
  BY <1>4, <1>5, NothingMeant, OtherBody DEF s, m

\* An array of an old version is read and thrown away.
LEMMA ReadLegacyBlock ==
  ASSUME NEW bs \in Seq(Whole), NEW b \in Whole, NEW t \in Seq(Int), b.type \in LegacyArrays
  PROVE  ReadBlock(b.type, BlockBody(b) \o t, Meaning(bs)) = Read(t, Meaning(Append(bs, b)))
<1> DEFINE w == b.words
           s == w \o t
           m == Meaning(bs)
<1>1. w \in Seq(Int) /\ w # <<>> /\ Len(w) = 1 + 7 * Head(w)
  <2>1. IsWhole(b)
    BY DEF Whole
  <2> QED
    BY <2>1, WholeParts DEF IsWhole
<1> HIDE DEF w
<1>2. Head(w) \in Nat /\ Len(w) \in Nat /\ Len(w) >= 1 /\ w[1] = Head(w)
  <2>1. Len(w) \in Nat /\ Len(w) >= 1 /\ Head(w) = w[1] /\ w[1] \in Int
    BY <1>1
  <2> QED
    BY <1>1, <2>1
<1>3. s \in Seq(Int) /\ Len(s) = Len(w) + Len(t) /\ s[1] = Head(w)
  <2>1. Len(s) = Len(w) + Len(t)
    BY <1>1, ConcatParts
  <2>2. s \in Seq(Int)
    BY <1>1, ConcatParts
  <2>3. s[1] = w[1]
    BY <1>1, <1>2, ConcatParts
  <2> HIDE DEF s
  <2> QED
    BY <1>2, <2>1, <2>2, <2>3
<1>4. Rest(s, Len(w)) = t
  BY <1>1, ConcatParts
<1> HIDE DEF s, m
<1>5. s # <<>> /\ Head(s) = Head(w) /\ Len(Tail(s)) = 7 * Head(w) + Len(t)
  <2>1. Len(t) \in Nat
    OBVIOUS
  <2>2. s \in Seq(Int) /\ Len(s) >= 1
    BY <1>2, <1>3, <2>1
  <2>3. s # <<>> /\ Head(s) = s[1] /\ Len(Tail(s)) = Len(s) - 1
    BY <2>2
  <2> DEFINE n == Len(s)
             lw == Len(w)
             h == Head(w)
             lt == Len(t)
  <2>4. n = lw + lt /\ lw = 1 + 7 * h /\ h \in Nat /\ lt \in Nat
    BY <1>1, <1>2, <1>3, <2>1
  <2>5. n - 1 = 7 * h + lt
    <3> HIDE DEF n, lw, h, lt
    <3> QED
      BY <2>4
  <2> QED
    BY <1>3, <2>3, <2>5
<1>6. FitsIn(Head(s), 7, Tail(s))
  <2>1. Len(t) \in Nat
    OBVIOUS
  <2> QED
    BY <1>2, <1>5, <2>1 DEF FitsIn
<1>7. ReadBlock(b.type, s, m) = LegacyBlock(s, m)
  <2>1. /\ b.type # lskDraft /\ b.type # lskDraftPosition /\ b.type # lskBotStorages
        /\ b.type # lskWebviewTokens /\ b.type # lskSelfSerialized /\ b.type \notin DOMAIN KeyFields
    BY KeyTypesApart DEF lskSelfSerialized, LegacyArrays, lskWebviewTokens, lskDraft,
       lskDraftPosition, lskBotStorages
  <2> QED
    BY <2>1 DEF ReadBlock
<1>8. LegacyBlock(s, m) = Read(t, m)
  BY <1>1, <1>4, <1>5, <1>6 DEF LegacyBlock
<1> QED
  BY <1>7, <1>8, NothingMeant, OtherBody DEF s, m, w

\* A block of web view tokens is read for what it means.
LEMMA ReadTokenBlock ==
  ASSUME NEW bs \in Seq(Whole), NEW b \in Whole, NEW t \in Seq(Int), b.type = lskWebviewTokens
  PROVE  ReadBlock(b.type, BlockBody(b) \o t, Meaning(bs)) = Read(t, Meaning(Append(bs, b)))
<1> DEFINE bots == b.tokens[1]
           other == b.tokens[2]
           m == Meaning(bs)
           mm == Meaning(Append(bs, b))
           s == BlockBody(b) \o t
<1>1. bots \in Seq(Int) /\ other \in Seq(Int) /\ b.damaged = FALSE
  <2>1. IsWhole(b)
    BY DEF Whole
  <2>2. b.tokens \in Seq(Seq(Int)) /\ Len(b.tokens) = 2 /\ b.damaged = FALSE
    BY <2>1, WholeParts DEF IsWhole
  <2> QED
    BY <2>2
<1>2. /\ b.type # lskDraft /\ b.type # lskDraftPosition /\ b.type # lskBotStorages
      /\ b.type # lskSelfSerialized /\ b.type \notin LegacyArrays /\ b.type \notin DOMAIN KeyFields
      /\ b.type \notin PairTypes
  BY KeyTypesApart DEF lskSelfSerialized, LegacyArrays, lskWebviewTokens, lskDraft,
     lskDraftPosition, lskBotStorages, PairTypes
<1>3. BlockBody(b) = WriteBytes(bots) \o WriteBytes(other)
  BY <1>1, <1>2 DEF BlockBody
<1> HIDE DEF bots, other
<1>4. s = WriteBytes(bots) \o (WriteBytes(other) \o t)
  <2>1. WriteBytes(bots) \in Seq(Int) /\ WriteBytes(other) \in Seq(Int)
    BY <1>1, WrittenType
  <2> HIDE DEF s
  <2>2. (WriteBytes(bots) \o WriteBytes(other)) \o t = WriteBytes(bots) \o (WriteBytes(other) \o t)
    BY <2>1, WordsAssociative
  <2> QED
    BY <1>3, <2>2 DEF s
<1>5. WriteBytes(other) \o t \in Seq(Int)
  BY <1>1, WrittenType, ConcatParts
<1>6. ReadBytes(s) = [ok |-> TRUE, value |-> bots, rest |-> WriteBytes(other) \o t]
  BY <1>1, <1>4, <1>5, WrittenIsRead
<1>7. ReadBytes(WriteBytes(other) \o t) = [ok |-> TRUE, value |-> other, rest |-> t]
  BY <1>1, WrittenIsRead
<1> HIDE DEF s
<1>8. ReadBlock(b.type, s, m) = TokenBlock(s, m)
  <2> HIDE DEF m
  <2> QED
    BY <1>2 DEF ReadBlock
<1>9. TokenBlock(s, m) = Read(t, [m EXCEPT !.tokenBots = bots, !.tokenOther = other])
  <2>1. /\ ReadBytes(s).ok = TRUE /\ ReadBytes(s).value = bots
        /\ ReadBytes(ReadBytes(s).rest).ok = TRUE
        /\ ReadBytes(ReadBytes(s).rest).value = other
        /\ ReadBytes(ReadBytes(s).rest).rest = t
    BY <1>6, <1>7
  <2> HIDE DEF m
  <2> QED
    BY <2>1 DEF TokenBlock
<1>10. mm.tokenBots = bots /\ mm.tokenOther = other
  <2>1. bs \in Seq(Block) /\ b \in Block
    BY DEF Whole
  <2>2. TokenValue(Append(bs, b), 1) = bots /\ TokenValue(Append(bs, b), 2) = other
    BY <2>1, TokenValueAppend DEF bots, other
  <2> QED
    BY <2>2 DEF Meaning
<1>11. /\ mm.keys = m.keys /\ mm.drafts = m.drafts /\ mm.cursors = m.cursors
       /\ mm.botStorages = m.botStorages
  BY <1>2, MeaningParts
<1>12. /\ m = [keys |-> m.keys, drafts |-> m.drafts, cursors |-> m.cursors,
               botStorages |-> m.botStorages, tokenBots |-> m.tokenBots, tokenOther |-> m.tokenOther]
       /\ mm = [keys |-> mm.keys, drafts |-> mm.drafts, cursors |-> mm.cursors,
               botStorages |-> mm.botStorages, tokenBots |-> mm.tokenBots, tokenOther |-> mm.tokenOther]
  BY MeaningRecord
<1>13. [m EXCEPT !.tokenBots = bots, !.tokenOther = other] = mm
  <2> HIDE DEF m, mm
  <2> QED
    BY <1>10, <1>11, <1>12
<1> QED
  BY <1>8, <1>9, <1>13 DEF s

\* One turn of the loop: a whole block is read for what it means.
LEMMA ReadOne ==
  ASSUME NEW bs \in Seq(Whole), NEW b \in Whole, NEW t \in Seq(Int)
  PROVE  ReadBlock(b.type, BlockBody(b) \o t, Meaning(bs)) = Read(t, Meaning(Append(bs, b)))
<1>1. b.type \in KnownKeys
  BY WholeParts
<1>2. \/ b.type \in DOMAIN KeyFields \/ b.type \in LegacyArrays \/ b.type \in PairTypes
      \/ b.type = lskSelfSerialized \/ b.type = lskWebviewTokens
  BY <1>1 DEF KnownKeys, PairTypes
<1> QED
  BY <1>2, ReadPairsBlock, ReadKeyBlock, ReadSelfBlock, ReadLegacyBlock, ReadTokenBlock

(***************************************************************************)
(* The words of a list of blocks                                           *)
(***************************************************************************)

\* Whether a block can be read does not depend on what was read before.
LEMMA OkApart ==
  ASSUME NEW t \in KnownKeys, NEW s, NEW m, NEW mm
  PROVE  ReadBlock(t, s, m).ok = ReadBlock(t, s, mm).ok
<1>1. \A r, x : Read(r, x).ok = TRUE
  BY DEF Read
<1>2. Unreadable.ok = FALSE
  BY DEF Unreadable
<1>3. \A field : PairBlock(s, field, m).ok = PairBlock(s, field, mm).ok
  BY <1>1, <1>2 DEF PairBlock
<1>4. \A field : SelfBlock(s, m).ok = SelfBlock(s, mm).ok
  BY <1>1, <1>2 DEF SelfBlock
<1>5. TokenBlock(s, m).ok = TokenBlock(s, mm).ok
  BY <1>1, <1>2 DEF TokenBlock
<1>6. LegacyBlock(s, m).ok = LegacyBlock(s, mm).ok
  BY <1>1, <1>2 DEF LegacyBlock
<1>7. \A names : KeyBlock(s, names, m).ok = KeyBlock(s, names, mm).ok
  BY <1>1, <1>2 DEF KeyBlock
<1>8. \/ t \in DOMAIN KeyFields \/ t \in LegacyArrays \/ t \in PairTypes
      \/ t = lskSelfSerialized \/ t = lskWebviewTokens
  BY DEF KnownKeys, PairTypes
<1>9. CASE t \in DOMAIN KeyFields
  <2>1. \A x : ReadBlock(t, s, x) = KeyBlock(s, KeyFields[t], x)
    BY <1>9, KeyTypesApart DEF ReadBlock
  <2> QED
    BY <1>7, <2>1
<1>10. CASE t \in LegacyArrays
  <2>1. /\ t # lskDraft /\ t # lskDraftPosition /\ t # lskBotStorages
        /\ t # lskWebviewTokens /\ t # lskSelfSerialized /\ t \notin DOMAIN KeyFields
    BY <1>10, KeyTypesApart DEF lskSelfSerialized, LegacyArrays, lskWebviewTokens, lskDraft,
       lskDraftPosition, lskBotStorages
  <2>2. \A x : ReadBlock(t, s, x) = LegacyBlock(s, x)
    BY <1>10, <2>1 DEF ReadBlock
  <2> QED
    BY <1>6, <2>2
<1>11. CASE t = lskDraft
  <2>1. \A x : ReadBlock(t, s, x) = PairBlock(s, "drafts", x)
    BY <1>11, Types DEF ReadBlock
  <2> QED
    BY <1>3, <2>1
<1>12. CASE t = lskDraftPosition
  <2>1. \A x : ReadBlock(t, s, x) = PairBlock(s, "cursors", x)
    BY <1>12, Types DEF ReadBlock
  <2> QED
    BY <1>3, <2>1
<1>13. CASE t = lskBotStorages
  <2>1. \A x : ReadBlock(t, s, x) = PairBlock(s, "botStorages", x)
    BY <1>13, Types DEF ReadBlock
  <2> QED
    BY <1>3, <2>1
<1>14. CASE t = lskSelfSerialized
  <2>1. \A x : ReadBlock(t, s, x) = SelfBlock(s, x)
    BY <1>14, Types DEF ReadBlock
  <2> QED
    BY <1>4, <2>1
<1>15. CASE t = lskWebviewTokens
  <2>1. \A x : ReadBlock(t, s, x) = TokenBlock(s, x)
    BY <1>15, Types DEF ReadBlock
  <2> QED
    BY <1>5, <2>1
<1> QED
  BY <1>8, <1>9, <1>10, <1>11, <1>12, <1>13, <1>14, <1>15 DEF PairTypes

----------------------------------------------------------------------------
\* The words of the blocks that are not read yet, after the first k.
BlockList(bs) == [i \in DOMAIN bs |-> BlockWords(bs[i])]
LeftOf(bs, k) == From(BlockList(bs), k)

\* A damaged block is its words.
LEMMA DamagedBody ==
  ASSUME NEW b, b.damaged = TRUE
  PROVE  BlockBody(b) = b.words
BY DEF BlockBody

\* Every block is a sequence of words.
LEMMA BlockType ==
  ASSUME NEW b \in Block, b.type \in KnownKeys => b.damaged = TRUE \/ IsWhole(b)
  PROVE  /\ BlockBody(b) \in Seq(Int)
         /\ BlockWords(b) \in Seq(Int)
<1>1. /\ b.type \in Int /\ b.damaged \in BOOLEAN /\ b.keys \in Seq(Uint64) /\ b.words \in Seq(Int)
      /\ b.pairs \in Seq(Pair) /\ b.tokens \in Seq(Seq(Int))
  BY DEF Block, Pair
<1>2. BlockBody(b) \in Seq(Int)
  <2>1. CASE b.damaged = TRUE
    BY <1>1, <2>1, DamagedBody
  <2>2. CASE b.damaged = FALSE /\ b.type \in PairTypes
    <3>1. b.type # lskWebviewTokens /\ b.type \notin DOMAIN KeyFields
      BY <2>2, PairTypesApart
    <3>2. BlockBody(b) = <<Len(b.pairs)>> \o PairWords(b.pairs)
      BY <2>2, <3>1 DEF BlockBody
    <3>3. PairWords(b.pairs) \in Seq(Int)
      <4>1. <<>> \in Seq(Int)
        OBVIOUS
      <4> QED
        BY <1>1, <4>1, PairWordsRead
    <3>4. Len(b.pairs) \in Int
      BY <1>1
    <3> QED
      BY <3>2, <3>3, <3>4, OneWord
  <2>3. CASE b.damaged = FALSE /\ b.type = lskWebviewTokens
    <3>1. b.type \notin PairTypes /\ b.type \notin DOMAIN KeyFields /\ b.type \in KnownKeys
      BY <2>3, Types, KeyTypesApart DEF KnownKeys
    <3>2. BlockBody(b) = WriteBytes(b.tokens[1]) \o WriteBytes(b.tokens[2])
      BY <2>3, <3>1 DEF BlockBody
    <3>3. Len(b.tokens) = 2
      BY <2>3, <3>1 DEF IsWhole
    <3>4. b.tokens[1] \in Seq(Int) /\ b.tokens[2] \in Seq(Int)
      BY <1>1, <3>3
    <3>5. WriteBytes(b.tokens[1]) \in Seq(Int) /\ WriteBytes(b.tokens[2]) \in Seq(Int)
      BY <3>4, WrittenType
    <3> QED
      BY <3>2, <3>5, ConcatParts
  <2>4. CASE b.damaged = FALSE /\ b.type \in DOMAIN KeyFields
    <3>1. b.type \notin PairTypes /\ b.type # lskWebviewTokens
      BY <2>4, KeyTypesApart
    <3>2. BlockBody(b) = U64Words(b.keys)
      BY <2>4, <3>1 DEF BlockBody
    <3> QED
      BY <1>1, <3>2, U64Type
  <2>5. CASE /\ b.damaged = FALSE /\ b.type \notin DOMAIN KeyFields
             /\ b.type \notin PairTypes /\ b.type # lskWebviewTokens
    <3>1. BlockBody(b) = b.words
      BY <2>5 DEF BlockBody
    <3> QED
      BY <1>1, <3>1
  <2> QED
    BY <1>1, <2>1, <2>2, <2>3, <2>4, <2>5
<1> QED
  BY <1>1, <1>2, OneWord DEF BlockWords

\* The blocks of a map are words, one block after the other.
LEMMA BlockListType ==
  ASSUME NEW bs, IsMap(bs)
  PROVE  /\ bs \in Seq(Block) /\ Len(bs) \in Nat /\ DOMAIN bs = 1 .. Len(bs)
         /\ BlockList(bs) \in Seq(Seq(Int)) /\ Len(BlockList(bs)) = Len(bs)
         /\ \A i \in 1 .. Len(bs) : /\ BlockBody(bs[i]) \in Seq(Int)
                                    /\ BlockList(bs)[i] = <<bs[i].type>> \o BlockBody(bs[i])
                                    /\ bs[i].type \in Int
<1>1. bs \in Seq(Block) /\ Len(bs) \in Nat /\ DOMAIN bs = 1 .. Len(bs)
  BY DEF IsMap
<1>2. ASSUME NEW i \in 1 .. Len(bs)
      PROVE  /\ BlockBody(bs[i]) \in Seq(Int)
             /\ BlockWords(bs[i]) \in Seq(Int)
             /\ bs[i].type \in Int
  <2>1. bs[i] \in Block
    BY <1>1
  <2>2. bs[i].damaged \in BOOLEAN /\ bs[i].type \in Int
    BY <2>1 DEF Block
  <2>3. bs[i].type \in KnownKeys => bs[i].damaged = TRUE \/ IsWhole(bs[i])
    BY <1>1, <2>2 DEF IsMap
  <2> QED
    BY <2>1, <2>2, <2>3, BlockType
<1>3. BlockList(bs) \in Seq(Seq(Int)) /\ Len(BlockList(bs)) = Len(bs)
  BY <1>1, <1>2 DEF BlockList
<1>4. \A i \in 1 .. Len(bs) : BlockList(bs)[i] = <<bs[i].type>> \o BlockBody(bs[i])
  BY <1>1 DEF BlockList, BlockWords
<1> QED
  BY <1>1, <1>2, <1>3, <1>4

\* The words that are left start with the next block.
LEMMA NextBlock ==
  ASSUME NEW bs, IsMap(bs), NEW k \in 1 .. Len(bs)
  PROVE  /\ LeftOf(bs, k - 1) # <<>>
         /\ LeftOf(bs, k - 1) \in Seq(Int) /\ LeftOf(bs, k) \in Seq(Int)
         /\ Head(LeftOf(bs, k - 1)) = bs[k].type
         /\ Tail(LeftOf(bs, k - 1)) = BlockBody(bs[k]) \o LeftOf(bs, k)
<1> DEFINE ss == BlockList(bs)
           body == BlockBody(bs[k])
           rest == LeftOf(bs, k)
<1>1. /\ ss \in Seq(Seq(Int)) /\ Len(ss) = Len(bs) /\ Len(bs) \in Nat
      /\ body \in Seq(Int) /\ bs[k].type \in Int
      /\ ss[k] = <<bs[k].type>> \o body
  BY BlockListType
<1> HIDE DEF ss, body
<1>2. k \in 1 .. Len(ss) /\ k \in 0 .. Len(ss) /\ k - 1 \in 0 .. Len(ss)
  BY <1>1
<1>3. rest \in Seq(Int) /\ LeftOf(bs, k - 1) \in Seq(Int)
  BY <1>1, <1>2, FromType DEF LeftOf, ss
<1>4. LeftOf(bs, k - 1) = ss[k] \o rest
  BY <1>1, <1>2, FromNext DEF LeftOf, ss
<1> HIDE DEF rest
<1>5. <<bs[k].type>> \in Seq(Int)
  BY <1>1
<1>6. (<<bs[k].type>> \o body) \o rest = <<bs[k].type>> \o (body \o rest)
  BY <1>1, <1>3, <1>5, WordsAssociative
<1>7. body \o rest \in Seq(Int)
  BY <1>1, <1>3, ConcatParts
<1>8. LeftOf(bs, k - 1) = <<bs[k].type>> \o (body \o rest)
  BY <1>1, <1>4, <1>6
<1> DEFINE tail == body \o rest
           w == bs[k].type
           all == LeftOf(bs, k - 1)
<1> HIDE DEF tail, w, all
<1>9. w \in Int /\ tail \in Seq(Int) /\ all = <<w>> \o tail
  BY <1>1, <1>7, <1>8 DEF tail, w, all
<1>10. all # <<>> /\ Head(all) = w /\ Tail(all) = tail
  BY <1>9, OneWord
<1> QED
  BY <1>3, <1>10 DEF rest, body, tail, w, all

\* Before the first block all words are left, behind the last one none.
LEMMA LastBlock ==
  ASSUME NEW bs, IsMap(bs)
  PROVE  LeftOf(bs, Len(bs)) = <<>> /\ LeftOf(bs, 0) = FlattenSeq(BlockList(bs))
         /\ FlattenSeq(BlockList(bs)) \in Seq(Int)
<1> DEFINE ss == BlockList(bs)
<1>1. ss \in Seq(Seq(Int)) /\ Len(ss) = Len(bs)
  BY BlockListType
<1> HIDE DEF ss
<1>2. From(ss, Len(ss)) = <<>>
  BY <1>1, FromEnd
<1>3. From(ss, 0) = FlattenSeq(ss)
  BY <1>1, FromStart
<1>4. FlattenSeq(ss) \in Seq(Int)
  BY <1>1, FlattenType
<1> QED
  BY <1>1, <1>2, <1>3, <1>4 DEF LeftOf, ss

\* The first k blocks and the next one.
LEMMA FirstBlocks ==
  ASSUME NEW X, NEW bs \in Seq(X), NEW k \in 1 .. Len(bs)
  PROVE  /\ SubSeq(bs, 1, k) = Append(SubSeq(bs, 1, k - 1), bs[k])
         /\ SubSeq(bs, 1, k - 1) \in Seq(X) /\ Len(SubSeq(bs, 1, k - 1)) = k - 1
         /\ SubSeq(bs, 1, 0) = <<>>
         /\ SubSeq(bs, 1, Len(bs)) = bs
OBVIOUS

\* A block is read from the words that are left, in its turn.
LEMMA ReadTurn ==
  ASSUME NEW bs, IsMap(bs), NEW k \in 1 .. Len(bs),
         SubSeq(bs, 1, k - 1) \in Seq(Whole)
  PROVE  /\ bs[k] \in Whole =>
              /\ ReadBlock(bs[k].type, BlockBody(bs[k]) \o LeftOf(bs, k), Meaning(SubSeq(bs, 1, k - 1)))
                   = Read(LeftOf(bs, k), Meaning(SubSeq(bs, 1, k)))
              /\ SubSeq(bs, 1, k) \in Seq(Whole)
         /\ bs[k].type \in KnownKeys /\ bs[k] \notin Whole =>
              /\ k = Len(bs) /\ bs[k].damaged = TRUE
              /\ ~ReadBlock(bs[k].type, BlockBody(bs[k]) \o LeftOf(bs, k), Meaning(SubSeq(bs, 1, k - 1))).ok
<1> DEFINE front == SubSeq(bs, 1, k - 1)
           b == bs[k]
<1>1. /\ bs \in Seq(Block) /\ b \in Block /\ b.damaged \in BOOLEAN /\ k \in DOMAIN bs
      /\ LeftOf(bs, k) \in Seq(Int)
  <2>1. bs \in Seq(Block) /\ DOMAIN bs = 1 .. Len(bs)
    BY BlockListType
  <2>2. b \in Block
    BY <2>1
  <2>3. LeftOf(bs, k) \in Seq(Int)
    BY NextBlock
  <2> QED
    BY <2>1, <2>2, <2>3 DEF Block
<1>2. SubSeq(bs, 1, k) = Append(front, b)
  BY <1>1, FirstBlocks
<1> HIDE DEF front
<1>3. ASSUME b \in Whole
      PROVE  /\ ReadBlock(b.type, BlockBody(b) \o LeftOf(bs, k), Meaning(front))
                   = Read(LeftOf(bs, k), Meaning(SubSeq(bs, 1, k)))
             /\ SubSeq(bs, 1, k) \in Seq(Whole)
  <2> HIDE DEF b
  <2>0. front \in Seq(Whole)
    BY DEF front
  <2>1. ReadBlock(b.type, BlockBody(b) \o LeftOf(bs, k), Meaning(front))
          = Read(LeftOf(bs, k), Meaning(Append(front, b)))
    BY <1>1, <1>3, <2>0, ReadOne
  <2>2. Append(front, b) \in Seq(Whole)
    BY <1>3, <2>0
  <2> QED
    BY <1>2, <2>1, <2>2
<1>4. ASSUME b.type \in KnownKeys, b \notin Whole
      PROVE  /\ k = Len(bs) /\ b.damaged = TRUE
             /\ ~ReadBlock(b.type, BlockBody(b) \o LeftOf(bs, k), Meaning(front)).ok
  <2>1. b.damaged = TRUE
    BY <1>1, <1>4 DEF IsMap, Whole
  <2>2. k = Len(bs) /\ ~ReadBlock(b.type, b.words, EmptyMap).ok
    BY <1>1, <1>4, <2>1 DEF IsMap
  <2> HIDE DEF b
  <2>3. LeftOf(bs, k) = <<>>
    BY <2>2, LastBlock
  <2>4. b.words \in Seq(Int) /\ BlockBody(b) = b.words
    BY <1>1, <2>1, DamagedBody DEF Block
  <2>5. BlockBody(b) \o LeftOf(bs, k) = b.words
    <3>1. b.words \o <<>> = b.words
      BY <2>4, ConcatEmptySeq
    <3> QED
      BY <2>3, <2>4, <3>1
  <2>6. ReadBlock(b.type, b.words, Meaning(front)).ok = ReadBlock(b.type, b.words, EmptyMap).ok
    BY <1>4, OkApart
  <2> QED
    BY <2>1, <2>2, <2>5, <2>6
<1> QED
  BY <1>3, <1>4 DEF front

(***************************************************************************)
(* A point inside the map                                                  *)
(***************************************************************************)

\* No blocks mean an empty map.
LEMMA NothingKnown == Meaning(<<>>) = EmptyMap
<1>1. \A f \in KeyNames : KeyValue(<<>>, f) = Zero64
  BY DEF KeyValue
<1>2. \A t : PairsValue(<<>>, t) = NoPairs
  <2> TAKE t
  <2>1. PairsOf(<<>>, t) = <<>>
    <3>1. [i \in DOMAIN <<>> |-> IF <<>>[i].type = t THEN <<>>[i].pairs ELSE <<>>] = <<>>
      OBVIOUS
    <3> QED
      BY <3>1, FlattenEmpty DEF PairsOf
  <2>2. PairsValue(<<>>, t) = Latest(PairsOf(<<>>, t))
    BY DEF PairsValue, PairsOf, Latest
  <2>3. Latest(<<>>) = NoPairs
    <3> DEFINE f == Latest(<<>>)
    <3>1. DOMAIN f = {} /\ f = [p \in {} |-> f[p]]
      BY DEF Latest
    <3> HIDE DEF f
    <3>2. f = NoPairs
      BY <3>1 DEF NoPairs
    <3> QED
      BY <3>2 DEF f
  <2> QED
    BY <2>1, <2>2, <2>3
<1>3. TokenValue(<<>>, 1) = <<>> /\ TokenValue(<<>>, 2) = <<>>
  BY DEF TokenValue
<1>4. [f \in KeyNames |-> KeyValue(<<>>, f)] = [f \in KeyNames |-> Zero64]
  BY <1>1
<1> QED
  BY <1>2, <1>3, <1>4 DEF Meaning, EmptyMap

\* The blocks before the first unknown one.
LEMMA KnownIs ==
  ASSUME NEW bs \in Seq(Block), NEW k \in 0 .. Len(bs),
         \A i \in 1 .. k : bs[i].type \in KnownKeys,
         k = Len(bs) \/ bs[k + 1].type \notin KnownKeys
  PROVE  Known(bs) = SubSeq(bs, 1, k)
<1> DEFINE n == Len(bs)
           T == {i \in DOMAIN bs : bs[i].type \notin KnownKeys} \cup {n + 1}
<1>1. DOMAIN bs = 1 .. n /\ n \in Nat /\ k \in 0 .. n /\ k \in Nat
  OBVIOUS
<1>0. k = n \/ bs[k + 1].type \notin KnownKeys
  OBVIOUS
<1> HIDE DEF n
<1>2. k + 1 \in T
  <2>1. CASE k = n
    BY <2>1
  <2>2. CASE k # n
    <3>1. k + 1 \in 1 .. n
      BY <1>1, <2>2
    <3> QED
      BY <1>0, <1>1, <2>2, <3>1
  <2> QED
    BY <2>1, <2>2
<1>3. \A i \in T : k + 1 <= i /\ i \in Int
  <2> SUFFICES ASSUME NEW i \in T PROVE k + 1 <= i /\ i \in Int
    OBVIOUS
  <2>1. i \in 1 .. n \/ i = n + 1
    BY <1>1
  <2>2. CASE i = n + 1
    BY <1>1, <2>2
  <2>3. CASE i # n + 1
    <3>1. i \in 1 .. n /\ bs[i].type \notin KnownKeys
      BY <2>1, <2>3
    <3>2. i \notin 1 .. k
      BY <3>1
    <3> HIDE DEF T
    <3> QED
      BY <1>1, <3>1, <3>2
  <2> QED
    BY <2>2, <2>3
<1> HIDE DEF T
<1>4. Min(T) = k + 1
  <2>1. \E x \in T : \A y \in T : x <= y
    BY <1>2, <1>3
  <2>2. Min(T) \in T /\ \A y \in T : Min(T) <= y
    BY <2>1 DEF Min
  <2>3. Min(T) <= k + 1 /\ k + 1 <= Min(T) /\ Min(T) \in Int /\ k + 1 \in Int
    BY <1>1, <1>2, <1>3, <2>2
  <2> QED
    BY <2>3
<1>5. Min(T) - 1 = k
  BY <1>1, <1>4
<1> QED
  BY <1>5 DEF Known, T, n

\* Whether a map of these blocks can be read at all.
ReadableOf(bs) ==
  /\ \A i \in DOMAIN Known(bs) : ~Known(bs)[i].damaged
  /\ lenient \/ Known(bs) = bs

\* The loop of MapData.read after k blocks: m is what they mean, s what is
\* left of the words.
AtBlock(bs, k, m, s) ==
  /\ k \in 0 .. Len(bs)
  /\ SubSeq(bs, 1, k) \in Seq(Whole)
  /\ m = Meaning(SubSeq(bs, 1, k))
  /\ \/ s = LeftOf(bs, k)
     \/ lenient /\ s = <<>> /\ k < Len(bs) /\ bs[k + 1].type \notin KnownKeys

\* The first k blocks of a map are whole: they are known.
LEMMA WholeKnown ==
  ASSUME NEW bs \in Seq(Block), NEW k \in 0 .. Len(bs), SubSeq(bs, 1, k) \in Seq(Whole)
  PROVE  /\ \A i \in 1 .. k : bs[i].type \in KnownKeys /\ bs[i].damaged = FALSE
         /\ DOMAIN SubSeq(bs, 1, k) = 1 .. k
         /\ \A i \in 1 .. k : SubSeq(bs, 1, k)[i] = bs[i]
<1> DEFINE front == SubSeq(bs, 1, k)
<1>1. DOMAIN front = 1 .. k /\ \A i \in 1 .. k : front[i] = bs[i]
  OBVIOUS
<1>2. front \in Seq(Whole)
  OBVIOUS
<1> HIDE DEF front
<1>3. \A i \in 1 .. k : front[i] \in Whole
  BY <1>1, <1>2
<1>4. \A i \in 1 .. k : front[i].type \in KnownKeys /\ front[i].damaged = FALSE
  BY <1>3, WholeParts
<1> QED
  BY <1>1, <1>4 DEF front

\* The loop starts with nothing read.
LEMMA AtStart ==
  ASSUME NEW bs, IsMap(bs)
  PROVE  AtBlock(bs, 0, EmptyMap, FlattenSeq(BlockList(bs)))
<1>1. bs \in Seq(Block) /\ Len(bs) \in Nat
  BY BlockListType
<1>2. SubSeq(bs, 1, 0) = <<>> /\ <<>> \in Seq(Whole) /\ 0 \in 0 .. Len(bs)
  BY <1>1
<1> QED
  BY <1>2, NothingKnown, LastBlock DEF AtBlock

\* The loop ends: the map is what its known blocks mean.
LEMMA AtEnd ==
  ASSUME NEW bs, IsMap(bs), NEW k, NEW m, AtBlock(bs, k, m, <<>>)
  PROVE  ReadableOf(bs) /\ m = Meaning(Known(bs))
<1>1. bs \in Seq(Block) /\ Len(bs) \in Nat /\ k \in 0 .. Len(bs)
  BY BlockListType DEF AtBlock
<1>2. SubSeq(bs, 1, k) \in Seq(Whole) /\ m = Meaning(SubSeq(bs, 1, k))
  BY DEF AtBlock
<1>3. k = Len(bs) \/ (lenient /\ bs[k + 1].type \notin KnownKeys)
  <2> SUFFICES ASSUME k # Len(bs), <<>> = LeftOf(bs, k) PROVE FALSE
    BY DEF AtBlock
  <2>1. k + 1 \in 1 .. Len(bs) /\ (k + 1) - 1 = k
    BY <1>1
  <2>2. LeftOf(bs, (k + 1) - 1) # <<>>
    <3> DEFINE j == k + 1
    <3> HIDE DEF j
    <3>1. j \in 1 .. Len(bs)
      BY <2>1 DEF j
    <3>2. LeftOf(bs, j - 1) # <<>>
      BY <3>1, NextBlock
    <3> QED
      BY <3>2 DEF j
  <2> QED
    BY <2>1, <2>2
<1>4. \A i \in 1 .. k : bs[i].type \in KnownKeys
  BY <1>1, <1>2, WholeKnown
<1>5. Known(bs) = SubSeq(bs, 1, k)
  BY <1>1, <1>3, <1>4, KnownIs
<1>6. \A i \in DOMAIN Known(bs) : ~Known(bs)[i].damaged
  <2>1. \A i \in 1 .. k : SubSeq(bs, 1, k)[i] = bs[i] /\ bs[i].damaged = FALSE
    BY <1>1, <1>2, WholeKnown
  <2>2. DOMAIN SubSeq(bs, 1, k) = 1 .. k
    BY <1>1, <1>2, WholeKnown
  <2> QED
    BY <1>5, <2>1, <2>2
<1>7. k = Len(bs) => Known(bs) = bs
  BY <1>1, <1>5
<1> QED
  BY <1>2, <1>3, <1>5, <1>6, <1>7 DEF ReadableOf

\* The loop at a block: its type, and what reading it does.
LEMMA AtNext ==
  ASSUME NEW bs, IsMap(bs), NEW k, NEW m, NEW s, AtBlock(bs, k, m, s), s # <<>>
  PROVE  /\ s \in Seq(Int) /\ k + 1 \in 1 .. Len(bs)
         /\ Head(s) = bs[k + 1].type
         /\ Head(s) \in KnownKeys =>
              LET block == ReadBlock(Head(s), Tail(s), m)
              IN  IF block.ok THEN AtBlock(bs, k + 1, block.map, block.rest) ELSE ~ReadableOf(bs)
         /\ Head(s) \notin KnownKeys =>
              IF lenient THEN AtBlock(bs, k, m, <<>>) ELSE ~ReadableOf(bs)
<1> DEFINE j == k + 1
<1>1. bs \in Seq(Block) /\ Len(bs) \in Nat /\ k \in 0 .. Len(bs)
  BY BlockListType DEF AtBlock
<1>2. SubSeq(bs, 1, k) \in Seq(Whole) /\ m = Meaning(SubSeq(bs, 1, k)) /\ s = LeftOf(bs, k)
  BY DEF AtBlock
<1>3. k # Len(bs)
  BY <1>2, LastBlock
<1>4. j \in 1 .. Len(bs) /\ j - 1 = k /\ j \in 0 .. Len(bs)
  BY <1>1, <1>3
<1> HIDE DEF j
<1>5. /\ s \in Seq(Int) /\ LeftOf(bs, j) \in Seq(Int)
      /\ Head(s) = bs[j].type
      /\ Tail(s) = BlockBody(bs[j]) \o LeftOf(bs, j)
  <2>1. /\ LeftOf(bs, j - 1) \in Seq(Int) /\ LeftOf(bs, j) \in Seq(Int)
        /\ Head(LeftOf(bs, j - 1)) = bs[j].type
        /\ Tail(LeftOf(bs, j - 1)) = BlockBody(bs[j]) \o LeftOf(bs, j)
    BY <1>4, NextBlock
  <2> QED
    BY <1>2, <1>4, <2>1
<1>6. \A i \in 1 .. k : bs[i].type \in KnownKeys
  BY <1>1, <1>2, WholeKnown
<1> DEFINE block == ReadBlock(Head(s), Tail(s), m)
<1>7. /\ bs[j] \in Whole => block = Read(LeftOf(bs, j), Meaning(SubSeq(bs, 1, j)))
                            /\ SubSeq(bs, 1, j) \in Seq(Whole)
      /\ bs[j].type \in KnownKeys /\ bs[j] \notin Whole =>
           j = Len(bs) /\ bs[j].damaged = TRUE /\ ~block.ok
  <2>1. SubSeq(bs, 1, j - 1) \in Seq(Whole)
    BY <1>2, <1>4
  <2>2. block = ReadBlock(bs[j].type, BlockBody(bs[j]) \o LeftOf(bs, j), Meaning(SubSeq(bs, 1, j - 1)))
    BY <1>2, <1>4, <1>5
  <2> HIDE DEF block
  <2> QED
    BY <1>4, <2>1, <2>2, ReadTurn
<1> HIDE DEF block
<1>8. ASSUME Head(s) \in KnownKeys
      PROVE  IF block.ok THEN AtBlock(bs, j, block.map, block.rest) ELSE ~ReadableOf(bs)
  <2>1. CASE bs[j] \in Whole
    <3>1. block.ok /\ block.map = Meaning(SubSeq(bs, 1, j)) /\ block.rest = LeftOf(bs, j)
      BY <1>7, <2>1 DEF Read
    <3> QED
      BY <1>4, <1>7, <2>1, <3>1 DEF AtBlock
  <2>2. CASE bs[j] \notin Whole
    <3>1. j = Len(bs) /\ bs[j].damaged = TRUE /\ ~block.ok
      BY <1>5, <1>7, <1>8, <2>2
    <3>2. \A i \in 1 .. j : bs[i].type \in KnownKeys
      <4>1. \A i \in 1 .. j : i \in 1 .. k \/ i = j
        BY <1>1, <1>4
      <4> QED
        BY <1>5, <1>6, <1>8, <4>1
    <3>3. Known(bs) = SubSeq(bs, 1, j)
      BY <1>1, <1>4, <3>1, <3>2, KnownIs
    <3>4. j \in DOMAIN Known(bs) /\ Known(bs)[j].damaged = TRUE
      BY <1>1, <1>4, <3>1, <3>3
    <3> QED
      BY <3>1, <3>4 DEF ReadableOf
  <2> QED
    BY <2>1, <2>2
<1>9. ASSUME Head(s) \notin KnownKeys
      PROVE  IF lenient THEN AtBlock(bs, k, m, <<>>) ELSE ~ReadableOf(bs)
  <2>1. bs[k + 1].type \notin KnownKeys /\ k < Len(bs)
    BY <1>1, <1>3, <1>5, <1>9 DEF j
  <2>2. lenient => AtBlock(bs, k, m, <<>>)
    BY <1>1, <1>2, <2>1 DEF AtBlock
  <2>3. Known(bs) = SubSeq(bs, 1, k)
    BY <1>1, <1>6, <2>1, KnownIs
  <2>4. Known(bs) # bs
    <3>1. Len(Known(bs)) = k
      BY <1>1, <2>3
    <3> QED
      BY <1>3, <3>1
  <2> QED
    BY <2>2, <2>4 DEF ReadableOf
<1> QED
  BY <1>4, <1>5, <1>8, <1>9 DEF j, block

(***************************************************************************)
(* The pairs of a dictionary are written                                   *)
(***************************************************************************)

\* SetToSeq enumerates a finite set.
LEMMA Enumerated ==
  ASSUME NEW S, IsFiniteSet(S)
  PROVE  /\ SetToSeq(S) \in Seq(S)
         /\ \A x \in S : \E i \in DOMAIN SetToSeq(S) : SetToSeq(S)[i] = x
         /\ Len(SetToSeq(S)) = Cardinality(S) /\ Cardinality(S) \in Nat
<1> DEFINE n == Cardinality(S)
           e == SetToSeq(S)
<1>1. n \in Nat /\ ExistsBijection(1 .. n, S)
  BY FS_CardinalityType
<1> HIDE DEF n
<1>2. \E f \in [1 .. n -> S] : IsInjective(f)
  <2>1. PICK f \in Bijection(1 .. n, S) : TRUE
    BY <1>1 DEF ExistsBijection
  <2>2. f \in Injection(1 .. n, S)
    BY <2>1 DEF Bijection
  <2>3. f \in [1 .. n -> S] /\ IsInjective(f)
    BY <2>2 DEF Injection
  <2> QED
    BY <2>3
<1>3. e \in [1 .. n -> S] /\ IsInjective(e)
  BY <1>2 DEF SetToSeq, n
<1> HIDE DEF e
<1>4. e \in Surjection(1 .. n, S)
  <2>1. e \in Injection(1 .. n, S)
    BY <1>3 DEF Injection
  <2>2. Cardinality(1 .. n) = n
    <3>1. 1 \in Int /\ n \in Int
      BY <1>1
    <3>2. Cardinality(1 .. n) = IF 1 > n THEN 0 ELSE n - 1 + 1
      BY <3>1, FS_Interval
    <3> QED
      BY <1>1, <3>2
  <2>3. Cardinality(1 .. n) = Cardinality(S)
    BY <2>2 DEF n
  <2> QED
    BY <2>1, <2>3, FS_Injection
<1>5. \A x \in S : \E i \in 1 .. n : e[i] = x
  BY <1>4 DEF Surjection
<1>6. e \in Seq(S) /\ Len(e) = n /\ DOMAIN e = 1 .. n
  BY <1>1, <1>3
<1> QED
  BY <1>1, <1>5, <1>6 DEF e, n

\* The pairs a dictionary is written with.
WrittenPairs(f) ==
  [i \in DOMAIN SetToSeq(DOMAIN f) |->
     [peer |-> SetToSeq(DOMAIN f)[i], stored |-> Serialize(SetToSeq(DOMAIN f)[i]),
      key |-> f[SetToSeq(DOMAIN f)[i]]]]

\* The pairs a dictionary is written with name their peers and read as them.
LEMMA WrittenPairsType ==
  ASSUME NEW f \in PairMaps
  PROVE  /\ WrittenPairs(f) \in Seq(ReadPair)
         /\ WritePairs(f) = <<Len(WrittenPairs(f))>> \o PairWords(WrittenPairs(f))
         /\ \A i \in DOMAIN WrittenPairs(f) :
              WrittenPairs(f)[i].peer \in DOMAIN f /\ WrittenPairs(f)[i].key = f[WrittenPairs(f)[i].peer]
         /\ \A p \in DOMAIN f : \E i \in DOMAIN WrittenPairs(f) : WrittenPairs(f)[i].peer = p
         /\ IsFiniteSet(DOMAIN f)
<1> DEFINE e == SetToSeq(DOMAIN f)
           ps == WrittenPairs(f)
<1>1. /\ IsFiniteSet(DOMAIN f)
      /\ \A p \in DOMAIN f : p \in PeerIds /\ p \in Uint64 /\ f[p] \in Uint64
  BY DEF PairMaps, PeerIds
<1>2. e \in Seq(DOMAIN f) /\ \A x \in DOMAIN f : \E i \in DOMAIN e : e[i] = x
  BY <1>1, Enumerated
<1> HIDE DEF e
<1>3. ps = [i \in DOMAIN e |-> [peer |-> e[i], stored |-> Serialize(e[i]), key |-> f[e[i]]]]
  BY DEF WrittenPairs, e
<1>4. DOMAIN e = 1 .. Len(e) /\ Len(e) \in Nat /\ \A i \in DOMAIN e : e[i] \in DOMAIN f
  BY <1>2
<1>5. \A i \in DOMAIN e : Serialize(e[i]) \in Uint64 /\ FromSerialized(Serialize(e[i])) = e[i]
  BY <1>1, <1>4, PeerKept
<1> HIDE DEF ps
<1>6. /\ DOMAIN ps = DOMAIN e
      /\ \A i \in DOMAIN e : ps[i].peer = e[i] /\ ps[i].stored = Serialize(e[i]) /\ ps[i].key = f[e[i]]
  BY <1>3
<1>7. \A i \in DOMAIN e : ps[i] \in ReadPair
  BY <1>1, <1>3, <1>4, <1>5 DEF ReadPair, Pair
<1>8. ps \in Seq(ReadPair) /\ Len(ps) = Len(e)
  <2>1. ps = [i \in 1 .. Len(e) |-> ps[i]]
    BY <1>3, <1>4
  <2> QED
    BY <1>4, <1>7, <2>1
<1>9. WritePairs(f) = <<Len(ps)>> \o PairWords(ps)
  <2>1. [i \in DOMAIN e |-> f[e[i]] \o Serialize(e[i])] = [i \in DOMAIN ps |-> ps[i].key \o ps[i].stored]
    BY <1>6
  <2> QED
    BY <1>8, <2>1 DEF WritePairs, PairWords, e
<1>10. \A i \in DOMAIN ps : ps[i].peer \in DOMAIN f /\ ps[i].key = f[ps[i].peer]
  BY <1>4, <1>6
<1>11. \A p \in DOMAIN f : \E i \in DOMAIN ps : ps[i].peer = p
  BY <1>2, <1>6
<1> QED
  BY <1>1, <1>8, <1>9, <1>10, <1>11 DEF ps

\* Whatever was read before for the peers of a dictionary, its pairs give
\* the dictionary.
LEMMA LatestWritten ==
  ASSUME NEW f \in PairMaps, NEW before \in Seq(ReadPair), DOMAIN Latest(before) \subseteq DOMAIN f
  PROVE  Latest(before \o WrittenPairs(f)) = f
<1> DEFINE ps == WrittenPairs(f)
           qs == before \o ps
           n == Len(before)
<1>1. /\ ps \in Seq(ReadPair)
      /\ \A i \in DOMAIN ps : ps[i].peer \in DOMAIN f /\ ps[i].key = f[ps[i].peer]
      /\ \A p \in DOMAIN f : \E i \in DOMAIN ps : ps[i].peer = p
  BY WrittenPairsType
<1> HIDE DEF ps
<1>2. /\ qs \in Seq(ReadPair) /\ n \in Nat /\ Len(ps) \in Nat /\ DOMAIN before = 1 .. n
      /\ DOMAIN ps = 1 .. Len(ps) /\ DOMAIN qs = 1 .. n + Len(ps)
      /\ \A i \in 1 .. n : qs[i] = before[i]
      /\ \A i \in 1 .. Len(ps) : qs[n + i] = ps[i]
  BY <1>1
<1> HIDE DEF qs, n
<1>3. \A i \in DOMAIN qs : i \in 1 .. n \/ (i - n \in 1 .. Len(ps) /\ qs[i] = ps[i - n])
  <2> SUFFICES ASSUME NEW i \in DOMAIN qs, i \notin 1 .. n
               PROVE  i - n \in 1 .. Len(ps) /\ qs[i] = ps[i - n]
    OBVIOUS
  <2>1. i - n \in 1 .. Len(ps) /\ n + (i - n) = i
    BY <1>2
  <2> QED
    BY <1>2, <2>1
<1>4. \A i \in 1 .. n : before[i].peer \in DOMAIN f
  BY <1>2 DEF Latest
<1>5. {qs[i].peer : i \in DOMAIN qs} = DOMAIN f
  <2>1. \A i \in DOMAIN qs : qs[i].peer \in DOMAIN f
    BY <1>1, <1>2, <1>3, <1>4
  <2>2. ASSUME NEW p \in DOMAIN f
        PROVE  \E i \in DOMAIN qs : qs[i].peer = p
    <3>1. PICK i \in 1 .. Len(ps) : ps[i].peer = p
      BY <1>1, <1>2
    <3>2. n + i \in DOMAIN qs /\ qs[n + i] = ps[i]
      BY <1>2
    <3> QED
      BY <3>1, <3>2
  <2> QED
    BY <2>1, <2>2
<1>6. ASSUME NEW p \in DOMAIN f
      PROVE  Latest(qs)[p] = f[p]
  <2>0. qs \in Seq(Pair) /\ p \in {qs[i].peer : i \in DOMAIN qs}
    BY <1>2, <1>5 DEF ReadPair
  <2>1. PICK k \in DOMAIN qs : /\ qs[k].peer = p
                               /\ \A i \in DOMAIN qs : qs[i].peer = p => i <= k
                               /\ Latest(qs)[p] = qs[k].key
    BY <2>0, LatestIndex
  <2>2. PICK i \in 1 .. Len(ps) : ps[i].peer = p
    BY <1>1, <1>2
  <2>3. n + i \in DOMAIN qs /\ qs[n + i] = ps[i]
    BY <1>2
  <2>7. k \in Int /\ i \in Int
    BY <1>2, <2>1, <2>2
  <2>8. qs[n + i].peer = p
    BY <2>2, <2>3
  <2>4. n + i <= k
    BY <2>1, <2>3, <2>8
  <2>5. k \notin 1 .. n
    BY <1>2, <2>2, <2>4, <2>7
  <2>6. k - n \in 1 .. Len(ps) /\ qs[k] = ps[k - n]
    BY <1>3, <2>5
  <2>9. Latest(qs)[p] = ps[k - n].key /\ ps[k - n].peer = p
    BY <2>1, <2>6
  <2>10. k - n \in DOMAIN ps
    BY <1>2, <2>6
  <2> QED
    BY <1>1, <2>9, <2>10
<1>7. Latest(qs) = [p \in DOMAIN f |-> Latest(qs)[p]]
  BY <1>5 DEF Latest
<1>8. f = [p \in DOMAIN f |-> f[p]]
  BY DEF PairMaps
<1> QED
  BY <1>6, <1>7, <1>8 DEF qs, ps

(***************************************************************************)
(* The blocks that are written                                             *)
(***************************************************************************)

\* What is written under a key is read from it.
LEMMA SavedAsRead ==
  \A t \in DOMAIN SavedKeys : t \in DOMAIN KeyFields /\ SavedKeys[t] = KeyFields[t]
<1>1. /\ SavedKeys[4] = KeyFields[4]
      /\ SavedKeys[7] = KeyFields[7]
      /\ SavedKeys[9] = KeyFields[9]
  BY DEF SavedKeys, KeyFields
<1>2. /\ SavedKeys[10] = KeyFields[10]
      /\ SavedKeys[15] = KeyFields[15]
  BY DEF SavedKeys, KeyFields
<1>3. /\ SavedKeys[16] = KeyFields[16]
  BY DEF SavedKeys, KeyFields
<1>4. /\ SavedKeys[17] = KeyFields[17]
      /\ SavedKeys[18] = KeyFields[18]
      /\ SavedKeys[19] = KeyFields[19]
  BY DEF SavedKeys, KeyFields
<1>5. /\ SavedKeys[22] = KeyFields[22]
  BY DEF SavedKeys, KeyFields
<1>6. /\ SavedKeys[23] = KeyFields[23]
  BY DEF SavedKeys, KeyFields
<1>7. /\ SavedKeys[24] = KeyFields[24]
      /\ SavedKeys[26] = KeyFields[26]
  BY DEF SavedKeys, KeyFields
<1>8. /\ SavedKeys[27] = KeyFields[27]
      /\ SavedKeys[28] = KeyFields[28]
      /\ SavedKeys[30] = KeyFields[30]
  BY DEF SavedKeys, KeyFields
<1>9. \A t \in DOMAIN SavedKeys :
        t \in {4, 7, 9, 10, 15, 16, 17, 18, 19, 22, 23, 24, 26, 27, 28, 30}
  BY DEF SavedKeys
<1>10. \A t \in DOMAIN SavedKeys : t \in DOMAIN KeyFields
  BY DEF SavedKeys, KeyFields
<1> QED
  BY <1>1, <1>2, <1>3, <1>4, <1>5, <1>6, <1>7, <1>8, <1>9, <1>10

\* The keys that are written, and those that are not any more.
LegacyKeys == {"legacyBackgroundDay", "legacyBackgroundNight"}
AreSaved(names) == \A j \in DOMAIN names : names[j] \in KeyNames /\ names[j] \notin LegacyKeys

\* The fields prepareToWrite puts into a block are fields of the map.
LEMMA SavedKeyNames == \A t \in DOMAIN SavedKeys : AreSaved(SavedKeys[t])
<1>1. /\ AreSaved(SavedKeys[4])
      /\ AreSaved(SavedKeys[7])
      /\ AreSaved(SavedKeys[9])
  BY DEF AreSaved, SavedKeys, KeyNames, LegacyKeys
<1>2. /\ AreSaved(SavedKeys[10])
      /\ AreSaved(SavedKeys[15])
  BY DEF AreSaved, SavedKeys, KeyNames, LegacyKeys
<1>3. /\ AreSaved(SavedKeys[16])
  BY DEF AreSaved, SavedKeys, KeyNames, LegacyKeys
<1>4. /\ AreSaved(SavedKeys[17])
      /\ AreSaved(SavedKeys[18])
      /\ AreSaved(SavedKeys[19])
  BY DEF AreSaved, SavedKeys, KeyNames, LegacyKeys
<1>5. /\ AreSaved(SavedKeys[22])
  BY DEF AreSaved, SavedKeys, KeyNames, LegacyKeys
<1>6. /\ AreSaved(SavedKeys[23])
  BY DEF AreSaved, SavedKeys, KeyNames, LegacyKeys
<1>7. /\ AreSaved(SavedKeys[24])
      /\ AreSaved(SavedKeys[26])
  BY DEF AreSaved, SavedKeys, KeyNames, LegacyKeys
<1>8. /\ AreSaved(SavedKeys[27])
      /\ AreSaved(SavedKeys[28])
      /\ AreSaved(SavedKeys[30])
  BY DEF AreSaved, SavedKeys, KeyNames, LegacyKeys
<1>9. \A t \in DOMAIN SavedKeys :
        t \in {4, 7, 9, 10, 15, 16, 17, 18, 19, 22, 23, 24, 26, 27, 28, 30}
  BY DEF SavedKeys
<1> QED
  BY <1>1, <1>2, <1>3, <1>4, <1>5, <1>6, <1>7, <1>8, <1>9

\* Whether the block of type t carries the key f.
IsKeyOf(t, f) == t \in DOMAIN SavedKeys /\ \E j \in DOMAIN SavedKeys[t] : SavedKeys[t][j] = f

\* Every field but the background keys has its place in one block alone.
LEMMA EveryKeySaved ==
  \A f \in KeyNames \ LegacyKeys : \E t \in DOMAIN SavedKeys : IsKeyOf(t, f)
<1>1. /\ IsKeyOf(4, "locations")
      /\ IsKeyOf(7, "recentStickersOld")
      /\ IsKeyOf(9, "settings")
  BY DEF IsKeyOf, SavedKeys
<1>2. /\ IsKeyOf(10, "recentHashtagsAndBots")
      /\ IsKeyOf(15, "savedGifs")
  BY DEF IsKeyOf, SavedKeys
<1>3. /\ IsKeyOf(16, "installedStickers")
      /\ IsKeyOf(16, "featuredStickers")
      /\ IsKeyOf(16, "recentStickers")
      /\ IsKeyOf(16, "archivedStickers")
  BY DEF IsKeyOf, SavedKeys
<1>4. /\ IsKeyOf(17, "trustedBots")
      /\ IsKeyOf(18, "favedStickers")
      /\ IsKeyOf(19, "exportSettings")
  BY DEF IsKeyOf, SavedKeys
<1>5. /\ IsKeyOf(22, "installedMasks")
      /\ IsKeyOf(22, "recentMasks")
      /\ IsKeyOf(22, "archivedMasks")
  BY DEF IsKeyOf, SavedKeys
<1>6. /\ IsKeyOf(23, "installedCustomEmoji")
      /\ IsKeyOf(23, "featuredCustomEmoji")
      /\ IsKeyOf(23, "archivedCustomEmoji")
  BY DEF IsKeyOf, SavedKeys
<1>7. /\ IsKeyOf(24, "searchSuggestions")
      /\ IsKeyOf(26, "roundPlaceholder")
  BY DEF IsKeyOf, SavedKeys
<1>8. /\ IsKeyOf(27, "inlineBotsDownloads")
      /\ IsKeyOf(28, "mediaLastPlaybackPositions")
      /\ IsKeyOf(30, "prefs")
  BY DEF IsKeyOf, SavedKeys
<1>9. KeyNames \ LegacyKeys \subseteq {"locations",
       "recentStickersOld",
       "settings",
       "recentHashtagsAndBots",
       "savedGifs",
       "installedStickers", "featuredStickers", "recentStickers", "archivedStickers",
       "trustedBots",
       "favedStickers",
       "exportSettings",
       "installedMasks", "recentMasks", "archivedMasks",
       "installedCustomEmoji", "featuredCustomEmoji", "archivedCustomEmoji",
       "searchSuggestions",
       "roundPlaceholder",
       "inlineBotsDownloads",
       "mediaLastPlaybackPositions",
       "prefs"}
  BY DEF KeyNames, LegacyKeys
<1>10. \A t, f : IsKeyOf(t, f) => t \in DOMAIN SavedKeys
  BY DEF IsKeyOf
<1> QED
  BY <1>1, <1>2, <1>3, <1>4, <1>5, <1>6, <1>7, <1>8, <1>9, <1>10

----------------------------------------------------------------------------
\* The maps a program can hold.
Maps == [keys : [KeyNames -> Uint64], drafts : PairMaps, cursors : PairMaps,
         botStorages : PairMaps, tokenBots : Seq(Int), tokenOther : Seq(Int)]

\* The types of the blocks prepareToWrite knows.
SavedTypes == DOMAIN SavedKeys \cup PairTypes \cup {lskWebviewTokens}

\* The dictionary that is written under a key, and what a block holds.
PairsFor(t, m) ==
  IF t = lskDraft THEN m.drafts ELSE IF t = lskDraftPosition THEN m.cursors ELSE m.botStorages
ValuesFor(t, m) == [i \in DOMAIN SavedKeys[t] |-> m.keys[SavedKeys[t][i]]]

\* The block of type t that says what the map says.
BlockFor(t, m) ==
  [type |-> t, words |-> <<>>, damaged |-> FALSE,
   keys |-> IF t \in DOMAIN SavedKeys THEN ValuesFor(t, m) ELSE <<>>,
   pairs |-> IF t \in PairTypes THEN WrittenPairs(PairsFor(t, m)) ELSE <<>>,
   tokens |-> IF t = lskWebviewTokens THEN <<m.tokenBots, m.tokenOther>> ELSE <<>>]

\* Whether the block of type t is left out.
SaysNothing(t, m) ==
  /\ t \in PairTypes => PairsFor(t, m) = NoPairs
  /\ t = lskWebviewTokens => m.tokenBots = <<>> /\ m.tokenOther = <<>>
  /\ t \in DOMAIN SavedKeys => \A i \in DOMAIN SavedKeys[t] : m.keys[SavedKeys[t][i]] = Zero64

\* The kinds of the saved blocks exclude each other.
LEMMA SavedTypesApart ==
  /\ \A t \in DOMAIN SavedKeys : t \notin PairTypes /\ t # lskWebviewTokens
       /\ t # lskDraft /\ t # lskDraftPosition /\ t # lskBotStorages
       /\ t # lskSelfSerialized /\ t \notin LegacyArrays
  /\ \A t \in PairTypes : t \notin DOMAIN SavedKeys /\ t # lskWebviewTokens
       /\ t # lskSelfSerialized /\ t \notin LegacyArrays
  /\ lskWebviewTokens \notin DOMAIN SavedKeys /\ lskWebviewTokens \notin PairTypes
  /\ lskWebviewTokens # lskSelfSerialized /\ lskWebviewTokens \notin LegacyArrays
  /\ lskDraft # lskDraftPosition /\ lskDraft # lskBotStorages /\ lskDraftPosition # lskBotStorages
  /\ lskDraft # lskWebviewTokens /\ lskDraftPosition # lskWebviewTokens
  /\ lskBotStorages # lskWebviewTokens
  /\ SavedTypes \subseteq KnownKeys /\ SavedTypes \subseteq Int
<1>1. \A t \in DOMAIN SavedKeys : t \in DOMAIN KeyFields
  BY SavedAsRead
<1>2. lskWebviewTokens \notin DOMAIN KeyFields
  BY KeyTypesApart
<1>3. SavedTypes \subseteq KnownKeys
  BY <1>1 DEF SavedTypes, KnownKeys, PairTypes
<1>4. DOMAIN SavedKeys \subseteq Int /\ PairTypes \subseteq Int /\ lskWebviewTokens \in Int
  BY DEF SavedKeys, PairTypes, lskWebviewTokens, lskDraft, lskDraftPosition, lskBotStorages
<1>5. SavedTypes \subseteq Int
  BY <1>4 DEF SavedTypes
<1>6. /\ lskWebviewTokens \notin PairTypes
      /\ lskWebviewTokens # lskSelfSerialized /\ lskWebviewTokens \notin LegacyArrays
      /\ lskDraft # lskDraftPosition /\ lskDraft # lskBotStorages /\ lskDraftPosition # lskBotStorages
      /\ lskDraft # lskWebviewTokens /\ lskDraftPosition # lskWebviewTokens
      /\ lskBotStorages # lskWebviewTokens
      /\ \A t \in PairTypes : t # lskSelfSerialized /\ t \notin LegacyArrays
  BY DEF PairTypes, LegacyArrays, lskWebviewTokens, lskDraft, lskDraftPosition, lskBotStorages,
         lskSelfSerialized
<1> QED
  BY <1>1, <1>2, <1>3, <1>5, <1>6, PairTypesApart, KeyTypesApart

\* The parts of a map have their types.
LEMMA MapsParts ==
  ASSUME NEW m \in Maps
  PROVE  /\ \A f \in KeyNames : m.keys[f] \in Uint64
         /\ m.drafts \in PairMaps /\ m.cursors \in PairMaps /\ m.botStorages \in PairMaps
         /\ m.tokenBots \in Seq(Int) /\ m.tokenOther \in Seq(Int)
         /\ \A t : PairsFor(t, m) \in PairMaps
BY DEF Maps, PairsFor

\* The file keys of a block are uint64.
LEMMA ValuesType ==
  ASSUME NEW m \in Maps, NEW t \in DOMAIN SavedKeys
  PROVE  /\ ValuesFor(t, m) \in Seq(Uint64) /\ Len(ValuesFor(t, m)) = Len(SavedKeys[t])
         /\ DOMAIN ValuesFor(t, m) = DOMAIN SavedKeys[t]
         /\ \A i \in DOMAIN SavedKeys[t] : ValuesFor(t, m)[i] = m.keys[SavedKeys[t][i]]
         /\ Len(SavedKeys[t]) = Len(KeyFields[t])
<1> DEFINE names == SavedKeys[t]
<1>1. DOMAIN names = 1 .. Len(names) /\ Len(names) \in Nat /\ Len(names) = Len(KeyFields[t])
  BY SavedAsRead, KeyFieldsLists DEF IsList
<1>2. \A i \in DOMAIN names : names[i] \in KeyNames
  BY SavedKeyNames DEF AreSaved
<1> HIDE DEF names
<1> DEFINE vs == [i \in DOMAIN names |-> m.keys[names[i]]]
<1>3. \A i \in DOMAIN names : m.keys[names[i]] \in Uint64
  BY <1>2, MapsParts
<1>4. vs \in Seq(Uint64) /\ Len(vs) = Len(names)
  BY <1>1, <1>3
<1>5. vs = ValuesFor(t, m)
  BY DEF ValuesFor, names
<1> QED
  BY <1>1, <1>4, <1>5 DEF names

\* A block that is left out has no words; the words of the others are those
\* of a block.
LEMMA SavedBlockIs ==
  ASSUME NEW m \in Maps, NEW t \in SavedTypes
  PROVE  /\ SaysNothing(t, m) => SavedBlock(t, m) = <<>>
         /\ ~SaysNothing(t, m) =>
              /\ BlockFor(t, m) \in Whole /\ BlockFor(t, m).type = t
              /\ BlockBody(BlockFor(t, m)) = SavedBlock(t, m)
              /\ SavedBlock(t, m) # <<>>
<1> DEFINE b == BlockFor(t, m)
<1>0. /\ b.type = t /\ b.words = <<>> /\ b.damaged = FALSE
      /\ b.keys = IF t \in DOMAIN SavedKeys THEN ValuesFor(t, m) ELSE <<>>
      /\ b.pairs = IF t \in PairTypes THEN WrittenPairs(PairsFor(t, m)) ELSE <<>>
      /\ b.tokens = IF t = lskWebviewTokens THEN <<m.tokenBots, m.tokenOther>> ELSE <<>>
      /\ b = [type |-> b.type, words |-> b.words, damaged |-> b.damaged, keys |-> b.keys,
              pairs |-> b.pairs, tokens |-> b.tokens]
  BY DEF BlockFor
<1> HIDE DEF b
<1>1. /\ \A f \in KeyNames : m.keys[f] \in Uint64
      /\ m.tokenBots \in Seq(Int) /\ m.tokenOther \in Seq(Int)
      /\ PairsFor(t, m) \in PairMaps
  BY MapsParts
<1>2. t \in KnownKeys /\ t \in Int
  BY SavedTypesApart
<1>3. /\ <<>> \in Seq(Uint64) /\ <<>> \in Seq(Int) /\ <<>> \in Seq(Pair) /\ <<>> \in Seq(Seq(Int))
  OBVIOUS
<1>4. ASSUME t \in PairTypes
      PROVE  /\ SaysNothing(t, m) => SavedBlock(t, m) = <<>>
             /\ ~SaysNothing(t, m) =>
                  /\ b \in Whole /\ BlockBody(b) = SavedBlock(t, m) /\ SavedBlock(t, m) # <<>>
  <2> DEFINE f == PairsFor(t, m)
             ps == WrittenPairs(f)
  <2>1. /\ ps \in Seq(ReadPair) /\ WritePairs(f) = <<Len(ps)>> \o PairWords(ps)
    BY <1>1, WrittenPairsType
  <2>2. SavedBlock(t, m) = IF f = NoPairs THEN <<>> ELSE WritePairs(f)
    <3>1. t = lskDraft \/ t = lskDraftPosition \/ t = lskBotStorages
      BY <1>4 DEF PairTypes
    <3> QED
      BY <1>4, <3>1, SavedTypesApart DEF SavedBlock, PairsFor
  <2>3. SaysNothing(t, m) <=> f = NoPairs
    BY <1>4, SavedTypesApart DEF SaysNothing
  <2> HIDE DEF f, ps
  <2>4. ps \in Seq(Pair) /\ \A i \in DOMAIN ps : ps[i].peer = FromSerialized(ps[i].stored)
    BY <2>1, ReadPairType
  <2>5. t \notin DOMAIN SavedKeys /\ t # lskWebviewTokens /\ t \notin DOMAIN KeyFields
        /\ t # lskSelfSerialized /\ t \notin LegacyArrays
    BY <1>4, SavedTypesApart, PairTypesApart
  <2>6. b.pairs = ps /\ b.keys = <<>> /\ b.tokens = <<>>
    BY <1>0, <1>4, <2>5 DEF ps, f
  <2>7. b \in Block
    BY <1>0, <1>2, <1>3, <2>4, <2>6 DEF Block, Pair
  <2>8. IsWhole(b)
    <3>1. ASSUME NEW i \in DOMAIN ps PROVE Stores(ps[i].stored, ps[i].peer)
      <4>1. ps[i] \in Pair
        BY <2>4
      <4>2. ps[i].stored \in Uint64 /\ ps[i].peer \in Uint64
        BY <4>1 DEF Pair
      <4> QED
        BY <2>4, <4>2, StoredIsRead
    <3> QED
      BY <1>0, <2>5, <2>6, <3>1 DEF IsWhole
  <2>9. b \in Whole
    BY <1>0, <1>2, <2>7, <2>8 DEF Whole
  <2>10. BlockBody(b) = <<Len(ps)>> \o PairWords(ps)
    BY <1>0, <1>4, <2>5, <2>6 DEF BlockBody
  <2>11. <<Len(ps)>> \o PairWords(ps) # <<>>
    <3>1. PairWords(ps) \in Seq(Int) /\ Len(ps) \in Int
      BY <2>4, PairWordsType
    <3> QED
      BY <3>1, OneWord
  <2> QED
    BY <2>1, <2>2, <2>3, <2>9, <2>10, <2>11
<1>5. ASSUME t = lskWebviewTokens
      PROVE  /\ SaysNothing(t, m) => SavedBlock(t, m) = <<>>
             /\ ~SaysNothing(t, m) =>
                  /\ b \in Whole /\ BlockBody(b) = SavedBlock(t, m) /\ SavedBlock(t, m) # <<>>
  <2> DEFINE x == m.tokenBots
             y == m.tokenOther
  <2>5. /\ t \notin DOMAIN SavedKeys /\ t \notin PairTypes /\ t \notin DOMAIN KeyFields
        /\ t # lskSelfSerialized /\ t \notin LegacyArrays
        /\ t # lskDraft /\ t # lskDraftPosition /\ t # lskBotStorages
    BY <1>5, SavedTypesApart, KeyTypesApart
  <2>1. SavedBlock(t, m) = IF x = <<>> /\ y = <<>> THEN <<>> ELSE WriteBytes(x) \o WriteBytes(y)
    BY <1>5, <2>5 DEF SavedBlock
  <2>2. SaysNothing(t, m) <=> x = <<>> /\ y = <<>>
    BY <1>5, <2>5 DEF SaysNothing
  <2>3. b.tokens = <<x, y>> /\ b.keys = <<>> /\ b.pairs = <<>>
    BY <1>0, <1>5, <2>5
  <2>4. <<x, y>> \in Seq(Seq(Int)) /\ Len(<<x, y>>) = 2
    BY <1>1
  <2>6. b \in Block
    BY <1>0, <1>2, <1>3, <2>3, <2>4 DEF Block, Pair
  <2>7. IsWhole(b)
    BY <1>0, <2>3, <2>4, <2>5 DEF IsWhole
  <2>8. b \in Whole
    BY <1>0, <1>2, <2>6, <2>7 DEF Whole
  <2>9. BlockBody(b) = WriteBytes(x) \o WriteBytes(y)
    <3>1. b.tokens[1] = x /\ b.tokens[2] = y
      BY <2>3
    <3> QED
      BY <1>0, <1>5, <2>5, <3>1 DEF BlockBody
  <2> HIDE DEF x, y
  <2>10. WriteBytes(x) \o WriteBytes(y) # <<>>
    <3>0. x \in Seq(Int) /\ y \in Seq(Int)
      BY <1>1 DEF x, y
    <3>1. WriteBytes(x) \in Seq(Int) /\ WriteBytes(y) \in Seq(Int) /\ Len(WriteBytes(x)) = Len(x) + 1
          /\ Len(x) \in Nat /\ Len(WriteBytes(y)) \in Nat
      BY <3>0, WrittenType, SMTT(30)
    <3>2. Len(WriteBytes(x) \o WriteBytes(y)) = Len(WriteBytes(x)) + Len(WriteBytes(y))
      BY <3>1, ConcatParts
    <3>3. Len(WriteBytes(x) \o WriteBytes(y)) # 0
      BY <3>1, <3>2
    <3> QED
      BY <3>3
  <2> QED
    BY <2>1, <2>2, <2>8, <2>9, <2>10
<1>6. ASSUME t \in DOMAIN SavedKeys
      PROVE  /\ SaysNothing(t, m) => SavedBlock(t, m) = <<>>
             /\ ~SaysNothing(t, m) =>
                  /\ b \in Whole /\ BlockBody(b) = SavedBlock(t, m) /\ SavedBlock(t, m) # <<>>
  <2> DEFINE vs == ValuesFor(t, m)
  <2>1. /\ t \notin PairTypes /\ t # lskWebviewTokens /\ t \in DOMAIN KeyFields
        /\ t # lskSelfSerialized /\ t \notin LegacyArrays
        /\ t # lskDraft /\ t # lskDraftPosition /\ t # lskBotStorages
    BY <1>6, SavedTypesApart, SavedAsRead
  <2>2. /\ vs \in Seq(Uint64) /\ Len(vs) = Len(KeyFields[t])
        /\ DOMAIN vs = DOMAIN SavedKeys[t]
        /\ \A i \in DOMAIN SavedKeys[t] : vs[i] = m.keys[SavedKeys[t][i]]
    BY <1>6, ValuesType
  <2>3. SavedBlock(t, m) = IF \A i \in DOMAIN vs : vs[i] = Zero64 THEN <<>> ELSE U64Words(vs)
    BY <1>6, <2>1 DEF SavedBlock, ValuesFor
  <2> HIDE DEF vs
  <2>4. SaysNothing(t, m) <=> \A i \in DOMAIN vs : vs[i] = Zero64
    BY <1>6, <2>1, <2>2 DEF SaysNothing
  <2>5. b.keys = vs /\ b.pairs = <<>> /\ b.tokens = <<>>
    BY <1>0, <1>6, <2>1 DEF vs
  <2>6. b \in Block
    BY <1>0, <1>2, <1>3, <2>2, <2>5 DEF Block, Pair
  <2>7. IsWhole(b)
    BY <1>0, <2>1, <2>2, <2>5 DEF IsWhole
  <2>8. b \in Whole
    BY <1>0, <1>2, <2>6, <2>7 DEF Whole
  <2>9. BlockBody(b) = U64Words(vs)
    BY <1>0, <2>1, <2>5 DEF BlockBody
  <2>10. ~SaysNothing(t, m) => U64Words(vs) # <<>>
    <3> SUFFICES ASSUME ~SaysNothing(t, m) PROVE U64Words(vs) # <<>>
      OBVIOUS
    <3>1. \E i \in DOMAIN vs : TRUE
      BY <2>4
    <3>2. Len(vs) \in Nat /\ Len(vs) # 0
      BY <2>2, <3>1
    <3>3. U64Words(vs) \in Seq(Int) /\ Len(U64Words(vs)) = 2 * Len(vs)
      BY <2>2, U64Type
    <3>4. Len(U64Words(vs)) # 0
      BY <3>2, <3>3
    <3> QED
      BY <3>4
  <2> QED
    BY <2>3, <2>4, <2>8, <2>9, <2>10
<1> QED
  BY <1>0, <1>4, <1>5, <1>6 DEF SavedTypes, b

(***************************************************************************)
(* What the blocks say that are written                                    *)
(***************************************************************************)

\* What the blocks of the types in W keep of a map.
Part(m, W) ==
  [keys |-> [f \in KeyNames |-> IF \E t \in W : IsKeyOf(t, f) THEN m.keys[f] ELSE Zero64],
   drafts |-> IF lskDraft \in W THEN m.drafts ELSE NoPairs,
   cursors |-> IF lskDraftPosition \in W THEN m.cursors ELSE NoPairs,
   botStorages |-> IF lskBotStorages \in W THEN m.botStorages ELSE NoPairs,
   tokenBots |-> IF lskWebviewTokens \in W THEN m.tokenBots ELSE <<>>,
   tokenOther |-> IF lskWebviewTokens \in W THEN m.tokenOther ELSE <<>>]

\* A map that says what m says as far as the types W go, and nothing else.
IsPart(p, m, W) ==
  /\ \A f \in KeyNames :
       p.keys[f] = IF \E t \in W : IsKeyOf(t, f) THEN m.keys[f] ELSE Zero64
  /\ p.drafts = IF lskDraft \in W THEN m.drafts ELSE NoPairs
  /\ p.cursors = IF lskDraftPosition \in W THEN m.cursors ELSE NoPairs
  /\ p.botStorages = IF lskBotStorages \in W THEN m.botStorages ELSE NoPairs
  /\ p.tokenBots = IF lskWebviewTokens \in W THEN m.tokenBots ELSE <<>>
  /\ p.tokenOther = IF lskWebviewTokens \in W THEN m.tokenOther ELSE <<>>

\* A part of a map is a map, field by field.
LEMMA PartRecord ==
  ASSUME NEW m, NEW W
  PROVE  IsPart(Part(m, W), m, W)
BY DEF Part, IsPart

\* A map that agrees in every field.
SameMap(a, b) ==
  /\ \A f \in KeyNames : a.keys[f] = b.keys[f]
  /\ a.drafts = b.drafts /\ a.cursors = b.cursors /\ a.botStorages = b.botStorages
  /\ a.tokenBots = b.tokenBots /\ a.tokenOther = b.tokenOther

\* A record with the fields of a map.
IsMapRecord(a) ==
  /\ a.keys = [f \in KeyNames |-> a.keys[f]]
  /\ a = [keys |-> a.keys, drafts |-> a.drafts, cursors |-> a.cursors,
          botStorages |-> a.botStorages, tokenBots |-> a.tokenBots, tokenOther |-> a.tokenOther]

\* Maps that agree in every field are equal.
LEMMA Same ==
  ASSUME NEW a, NEW b, IsMapRecord(a), IsMapRecord(b), SameMap(a, b)
  PROVE  a = b
<1>1. a.keys = b.keys
  BY DEF IsMapRecord, SameMap
<1> QED
  BY <1>1 DEF IsMapRecord, SameMap

\* The meaning of blocks and the parts of a map have the fields of a map.
LEMMA Records ==
  ASSUME NEW m, NEW W, NEW bs
  PROVE  IsMapRecord(Part(m, W)) /\ IsMapRecord(Meaning(bs))
<1>1. IsMapRecord(Part(m, W))
  BY DEF IsMapRecord, Part
<1>2. IsMapRecord(Meaning(bs))
  BY DEF IsMapRecord, Meaning
<1> QED
  BY <1>1, <1>2

\* A block that says nothing can be left out.
LEMMA PartSkip ==
  ASSUME NEW m, NEW W, NEW t, SaysNothing(t, m)
  PROVE  Part(m, W \cup {t}) = Part(m, W)
<1>1. \A f \in KeyNames : IsKeyOf(t, f) => m.keys[f] = Zero64
  BY DEF IsKeyOf, SaysNothing
<1>2. /\ t = lskDraft => m.drafts = NoPairs
      /\ t = lskDraftPosition => m.cursors = NoPairs
      /\ t = lskBotStorages => m.botStorages = NoPairs
      /\ t = lskWebviewTokens => m.tokenBots = <<>> /\ m.tokenOther = <<>>
  BY SavedTypesApart DEF SaysNothing, PairTypes, PairsFor
<1> DEFINE a == Part(m, W \cup {t})
           b == Part(m, W)
<1>a. IsPart(a, m, W \cup {t}) /\ IsPart(b, m, W)
  BY PartRecord
<1> HIDE DEF a, b
<1>3. \A f \in KeyNames : a.keys[f] = b.keys[f]
  <2> SUFFICES ASSUME NEW f \in KeyNames PROVE a.keys[f] = b.keys[f]
    OBVIOUS
  <2>1. a.keys[f] = IF \E u \in W \cup {t} : IsKeyOf(u, f) THEN m.keys[f] ELSE Zero64
    BY <1>a DEF IsPart
  <2>2. b.keys[f] = IF \E u \in W : IsKeyOf(u, f) THEN m.keys[f] ELSE Zero64
    BY <1>a DEF IsPart
  <2> QED
    BY <1>1, <2>1, <2>2
<1>4. /\ a.drafts = b.drafts /\ a.cursors = b.cursors /\ a.botStorages = b.botStorages
      /\ a.tokenBots = b.tokenBots /\ a.tokenOther = b.tokenOther
  BY <1>2, <1>a DEF IsPart
<1>5. IsMapRecord(a) /\ IsMapRecord(b)
  BY Records DEF a, b
<1>6. a = b
  BY <1>3, <1>4, <1>5, Same DEF SameMap
<1> QED
  BY <1>6 DEF a, b

\* A block that is written adds what it holds.
LEMMA PartAdd ==
  ASSUME NEW m \in Maps, NEW W, NEW t \in SavedTypes, ~SaysNothing(t, m),
         NEW bs \in Seq(Whole), Meaning(bs) = Part(m, W)
  PROVE  Meaning(Append(bs, BlockFor(t, m))) = Part(m, W \cup {t})
<1> DEFINE c == BlockFor(t, m)
           a == Meaning(Append(bs, c))
           b == Part(m, W \cup {t})
           old == Meaning(bs)
<1>0. c \in Whole /\ c.type = t
  BY SavedBlockIs
<1>a. IsPart(b, m, W \cup {t})
  BY PartRecord
<1>b. IsPart(old, m, W)
  BY PartRecord
<1>c. IsMapRecord(a) /\ IsMapRecord(b)
  BY Records
<1>1. bs \in Seq(Block) /\ c \in Block
  BY <1>0 DEF Whole
<1>2. /\ t \in DOMAIN SavedKeys => c.keys = ValuesFor(t, m)
      /\ t \in PairTypes => c.pairs = WrittenPairs(PairsFor(t, m))
      /\ t = lskWebviewTokens => c.tokens = <<m.tokenBots, m.tokenOther>>
  BY DEF BlockFor
<1> HIDE DEF c, b
<1>3. \A f \in KeyNames : a.keys[f] = b.keys[f]
  <2> SUFFICES ASSUME NEW f \in KeyNames PROVE a.keys[f] = b.keys[f]
    OBVIOUS
  <2>1. b.keys[f] = IF \E u \in W \cup {t} : IsKeyOf(u, f) THEN m.keys[f] ELSE Zero64
    BY <1>a DEF IsPart
  <2>2. old.keys[f] = IF \E u \in W : IsKeyOf(u, f) THEN m.keys[f] ELSE Zero64
    BY <1>b DEF IsPart
  <2>3. a.keys[f] = IF CarriesKey(c, f) THEN KeyIn(c, f) ELSE old.keys[f]
    <3>1. KeyValue(Append(bs, c), f) = IF CarriesKey(c, f) THEN KeyIn(c, f) ELSE KeyValue(bs, f)
      BY <1>1, KeyValueAppend
    <3> QED
      BY <3>1 DEF Meaning
  <2> HIDE DEF a, old
  <2>4. CASE t \in DOMAIN SavedKeys
    <3> DEFINE names == SavedKeys[t]
    <3>1. /\ t \in DOMAIN KeyFields /\ names = KeyFields[t]
          /\ c.keys = ValuesFor(t, m) /\ DOMAIN c.keys = DOMAIN names
          /\ \A i \in DOMAIN names : c.keys[i] = m.keys[names[i]]
      BY <1>2, <2>4, SavedAsRead, ValuesType
    <3> HIDE DEF names
    <3>2. CarriesKey(c, f) <=> \E j \in DOMAIN names : names[j] = f
      BY <1>0, <3>1 DEF CarriesKey
    <3>3. IsKeyOf(t, f) <=> \E j \in DOMAIN names : names[j] = f
      BY <2>4 DEF IsKeyOf, names
    <3>4. CASE \E j \in DOMAIN names : names[j] = f
      <4>1. KeyIn(c, f) = m.keys[f]
        <5> DEFINE j == CHOOSE i \in DOMAIN c.keys : KeyFields[c.type][i] = f
        <5>1. j \in DOMAIN names /\ names[j] = f
          BY <1>0, <3>1, <3>4
        <5>2. KeyIn(c, f) = c.keys[j]
          BY DEF KeyIn
        <5> HIDE DEF j
        <5> QED
          BY <3>1, <5>1, <5>2
      <4> QED
        BY <2>1, <2>3, <3>2, <3>3, <3>4, <4>1
    <3>5. CASE ~\E j \in DOMAIN names : names[j] = f
      BY <2>1, <2>2, <2>3, <3>2, <3>3, <3>5
    <3> QED
      BY <3>4, <3>5
  <2>5. CASE t \notin DOMAIN SavedKeys
    <3>1. t \in PairTypes \/ t = lskWebviewTokens
      BY <2>5 DEF SavedTypes
    <3>2. t \notin DOMAIN KeyFields
      BY <3>1, PairTypesApart, KeyTypesApart
    <3>3. ~CarriesKey(c, f)
      BY <1>0, <3>2 DEF CarriesKey
    <3>4. ~IsKeyOf(t, f)
      BY <2>5 DEF IsKeyOf
    <3> QED
      BY <2>1, <2>2, <2>3, <3>3, <3>4
  <2> QED
    BY <2>4, <2>5
<1>4. a.tokenBots = b.tokenBots /\ a.tokenOther = b.tokenOther
  <2>1. /\ a.tokenBots = IF t = lskWebviewTokens THEN c.tokens[1] ELSE old.tokenBots
        /\ a.tokenOther = IF t = lskWebviewTokens THEN c.tokens[2] ELSE old.tokenOther
    <3>1. \A which \in {1, 2} : TokenValue(Append(bs, c), which) =
             IF t = lskWebviewTokens THEN c.tokens[which] ELSE TokenValue(bs, which)
      BY <1>0, <1>1, TokenValueAppend
    <3> QED
      BY <3>1 DEF Meaning
  <2>2. /\ old.tokenBots = IF lskWebviewTokens \in W THEN m.tokenBots ELSE <<>>
        /\ old.tokenOther = IF lskWebviewTokens \in W THEN m.tokenOther ELSE <<>>
    BY <1>b DEF IsPart
  <2>3. /\ b.tokenBots = IF lskWebviewTokens \in W \cup {t} THEN m.tokenBots ELSE <<>>
        /\ b.tokenOther = IF lskWebviewTokens \in W \cup {t} THEN m.tokenOther ELSE <<>>
    BY <1>a DEF IsPart
  <2>4. t = lskWebviewTokens => c.tokens[1] = m.tokenBots /\ c.tokens[2] = m.tokenOther
    BY <1>2
  <2> HIDE DEF a, old
  <2> QED
    BY <2>1, <2>2, <2>3, <2>4
<1>5. ASSUME NEW u \in PairTypes
      PROVE  PairsValue(Append(bs, c), u) = IF u \in W \cup {t} THEN PairsFor(u, m) ELSE NoPairs
  <2>1. /\ PairsOf(bs, u) \in Seq(ReadPair)
        /\ PairsValue(bs, u) = Latest(PairsOf(bs, u))
        /\ PairsValue(Append(bs, c), u) =
             IF t = u THEN Latest(PairsOf(bs, u) \o c.pairs) ELSE PairsValue(bs, u)
    BY <1>0, PairsValueAppend
  <2>2. PairsValue(bs, u) = IF u \in W THEN PairsFor(u, m) ELSE NoPairs
    <3>1. u = lskDraft \/ u = lskDraftPosition \/ u = lskBotStorages
      BY DEF PairTypes
    <3>2. /\ old.drafts = PairsValue(bs, lskDraft)
          /\ old.cursors = PairsValue(bs, lskDraftPosition)
          /\ old.botStorages = PairsValue(bs, lskBotStorages)
      BY DEF Meaning
    <3>3. /\ old.drafts = IF lskDraft \in W THEN m.drafts ELSE NoPairs
          /\ old.cursors = IF lskDraftPosition \in W THEN m.cursors ELSE NoPairs
          /\ old.botStorages = IF lskBotStorages \in W THEN m.botStorages ELSE NoPairs
      BY <1>b DEF IsPart
    <3> HIDE DEF old
    <3> QED
      BY <3>1, <3>2, <3>3, SavedTypesApart DEF PairsFor
  <2>3. CASE t = u
    <3> DEFINE f == PairsFor(u, m)
               before == PairsOf(bs, u)
    <3>1. f \in PairMaps
      BY MapsParts
    <3>2. DOMAIN Latest(before) \subseteq DOMAIN f
      <4>1. DOMAIN NoPairs = {}
        BY DEF NoPairs
      <4> HIDE DEF f
      <4> QED
        BY <2>1, <2>2, <4>1 DEF f
    <3>3. c.pairs = WrittenPairs(f)
      BY <1>2, <2>3
    <3> HIDE DEF f, before
    <3>4. before \in Seq(ReadPair)
      BY <2>1 DEF before
    <3>5. Latest(before \o WrittenPairs(f)) = f
      BY <3>1, <3>2, <3>4, LatestWritten
    <3> QED
      BY <2>1, <2>3, <3>3, <3>5 DEF f, before
  <2>4. CASE t # u
    BY <2>1, <2>2, <2>4
  <2> QED
    BY <2>3, <2>4
<1>6. a.drafts = b.drafts /\ a.cursors = b.cursors /\ a.botStorages = b.botStorages
  <2>1. lskDraft \in PairTypes /\ lskDraftPosition \in PairTypes /\ lskBotStorages \in PairTypes
    BY DEF PairTypes
  <2>2. /\ a.drafts = PairsValue(Append(bs, c), lskDraft)
        /\ a.cursors = PairsValue(Append(bs, c), lskDraftPosition)
        /\ a.botStorages = PairsValue(Append(bs, c), lskBotStorages)
    BY DEF Meaning
  <2>3. /\ PairsFor(lskDraft, m) = m.drafts /\ PairsFor(lskDraftPosition, m) = m.cursors
        /\ PairsFor(lskBotStorages, m) = m.botStorages
    BY SavedTypesApart DEF PairsFor
  <2>4. /\ b.drafts = IF lskDraft \in W \cup {t} THEN m.drafts ELSE NoPairs
        /\ b.cursors = IF lskDraftPosition \in W \cup {t} THEN m.cursors ELSE NoPairs
        /\ b.botStorages = IF lskBotStorages \in W \cup {t} THEN m.botStorages ELSE NoPairs
    BY <1>a DEF IsPart
  <2> HIDE DEF a
  <2> QED
    BY <1>5, <2>1, <2>2, <2>3, <2>4
<1> QED
  <2>1. SameMap(a, b)
    BY <1>3, <1>4, <1>6 DEF SameMap
  <2> HIDE DEF a
  <2>2. a = b
    BY <1>c, <2>1, Same
  <2> QED
    BY <2>2 DEF a, b, c

(***************************************************************************)
(* A map is written block by block                                         *)
(***************************************************************************)

\* SavedOrder holds every saved type.
LEMMA OrderIs ==
  /\ SavedOrder \in Seq(Int) /\ Len(SavedOrder) = 20 /\ DOMAIN SavedOrder = 1 .. 20
  /\ \A i \in 1 .. 20 : SavedOrder[i] \in SavedTypes
  /\ \A t \in SavedTypes : \E i \in 1 .. 20 : SavedOrder[i] = t
<1>1. SavedOrder \in Seq(Int) /\ Len(SavedOrder) = 20 /\ DOMAIN SavedOrder = 1 .. 20
  BY DEF SavedOrder, lskDraft, lskDraftPosition, lskWebviewTokens, lskBotStorages
<1>2. SavedTypes = {1, 2, 4, 7, 9, 10, 15, 16, 17, 18, 19, 22, 23, 24, 25, 26, 27, 28, 29, 30}
  BY DEF SavedTypes, SavedKeys, PairTypes, lskDraft, lskDraftPosition, lskWebviewTokens,
         lskBotStorages
<1>3. /\ SavedOrder[1] = 1 /\ SavedOrder[2] = 2 /\ SavedOrder[3] = 4 /\ SavedOrder[4] = 17
      /\ SavedOrder[5] = 7 /\ SavedOrder[6] = 16 /\ SavedOrder[7] = 18 /\ SavedOrder[8] = 15
      /\ SavedOrder[9] = 9 /\ SavedOrder[10] = 10
  BY DEF SavedOrder, lskDraft, lskDraftPosition, lskWebviewTokens, lskBotStorages
<1>4. /\ SavedOrder[11] = 19 /\ SavedOrder[12] = 22 /\ SavedOrder[13] = 23 /\ SavedOrder[14] = 24
      /\ SavedOrder[15] = 25 /\ SavedOrder[16] = 26 /\ SavedOrder[17] = 27 /\ SavedOrder[18] = 28
      /\ SavedOrder[19] = 29 /\ SavedOrder[20] = 30
  BY DEF SavedOrder, lskDraft, lskDraftPosition, lskWebviewTokens, lskBotStorages
<1>5. \A i \in 1 .. 20 : i \in 1 .. 10 \/ i \in 11 .. 20
  OBVIOUS
<1>6. \A i \in 1 .. 10 : SavedOrder[i] \in SavedTypes
  BY <1>2, <1>3
<1>7. \A i \in 11 .. 20 : SavedOrder[i] \in SavedTypes
  BY <1>2, <1>4
<1>8. \A t \in SavedTypes : \E i \in 1 .. 20 : SavedOrder[i] = t
  BY <1>2, <1>3, <1>4
<1> QED
  BY <1>1, <1>5, <1>6, <1>7, <1>8

\* The words of the map, block after block.
Segment(t, m) == IF SavedBlock(t, m) = <<>> THEN <<>> ELSE <<t>> \o SavedBlock(t, m)
Segments(m) == [i \in 1 .. 20 |-> Segment(SavedOrder[i], m)]

\* What is written for a type is its block, or nothing.
LEMMA SegmentIs ==
  ASSUME NEW m \in Maps, NEW t \in SavedTypes
  PROVE  /\ Segment(t, m) \in Seq(Int)
         /\ SaysNothing(t, m) => Segment(t, m) = <<>>
         /\ ~SaysNothing(t, m) =>
              Segment(t, m) = BlockWords(BlockFor(t, m)) /\ Segment(t, m) # <<>>
<1>1. CASE SaysNothing(t, m)
  <2>1. Segment(t, m) = <<>>
    BY <1>1, SavedBlockIs DEF Segment
  <2> QED
    BY <1>1, <2>1
<1>2. CASE ~SaysNothing(t, m)
  <2> DEFINE b == BlockFor(t, m)
  <2>1. b \in Whole /\ b.type = t /\ BlockBody(b) = SavedBlock(t, m) /\ SavedBlock(t, m) # <<>>
    BY <1>2, SavedBlockIs
  <2> HIDE DEF b
  <2>2. Segment(t, m) = BlockWords(b)
    BY <2>1 DEF Segment, BlockWords
  <2>3. b \in Block /\ IsWhole(b) /\ b.type \in Int
    BY <2>1, WholeParts DEF Whole
  <2>4. BlockWords(b) \in Seq(Int) /\ BlockBody(b) \in Seq(Int)
    BY <2>3, BlockType
  <2>5. BlockWords(b) # <<>>
    BY <2>3, <2>4, OneWord DEF BlockWords
  <2> QED
    BY <1>2, <2>2, <2>4, <2>5 DEF b
<1> QED
  BY <1>1, <1>2

\* The words of a map are its segments in order.
LEMMA SegmentsType ==
  ASSUME NEW m \in Maps
  PROVE  /\ Segments(m) \in Seq(Seq(Int)) /\ Len(Segments(m)) = 20
         /\ \A i \in 1 .. 20 : Segments(m)[i] = Segment(SavedOrder[i], m)
         /\ MapWords(m) = FlattenSeq(Segments(m))
<1>1. \A i \in 1 .. 20 : Segment(SavedOrder[i], m) \in Seq(Int)
  BY OrderIs, SegmentIs
<1>2. Segments(m) \in Seq(Seq(Int)) /\ Len(Segments(m)) = 20
  BY <1>1 DEF Segments
<1>3. \A i \in 1 .. 20 : Segments(m)[i] = Segment(SavedOrder[i], m)
  BY DEF Segments
<1>4. [i \in DOMAIN SavedOrder |->
        LET block == SavedBlock(SavedOrder[i], m)
        IN  IF block = <<>> THEN <<>> ELSE <<SavedOrder[i]>> \o block] = Segments(m)
  BY OrderIs DEF Segments, Segment
<1> QED
  BY <1>2, <1>3, <1>4 DEF MapWords

\* The words of one more block.
LEMMA OneMoreBlock ==
  ASSUME NEW bs \in Seq(Whole), NEW b \in Whole
  PROVE  /\ BlockList(bs) \in Seq(Seq(Int)) /\ BlockWords(b) \in Seq(Int)
         /\ FlattenSeq(BlockList(Append(bs, b))) = FlattenSeq(BlockList(bs)) \o BlockWords(b)
         /\ Append(bs, b) \in Seq(Whole)
<1>1. \A c \in Whole : BlockWords(c) \in Seq(Int)
  <2> SUFFICES ASSUME NEW c \in Whole PROVE BlockWords(c) \in Seq(Int)
    OBVIOUS
  <2>1. c \in Block /\ IsWhole(c)
    BY DEF Whole
  <2> QED
    BY <2>1, BlockType
<1>2. BlockList(bs) \in Seq(Seq(Int)) /\ Len(BlockList(bs)) = Len(bs) /\ Len(bs) \in Nat
  <2>1. DOMAIN bs = 1 .. Len(bs) /\ Len(bs) \in Nat /\ \A i \in DOMAIN bs : bs[i] \in Whole
    OBVIOUS
  <2> QED
    BY <1>1, <2>1 DEF BlockList
<1>3. BlockList(Append(bs, b)) = Append(BlockList(bs), BlockWords(b))
  <2> DEFINE x == BlockList(Append(bs, b))
             y == Append(BlockList(bs), BlockWords(b))
             n == Len(bs)
  <2>1. bs \in Seq(Block) /\ b \in Block
    BY WholeParts DEF Whole
  <2>2. /\ n \in Nat /\ DOMAIN bs = 1 .. n /\ DOMAIN Append(bs, b) = 1 .. n + 1
        /\ \A i \in 1 .. n : Append(bs, b)[i] = bs[i]
        /\ Append(bs, b)[n + 1] = b
    BY <2>1, OneBlock
  <2>3. /\ DOMAIN y = 1 .. n + 1 /\ y[n + 1] = BlockWords(b)
        /\ \A i \in 1 .. n : y[i] = BlockList(bs)[i]
    BY <1>1, <1>2
  <2>4. y = [i \in 1 .. n + 1 |-> y[i]]
    <3>1. y \in Seq(Seq(Int)) /\ Len(y) = n + 1
      BY <1>1, <1>2
    <3> HIDE DEF y
    <3> QED
      BY <3>1
  <2>5. \A i \in 1 .. n : BlockList(bs)[i] = BlockWords(bs[i])
    BY <2>2 DEF BlockList
  <2> HIDE DEF n, y
  <2>6. x = [i \in 1 .. n + 1 |-> BlockWords(Append(bs, b)[i])]
    BY <2>2 DEF BlockList
  <2>7. \A i \in 1 .. n + 1 : BlockWords(Append(bs, b)[i]) = y[i]
    <3> SUFFICES ASSUME NEW i \in 1 .. n + 1 PROVE BlockWords(Append(bs, b)[i]) = y[i]
      OBVIOUS
    <3>1. i \in 1 .. n \/ i = n + 1
      BY <2>2
    <3> QED
      BY <2>2, <2>3, <2>5, <3>1
  <2>8. x = [i \in 1 .. n + 1 |-> y[i]]
    BY <2>6, <2>7
  <2> QED
    BY <2>4, <2>8 DEF y
<1>4. FlattenSeq(Append(BlockList(bs), BlockWords(b))) = FlattenSeq(BlockList(bs)) \o BlockWords(b)
  BY <1>1, <1>2, FlattenAppend
<1> QED
  BY <1>1, <1>2, <1>3, <1>4

\* What has been written after i of the blocks.
FirstTypes(i) == {SavedOrder[j] : j \in 1 .. i}
Wrote(bs, m, i) ==
  /\ bs \in Seq(Whole)
  /\ FlattenSeq(BlockList(bs)) = FlattenSeq(SubSeq(Segments(m), 1, i))
  /\ Meaning(bs) = Part(m, FirstTypes(i))
CanWrite(m, i) == \E bs : Wrote(bs, m, i)

\* Before the first type nothing is written, and nothing is meant.
LEMMA WroteNothing ==
  ASSUME NEW m \in Maps
  PROVE  CanWrite(m, 0)
<1>1. FirstTypes(0) = {} /\ SubSeq(Segments(m), 1, 0) = <<>>
  <2>1. Segments(m) \in Seq(Seq(Int))
    BY SegmentsType
  <2> QED
    BY <2>1 DEF FirstTypes
<1>2. Part(m, {}) = EmptyMap
  <2>1. [f \in KeyNames |-> IF \E t \in {} : IsKeyOf(t, f) THEN m.keys[f] ELSE Zero64]
          = [f \in KeyNames |-> Zero64]
    OBVIOUS
  <2> QED
    BY <2>1 DEF Part, EmptyMap
<1>3. BlockList(<<>>) = <<>> /\ <<>> \in Seq(Whole)
  BY DEF BlockList
<1>4. Wrote(<<>>, m, 0)
  BY <1>1, <1>2, <1>3, NothingKnown DEF Wrote
<1> QED
  BY <1>4 DEF CanWrite

\* One more type adds its block and what the map says of it.
LEMMA WroteOne ==
  ASSUME NEW m \in Maps, NEW i \in 1 .. 20, CanWrite(m, i - 1)
  PROVE  CanWrite(m, i)
<1> DEFINE t == SavedOrder[i]
           ss == Segments(m)
<1>1. PICK bs : Wrote(bs, m, i - 1)
  BY DEF CanWrite
<1>2. /\ bs \in Seq(Whole)
      /\ FlattenSeq(BlockList(bs)) = FlattenSeq(SubSeq(ss, 1, i - 1))
      /\ Meaning(bs) = Part(m, FirstTypes(i - 1))
  BY <1>1 DEF Wrote
<1>3. t \in SavedTypes
  BY OrderIs
<1>4. FirstTypes(i) = FirstTypes(i - 1) \cup {t}
  <2>1. \A j : j \in 1 .. i <=> j \in 1 .. i - 1 \/ j = i
    OBVIOUS
  <2> QED
    BY <2>1 DEF FirstTypes
<1>5. /\ SubSeq(ss, 1, i) = Append(SubSeq(ss, 1, i - 1), ss[i])
      /\ SubSeq(ss, 1, i - 1) \in Seq(Seq(Int))
      /\ ss[i] = Segment(t, m) /\ Segment(t, m) \in Seq(Int)
  <2>1. ss \in Seq(Seq(Int)) /\ i \in 1 .. Len(ss) /\ ss[i] = Segment(t, m)
    BY SegmentsType
  <2>2. Segment(t, m) \in Seq(Int)
    BY <1>3, SegmentIs
  <2> HIDE DEF ss, t
  <2>3. SubSeq(ss, 1, i) = Append(SubSeq(ss, 1, i - 1), ss[i]) /\ SubSeq(ss, 1, i - 1) \in Seq(Seq(Int))
    BY <2>1, FirstBlocks
  <2> QED
    BY <2>1, <2>2, <2>3
<1> HIDE DEF t, ss
<1>6. FlattenSeq(SubSeq(ss, 1, i)) = FlattenSeq(SubSeq(ss, 1, i - 1)) \o Segment(t, m)
      /\ FlattenSeq(SubSeq(ss, 1, i - 1)) \in Seq(Int)
  BY <1>5, FlattenAppend
<1>7. CASE SaysNothing(t, m)
  <2>1. Segment(t, m) = <<>>
    BY <1>3, <1>7, SegmentIs
  <2>2. FlattenSeq(SubSeq(ss, 1, i)) = FlattenSeq(SubSeq(ss, 1, i - 1))
    BY <1>6, <2>1
  <2>3. Part(m, FirstTypes(i)) = Part(m, FirstTypes(i - 1))
    BY <1>4, <1>7, PartSkip
  <2>4. Wrote(bs, m, i)
    BY <1>2, <2>2, <2>3 DEF Wrote, ss
  <2> QED
    BY <2>4 DEF CanWrite
<1>8. CASE ~SaysNothing(t, m)
  <2> DEFINE c == BlockFor(t, m)
  <2>1. c \in Whole /\ Segment(t, m) = BlockWords(c)
    BY <1>3, <1>8, SavedBlockIs, SegmentIs
  <2>2. Meaning(Append(bs, c)) = Part(m, FirstTypes(i))
    BY <1>2, <1>3, <1>4, <1>8, PartAdd
  <2> HIDE DEF c
  <2>3. /\ FlattenSeq(BlockList(Append(bs, c))) = FlattenSeq(BlockList(bs)) \o BlockWords(c)
        /\ Append(bs, c) \in Seq(Whole)
    BY <1>2, <2>1, OneMoreBlock
  <2>4. Wrote(Append(bs, c), m, i)
    BY <1>2, <1>6, <2>1, <2>2, <2>3 DEF Wrote, ss
  <2> QED
    BY <2>4 DEF CanWrite
<1> QED
  BY <1>7, <1>8

\* All of the blocks: the map, without the keys that are not written.
LEMMA PartAll ==
  ASSUME NEW m \in Maps
  PROVE  Part(m, FirstTypes(20)) = Saved(m)
<1> DEFINE W == FirstTypes(20)
           p == Part(m, W)
           q == Saved(m)
<1>1. W = SavedTypes
  BY OrderIs DEF FirstTypes
<1>2. lskDraft \in W /\ lskDraftPosition \in W /\ lskBotStorages \in W /\ lskWebviewTokens \in W
  BY <1>1 DEF SavedTypes, PairTypes
<1>3. \A f \in KeyNames \ LegacyKeys : \E t \in W : IsKeyOf(t, f)
  BY <1>1, EveryKeySaved DEF SavedTypes
<1>4. \A f \in LegacyKeys, t \in W : ~IsKeyOf(t, f)
  BY SavedKeyNames DEF IsKeyOf, AreSaved
<1>5. IsPart(p, m, W) /\ IsMapRecord(p)
  BY PartRecord, Records
<1> HIDE DEF W, p
<1>6. m.keys = [f \in KeyNames |-> m.keys[f]]
  BY DEF Maps
<1> DEFINE K == [[m.keys EXCEPT !["legacyBackgroundDay"] = Zero64]
                   EXCEPT !["legacyBackgroundNight"] = Zero64]
           r == [m EXCEPT !.keys = K]
<1>7. q = r
  BY DEF Saved
<1>8. K = [f \in KeyNames |-> IF f \in LegacyKeys THEN Zero64 ELSE m.keys[f]]
  BY <1>6 DEF LegacyKeys
<1> HIDE DEF K
<1>13. r = [keys |-> K, drafts |-> m.drafts, cursors |-> m.cursors, botStorages |-> m.botStorages,
            tokenBots |-> m.tokenBots, tokenOther |-> m.tokenOther]
  BY DEF Maps
<1> HIDE DEF q
<1>9. \A f \in KeyNames : p.keys[f] = q.keys[f]
  BY <1>3, <1>4, <1>5, <1>7, <1>8, <1>13 DEF IsPart
<1>10. SameMap(p, q)
  BY <1>2, <1>5, <1>7, <1>9, <1>13 DEF IsPart, SameMap
<1>11. IsMapRecord(q)
  BY <1>7, <1>8, <1>13 DEF IsMapRecord
<1>12. p = q
  BY <1>5, <1>10, <1>11, Same
<1> QED
  BY <1>12 DEF p, q, W

\* What is written is a map of whole blocks, and means what was saved.
LEMMA SavedMap ==
  ASSUME NEW m \in Maps
  PROVE  \E bs \in Seq(Whole) :
           FlattenSeq(BlockList(bs)) = MapWords(m) /\ Meaning(bs) = Saved(m)
<1> DEFINE S == {i \in 0 .. 20 : CanWrite(m, i)}
<1>1. 0 \in S
  BY WroteNothing
<1>2. \A i \in 1 .. 20 : i - 1 \in S => i \in S
  BY WroteOne
<1> HIDE DEF S
<1>3. \A i \in 0 .. 20 : i \in S
  BY <1>1, <1>2, BoundedInduction
<1>4. CanWrite(m, 20)
  BY <1>3 DEF S
<1>5. PICK bs : Wrote(bs, m, 20)
  BY <1>4 DEF CanWrite
<1>6. SubSeq(Segments(m), 1, 20) = Segments(m)
  BY SegmentsType
<1> QED
  BY <1>5, <1>6, SegmentsType, PartAll DEF Wrote

(***************************************************************************)
(* The size of a map, and its file                                         *)
(***************************************************************************)

\* Every block takes some room.
LEMMA BlockSizeType ==
  ASSUME NEW m \in Maps, NEW t \in SavedTypes
  PROVE  BlockSize(t, m) \in Nat \ {0}
<1>1. /\ Cardinality(DOMAIN m.drafts) \in Nat /\ Cardinality(DOMAIN m.cursors) \in Nat
      /\ Cardinality(DOMAIN m.botStorages) \in Nat
  <2>1. \A f \in PairMaps : IsFiniteSet(DOMAIN f)
    BY DEF PairMaps
  <2> QED
    BY <2>1, MapsParts, FS_CardinalityType
<1>2. Len(m.tokenBots) \in Nat /\ Len(m.tokenOther) \in Nat
  BY MapsParts
<1>3. CASE t \in PairTypes
  <2>1. t = lskDraft \/ t = lskDraftPosition \/ t = lskBotStorages
    BY <1>3 DEF PairTypes
  <2>2. \/ BlockSize(t, m) = 8 + 16 * Cardinality(DOMAIN m.drafts)
        \/ BlockSize(t, m) = 8 + 16 * Cardinality(DOMAIN m.cursors)
        \/ BlockSize(t, m) = 8 + 16 * Cardinality(DOMAIN m.botStorages)
    BY <1>3, <2>1, SavedTypesApart DEF BlockSize
  <2> QED
    BY <1>1, <2>2
<1>4. CASE t = lskWebviewTokens
  <2>1. BlockSize(t, m) = 12 + 4 * Len(m.tokenBots) + 4 * Len(m.tokenOther)
    BY <1>4, SavedTypesApart DEF BlockSize
  <2> DEFINE x == Len(m.tokenBots)
             y == Len(m.tokenOther)
  <2>2. x \in Nat /\ y \in Nat /\ BlockSize(t, m) = 12 + 4 * x + 4 * y
    BY <1>2, <2>1
  <2> HIDE DEF x, y
  <2> QED
    BY <2>2
<1>5. CASE t \in DOMAIN SavedKeys
  <2>1. BlockSize(t, m) = 4 + 8 * Len(SavedKeys[t])
    BY <1>5, SavedTypesApart DEF BlockSize
  <2>2. Len(SavedKeys[t]) \in Nat
    BY <1>5, ValuesType, SavedAsRead, KeyFieldsLists DEF IsList
  <2> QED
    BY <2>1, <2>2
<1> QED
  BY <1>3, <1>4, <1>5 DEF SavedTypes

\* The sum is 0 only when there is nothing to write.
LEMMA MapSizeType ==
  ASSUME NEW m \in Maps
  PROVE  /\ MapSize(m) \in Nat
         /\ MapSize(m) = 0 => \A i \in 1 .. 20 : SavedBlock(SavedOrder[i], m) = <<>>
<1> DEFINE Add(i) == IF SavedBlock(SavedOrder[i], m) = <<>> THEN 0 ELSE BlockSize(SavedOrder[i], m)
           F == [i \in 1 .. 20 |-> [n \in Nat |-> n + Add(i)]]
           Sums(g) == g = [i \in 0 .. 20 |-> IF i = 0 THEN 0 ELSE g[i - 1] + Add(i)]
<1>1. \A i \in 1 .. 20 : Add(i) \in Nat /\ (Add(i) = 0 => SavedBlock(SavedOrder[i], m) = <<>>)
  <2>1. \A i \in 1 .. 20 : BlockSize(SavedOrder[i], m) \in Nat \ {0}
    BY OrderIs, BlockSizeType
  <2> QED
    BY <2>1
<1> HIDE DEF Add
<1>2. F \in Turns(Nat, 20)
  <2>1. ASSUME NEW i \in 1 .. 20 PROVE [n \in Nat |-> n + Add(i)] \in [Nat -> Nat]
    <3> DEFINE a == Add(i)
    <3>1. a \in Nat
      BY <1>1
    <3> HIDE DEF a
    <3>2. [n \in Nat |-> n + a] \in [Nat -> Nat]
      BY <3>1
    <3> QED
      BY <3>2 DEF a
  <2> QED
    BY <2>1 DEF Turns
<1>3. PICK h : IsRun(h, Nat, 20, 0, F)
  <2> HIDE DEF F
  <2>1. 20 \in Nat /\ 0 \in Nat
    OBVIOUS
  <2> QED
    BY <1>2, <2>1, Recursion
<1>4. Sums(h)
  <2>1. h \in [0 .. 20 -> Nat] /\ h[0] = 0 /\ \A i \in 1 .. 20 : h[i] = F[i][h[i - 1]]
    BY <1>3 DEF IsRun
  <2>2. \A i \in 1 .. 20 : i - 1 \in 0 .. 20
    OBVIOUS
  <2>3. \A i \in 1 .. 20 : h[i] = h[i - 1] + Add(i)
    BY <2>1, <2>2
  <2>4. \A i \in 0 .. 20 : i = 0 \/ i \in 1 .. 20
    OBVIOUS
  <2> HIDE DEF F
  <2> QED
    BY <2>1, <2>3, <2>4
<1> DEFINE g == CHOOSE r : Sums(r)
<1>5. MapSize(m) = g[20]
  <2>1. Sized = SavedOrder
    BY DEF Sized, SavedOrder
  <2>2. Len(Sized) = 20
    BY <2>1, OrderIs
  <2> QED
    BY <2>1, <2>2 DEF MapSize, Add
<1>6. Sums(g)
  <2> HIDE DEF Sums
  <2> QED
    BY <1>4
<1> HIDE DEF g, F
<1>7. g[0] = 0 /\ \A i \in 1 .. 20 : g[i] = g[i - 1] + Add(i)
  BY <1>6
<1> DEFINE Done(i) == g[i] \in Nat /\ (g[i] = 0 => \A j \in 1 .. i : SavedBlock(SavedOrder[j], m) = <<>>)
           S == {i \in 0 .. 20 : Done(i)}
<1>8. 0 \in S
  BY <1>7
<1>9. ASSUME NEW i \in 1 .. 20, i - 1 \in S PROVE i \in S
  <2>1. Done(i - 1)
    BY <1>9
  <2>2. g[i] = g[i - 1] + Add(i) /\ Add(i) \in Nat /\ (Add(i) = 0 => SavedBlock(SavedOrder[i], m) = <<>>)
    BY <1>1, <1>7
  <2>3. g[i] \in Nat /\ (g[i] = 0 => g[i - 1] = 0 /\ Add(i) = 0)
    BY <2>1, <2>2
  <2>4. \A j \in 1 .. i : j \in 1 .. i - 1 \/ j = i
    OBVIOUS
  <2>5. Done(i)
    BY <2>1, <2>2, <2>3, <2>4
  <2> QED
    BY <2>5
<1> HIDE DEF S
<1>10. \A i \in 0 .. 20 : i \in S
  BY <1>8, <1>9, BoundedInduction
<1>11. Done(20)
  <2>1. 20 \in S
    BY <1>10
  <2> QED
    BY <2>1 DEF S
<1> QED
  BY <1>5, <1>11

\* The map that is written is the map that is read, an empty one included.
\* A file that opens, and holds these words.
Says(file, words) ==
  /\ DecryptLocal(file) = [ok |-> TRUE, words |-> words]
  /\ file # <<>> /\ Len(file) % WordsPerBlock = 0

\* A sealed file opens, and holds what was sealed.
LEMMA SealedSays ==
  ASSUME NEW w \in Seq(Int), NEW size \in Nat, size = 0 => w = <<>>
  PROVE  Says(PrepareEncrypted(EncryptedDescriptor(size, w)), w)
<1> DEFINE f == PrepareEncrypted(EncryptedDescriptor(size, w))
<1>1. DecryptLocal(f) = [ok |-> TRUE, words |-> w]
  BY SealedIsRead
<1>2. f \in Seq(Int) /\ Len(f) \in Len(w) + 1 .. Len(w) + 4 /\ Len(f) % WordsPerBlock = 0
  BY SealedShape
<1> HIDE DEF f
<1>3. Len(w) \in Nat
  OBVIOUS
<1>4. f # <<>>
  BY <1>2, <1>3
<1>5. Says(f, w)
  BY <1>1, <1>2, <1>4 DEF Says
<1> QED
  BY <1>5 DEF f

\* The file writeMap leaves opens and holds the words of the map: the size
\* prepareToWrite sums up is 0 only for a map that says nothing.
LEMMA SealedMap ==
  ASSUME NEW m \in Maps
  PROVE  /\ Says(PrepareEncrypted(prepareToWrite(m)), MapWords(m))
         /\ MapWords(m) \in Seq(Int)
<1> DEFINE w == MapWords(m)
           size == MapSize(m)
<1>1. w \in Seq(Int) /\ w = FlattenSeq(Segments(m))
  BY SegmentsType, FlattenType
<1>2. size \in Nat
  BY MapSizeType
<1>3. ASSUME size = 0 PROVE w = <<>>
  <2> DEFINE ss == Segments(m)
  <2>1. \A i \in 1 .. 20 : Segment(SavedOrder[i], m) = <<>>
    BY <1>3, MapSizeType DEF Segment
  <2>2. ss \in Seq(Seq(Int)) /\ Len(ss) = 20
    BY SegmentsType
  <2>5. \A i \in 1 .. 20 : ss[i] = <<>>
    BY <2>1, SegmentsType
  <2> HIDE DEF ss
  <2>6. \A i \in DOMAIN ss : Len(ss[i]) = 0
    BY <2>2, <2>5
  <2>3. Placed(FlattenSeq(ss), ss, 0)
    BY <2>2, <2>6, FlattenUniform
  <2>4. Len(FlattenSeq(ss)) = 0
    BY <2>2, <2>3 DEF Placed
  <2> QED
    BY <1>1, <2>4 DEF ss
<1> HIDE DEF w, size
<1>4. Says(PrepareEncrypted(EncryptedDescriptor(size, w)), w)
  BY <1>1, <1>2, <1>3, SealedSays
<1> QED
  BY <1>1, <1>4 DEF prepareToWrite, w, size

(***************************************************************************)
(* What a map that was read and written is                                 *)
(***************************************************************************)

\* What blocks mean is a map.
LEMMA MeaningType == \A bs \in Seq(Whole) : Meaning(bs) \in Maps
<1> DEFINE S == {bs \in Seq(Whole) : Meaning(bs) \in Maps}
<1>1. <<>> \in S
  <2>1. NoPairs \in PairMaps
    <3>1. NoPairs \in [{} -> Uint64] /\ {} \in SUBSET PeerIds /\ IsFiniteSet({})
      BY FS_EmptySet DEF NoPairs
    <3> QED
      BY <3>1 DEF PairMaps
  <2>2. [n \in KeyNames |-> Zero64] \in [KeyNames -> Uint64]
    BY DEF Zero64, Uint64
  <2>3. <<>> \in Seq(Int)
    OBVIOUS
  <2>4. EmptyMap \in Maps
    BY <2>1, <2>2, <2>3 DEF EmptyMap, Maps
  <2> QED
    BY <2>4, NothingKnown
<1>2. ASSUME NEW bs \in Seq(Whole), NEW b \in Whole, Meaning(bs) \in Maps
      PROVE  Append(bs, b) \in Seq(Whole) /\ Meaning(Append(bs, b)) \in Maps
  <2> DEFINE c == Append(bs, b)
  <2>0. /\ b \in Block /\ b.keys \in Seq(Uint64) /\ b.tokens \in Seq(Seq(Int))
        /\ (b.type \in PairTypes => b.pairs \in Seq(ReadPair)) /\ IsWhole(b)
    BY WholeParts DEF Whole
  <2>1. bs \in Seq(Block)
    BY DEF Whole
  <2>2. c \in Seq(Whole)
    OBVIOUS
  <2>3. ASSUME NEW f \in KeyNames PROVE KeyValue(c, f) \in Uint64
    <3>1. KeyValue(c, f) = IF CarriesKey(b, f) THEN KeyIn(b, f) ELSE KeyValue(bs, f)
      BY <2>0, <2>1, KeyValueAppend
    <3>2. KeyValue(bs, f) \in Uint64
      <4>1. Meaning(bs).keys[f] = KeyValue(bs, f)
        BY DEF Meaning
      <4> QED
        BY <1>2, <4>1, MapsParts
    <3>3. CarriesKey(b, f) => KeyIn(b, f) \in Uint64
      <4> DEFINE j == CHOOSE i \in DOMAIN b.keys : KeyFields[b.type][i] = f
      <4>1. CarriesKey(b, f) => j \in DOMAIN b.keys
        BY DEF CarriesKey
      <4>2. KeyIn(b, f) = b.keys[j]
        BY DEF KeyIn
      <4> HIDE DEF j
      <4> QED
        BY <2>0, <4>1, <4>2
    <3> QED
      BY <3>1, <3>2, <3>3
  <2>4. ASSUME NEW t \in PairTypes PROVE PairsValue(c, t) \in PairMaps
    <3>1. /\ PairsOf(bs, t) \in Seq(ReadPair)
          /\ PairsValue(bs, t) = Latest(PairsOf(bs, t))
          /\ PairsValue(c, t) = IF b.type = t THEN Latest(PairsOf(bs, t) \o b.pairs) ELSE PairsValue(bs, t)
      BY PairsValueAppend
    <3> DEFINE ps == PairsOf(bs, t)
    <3>2. b.type = t => ps \o b.pairs \in Seq(ReadPair)
      <4>1. ps \in Seq(ReadPair)
        BY <3>1
      <4> HIDE DEF ps
      <4> QED
        BY <2>0, <4>1
    <3> HIDE DEF ps
    <3>3. b.type = t => Latest(ps \o b.pairs) \in PairMaps
      BY <3>2, ReadPairType
    <3>4. Latest(ps) \in PairMaps
      BY <3>1, ReadPairType DEF ps
    <3> QED
      BY <3>1, <3>3, <3>4 DEF ps
  <2>5. ASSUME NEW which \in {1, 2} PROVE TokenValue(c, which) \in Seq(Int)
    <3>1. TokenValue(c, which) = IF b.type = lskWebviewTokens THEN b.tokens[which]
                                 ELSE TokenValue(bs, which)
      BY <2>0, <2>1, TokenValueAppend
    <3>2. b.type = lskWebviewTokens => b.tokens[which] \in Seq(Int)
      BY <2>0 DEF IsWhole
    <3>3. TokenValue(bs, 1) = Meaning(bs).tokenBots /\ TokenValue(bs, 2) = Meaning(bs).tokenOther
      BY DEF Meaning
    <3>4. TokenValue(bs, 1) \in Seq(Int) /\ TokenValue(bs, 2) \in Seq(Int)
      BY <1>2, <3>3, MapsParts
    <3> QED
      BY <3>1, <3>2, <3>4
  <2> HIDE DEF c
  <2>6. lskDraft \in PairTypes /\ lskDraftPosition \in PairTypes /\ lskBotStorages \in PairTypes
    BY DEF PairTypes
  <2>7. [f \in KeyNames |-> KeyValue(c, f)] \in [KeyNames -> Uint64]
    BY <2>3
  <2>8. Meaning(c) \in Maps
    BY <2>4, <2>5, <2>6, <2>7 DEF Meaning, Maps
  <2> QED
    BY <2>2, <2>8 DEF c
<1>3. \A s \in Seq(Whole), a \in Whole : s \in S => Append(s, a) \in S
  BY <1>2
<1> HIDE DEF S
<1>4. \A s \in Seq(Whole) : s \in S
  BY <1>1, <1>3, SeqInduction
<1> QED
  BY <1>4 DEF S

\* What was saved loses nothing more.
LEMMA SavedAgain ==
  ASSUME NEW m \in Maps
  PROVE  Saved(m) \in Maps /\ Saved(Saved(m)) = Saved(m)
<1>1. m.keys \in [KeyNames -> Uint64]
  BY DEF Maps
<1> DEFINE K == [f \in KeyNames |-> IF f \in LegacyKeys THEN Zero64 ELSE m.keys[f]]
           r == [keys |-> K, drafts |-> m.drafts, cursors |-> m.cursors,
                 botStorages |-> m.botStorages, tokenBots |-> m.tokenBots,
                 tokenOther |-> m.tokenOther]
<1>2. K \in [KeyNames -> Uint64]
  BY <1>1 DEF Zero64, Uint64
<1>3. [[m.keys EXCEPT !["legacyBackgroundDay"] = Zero64] EXCEPT !["legacyBackgroundNight"] = Zero64] = K
  BY <1>1 DEF LegacyKeys
<1>4. Saved(m) = [m EXCEPT !.keys = K]
  BY <1>3 DEF Saved
<1>5. [[K EXCEPT !["legacyBackgroundDay"] = Zero64] EXCEPT !["legacyBackgroundNight"] = Zero64] = K
  BY <1>1 DEF LegacyKeys
<1> HIDE DEF K
<1>6. Saved(m) = r
  BY <1>4 DEF Maps
<1>7. r \in Maps
  BY <1>2 DEF Maps
<1>8. r.keys = K /\ [r EXCEPT !.keys = K] = r
  OBVIOUS
<1>9. Saved(r) = [r EXCEPT !.keys = K]
  <2> HIDE DEF r
  <2>1. Saved(r) = [r EXCEPT !.keys = [[r.keys EXCEPT !["legacyBackgroundDay"] = Zero64]
                                         EXCEPT !["legacyBackgroundNight"] = Zero64]]
    BY DEF Saved
  <2> QED
    BY <1>5, <1>8, <2>1
<1> QED
  BY <1>6, <1>7, <1>8, <1>9

\* Whole blocks are a map that can be read.
LEMMA WholeReadable ==
  ASSUME NEW bs \in Seq(Whole)
  PROVE  IsMap(bs) /\ Known(bs) = bs /\ ReadableOf(bs)
<1>1. bs \in Seq(Block) /\ \A i \in DOMAIN bs : bs[i] \in Whole
  BY DEF Whole
<1>2. \A i \in DOMAIN bs : bs[i].type \in KnownKeys /\ bs[i].damaged = FALSE /\ IsWhole(bs[i])
  BY <1>1 DEF Whole
<1>3. IsMap(bs)
  BY <1>1, <1>2 DEF IsMap
<1>4. Known(bs) = bs
  <2>1. Len(bs) \in 0 .. Len(bs) /\ DOMAIN bs = 1 .. Len(bs) /\ SubSeq(bs, 1, Len(bs)) = bs
    OBVIOUS
  <2>2. Known(bs) = SubSeq(bs, 1, Len(bs))
    BY <1>1, <1>2, <2>1, KnownIs
  <2> QED
    BY <2>1, <2>2
<1>5. ReadableOf(bs)
  BY <1>2, <1>4 DEF ReadableOf
<1> QED
  BY <1>3, <1>4, <1>5
=============================================================================
