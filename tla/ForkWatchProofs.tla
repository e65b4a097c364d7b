-------------------------- MODULE ForkWatchProofs ---------------------------
(***************************************************************************)
(* Proofs about ForkWatch, for any forks, pages, pins and faults.          *)
(***************************************************************************)
EXTENDS ForkWatch, FiniteSetTheorems, SequenceTheorems, TLAPS

RowTypes ==
  /\ tip \in [Forks -> Nat]
  /\ changes \in Nat
  /\ read \subseteq Forks \X Nat
  /\ rows \subseteq Forks \X Int
  /\ verdicts \subseteq Forks
  /\ faults \in Nat

\* Outside of a run of the schedule nothing is waited for; what is waited for
\* is still unread, since nobody reads and nothing is recorded during a run.
StillUnread ==
  /\ \A f \in unseen : f \in Forks \ Known /\ tip[f] # 0 /\ <<f, tip[f]>> \notin read
  /\ at \in {"idle", "print list", "print sweep"} => unseen = {}

\* A verdict was recorded with a head that was read.
VerdictsRead == \A f \in verdicts : heads[f] \in Nat /\ <<f, heads[f]>> \in read

\* Where a fork that is waited for stands: still to be compared, not
\* comparable, in a row that no verdict settles, or named.
Accounted ==
  /\ at = "watch sweep" => unseen \subseteq todo \cup errors \cup Fresh
  /\ at \in {"releases", "issue"} => "failed" \in activity \/ unseen \subseteq activity

SweepInv == RowTypes /\ StillUnread /\ VerdictsRead /\ Accounted

LEMMA SweepInit == Init => SweepInv
BY DEF Init, SweepInv, RowTypes, StillUnread, VerdictsRead, Accounted

LEMMA MarkerIsNoCommit == Unknown \in Int /\ Unknown \notin Nat
BY DEF Unknown

LEMMA FaultCounted ==
  ASSUME RowTypes, faults' = faults + 1
  PROVE  faults' \in Nat /\ faults' # faults
BY DEF RowTypes

\* A step that leaves the rows and the verdicts alone settles nothing.
LEMMA FreshKept ==
  ASSUME UNCHANGED <<rows, verdicts, heads>>
  PROVE  Fresh' = Fresh
BY DEF Fresh, Settled

LEMMA ChangeKeeps ==
  ASSUME SweepInv, NEW f \in Forks, Change(f), tip' \in [Forks -> Nat],
         \A g \in Forks \ {f} : tip'[g] = tip[g]
  PROVE  SweepInv'
<1> USE DEF SweepInv
<1>1. /\ changes' = changes + 1 /\ unseen' = unseen \ {f}
      /\ UNCHANGED <<read, verdicts, heads, at, todo, rows, errors, activity, faults>>
  BY DEF Change, maintained, job
<1>2. RowTypes' /\ VerdictsRead'
  BY <1>1 DEF RowTypes, VerdictsRead
<1>3. StillUnread'
  BY <1>1 DEF StillUnread
<1>4. Accounted'
  BY <1>1, FreshKept DEF Accounted
<1> QED BY <1>2, <1>3, <1>4

\* No step of the owners makes the sweep lose a fork it has to name.
LEMMA OwnersKeep ==
  ASSUME SweepInv, Owners
  PROVE  SweepInv'
<1> PICK f \in Forks : Push(f) \/ ResetTip(f) \/ CreateFork(f) \/ DeleteFork(f) \/ GrowOld(f)
  BY DEF Owners
<1> USE WatchAssumption DEF SweepInv, RowTypes
<1>1. CASE Push(f)
  BY <1>1, ChangeKeeps DEF Push, Change
<1>2. CASE ResetTip(f)
  BY <1>2, ChangeKeeps DEF ResetTip
<1>3. CASE CreateFork(f)
  BY <1>3, ChangeKeeps DEF CreateFork
<1>4. CASE DeleteFork(f)
  BY <1>4, ChangeKeeps DEF DeleteFork
<1>5. CASE GrowOld(f)
  BY <1>5 DEF GrowOld, StillUnread, VerdictsRead, Accounted, maintained, job, Fresh, Settled
<1> QED BY <1>1, <1>2, <1>3, <1>4, <1>5

\* The verdicts the maintainer pastes are of heads that were read.
LEMMA PastedWasRead ==
  ASSUME SweepInv, Paste, NEW f \in verdicts'
  PROVE  f \in Forks /\ heads'[f] \in Nat /\ <<f, heads'[f]>> \in read
<1>1. \A r \in Reviewed : r \in read /\ r[1] \in Forks /\ r[2] \in Nat /\ r = <<r[1], r[2]>>
  BY DEF Reviewed, SweepInv, RowTypes
<1>2. f \in verdicts \/ \E r \in Reviewed : r[1] = f
  BY DEF Paste
<1>3. f \in Forks
  BY <1>1, <1>2 DEF SweepInv, RowTypes
<1>4. CASE \E r \in Reviewed : r[1] = f
  <2> DEFINE row == CHOOSE r \in Reviewed : r[1] = f
  <2>1. row \in Reviewed /\ row[1] = f
    BY <1>4
  <2>2. heads'[f] = row[2]
    BY <1>3, <1>4 DEF Paste
  <2> HIDE DEF row
  <2> QED BY <1>1, <1>3, <2>1, <2>2
<1>5. CASE ~ \E r \in Reviewed : r[1] = f
  <2>1. heads'[f] = heads[f]
    BY <1>3, <1>5 DEF Paste
  <2> QED BY <1>2, <1>3, <1>5, <2>1 DEF SweepInv, VerdictsRead
<1> QED BY <1>4, <1>5

LEMMA PasteKeeps ==
  ASSUME SweepInv, Paste
  PROVE  SweepInv'
<1>1. /\ rows' = {} /\ at = "print sweep" /\ at' = "idle"
      /\ UNCHANGED <<tip, changes, read, unseen, faults>>
  BY DEF Paste, owners
<1>2. RowTypes' /\ VerdictsRead'
  BY <1>1, PastedWasRead DEF SweepInv, RowTypes, VerdictsRead
<1>3. StillUnread' /\ Accounted'
  BY <1>1 DEF SweepInv, StillUnread, Accounted
<1> QED BY <1>2, <1>3 DEF SweepInv

LEMMA MaintainerKeeps ==
  ASSUME SweepInv, Maintainer \/ Paste
  PROVE  SweepInv'
<1> USE DEF SweepInv, RowTypes, StillUnread, VerdictsRead, Accounted, owners
<1>1. CASE \E f \in Forks : ReadFork(f)
  BY <1>1 DEF ReadFork, job
<1>2. CASE \E p \in Pins : UpdatePin(p)
  BY <1>2 DEF UpdatePin, job
<1>3. CASE StartPrint
  BY <1>3 DEF StartPrint, maintained
<1>4. CASE Paste
  BY <1>4, PasteKeeps
<1> QED BY <1>1, <1>2, <1>3, <1>4 DEF Maintainer

LEMMA ListKeeps ==
  ASSUME SweepInv, StartWatch \/ ListPage \/ ListPageOdd \/ ScanFails
  PROVE  SweepInv'
<1> USE DEF SweepInv, RowTypes, StillUnread, VerdictsRead, Accounted, owners, maintained
<1>1. CASE StartWatch
  BY <1>1 DEF StartWatch, Unread
<1>2. ASSUME NEW forks, Listed(forks), at \in {"watch list", "print list"},
             UNCHANGED <<owners, maintained, rows, errors, activity>>, faults' \in Nat
      PROVE  SweepInv'
  BY <1>2 DEF Listed
<1>3. CASE ListPage
  <2>1. CASE Listed(listed \cup Chunk)
    BY <1>2, <1>3, <2>1 DEF ListPage
  <2>2. CASE UNCHANGED <<at, todo, unseen>>
    BY <1>3, <2>2 DEF ListPage
  <2> QED BY <1>3, <2>1, <2>2 DEF ListPage
<1>4. CASE ListPageOdd
  <2>1. Listed(listed) /\ at \in {"watch list", "print list"}
    BY <1>4 DEF ListPageOdd
  <2>2. UNCHANGED <<owners, maintained, rows, errors, activity>>
    BY <1>4 DEF ListPageOdd
  <2>3. RowTypes /\ faults' = faults + 1
    BY <1>4 DEF ListPageOdd
  <2>4. faults' \in Nat
    BY <2>3, FaultCounted
  <2> QED BY <1>2, <2>1, <2>2, <2>4
<1>5. CASE ScanFails
  BY <1>5 DEF ScanFails
<1> QED BY <1>1, <1>3, <1>4, <1>5

\* A fork that is waited for and compared is in a row that no verdict settles.
LEMMA ComparedIsFresh ==
  ASSUME SweepInv, NEW f \in Forks, Compare(f), f \in unseen
  PROVE  f \in Fresh'
<1>1. tip[f] \in Nat /\ tip[f] # 0 /\ <<f, tip[f]>> \notin read
  BY DEF SweepInv, RowTypes, StillUnread
<1>2. PICK head \in {tip[f], Unknown} : <<f, head>> \in rows'
  BY <1>1 DEF Compare
<1>3. ASSUME f \in verdicts
      PROVE  heads[f] # head
  <2>1. heads[f] \in Nat /\ <<f, heads[f]>> \in read
    BY <1>3 DEF SweepInv, VerdictsRead
  <2> QED BY <1>1, <1>2, <2>1, MarkerIsNoCommit
<1>4. UNCHANGED <<verdicts, heads>>
  BY DEF Compare, maintained
<1> DEFINE row == <<f, head>>
<1>5. row \in rows' /\ row[1] = f /\ row[2] = head
  BY <1>2
<1>6. ~(row[1] \in verdicts' /\ heads'[row[1]] = row[2])
  BY <1>3, <1>4, <1>5
<1> HIDE DEF row
<1> QED BY <1>5, <1>6 DEF Fresh, Settled

LEMMA SweepKeeps ==
  ASSUME SweepInv, NEW f \in Forks, Compare(f) \/ CompareError(f)
  PROVE  SweepInv'
<1>1. CASE Compare(f)
  <2>1. /\ at = at' /\ at \in {"watch sweep", "print sweep"} /\ todo' = todo \ {f}
        /\ UNCHANGED <<tip, changes, read, verdicts, heads, errors, activity, unseen,
                       faults>>
    BY <1>1 DEF Compare, owners, maintained
  <2>2. rows' = rows \/ \E head \in {tip[f], Unknown} : rows' = rows \cup {<<f, head>>}
    BY <1>1 DEF Compare
  <2>3. tip[f] \in Int
    BY DEF SweepInv, RowTypes
  <2>4. rows \subseteq rows' /\ rows' \subseteq Forks \X Int
    BY <2>2, <2>3, MarkerIsNoCommit DEF SweepInv, RowTypes
  <2>5. Fresh \subseteq Fresh'
    BY <2>1, <2>4 DEF Fresh, Settled
  <2>6. RowTypes' /\ VerdictsRead' /\ StillUnread'
    BY <2>1, <2>4 DEF SweepInv, RowTypes, VerdictsRead, StillUnread
  <2>7. Accounted'
    BY <1>1, <2>1, <2>5, ComparedIsFresh DEF SweepInv, Accounted
  <2> QED BY <2>6, <2>7 DEF SweepInv
<1>2. CASE CompareError(f)
  BY <1>2, FreshKept DEF CompareError, SweepInv, RowTypes, StillUnread, VerdictsRead,
                         Accounted, owners, maintained
<1> QED BY <1>1, <1>2

LEMMA SweepNext == SweepInv /\ [Next]_vars => SweepInv'
<1> SUFFICES ASSUME SweepInv, [Next]_vars PROVE SweepInv'
  OBVIOUS
<1>1. CASE UNCHANGED vars
  BY <1>1, FreshKept DEF vars, owners, maintained, job, SweepInv, RowTypes, StillUnread,
     VerdictsRead, Accounted
<1>2. CASE \E p \in Pins : Release(p)
  BY <1>2, FreshKept DEF Release, owners, job, SweepInv, RowTypes, StillUnread,
     VerdictsRead, Accounted
<1>3. CASE EndSweep
  BY <1>3 DEF EndSweep, Named, owners, maintained, SweepInv, RowTypes, StillUnread,
     VerdictsRead, Accounted
<1>4. CASE CheckReleases
  BY <1>4 DEF CheckReleases, owners, maintained, SweepInv, RowTypes, StillUnread,
     VerdictsRead, Accounted
<1>5. CASE OpenIssue
  BY <1>5 DEF OpenIssue, owners, maintained, SweepInv, RowTypes, StillUnread,
     VerdictsRead, Accounted
<1>6. CASE RunDies
  <2>1. /\ at' = "idle" /\ rows' = {} /\ unseen' = {}
        /\ UNCHANGED <<tip, changes, read, verdicts, heads>>
    BY <1>6 DEF RunDies, owners, maintained
  <2>2. faults' \in Nat
    BY <1>6, FaultCounted DEF RunDies, SweepInv
  <2>3. RowTypes' /\ VerdictsRead'
    BY <2>1, <2>2 DEF SweepInv, RowTypes, VerdictsRead
  <2>4. StillUnread' /\ Accounted'
    BY <2>1 DEF StillUnread, Accounted
  <2> QED BY <2>3, <2>4 DEF SweepInv
<1>7. CASE Owners
  BY <1>7, OwnersKeep
<1>8. CASE Maintainer \/ Paste
  BY <1>8, MaintainerKeeps
<1>9. CASE StartWatch \/ ListPage \/ ListPageOdd \/ ScanFails
  BY <1>9, ListKeeps
<1>10. CASE \E f \in Forks : Compare(f) \/ CompareError(f)
  BY <1>10, SweepKeeps
<1> QED BY <1>1, <1>2, <1>3, <1>4, <1>5, <1>6, <1>7, <1>8, <1>9, <1>10 DEF Next, Scan

\* For any number of forks, pages and changes: a run that ends has named every
\* listed fork that was ahead of upstream with work nobody has read since the
\* run began, or says that the scan failed.
THEOREM UnreadReported == Spec => ReportsUnread
<1>1. SweepInv /\ [Next]_vars
        => [at = "issue" /\ at' = "idle" /\ faults' = faults
              => "failed" \in issue' \/ unseen \subseteq issue']_vars
  <2> SUFFICES ASSUME SweepInv, Next, at = "issue", at' = "idle", faults' = faults
               PROVE  "failed" \in issue' \/ unseen \subseteq issue'
    BY DEF vars
  <2>1. ~Owners
    BY DEF Owners, Push, ResetTip, CreateFork, DeleteFork, Change, GrowOld, job
  <2>2. ~Maintainer /\ ~StartWatch /\ ~ListPageOdd /\ ~(\E p \in Pins : Release(p))
    BY DEF Maintainer, ReadFork, UpdatePin, StartPrint, StartWatch, ListPageOdd, Release, job
  <2>3. ~RunDies
    BY DEF RunDies, SweepInv, RowTypes
  <2>4. ~(ListPage \/ ScanFails \/ EndSweep \/ CheckReleases \/ Paste)
    BY DEF ListPage, ScanFails, EndSweep, CheckReleases, Paste
  <2>5. ~(\E f \in Forks : Compare(f) \/ CompareError(f))
    BY DEF Compare, CompareError
  <2>6. OpenIssue
    BY <2>1, <2>2, <2>3, <2>4, <2>5 DEF Next, Scan
  <2> QED BY <2>6 DEF OpenIssue, SweepInv, Accounted
<1> QED BY <1>1, SweepInit, SweepNext, PTL DEF Spec, ReportsUnread

(***************************************************************************)
(* The types                                                               *)
(***************************************************************************)

\* What the maintainer has read is of the forks that are watched.
TypeInv == TypeOK /\ read \subseteq (Forks \ Known) \X Commits

NetworkOK == network \in Seq(Forks) /\ IsInjective(network)

RecordsOK ==
  /\ outdated \subseteq Pins
  /\ read \subseteq (Forks \ Known) \X Commits
  /\ verdicts \subseteq Forks \ Known
  /\ heads \in [Forks -> {0} \cup Commits]
  /\ \A f \in Forks : f \in verdicts <=> heads[f] # 0

ScanOK ==
  /\ at \in Steps
  /\ page \in 1 .. MaxPages
  /\ listed \subseteq Forks /\ todo \subseteq Forks /\ errors \subseteq Forks
  /\ candidates \subseteq Forks /\ unseen \subseteq Forks
  /\ rows \subseteq Forks \X ({Unknown} \cup Commits)
  /\ activity \subseteq Forks \cup Pins \cup {"failed"}

PushesOK ==
  /\ tip \in [Forks -> {0} \cup Commits]
  /\ recent \subseteq Forks
  /\ changes \in 0 .. MaxChanges

ReportOK ==
  /\ issue \subseteq Forks \cup Pins \cup {"failed"}
  /\ faults \in 0 .. MaxFaults

LEMMA TypeParts ==
  TypeInv <=> NetworkOK /\ PushesOK /\ RecordsOK /\ ScanOK /\ ReportOK
<1>1. read \subseteq (Forks \ Known) \X Commits => read \subseteq Forks \X Commits
  OBVIOUS
<1> QED
  BY <1>1 DEF TypeInv, TypeOK, NetworkOK, PushesOK, RecordsOK, ScanOK, ReportOK

LEMMA FirstPage == 1 \in 1 .. MaxPages
BY WatchAssumption DEF WatchAssumption

LEMMA InitType == Init => TypeInv
<1> SUFFICES ASSUME Init PROVE TypeInv
  OBVIOUS
<1> USE WatchAssumption DEF WatchAssumption
<1>1. NetworkOK
  <2>1. PICK n \in Nat : n = Cardinality(Forks)
    BY FS_CardinalityType
  <2>2. network \in [1 .. n -> Forks] /\ \A i, j \in 1 .. n : i # j => network[i] # network[j]
    BY <2>1 DEF Init, SetToSeqs
  <2>3. network \in Seq(Forks)
    BY <2>1, <2>2
  <2> QED
    BY <2>2, <2>3 DEF NetworkOK, IsInjective
<1>2. PushesOK /\ RecordsOK /\ ScanOK /\ ReportOK
  BY DEF Init, PushesOK, RecordsOK, ScanOK, ReportOK, Steps
<1> QED
  BY <1>1, <1>2, TypeParts

\* A list of forks without one of them is still one without repetitions.
LEMMA RemoveAtKeeps ==
  ASSUME NEW S, NEW s \in Seq(S), IsInjective(s), NEW i \in DOMAIN s
  PROVE  RemoveAt(s, i) \in Seq(S) /\ IsInjective(RemoveAt(s, i))
<1>1. Len(s) \in Nat /\ DOMAIN s = 1 .. Len(s) /\ i \in 1 .. Len(s)
  OBVIOUS
<1>2. PICK before : before = SubSeq(s, 1, i - 1)
  OBVIOUS
<1>3. PICK after : after = SubSeq(s, i + 1, Len(s))
  OBVIOUS
<1>4. /\ before \in Seq(S) /\ Len(before) = i - 1
      /\ \A j \in 1 .. i - 1 : before[j] = s[j]
  BY <1>1, <1>2
<1>5. /\ after \in Seq(S) /\ Len(after) = Len(s) - i
      /\ \A j \in 1 .. Len(s) - i : after[j] = s[i + j]
  BY <1>1, <1>3
<1>6. PICK kept : kept = before \o after
  OBVIOUS
<1>7. /\ kept \in Seq(S) /\ Len(kept) = Len(s) - 1
      /\ \A j \in 1 .. Len(s) - 1 : kept[j] = IF j < i THEN s[j] ELSE s[j + 1]
  <2>1. kept \in Seq(S) /\ Len(kept) = Len(before) + Len(after)
    BY <1>4, <1>5, <1>6, ConcatProperties
  <2>2. Len(kept) = Len(s) - 1
    BY <1>1, <1>4, <1>5, <2>1
  <2>3. ASSUME NEW j \in 1 .. Len(s) - 1
        PROVE  kept[j] = IF j < i THEN s[j] ELSE s[j + 1]
    <3>1. CASE j < i
      <4>1. kept[j] = before[j]
        BY <1>1, <1>4, <1>5, <1>6, <2>3, <3>1
      <4> QED
        BY <1>1, <1>4, <3>1, <4>1
    <3>2. CASE ~(j < i)
      <4>1. kept[j] = after[j - (i - 1)]
        <5>1. j \in 1 .. Len(before) + Len(after) /\ ~(j <= Len(before))
          BY <1>1, <1>4, <1>5, <2>3, <3>2
        <5>2. kept[j] = after[j - Len(before)]
          BY <1>4, <1>5, <1>6, <5>1, ConcatProperties
        <5> QED
          BY <1>4, <5>2
      <4>2. j - (i - 1) \in 1 .. Len(s) - i /\ i + (j - (i - 1)) = j + 1
        BY <1>1, <2>3, <3>2
      <4>3. after[j - (i - 1)] = s[i + (j - (i - 1))]
        BY <1>5, <4>2
      <4> QED
        BY <3>2, <4>1, <4>2, <4>3
    <3> QED
      BY <3>1, <3>2
  <2> QED
    BY <2>1, <2>2, <2>3
<1>8. ASSUME NEW j \in 1 .. Len(s) - 1, NEW k \in 1 .. Len(s) - 1, kept[j] = kept[k]
      PROVE  j = k
  <2>1. PICK a \in 1 .. Len(s) : a = IF j < i THEN j ELSE j + 1
    BY <1>1
  <2>2. PICK b \in 1 .. Len(s) : b = IF k < i THEN k ELSE k + 1
    BY <1>1
  <2>3. s[a] = s[b]
    BY <1>7, <1>8, <2>1, <2>2
  <2>4. a = b
    BY <1>1, <2>3 DEF IsInjective
  <2> QED
    BY <1>1, <2>1, <2>2, <2>4
<1>9. IsInjective(kept)
  BY <1>1, <1>7, <1>8, SMTT(30) DEF IsInjective
<1> QED
  BY <1>2, <1>3, <1>6, <1>7, <1>9 DEF RemoveAt

\* The list with a new fork at its head.
LEMMA PrependKeeps ==
  ASSUME NEW S, NEW s \in Seq(S), IsInjective(s), NEW e \in S, e \notin ToSet(s)
  PROVE  <<e>> \o s \in Seq(S) /\ IsInjective(<<e>> \o s)
<1>1. Len(s) \in Nat /\ DOMAIN s = 1 .. Len(s)
  OBVIOUS
<1>2. PICK longer : longer = <<e>> \o s
  OBVIOUS
<1>3. /\ longer \in Seq(S) /\ Len(longer) = Len(s) + 1
      /\ \A j \in 1 .. Len(s) + 1 : longer[j] = IF j = 1 THEN e ELSE s[j - 1]
  BY <1>1, <1>2
<1>4. ASSUME NEW j \in 1 .. Len(s) + 1, NEW k \in 1 .. Len(s) + 1, longer[j] = longer[k]
      PROVE  j = k
  <2>1. \A i \in 1 .. Len(s) : s[i] # e
    BY <1>1 DEF ToSet
  <2>2. CASE j = 1 \/ k = 1
    BY <1>1, <1>3, <1>4, <2>1, <2>2
  <2>3. CASE j # 1 /\ k # 1
    <3>1. s[j - 1] = s[k - 1] /\ j - 1 \in 1 .. Len(s) /\ k - 1 \in 1 .. Len(s)
      BY <1>1, <1>3, <1>4, <2>3
    <3>2. j - 1 = k - 1
      BY <1>1, <3>1 DEF IsInjective
    <3> QED
      BY <1>1, <3>2
  <2> QED
    BY <2>2, <2>3
<1>5. IsInjective(longer)
  <2>1. DOMAIN longer = 1 .. Len(s) + 1
    BY <1>3
  <2> QED
    BY <1>4, <2>1 DEF IsInjective
<1> QED
  BY <1>2, <1>3, <1>5

\* The owners of the forks.
LEMMA OwnersType ==
  ASSUME TypeInv, Owners
  PROVE  TypeInv'
<1> PICK f \in Forks : Push(f) \/ ResetTip(f) \/ CreateFork(f) \/ DeleteFork(f) \/ GrowOld(f)
  BY DEF Owners
<1> USE WatchAssumption DEF WatchAssumption
<1>0. (NetworkOK /\ PushesOK /\ RecordsOK /\ ScanOK /\ ReportOK)' => TypeInv'
  BY TypeParts, PTL
<1>1. NetworkOK /\ PushesOK /\ RecordsOK /\ ScanOK /\ ReportOK
  BY TypeParts
<1>2. CASE GrowOld(f)
  <2>1. NetworkOK' /\ PushesOK'
    BY <1>1, <1>2 DEF GrowOld, NetworkOK, PushesOK
  <2>2. RecordsOK'
    BY <1>1, <1>2 DEF GrowOld, RecordsOK, maintained
  <2>3. ScanOK' /\ ReportOK'
    BY <1>1, <1>2 DEF GrowOld, ScanOK, ReportOK, job
  <2> QED
    BY <1>0, <2>1, <2>2, <2>3
<1>3. ASSUME Change(f), NetworkOK', tip' \in [Forks -> {0} \cup Commits],
             recent' \subseteq Forks
      PROVE  TypeInv'
  <2>1. /\ changes < MaxChanges /\ changes' = changes + 1
        /\ unseen' = unseen \ {f} /\ issue' = issue \ {f, "failed"}
        /\ UNCHANGED <<maintained, job, faults>>
    BY <1>3 DEF Change
  <2>2. PushesOK'
    BY <1>1, <1>3, <2>1 DEF PushesOK
  <2>3. RecordsOK'
    BY <1>1, <2>1 DEF RecordsOK, maintained
  <2>4. ScanOK'
    BY <1>1, <2>1 DEF ScanOK, job
  <2>5. ReportOK'
    BY <1>1, <2>1 DEF ReportOK
  <2> QED
    BY <1>0, <1>3, <2>2, <2>3, <2>4, <2>5
<1>4. CASE Push(f)
  <2>1. changes + 1 \in Commits
    BY <1>1, <1>4 DEF Push, Change, PushesOK, Commits
  <2>2. tip' \in [Forks -> {0} \cup Commits] /\ recent' \subseteq Forks
    BY <1>1, <1>4, <2>1 DEF Push, PushesOK
  <2> QED
    BY <1>1, <1>3, <1>4, <2>2 DEF Push, NetworkOK
<1>5. CASE ResetTip(f)
  <2>1. PICK commit \in 0 .. tip[f] - 1 : tip' = [tip EXCEPT ![f] = commit]
    BY <1>5 DEF ResetTip
  <2>2. commit \in {0} \cup Commits
    BY <1>1, <2>1 DEF PushesOK, Commits
  <2>3. tip' \in [Forks -> {0} \cup Commits] /\ recent' \subseteq Forks
    BY <1>1, <1>5, <2>1, <2>2 DEF ResetTip, PushesOK
  <2> QED
    BY <1>1, <1>3, <1>5, <2>3 DEF ResetTip, NetworkOK
<1>6. CASE CreateFork(f)
  <2>1. NetworkOK'
    BY <1>1, <1>6, PrependKeeps DEF CreateFork, NetworkOK, Existing
  <2> QED
    BY <1>1, <1>3, <1>6, <2>1 DEF CreateFork, PushesOK
<1>7. CASE DeleteFork(f)
  <2>1. NetworkOK'
    BY <1>1, <1>7, RemoveAtKeeps DEF DeleteFork, NetworkOK
  <2> QED
    BY <1>1, <1>3, <1>7, <2>1 DEF DeleteFork, PushesOK
<1> QED
  BY <1>2, <1>4, <1>5, <1>6, <1>7

\* The maintainer reads watched forks only, and records heads that were read.
LEMMA MaintainerType ==
  ASSUME TypeInv, Maintainer \/ Paste
  PROVE  TypeInv'
<1>1. NetworkOK /\ PushesOK /\ RecordsOK /\ ScanOK /\ ReportOK
  BY TypeParts
<1>0. (NetworkOK /\ PushesOK /\ RecordsOK /\ ScanOK /\ ReportOK)' => TypeInv'
  BY TypeParts, PTL
<1> USE DEF NetworkOK, PushesOK, RecordsOK, ScanOK, ReportOK
<1>2. CASE \E f \in Forks : ReadFork(f)
  <2>1. PICK f \in Forks : ReadFork(f)
    BY <1>2
  <2>2. <<f, tip[f]>> \in (Forks \ Known) \X Commits
    BY <1>1, <2>1 DEF ReadFork, Unread
  <2> QED
    BY <1>0, <1>1, <2>1, <2>2 DEF ReadFork, owners, job
<1>3. CASE \E p \in Pins : UpdatePin(p)
  BY <1>0, <1>1, <1>3 DEF UpdatePin, owners, job
<1>4. CASE StartPrint
  BY <1>0, <1>1, <1>4 DEF StartPrint, owners, maintained, Steps
<1>5. CASE Paste
  <2>1. \A r \in Reviewed : r[1] \in Forks \ Known /\ r[2] \in Commits
    BY <1>1 DEF Reviewed
  <2>2. ASSUME NEW f \in Forks
        PROVE  /\ heads'[f] \in {0} \cup Commits
               /\ f \in verdicts' <=> heads'[f] # 0
    <3>1. heads'[f] = IF \E r \in Reviewed : r[1] = f
                      THEN (CHOOSE r \in Reviewed : r[1] = f)[2] ELSE heads[f]
      BY <1>5 DEF Paste
    <3>2. f \in verdicts' <=> f \in verdicts \/ \E r \in Reviewed : r[1] = f
      BY <1>5 DEF Paste
    <3>3. CASE \E r \in Reviewed : r[1] = f
      <4>1. PICK row \in Reviewed : row = CHOOSE r \in Reviewed : r[1] = f
        BY <3>3
      <4>2. heads'[f] = row[2]
        BY <3>1, <3>3, <4>1
      <4>3. row[2] \in Commits /\ row[2] # 0
        BY <2>1, <4>1, WatchAssumption DEF WatchAssumption, Commits
      <4> QED
        BY <3>2, <3>3, <4>2, <4>3
    <3>4. CASE ~ \E r \in Reviewed : r[1] = f
      BY <1>1, <3>1, <3>2, <3>4
    <3> QED
      BY <3>3, <3>4
  <2>3. RecordsOK'
    <3>1. verdicts' \subseteq Forks \ Known
      <4>1. verdicts' = verdicts \cup {r[1] : r \in Reviewed}
        BY <1>5 DEF Paste
      <4> QED
        BY <1>1, <2>1, <4>1
    <3>2. DOMAIN heads' = Forks /\ heads' = [f \in Forks |-> heads'[f]]
      BY <1>5 DEF Paste
    <3>3. heads' \in [Forks -> {0} \cup Commits]
      BY <2>2, <3>2
    <3>4. UNCHANGED <<outdated, read>>
      BY <1>5 DEF Paste
    <3> QED
      BY <1>1, <2>2, <3>1, <3>3, <3>4
  <2>4. NetworkOK' /\ PushesOK' /\ ReportOK'
    BY <1>1, <1>5 DEF Paste, owners
  <2>5. ScanOK'
    BY <1>1, <1>5, FirstPage DEF Paste, Steps
  <2> QED
    BY <1>0, <2>3, <2>4, <2>5
<1> QED
  BY <1>2, <1>3, <1>4, <1>5 DEF Maintainer

\* Listing and comparing stay within the forks, the pages and the commits.
LEMMA ScanType ==
  ASSUME TypeInv,
         \/ StartWatch \/ ListPage \/ ListPageOdd \/ ScanFails
         \/ \E f \in Forks : Compare(f) \/ CompareError(f)
  PROVE  TypeInv'
<1>1. NetworkOK /\ PushesOK /\ RecordsOK /\ ScanOK /\ ReportOK
  BY TypeParts
<1>0. (NetworkOK /\ PushesOK /\ RecordsOK /\ ScanOK /\ ReportOK)' => TypeInv'
  BY TypeParts, PTL
<1> USE WatchAssumption DEF WatchAssumption, Steps
<1>2. UNCHANGED <<owners, maintained>> => NetworkOK' /\ PushesOK' /\ RecordsOK'
  BY <1>1 DEF NetworkOK, PushesOK, RecordsOK, owners, maintained
<1>3. CASE StartWatch
  BY <1>0, <1>1, <1>2, <1>3 DEF StartWatch, ScanOK, ReportOK
<1>4. ASSUME NEW forks, forks \subseteq Forks, Listed(forks), candidates' \subseteq Forks,
             UNCHANGED <<rows, errors, activity>>
      PROVE  ScanOK'
  <2>1. at' \in Steps
    BY <1>1, <1>4 DEF Listed
  <2>2. page' \in 1 .. MaxPages
    BY <1>4, FirstPage DEF Listed
  <2>3. /\ listed' \subseteq Forks /\ todo' \subseteq Forks /\ errors' \subseteq Forks
        /\ candidates' \subseteq Forks /\ unseen' \subseteq Forks
    BY <1>1, <1>4 DEF Listed, ScanOK, PushesOK
  <2>4. rows' \subseteq Forks \X ({Unknown} \cup Commits)
    BY <1>1, <1>4 DEF Listed, ScanOK, PushesOK
  <2>5. activity' \subseteq Forks \cup Pins \cup {"failed"}
    BY <1>1, <1>4 DEF Listed, ScanOK, PushesOK
  <2> QED
    BY <2>1, <2>2, <2>3, <2>4, <2>5 DEF ScanOK
<1>5. CASE ListPage
  <2>1. Chunk \subseteq Forks
    BY <1>1 DEF Chunk, NetworkOK
  <2>2. listed \cup Chunk \subseteq Forks /\ candidates' \subseteq Forks
    BY <1>1, <1>5, <2>1 DEF ListPage, Pushed, ScanOK
  <2>3. CASE Listed(listed \cup Chunk)
    BY <1>0, <1>1, <1>2, <1>4, <1>5, <2>2, <2>3 DEF ListPage, ReportOK
  <2>4. CASE ~Listed(listed \cup Chunk)
    <3>1. /\ page # MaxPages /\ page' = page + 1 /\ listed' = listed \cup Chunk
          /\ UNCHANGED <<at, todo, unseen, rows, errors, activity>>
      BY <1>5, <2>4 DEF ListPage
    <3>2. page' \in 1 .. MaxPages
      <4>1. page \in 1 .. MaxPages
        BY <1>1 DEF ScanOK
      <4> QED
        BY <3>1, <4>1
    <3>3. ScanOK'
      BY <1>1, <2>2, <3>1, <3>2 DEF ScanOK
    <3> QED
      BY <1>0, <1>1, <1>2, <1>5, <3>3 DEF ListPage, ReportOK
  <2> QED
    BY <2>3, <2>4
<1>6. CASE ListPageOdd
  <2>1. ScanOK'
    <3>1. Listed(listed) /\ UNCHANGED <<rows, errors, candidates, activity>>
      BY <1>6 DEF ListPageOdd
    <3>2. listed \subseteq Forks /\ candidates \subseteq Forks
      BY <1>1 DEF ScanOK
    <3> QED
      BY <1>4, <3>1, <3>2
  <2>2. /\ faults < MaxFaults /\ faults' = faults + 1
        /\ UNCHANGED <<owners, maintained, issue>>
    BY <1>6 DEF ListPageOdd
  <2> QED
    BY <1>0, <1>1, <1>2, <2>1, <2>2 DEF ReportOK
<1>7. CASE ScanFails
  <2>1. /\ at' \in Steps /\ page' = 1
        /\ activity' \subseteq {"failed"} \cup candidates \/ activity' = activity
        /\ listed' = {} /\ todo' = {} /\ rows' = {} /\ errors' = {} /\ candidates' = {}
        /\ UNCHANGED <<owners, maintained, unseen, issue, faults>>
    BY <1>7 DEF ScanFails
  <2>2. activity' \subseteq Forks \cup Pins \cup {"failed"}
    BY <1>1, <2>1 DEF ScanOK
  <2>3. ScanOK'
    BY <1>1, <2>1, <2>2, FirstPage DEF ScanOK
  <2> QED
    BY <1>0, <1>1, <1>2, <2>1, <2>3 DEF ReportOK
<1>8. CASE \E f \in Forks : Compare(f)
  <2>1. PICK f \in Forks : Compare(f)
    BY <1>8
  <2>2. rows' \subseteq Forks \X ({Unknown} \cup Commits)
    <3>1. rows \subseteq Forks \X ({Unknown} \cup Commits)
      BY <1>1 DEF ScanOK
    <3>2. tip[f] = 0 \/ tip[f] \in Commits
      BY <1>1 DEF PushesOK
    <3>3. \/ rows' = rows
          \/ tip[f] # 0 /\ \E head \in {tip[f], Unknown} : rows' = rows \cup {<<f, head>>}
      BY <2>1 DEF Compare
    <3> QED
      BY <3>1, <3>2, <3>3
  <2>3. ScanOK'
    BY <1>1, <2>1, <2>2 DEF Compare, ScanOK
  <2> QED
    BY <1>0, <1>1, <1>2, <2>1, <2>3 DEF Compare, ReportOK
<1>9. CASE \E f \in Forks : CompareError(f)
  BY <1>0, <1>1, <1>2, <1>9 DEF CompareError, ScanOK, ReportOK
<1> QED
  BY <1>3, <1>5, <1>6, <1>7, <1>8, <1>9

LEMMA TypeNext == TypeInv /\ [Next]_vars => TypeInv'
<1> SUFFICES ASSUME TypeInv, [Next]_vars PROVE TypeInv'
  OBVIOUS
<1>1. NetworkOK /\ PushesOK /\ RecordsOK /\ ScanOK /\ ReportOK
  BY TypeParts
<1>0. (NetworkOK /\ PushesOK /\ RecordsOK /\ ScanOK /\ ReportOK)' => TypeInv'
  BY TypeParts, PTL
<1> USE WatchAssumption DEF WatchAssumption, NetworkOK, PushesOK, RecordsOK, ScanOK, ReportOK, Steps
<1>2. CASE UNCHANGED vars
  BY <1>0, <1>1, <1>2 DEF vars, owners, maintained, job
<1>3. CASE \E p \in Pins : Release(p)
  BY <1>0, <1>1, <1>3 DEF Release, owners, job
<1>4. CASE EndSweep
  <2>1. Named \subseteq Forks
    BY <1>1 DEF Named, Fresh
  <2>2. NetworkOK' /\ PushesOK' /\ RecordsOK' /\ ReportOK'
    BY <1>1, <1>4 DEF EndSweep, owners, maintained
  <2>3. ScanOK'
    BY <1>1, <1>4, <2>1 DEF EndSweep
  <2> QED
    BY <1>0, <2>2, <2>3
<1>5. CASE CheckReleases
  BY <1>0, <1>1, <1>5 DEF CheckReleases, Attention, owners, maintained
<1>6. CASE OpenIssue
  <2>1. /\ NetworkOK' /\ PushesOK' /\ RecordsOK'
    BY <1>1, <1>6 DEF OpenIssue, owners, maintained
  <2>2. ScanOK' /\ ReportOK'
    BY <1>1, <1>6 DEF OpenIssue
  <2> QED
    BY <1>0, <2>1, <2>2
<1>7. CASE RunDies
  <2>1. /\ at' = "idle" /\ page' = 1 /\ faults < MaxFaults /\ faults' = faults + 1
        /\ listed' = {} /\ todo' = {} /\ rows' = {} /\ errors' = {} /\ candidates' = {}
        /\ activity' = {} /\ unseen' = {}
        /\ UNCHANGED <<owners, maintained, issue>>
    BY <1>7 DEF RunDies
  <2>2. NetworkOK' /\ PushesOK' /\ RecordsOK'
    BY <1>1, <2>1 DEF owners, maintained
  <2>3. ScanOK'
    <3>1. page' \in 1 .. MaxPages
      BY <2>1, FirstPage
    <3> QED
      BY <2>1, <3>1
  <2>4. ReportOK'
    <3>1. faults \in 0 .. MaxFaults
      BY <1>1
    <3>2. faults' \in 0 .. MaxFaults
      BY <2>1, <3>1
    <3> QED
      BY <1>1, <2>1, <3>2
  <2> QED
    BY <1>0, <2>2, <2>3, <2>4
<1> QED
  BY <1>2, <1>3, <1>4, <1>5, <1>6, <1>7, OwnersType, MaintainerType, ScanType
  DEF Next, Scan

\* For any forks, pages, pins and faults: the state has its types, and a
\* commit is recorded for exactly the forks with a verdict, all of them
\* watched ones.
THEOREM TypeCorrect == Spec => []TypeOK
<1>1. TypeInv => TypeOK
  BY DEF TypeInv
<1> QED
  BY <1>1, InitType, TypeNext, PTL DEF Spec
=============================================================================
