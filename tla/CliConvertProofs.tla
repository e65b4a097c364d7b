-------------------------- MODULE CliConvertProofs --------------------------
(***************************************************************************)
(* Proofs about CliConvert, for every set of commands and every volume.    *)
(***************************************************************************)
EXTENDS CliConvert, TLAPS

\* Where a command stands says what it may do: only a command with --force
\* replaces, only one without it links or copies, and only where os.link may
\* fail.  A command that left its fragment has come to 4 or 130.
PlaceInv ==
  \A p \in Procs :
    /\ pc[p] = "replace" => force[p]
    /\ pc[p] \in {"link", "create", "copying", "unlink"} => ~force[p]
    /\ pc[p] \in {"create", "copying", "unlink"} => ~links
    /\ p \in unremoved => /\ pc[p] \in {"cleanup", "ended", "killed"}
                           /\ code[p] \in {4, 130}

Inv == TypeOK /\ PlaceInv /\ FragmentIsTemporary

LEMMA InitInv == Init => Inv
BY ConvertAssumption DEF Init, Inv, TypeOK, PlaceInv, FragmentIsTemporary,
   Absent, All, Part, Places, Running

LEMMA StepType == Inv /\ [Next]_vars => TypeOK'
<1> SUFFICES ASSUME Inv, [Next]_vars PROVE TypeOK'
  OBVIOUS
<1> USE DEF Inv, TypeOK, Places, Running
<1>1. CASE UNCHANGED vars
  BY <1>1 DEF vars
<1>2. ASSUME NEW p \in Procs, Step(p) \/ Kill(p) PROVE TypeOK'
  <2>1. CASE RefuseEarly(p) \/ Check(p) \/ MakeTemp(p) \/ MakeTempFails(p)
               \/ Convert(p) \/ ConvertFails(p)
    BY <2>1, <1>2 DEF RefuseEarly, Check, MakeTemp, MakeTempFails, Convert,
       ConvertFails, Exit, GoTo
  <2>2. CASE Replace(p) \/ ReplaceFails(p) \/ Link(p) \/ Occupied(p)
               \/ LinkFails(p) \/ LinkInterrupted(p) \/ Create(p)
               \/ CreateFails(p) \/ CreateInterrupted(p)
    BY <2>2, <1>2 DEF Replace, ReplaceFails, Link, Occupied, LinkFails,
       LinkInterrupted, Create, CreateFails, CreateInterrupted, LeaveFragment,
       Exit, GoTo
  <2>3. CASE CopyDone(p) \/ CopyFails(p) \/ Unlink(p) \/ UnlinkFails(p)
               \/ Cleanup(p) \/ CleanupFails(p) \/ Kill(p)
    BY <2>3, <1>2 DEF CopyDone, CopyFails, Unlink, UnlinkFails, LeaveFragment,
       Cleanup, CleanupFails, Kill, Exit, GoTo
  <2> QED BY <2>1, <2>2, <2>3, <1>2 DEF Step
<1> QED BY <1>1, <1>2 DEF Next

LEMMA StepPlaces == Inv /\ [Next]_vars => PlaceInv'
<1> SUFFICES ASSUME Inv, [Next]_vars PROVE PlaceInv'
  OBVIOUS
<1> USE DEF Inv, TypeOK, PlaceInv
<1>1. CASE UNCHANGED vars
  BY <1>1 DEF vars
<1>2. ASSUME NEW p \in Procs, Step(p) \/ Kill(p) PROVE PlaceInv'
  <2>1. CASE RefuseEarly(p) \/ Check(p) \/ MakeTemp(p) \/ MakeTempFails(p)
               \/ Convert(p) \/ ConvertFails(p)
    BY <2>1, <1>2 DEF RefuseEarly, Check, MakeTemp, MakeTempFails, Convert,
       ConvertFails, Exit, GoTo
  <2>2. CASE Replace(p) \/ ReplaceFails(p) \/ Link(p) \/ Occupied(p)
               \/ LinkFails(p) \/ LinkInterrupted(p) \/ Create(p)
               \/ CreateFails(p) \/ CreateInterrupted(p)
    BY <2>2, <1>2 DEF Replace, ReplaceFails, Link, Occupied, LinkFails,
       LinkInterrupted, Create, CreateFails, CreateInterrupted, LeaveFragment,
       Exit, GoTo
  <2>3. CASE CopyDone(p) \/ CopyFails(p) \/ Unlink(p) \/ UnlinkFails(p)
               \/ Cleanup(p) \/ CleanupFails(p) \/ Kill(p)
    BY <2>3, <1>2 DEF CopyDone, CopyFails, Unlink, UnlinkFails, LeaveFragment,
       Cleanup, CleanupFails, Kill, Exit, GoTo
  <2> QED BY <2>1, <2>2, <2>3, <1>2 DEF Step
<1> QED BY <1>1, <1>2 DEF Next

LEMMA StepFragment == Inv /\ [Next]_vars => FragmentIsTemporary'
<1> SUFFICES ASSUME Inv, [Next]_vars PROVE FragmentIsTemporary'
  OBVIOUS
<1> USE ConvertAssumption DEF Inv, TypeOK, PlaceInv, FragmentIsTemporary,
        Absent, All, Part
<1>1. CASE UNCHANGED vars
  BY <1>1 DEF vars
<1>2. ASSUME NEW p \in Procs, Step(p) \/ Kill(p) PROVE FragmentIsTemporary'
  <2>1. CASE RefuseEarly(p) \/ Check(p) \/ MakeTemp(p) \/ MakeTempFails(p)
               \/ Convert(p) \/ ConvertFails(p)
    BY <2>1, <1>2 DEF RefuseEarly, Check, MakeTemp, MakeTempFails, Convert,
       ConvertFails, Exit, GoTo
  <2>2. CASE ReplaceFails(p) \/ Occupied(p) \/ LinkFails(p)
               \/ LinkInterrupted(p) \/ CreateFails(p)
    BY <2>2, <1>2 DEF ReplaceFails, Occupied, LinkFails, LinkInterrupted,
       CreateFails, Exit, GoTo
  <2>3. CASE Replace(p) \/ Link(p)
    BY <2>3, <1>2 DEF Replace, Link, Exit, GoTo
  <2>4. CASE Create(p)
    BY <2>4, <1>2 DEF Create, GoTo
  <2>5. CASE CopyDone(p)
    BY <2>5, <1>2 DEF CopyDone, Exit, GoTo
  <2>6. CASE CopyFails(p) \/ Cleanup(p) \/ CleanupFails(p)
    BY <2>6, <1>2 DEF CopyFails, Cleanup, CleanupFails, Exit, GoTo
  <2>7. CASE Unlink(p)
    BY <2>7, <1>2 DEF Unlink, Exit, GoTo
  <2>8. CASE Kill(p)
    BY <2>8, <1>2 DEF Kill, GoTo
  <2>9. CASE CreateInterrupted(p) \/ UnlinkFails(p)
    BY <2>9, <1>2 DEF CreateInterrupted, UnlinkFails, LeaveFragment
  <2> QED
    BY <2>1, <2>2, <2>3, <2>4, <2>5, <2>6, <2>7, <2>8, <2>9, <1>2 DEF Step
<1> QED BY <1>1, <1>2 DEF Next

\* The invariant holds in every state a set of commands can reach.
LEMMA Invariance == Spec => []Inv
<1>1. Inv /\ [Next]_vars => Inv'
  BY StepType, StepPlaces, StepFragment DEF Inv
<1> QED BY <1>1, InitInv, PTL DEF Spec

\* For any number of commands, a file is partial, whole or not there, and a
\* command is in one of the places of its means of publication.
THEOREM TypeCorrect == Spec => []TypeOK
<1>1. Inv => TypeOK
  BY DEF Inv
<1> QED BY <1>1, Invariance, PTL

\* For any number of commands on any volume, a fragment of a session is at
\* the output only while its writer copies it or is about to remove it, after
\* the writer was killed, or when the removal failed or was never reached,
\* which the writer reports as a failure or an interrupt; never where os.link
\* is relied on, and never by a command with --force.
THEOREM FragmentsVanish == Spec => []FragmentIsTemporary
<1>1. Inv => FragmentIsTemporary
  BY DEF Inv
<1> QED BY <1>1, Invariance, PTL

NoneForces == \A p \in Procs : ~force[p]

\* Among commands without --force the one that created the output is the
\* only one that writes or removes it.
CopyInv ==
  NoneForces => \A p \in Procs : pc[p] \in {"copying", "unlink"} => out = Part(p)

\* Files that differ in who wrote them, or in how much of them is there.
LEMMA FilesDiffer ==
  ASSUME NEW p \in Procs
  PROVE  /\ Part(p) # Absent
         /\ All(p) # Absent
         /\ \A q \in Procs : /\ Part(p) # All(q)
                             /\ All(p) = All(q) => p = q
                             /\ Part(p) = Part(q) => p = q
<1>1. Absent.by = Nobody /\ Absent.whole = FALSE
  BY DEF Absent
<1>2. \A q \in Procs : /\ Part(q).by = q /\ Part(q).whole = FALSE
                       /\ All(q).by = q /\ All(q).whole = TRUE
  BY DEF Part, All
<1> QED BY <1>1, <1>2, ConvertAssumption

LEMMA StepCopy == Inv /\ CopyInv /\ [Next]_vars => CopyInv'
<1> SUFFICES ASSUME Inv, CopyInv, [Next]_vars PROVE CopyInv'
  OBVIOUS
<1> USE ConvertAssumption DEF Inv, TypeOK, PlaceInv, CopyInv, NoneForces,
        Absent, All, Part
<1>1. CASE UNCHANGED vars
  BY <1>1 DEF vars
<1>2. ASSUME NEW p \in Procs, Step(p) \/ Kill(p) PROVE CopyInv'
  <2>1. CASE RefuseEarly(p) \/ Check(p) \/ MakeTemp(p) \/ MakeTempFails(p)
               \/ Convert(p) \/ ConvertFails(p)
    BY <2>1, <1>2 DEF RefuseEarly, Check, MakeTemp, MakeTempFails, Convert,
       ConvertFails, Exit, GoTo
  <2>2. CASE ReplaceFails(p) \/ Occupied(p) \/ LinkFails(p)
               \/ LinkInterrupted(p) \/ CreateFails(p)
    BY <2>2, <1>2 DEF ReplaceFails, Occupied, LinkFails, LinkInterrupted,
       CreateFails, Exit, GoTo
  <2>3. CASE Replace(p) \/ Link(p)
    BY <2>3, <1>2 DEF Replace, Link, Exit, GoTo
  <2>4. CASE Create(p)
    <3>1. out = Absent /\ UNCHANGED force
      BY <2>4 DEF Create, GoTo
    <3>2. ASSUME NoneForces, NEW q \in Procs
          PROVE  pc[q] \notin {"copying", "unlink"}
      <4>1. out # Part(q)
        BY <3>1 DEF Absent, Part
      <4> QED BY <3>2, <4>1
    <3>3. pc' = [pc EXCEPT ![p] = "copying"] /\ out' = Part(p)
      BY <2>4 DEF Create, GoTo
    <3> SUFFICES ASSUME NoneForces', NEW q \in Procs,
                        pc'[q] \in {"copying", "unlink"}
                 PROVE  out' = Part(p) /\ q = p
      OBVIOUS
    <3>4. pc[q] \notin {"copying", "unlink"}
      BY <3>1, <3>2
    <3>5. q = p
      BY <3>3, <3>4
    <3> QED BY <3>3, <3>5
  <2>5. CASE CopyDone(p)
    BY <2>5, <1>2 DEF CopyDone, Exit, GoTo
  <2>6. CASE CopyFails(p) \/ Cleanup(p) \/ CleanupFails(p)
    BY <2>6, <1>2 DEF CopyFails, Cleanup, CleanupFails, Exit, GoTo
  <2>7. CASE Unlink(p)
    BY <2>7, <1>2 DEF Unlink, Exit, GoTo
  <2>8. CASE Kill(p)
    BY <2>8, <1>2 DEF Kill, GoTo
  <2>9. CASE CreateInterrupted(p) \/ UnlinkFails(p)
    BY <2>9, <1>2 DEF CreateInterrupted, UnlinkFails, LeaveFragment
  <2> QED
    BY <2>1, <2>2, <2>3, <2>4, <2>5, <2>6, <2>7, <2>8, <2>9, <1>2 DEF Step
<1> QED BY <1>1, <1>2 DEF Next

LEMMA CopyInvariance == Spec => []CopyInv
<1>1. Init => CopyInv
  BY DEF Init, CopyInv
<1>2. Inv /\ CopyInv /\ [Next]_vars => CopyInv'
  BY StepCopy
<1> QED BY <1>1, <1>2, Invariance, PTL DEF Spec

\* For any number of commands, a command without --force leaves what is at
\* the output alone, where os.link is relied on and wherever no command is
\* run with --force.
THEOREM OutputsPreserved == Spec => OutputPreservedPlain
<1>1. ASSUME Inv, CopyInv, Next, links \/ NoneForces, NEW p \in Procs
      PROVE  Preserves(p)
  <2> SUFFICES ASSUME ~force[p], pc[p] # pc'[p], out # Absent, out.by # p
               PROVE  out' = out
    BY DEF Preserves
  <2> USE DEF Inv, TypeOK, PlaceInv
  <2>1. PICK q \in Procs : Step(q) \/ Kill(q)
    BY <1>1 DEF Next
  <2>2. q = p
    <3>1. pc' = [pc EXCEPT ![q] = pc'[q]]
      BY <1>1, <2>1 DEF Step, Kill, RefuseEarly, Check, MakeTemp, MakeTempFails,
         Convert, ConvertFails, Replace, ReplaceFails, Link, Occupied, LinkFails,
         LinkInterrupted, Create, CreateFails, CreateInterrupted, LeaveFragment,
         CopyDone, CopyFails, Unlink, UnlinkFails, Cleanup, CleanupFails, Exit,
         GoTo
    <3> QED BY <3>1, <1>1
  <2>3. ~Replace(p) /\ ~Link(p) /\ ~Create(p) /\ ~CreateInterrupted(p)
    BY <1>1 DEF Replace, Link, Create, CreateInterrupted, Exit, GoTo
  <2>4. ~CopyDone(p) \/ out' = out
    BY <1>1 DEF CopyDone, Part
  <2>5. ~Unlink(p)
    BY <1>1 DEF Unlink, Exit, GoTo, CopyInv, Part
  <2> QED BY <1>1, <2>1, <2>2, <2>3, <2>4, <2>5 DEF Step, Kill, RefuseEarly,
        Check, MakeTemp, MakeTempFails, Convert, ConvertFails, ReplaceFails,
        Occupied, LinkFails, LinkInterrupted, CreateFails, CopyFails,
        UnlinkFails, Cleanup, CleanupFails
<1>2. Inv /\ CopyInv /\ [Next]_vars =>
        [links \/ (\A q \in Procs : ~force[q]) =>
           \A p \in Procs : Preserves(p)]_vars
  BY <1>1 DEF NoneForces
<1> QED BY <1>2, Invariance, CopyInvariance, PTL DEF Spec, OutputPreservedPlain

\* What a command that has reported success left at the output.
Published(p) ==
  \/ out = All(p)
  \/ out.by \in Procs /\ out.whole /\ force[out.by]

PublishInv ==
  links \/ NoneForces => \A p \in Procs : code[p] = 0 => Published(p)

LEMMA StepPublish == Inv /\ CopyInv /\ PublishInv /\ [Next]_vars => PublishInv'
<1> SUFFICES ASSUME Inv, CopyInv, PublishInv, [Next]_vars PROVE PublishInv'
  OBVIOUS
<1> USE ConvertAssumption DEF Inv, TypeOK, PlaceInv, PublishInv, Published,
        NoneForces, Absent, All, Part
<1>1. CASE UNCHANGED vars
  BY <1>1 DEF vars
<1>2. ASSUME NEW p \in Procs, Step(p) \/ Kill(p) PROVE PublishInv'
  <2>1. CASE RefuseEarly(p) \/ Check(p) \/ MakeTemp(p) \/ MakeTempFails(p)
               \/ Convert(p) \/ ConvertFails(p)
    BY <2>1, <1>2 DEF RefuseEarly, Check, MakeTemp, MakeTempFails, Convert,
       ConvertFails, Exit, GoTo
  <2>2. CASE ReplaceFails(p) \/ Occupied(p) \/ LinkFails(p)
               \/ LinkInterrupted(p) \/ CreateFails(p)
    BY <2>2, <1>2 DEF ReplaceFails, Occupied, LinkFails, LinkInterrupted,
       CreateFails, Exit, GoTo
  <2>3. CASE Replace(p)
    BY <2>3, <1>2 DEF Replace, Exit, GoTo
  <2>4. CASE Link(p) \/ Create(p)
    BY <2>4, <1>2 DEF Link, Create, Exit, GoTo
  <2>5. CASE CopyDone(p)
    <3>1. ~links /\ UNCHANGED <<links, force>>
      BY <2>5 DEF CopyDone, Exit, GoTo
    <3>2. CASE NoneForces
      <4>1. out = Part(p) /\ out' = All(p)
        BY <2>5, <3>2 DEF CopyDone, Exit, GoTo, CopyInv
      <4>2. \A q \in Procs : code[q] # 0
        BY <4>1, <3>2, FilesDiffer
      <4>3. PICK c \in {0, 130} : code' = [code EXCEPT ![p] = c]
        BY <2>5 DEF CopyDone, Exit
      <4>4. \A q \in Procs : code'[q] = 0 => q = p
        BY <4>2, <4>3
      <4> QED BY <4>1, <4>4
    <3> QED BY <3>1, <3>2
  <2>6. CASE CopyFails(p) \/ Cleanup(p) \/ CleanupFails(p)
    BY <2>6, <1>2 DEF CopyFails, Cleanup, CleanupFails, Exit, GoTo
  <2>7. CASE Unlink(p)
    BY <2>7, <1>2 DEF Unlink, Exit, GoTo, CopyInv
  <2>8. CASE Kill(p)
    BY <2>8, <1>2 DEF Kill, GoTo
  <2>9. CASE CreateInterrupted(p) \/ UnlinkFails(p)
    BY <2>9, <1>2 DEF CreateInterrupted, UnlinkFails, LeaveFragment
  <2> QED
    BY <2>1, <2>2, <2>3, <2>4, <2>5, <2>6, <2>7, <2>8, <2>9, <1>2 DEF Step
<1> QED BY <1>1, <1>2 DEF Next

\* For any number of commands, where os.link is relied on and wherever no
\* command is run with --force: the session of a command that has reported
\* success is at the output until a --force replaces it.
THEOREM SuccessIsPublished == Spec => []ReportedIsPublished
<1>1. Init => PublishInv
  BY DEF Init, PublishInv, Running
<1>2. Inv /\ CopyInv /\ PublishInv /\ [Next]_vars => PublishInv'
  BY StepPublish
<1>3. PublishInv => ReportedIsPublished
  BY DEF PublishInv, ReportedIsPublished, Published, NoneForces
<1> QED BY <1>1, <1>2, <1>3, Invariance, CopyInvariance, PTL DEF Spec
=============================================================================
