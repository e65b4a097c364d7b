----------------------------- MODULE CliConvert -----------------------------
(***************************************************************************)
(* Runs of `opentele-ng convert` (__main__.py) that write to the same      *)
(* output.  Each builds its session in a folder of its own beside the      *)
(* output and then publishes it: with --force by renaming it over the      *)
(* output, without by a hard link, or, where os.link fails, by creating    *)
(* the output exclusively and copying into it.                             *)
(*                                                                         *)
(* A command may be interrupted (KeyboardInterrupt, exit code 130) before  *)
(* and after each of its steps, and killed at any point.                   *)
(***************************************************************************)
EXTENDS Integers

CONSTANTS
  Procs,     \* running commands
  Foreign,   \* who wrote a file that was at the output before
  Nobody,    \* who wrote a file that does not exist
  Volumes    \* whether os.link may be relied on: a subset of BOOLEAN

ASSUME ConvertAssumption ==
  /\ Foreign \notin Procs
  /\ Nobody \notin Procs \cup {Foreign}
  /\ Volumes \subseteq BOOLEAN

VARIABLES
  links,   \* os.link fails for no reason but a file at the output; where it
           \* is FALSE os.link may work or fail (no hard links, I/O errors)
  bare,    \* a file exists at the output path without the .session suffix
  force,   \* --force, for each command
  pc,      \* where each command stands
  temp,    \* the session in the temporary folder of each command
  out,     \* the file at <output>.session: who wrote it, and if all of it
  code,    \* the exit code each command has come to
  unremoved  \* history: commands that left without removing what they created

vars == <<links, bare, force, pc, temp, out, code, unremoved>>

Running == -1
Absent  == [by |-> Nobody, whole |-> FALSE]
Part(p) == [by |-> p, whole |-> FALSE]
All(p)  == [by |-> p, whole |-> TRUE]

Init ==
  /\ links \in Volumes
  /\ bare \in BOOLEAN
  /\ force \in [Procs -> BOOLEAN]
  /\ pc = [p \in Procs |-> "start"]
  /\ temp = [p \in Procs |-> "none"]
  /\ out \in {Absent, All(Foreign)}
  /\ code = [p \in Procs |-> Running]
  /\ unremoved = {}

GoTo(p, from, to) ==
  /\ pc[p] = from
  /\ pc' = [pc EXCEPT ![p] = to]
  /\ UNCHANGED <<links, bare, force, unremoved>>

\* The command leaves with exit code c.
Exit(p, from, to, c) ==
  /\ GoTo(p, from, to)
  /\ code' = [code EXCEPT ![p] = c]

\* tdata is no directory, or, without --force, a file exists under one of
\* the two spellings of the output; or an interrupt.
RefuseEarly(p) ==
  /\ \/ \E c \in {2, 130} : Exit(p, "start", "ended", c)
     \/ ~force[p] /\ (out # Absent \/ bare) /\ Exit(p, "start", "ended", 5)
  /\ UNCHANGED <<temp, out>>

Check(p) ==
  /\ force[p] \/ (out = Absent /\ ~bare)
  /\ GoTo(p, "start", "temp")
  /\ UNCHANGED <<temp, out, code>>

MakeTemp(p) ==
  /\ GoTo(p, "temp", "convert")
  /\ temp' = [temp EXCEPT ![p] = "empty"]
  /\ UNCHANGED <<out, code>>

\* Of the folder, or of the empty session in it.
MakeTempFails(p) ==
  /\ \E c \in {4, 130}, to \in {"cleanup", "ended"} : Exit(p, "temp", to, c)
  /\ UNCHANGED <<temp, out>>

\* _convert_async returns 0: the session is complete and on disk.
Convert(p) ==
  /\ GoTo(p, "convert", IF force[p] THEN "replace" ELSE "link")
  /\ temp' = [temp EXCEPT ![p] = "whole"]
  /\ UNCHANGED <<out, code>>

\* tdata does not load (3), disconnecting fails or the session is missing or
\* empty (4), or the conversion raises (1).
ConvertFails(p) ==
  /\ \E c \in {1, 3, 4, 130} : Exit(p, "convert", "cleanup", c)
  /\ UNCHANGED <<temp, out>>

\* Mutant: the exit code is not set.
ReplaceSilently(p) ==
  /\ GoTo(p, "replace", "cleanup")
  /\ out' = All(p)
  /\ temp' = [temp EXCEPT ![p] = "none"]
  /\ UNCHANGED code

\* os.replace, which may be interrupted when it is done.
Replace(p) ==
  /\ \E c \in {0, 130} : Exit(p, "replace", "cleanup", c)
  /\ out' = All(p)
  /\ temp' = [temp EXCEPT ![p] = "none"]

ReplaceFails(p) ==
  /\ \E c \in {4, 130} : Exit(p, "replace", "cleanup", c)
  /\ UNCHANGED <<temp, out>>

\* Mutant: the link takes the place of a file that is there.
LinkOver(p) ==
  /\ Exit(p, "link", "cleanup", 0)
  /\ out' = All(p)
  /\ UNCHANGED temp

\* os.link, which may be interrupted when it is done.
Link(p) ==
  /\ out = Absent
  /\ \E c \in {0, 130} : Exit(p, "link", "cleanup", c)
  /\ out' = All(p)
  /\ UNCHANGED temp

\* FileExistsError of os.link or os.open.
Occupied(p) ==
  /\ out # Absent
  /\ \E from \in {"link", "create"} : Exit(p, from, "cleanup", 5)
  /\ UNCHANGED <<temp, out>>

\* Any other error of os.link, which need not look at the output first.
LinkFails(p) ==
  /\ ~links
  /\ GoTo(p, "link", "create")
  /\ UNCHANGED <<temp, out, code>>

LinkInterrupted(p) ==
  /\ Exit(p, "link", "cleanup", 130)
  /\ UNCHANGED <<temp, out>>

\* Mutant: an output that exists is truncated.
CreateOver(p) ==
  /\ GoTo(p, "create", "copying")
  /\ out' = Part(p)
  /\ UNCHANGED <<temp, code>>

\* os.open with O_CREAT and O_EXCL
Create(p) ==
  /\ out = Absent
  /\ GoTo(p, "create", "copying")
  /\ out' = Part(p)
  /\ UNCHANGED <<temp, code>>

CreateFails(p) ==
  /\ \E c \in {4, 130} : Exit(p, "create", "cleanup", c)
  /\ UNCHANGED <<temp, out>>

\* The command leaves with its fragment where it is.
LeaveFragment(p, from, codes) ==
  /\ pc[p] = from
  /\ pc' = [pc EXCEPT ![p] = "cleanup"]
  /\ \E c \in codes : code' = [code EXCEPT ![p] = c]
  /\ unremoved' = unremoved \cup {p}
  /\ UNCHANGED <<links, bare, force, temp>>

\* An interrupt after os.open and before the try that removes what it made.
CreateInterrupted(p) ==
  /\ out = Absent
  /\ LeaveFragment(p, "create", {130})
  /\ out' = Part(p)

\* The copy goes to the file that was created, which may have been replaced
\* at the output since.
CopyDone(p) ==
  /\ \E c \in {0, 130} : Exit(p, "copying", "cleanup", c)
  /\ out' = IF out = Part(p) THEN All(p) ELSE out
  /\ UNCHANGED temp

\* Mutant: what was copied so far is left behind.
CopyFailsAndLeaves(p) ==
  /\ \E c \in {4, 130} : Exit(p, "copying", "cleanup", c)
  /\ UNCHANGED <<temp, out>>

CopyFails(p) ==
  /\ \E c \in {4, 130} : Exit(p, "copying", "unlink", c)
  /\ UNCHANGED <<temp, out>>

\* destination.unlink(missing_ok=True): whatever is at the output by now.
Unlink(p) ==
  /\ \E c \in {code[p], 130} : Exit(p, "unlink", "cleanup", c)
  /\ out' = Absent
  /\ UNCHANGED temp

\* An error of unlink, which takes the place of that of the copy, or a second
\* interrupt.
UnlinkFails(p) ==
  /\ LeaveFragment(p, "unlink", {4, 130})
  /\ UNCHANGED out

\* Leaving the with block removes the temporary folder.
Cleanup(p) ==
  /\ GoTo(p, "cleanup", "ended")
  /\ temp' = [temp EXCEPT ![p] = "none"]
  /\ UNCHANGED <<out, code>>

\* A folder that cannot be removed turns every result into 4, an interrupt
\* into 130.
CleanupFails(p) ==
  /\ \E c \in {4, 130} : Exit(p, "cleanup", "ended", c)
  /\ UNCHANGED <<temp, out>>

Kill(p) ==
  /\ \E from \in {"temp", "convert", "replace", "link", "create", "copying",
                  "unlink", "cleanup"} : GoTo(p, from, "killed")
  /\ UNCHANGED <<temp, out, code>>

Step(p) ==
  \/ RefuseEarly(p) \/ Check(p)
  \/ MakeTemp(p)    \/ MakeTempFails(p)
  \/ Convert(p)     \/ ConvertFails(p)
  \/ Replace(p)     \/ ReplaceFails(p)
  \/ Link(p)        \/ Occupied(p)      \/ LinkFails(p)  \/ LinkInterrupted(p)
  \/ Create(p)      \/ CreateFails(p)   \/ CreateInterrupted(p)
  \/ CopyDone(p)    \/ CopyFails(p)     \/ Unlink(p)     \/ UnlinkFails(p)
  \/ Cleanup(p)     \/ CleanupFails(p)

Next == \E p \in Procs : Step(p) \/ Kill(p)

Spec == Init /\ [][Next]_vars

(***************************************************************************)
(* Properties                                                              *)
(***************************************************************************)

Places == {"start", "temp", "convert", "replace", "link", "create", "copying",
           "unlink", "cleanup", "ended", "killed"}

\* The types of the state; a command that cleans up or has ended has come to
\* an exit code.
TypeOK ==
  /\ links \in BOOLEAN
  /\ bare \in BOOLEAN
  /\ force \in [Procs -> BOOLEAN]
  /\ pc \in [Procs -> Places]
  /\ temp \in [Procs -> {"none", "empty", "whole"}]
  /\ out \in {Absent, All(Foreign)} \cup {Part(p) : p \in Procs}
                                    \cup {All(p) : p \in Procs}
  /\ code \in [Procs -> {Running, 0, 1, 2, 3, 4, 5, 130}]
  /\ unremoved \subseteq Procs
  /\ \A p \in Procs :
       pc[p] \in {"unlink", "cleanup", "ended"} => code[p] # Running

\* A fragment of a session is at the output only while its writer copies it
\* or is about to remove it, after its writer was killed, or when the removal
\* itself failed or was never reached (an interrupt between os.open and its
\* try), and then the writer has reported a failure or an interrupt, not
\* success and not that the output exists.  --force, a volume on which os.link
\* is relied on, and a failure or an interrupt of the copy alone ("with
\* partial-output cleanup on write failure", CHANGELOG 1.4.2) leave none.
FragmentIsTemporary ==
  out.by \in Procs /\ ~out.whole =>
    /\ ~links /\ ~force[out.by]
    /\ \/ pc[out.by] \in {"copying", "unlink", "killed"}
       \/ out.by \in unremoved /\ code[out.by] \in {4, 130}

\* A command that reported success published its session: it is at the
\* output, or another command that was given --force replaced it later.
\* (Checked where os.link is relied on, and where no command is given
\* --force.)
ReportedIsPublished ==
  links \/ (\A p \in Procs : ~force[p]) =>
    \A p \in Procs :
      pc[p] = "ended" /\ code[p] = 0 =>
        \/ out = All(p)
        \/ out.by \in Procs /\ out.whole /\ force[out.by]

\* What is at the output when a command without --force comes to publish
\* stays there, whether it was there before the command was started or
\* appeared while it was converting: no step of the command touches it.
Preserves(p) ==
  ~force[p] /\ pc[p] # pc'[p] /\ out # Absent /\ out.by # p => out' = out

\* Where os.link is relied on, and for commands none of which has --force.
OutputPreservedPlain ==
  [][links \/ (\A q \in Procs : ~force[q]) => \A p \in Procs : Preserves(p)]_vars

\* On every volume and beside every command ("Without --force, an output
\* created while conversion runs is preserved too", CHANGELOG 1.4.2).
OutputPreserved == [][\A p \in Procs : Preserves(p)]_vars
=============================================================================
