----------------------------- MODULE ForkWatch ------------------------------
(***************************************************************************)
(* The monthly sweep over the forks of the upstream repository             *)
(* (scripts/fork_watch.py), the check of the official releases             *)
(* (scripts/release_watch.py) and the workflow that runs both and files    *)
(* the issue (.github/workflows/forks-watch.yml).  Owners push to, reset,  *)
(* create and delete forks while a sweep asks GitHub about one after the   *)
(* other; the maintainer reads what an issue names and records the heads   *)
(* with --print-heads.                                                     *)
(*                                                                         *)
(* A commit is a number, never used twice; the wording of the report is    *)
(* left out, but for the forks it names.                                   *)
(***************************************************************************)
EXTENDS Integers, Sequences, SequencesExt

CONSTANTS
  Forks,       \* the forks there may be
  Known,       \* KNOWN_FORKS
  Pins,        \* what the releases are checked for: Telegram Desktop, Telethon
  PageSize,    \* forks on a page of the list
  MaxPages,    \* pages that are asked for
  MaxChanges,  \* bound: changes the owners make
  MaxFaults    \* bound: list pages that are no list, runs that die

ASSUME WatchAssumption ==
  /\ IsFiniteSet(Forks)
  /\ Known \subseteq Forks
  /\ PageSize \in Nat \ {0}
  /\ MaxPages \in Nat \ {0}
  /\ MaxChanges \in Nat
  /\ MaxFaults \in Nat

VARIABLES
  network,     \* the forks that exist, newest first
  tip,         \* last commit of a fork's default branch, 0: nothing of its own
  recent,      \* the forks pushed to in the last LOOKBACK_DAYS
  changes,     \* changes made
  outdated,    \* the pins an official release has passed
  read,        \* <<fork, commit>>: what the maintainer has read
  verdicts,    \* TRIAGED_FORKS
  heads,       \* TRIAGED_HEADS; 0: none recorded
  at,          \* the step the workflow or --print-heads is in
  page,        \* list_forks: the page asked for
  listed,      \* list_forks: the forks found
  todo,        \* forks the sweep has not compared
  rows,        \* the forks found ahead of upstream, with the head compared
  errors,      \* the forks that could not be compared
  candidates,  \* forks of the recency section
  activity,    \* has_activity: the steps that asked for an issue
  unseen,      \* listed forks that were ahead and unread since the run began
  issue,       \* what the last run named in an issue, as far as it has not
               \* changed since; "failed": the issue says the scan failed
  faults       \* faults so far

owners     == <<network, tip, recent, changes>>
maintained == <<outdated, read, verdicts, heads>>
job        == <<at, page, listed, todo, rows, errors, candidates, activity>>
vars       == <<owners, maintained, job, unseen, issue, faults>>

Existing  == ToSet(network)
Unknown   == -1   \* the marker of a compare without commits
Unread(f) == f \in Existing \ Known /\ tip[f] # 0 /\ <<f, tip[f]>> \notin read

Init ==
  /\ network \in SetToSeqs(Forks)
  /\ tip = [f \in Forks |-> 0]
  /\ recent = {}
  /\ changes = 0
  /\ outdated = {}
  /\ read = {}
  /\ verdicts = {}
  /\ heads = [f \in Forks |-> 0]
  /\ at = "idle"
  /\ page = 1
  /\ listed = {} /\ todo = {} /\ rows = {} /\ errors = {} /\ candidates = {}
  /\ activity = {}
  /\ unseen = {}
  /\ issue = {}
  /\ faults = 0

(***************************************************************************)
(* The owners of the forks, and the releases                               *)
(***************************************************************************)

Change(f) ==
  /\ changes < MaxChanges
  /\ changes' = changes + 1
  /\ unseen' = unseen \ {f}
  /\ issue' = issue \ {f, "failed"}
  /\ UNCHANGED <<maintained, job, faults>>

\* Pushes to the forks of KNOWN_FORKS are never asked about.
Push(f) ==
  /\ Change(f)
  /\ f \in Existing \ Known
  /\ tip' = [tip EXCEPT ![f] = changes + 1]
  /\ recent' = recent \cup {f}
  /\ UNCHANGED network

\* A forced push back to upstream, or to a commit there was before.
ResetTip(f) ==
  /\ Change(f)
  /\ f \in Existing
  /\ \E commit \in 0 .. tip[f] - 1 :
       /\ commit = 0 \/ <<f, commit>> \in read
       /\ tip' = [tip EXCEPT ![f] = commit]
  /\ recent' = recent \cup {f}
  /\ UNCHANGED network

CreateFork(f) ==
  /\ Change(f)
  /\ f \notin Existing
  /\ network' = <<f>> \o network
  /\ UNCHANGED <<tip, recent>>

DeleteFork(f) ==
  /\ Change(f)
  /\ \E i \in DOMAIN network : network[i] = f /\ network' = RemoveAt(network, i)
  /\ tip' = [tip EXCEPT ![f] = 0]
  /\ recent' = recent \ {f}

\* LOOKBACK_DAYS pass without a push.  A run takes the date it looks back to
\* before it reads the list.
GrowOld(f) ==
  /\ at # "watch list"
  /\ f \in recent
  /\ recent' = recent \ {f}
  /\ UNCHANGED <<network, tip, changes, maintained, job, unseen, issue, faults>>

Release(p) ==
  /\ p \notin outdated
  /\ outdated' = outdated \cup {p}
  /\ issue' = issue \ {p}
  /\ UNCHANGED <<owners, read, verdicts, heads, job, unseen, faults>>

(***************************************************************************)
(* The maintainer                                                          *)
(***************************************************************************)

ReadFork(f) ==
  /\ at = "idle"
  /\ f \in issue
  /\ Unread(f)
  /\ read' = read \cup {<<f, tip[f]>>}
  /\ UNCHANGED <<owners, outdated, verdicts, heads, job, unseen, issue, faults>>

UpdatePin(p) ==
  /\ at = "idle"
  /\ p \in outdated \cap issue
  /\ outdated' = outdated \ {p}
  /\ UNCHANGED <<owners, read, verdicts, heads, job, unseen, issue, faults>>

\* fork_watch.py --print-heads
StartPrint ==
  /\ at = "idle"
  /\ \E entry \in read : heads[entry[1]] # entry[2]
  /\ at' = "print list"
  /\ UNCHANGED <<owners, maintained, page, listed, todo, rows, errors, candidates,
                 activity, unseen, issue, faults>>

\* The maintainer's choice, not the script's: print_heads prints a line for
\* every fork ahead of upstream, ready to paste, and only those with a head
\* that was read are taken over.
Reviewed == rows \cap read

\* The heads are printed, and TRIAGED_FORKS and TRIAGED_HEADS edited by hand.
Paste ==
  /\ at = "print sweep" /\ todo = {}
  /\ verdicts' = verdicts \cup {r[1] : r \in Reviewed}
  /\ heads' = [f \in Forks |-> IF \E r \in Reviewed : r[1] = f
                                 THEN (CHOOSE r \in Reviewed : r[1] = f)[2]
                                 ELSE heads[f]]
  /\ at' = "idle"
  /\ page' = 1 /\ listed' = {} /\ rows' = {} /\ errors' = {}
  /\ UNCHANGED <<owners, outdated, read, todo, candidates, activity, unseen,
                 issue, faults>>

(***************************************************************************)
(* list_forks                                                              *)
(***************************************************************************)

\* The run of the schedule, on a fresh checkout.
StartWatch ==
  /\ at = "idle"
  /\ at' = "watch list"
  /\ unseen' = {f \in Forks : Unread(f)}
  /\ UNCHANGED <<owners, maintained, page, listed, todo, rows, errors, candidates,
                 activity, issue, faults>>

Chunk == {network[i] : i \in ((page - 1) * PageSize + 1 .. page * PageSize)
                             \cap DOMAIN network}

\* A fork is a candidate by the date of its last push as its page has it.
Pushed == IF at = "watch list" THEN recent \cap (Chunk \ Known) ELSE {}

\* The list is complete, as far as the pages went.
Listed(forks) ==
  /\ listed' = forks
  /\ todo' = forks \ Known
  /\ at' = IF at = "watch list" THEN "watch sweep" ELSE "print sweep"
  /\ page' = 1
  /\ unseen' = unseen \cap forks

\* A page with less than PageSize forks, or the last one asked for, is the end.
ListPage ==
  /\ at \in {"watch list", "print list"}
  /\ LET forks == listed \cup Chunk IN
       IF page * PageSize > Len(network) \/ page = MaxPages
         THEN Listed(forks)
         ELSE /\ listed' = forks
              /\ page' = page + 1
              /\ UNCHANGED <<at, todo, unseen>>
  /\ candidates' = candidates \cup Pushed
  /\ UNCHANGED <<owners, maintained, rows, errors, activity, issue, faults>>

\* An answer that is no list ends the pages with a warning of the log.
ListPageOdd ==
  /\ at \in {"watch list", "print list"}
  /\ faults < MaxFaults
  /\ faults' = faults + 1
  /\ Listed(listed)
  /\ UNCHANGED <<owners, maintained, rows, errors, candidates, activity, issue>>

\* The script ends with an error: the list cannot be had (main), or an answer
\* of the sweep is no JSON or breaks off, which no handler catches.  Only then
\* has the recency section been printed.
ScanFails ==
  /\ \/ /\ at \in {"watch list", "watch sweep"}
        /\ at' = "releases"
        /\ activity' = {"failed"} \cup IF at = "watch sweep" THEN candidates ELSE {}
     \/ /\ at \in {"print list", "print sweep"}
        /\ at' = "idle"
        /\ UNCHANGED activity
  /\ page' = 1
  /\ listed' = {} /\ todo' = {} /\ rows' = {} /\ errors' = {} /\ candidates' = {}
  /\ UNCHANGED <<owners, maintained, unseen, issue, faults>>

(***************************************************************************)
(* The sweep                                                               *)
(***************************************************************************)

\* Mutant: a fork that was reviewed once is trusted forever.
SettledByName(f, head) == f \in verdicts

\* A verdict counts for the head that was reviewed.
Settled(f, head) == f \in verdicts /\ heads[f] = head

\* Mutant: an answer without commits gives no head instead of the marker.
CompareWithoutMarker(f) ==
  /\ at \in {"watch sweep", "print sweep"}
  /\ f \in todo \cap Existing
  /\ \/ tip[f] = 0 /\ UNCHANGED rows
     \/ tip[f] # 0 /\ \E head \in {tip[f], 0} : rows' = rows \cup {<<f, head>>}
  /\ todo' = todo \ {f}
  /\ UNCHANGED <<owners, maintained, at, page, listed, errors, candidates,
                 activity, unseen, issue, faults>>

\* compare_to_upstream: the tip when it is ahead, or the marker when no commit
\* came with the answer.
Compare(f) ==
  /\ at \in {"watch sweep", "print sweep"}
  /\ f \in todo \cap Existing
  /\ \/ tip[f] = 0 /\ UNCHANGED rows
     \/ tip[f] # 0 /\ \E head \in {tip[f], Unknown} : rows' = rows \cup {<<f, head>>}
  /\ todo' = todo \ {f}
  /\ UNCHANGED <<owners, maintained, at, page, listed, errors, candidates,
                 activity, unseen, issue, faults>>

\* The compare failed: an HTTP error, or no connection after the retries of
\* gh_get.
CompareError(f) ==
  /\ at \in {"watch sweep", "print sweep"}
  /\ f \in todo
  /\ errors' = errors \cup {f}
  /\ todo' = todo \ {f}
  /\ UNCHANGED <<owners, maintained, at, page, listed, rows, candidates,
                 activity, unseen, issue, faults>>

Fresh == {r[1] : r \in {s \in rows : ~Settled(s[1], s[2])}}

\* Mutant: forks that could not be compared ask for no issue.
ErrorsNotCounted == Fresh \cup candidates

\* What the report asks to be read: has_activity is true if there is any.
Named == Fresh \cup errors \cup candidates

EndSweep ==
  /\ at = "watch sweep" /\ todo = {}
  /\ activity' = Named
  /\ at' = "releases"
  /\ listed' = {} /\ rows' = {} /\ errors' = {} /\ candidates' = {}
  /\ UNCHANGED <<owners, maintained, page, todo, unseen, issue, faults>>

(***************************************************************************)
(* The releases and the issue                                              *)
(***************************************************************************)

\* Mutant: the layer table and the lock are not compared.
OnlyUnreachable(unreachable) == unreachable

\* check_releases: a pin that was passed, or could not be checked.
Attention(unreachable) == outdated \cup unreachable

CheckReleases ==
  /\ at = "releases"
  /\ \E unreachable \in SUBSET Pins : activity' = activity \cup Attention(unreachable)
  /\ at' = "issue"
  /\ UNCHANGED <<owners, maintained, page, listed, todo, rows, errors, candidates,
                 unseen, issue, faults>>

\* The issue is filed when either step asked for it, otherwise there is none.
OpenIssue ==
  /\ at = "issue"
  /\ issue' = activity
  /\ at' = "idle"
  /\ activity' = {}
  /\ unseen' = {}
  /\ UNCHANGED <<owners, maintained, page, listed, todo, rows, errors, candidates,
                 faults>>

\* The runner is lost, or GitHub refuses the label or the issue.
RunDies ==
  /\ at \notin {"idle", "print list", "print sweep"}
  /\ faults < MaxFaults
  /\ faults' = faults + 1
  /\ at' = "idle"
  /\ page' = 1
  /\ listed' = {} /\ todo' = {} /\ rows' = {} /\ errors' = {} /\ candidates' = {}
  /\ activity' = {}
  /\ unseen' = {}
  /\ UNCHANGED <<owners, maintained, issue>>

Owners     == \E f \in Forks : \/ Push(f) \/ ResetTip(f) \/ CreateFork(f)
                                \/ DeleteFork(f) \/ GrowOld(f)
Maintainer == \/ \E f \in Forks : ReadFork(f)
              \/ \E p \in Pins : UpdatePin(p)
              \/ StartPrint
Scan       == \/ ListPage \/ ScanFails
              \/ \E f \in Forks : Compare(f) \/ CompareError(f)
              \/ EndSweep \/ CheckReleases \/ OpenIssue \/ Paste

Next == \/ Owners \/ \E p \in Pins : Release(p)
        \/ Maintainer \/ StartWatch \/ Scan \/ ListPageOdd \/ RunDies

\* The schedule starts a run every month, whatever the maintainer does, and
\* every step ends: a request has a timeout.  Nothing else has to happen.
Spec == Init /\ [][Next]_vars /\ SF_vars(StartWatch) /\ WF_vars(Scan)

(***************************************************************************)
(* Properties                                                              *)
(***************************************************************************)

Commits == 1 .. MaxChanges
Steps   == {"idle", "print list", "print sweep", "watch list", "watch sweep",
            "releases", "issue"}

\* The types of the state; a commit is recorded for exactly the forks with a
\* verdict, as tests/test_fork_watch.py asks of the tables.
TypeOK ==
  /\ network \in Seq(Forks) /\ IsInjective(network)
  /\ tip \in [Forks -> {0} \cup Commits]
  /\ recent \subseteq Forks
  /\ changes \in 0 .. MaxChanges
  /\ outdated \subseteq Pins
  /\ read \subseteq Forks \X Commits
  /\ verdicts \subseteq Forks \ Known
  /\ heads \in [Forks -> {0} \cup Commits]
  /\ \A f \in Forks : f \in verdicts <=> heads[f] # 0
  /\ at \in Steps
  /\ page \in 1 .. MaxPages
  /\ {listed, todo, errors, candidates, unseen} \subseteq SUBSET Forks
  /\ rows \subseteq Forks \X ({Unknown} \cup Commits)
  /\ {activity, issue} \subseteq SUBSET (Forks \cup Pins \cup {"failed"})
  /\ faults \in 0 .. MaxFaults

\* A run that ends has named every listed fork that was ahead of upstream with
\* work nobody has read since the run began, or says that the scan failed:
\* "a silently unchecked fork is the failure this sweep exists to prevent".
\* Neither a verdict on an earlier head, nor pushes and resets while the sweep
\* is under way, nor a compare that fails may hide it.
ReportsUnread ==
  [][at = "issue" /\ at' = "idle" /\ faults' = faults
       => "failed" \in issue' \/ unseen \subseteq issue']_vars

\* Unread work of a fork is named in an issue, or an issue says that the scan
\* failed, unless the work is read or taken back before: also when a list was
\* cut short, a page shifted under the sweep or a run died.
UnreadIsReported ==
  \A f \in Forks : Unread(f) ~> (~Unread(f) \/ f \in issue \/ "failed" \in issue)

\* A release that passes a pin is named in an issue, unless the pin is
\* updated before: also in months without work in the forks.
OutdatedIsReported ==
  \A p \in Pins : p \in outdated ~> (p \notin outdated \/ p \in issue)
=============================================================================
