---------------------------- MODULE SessionVault ----------------------------
(***************************************************************************)
(* What TDesktop promises about tdata: a vault with one slot per folder    *)
(* and keyFile.  A slot is closed, or opens with one passcode and yields   *)
(* accounts.  A client owns a set of accounts and a passcode; saving puts  *)
(* exactly these into one slot in a single commit, opening a slot with its *)
(* passcode gives them back, and while a save is under way, or after it    *)
(* was abandoned, the slot being saved may have lost accounts or be        *)
(* closed, but a slot that never was saved completely does not open, and a *)
(* slot nobody saves into never changes.                                   *)
(***************************************************************************)
EXTENDS Integers

CONSTANTS
  Slots,       \* pairs of a folder and a keyFile
  NoSlot,      \* no save is under way
  Passcodes,   \* local passcodes
  NoPasscode,  \* the empty passcode
  Members      \* pairs of an index and a user

VARIABLES
  members,  \* the accounts of the client
  pass,     \* the passcode of the client
  vault,    \* what opening each slot would give
  saving    \* the slot a save is writing, or NoSlot

vars == <<members, pass, vault, saving>>

Views  == [open : BOOLEAN, pass : Passcodes, members : SUBSET Members]
Closed == [open |-> FALSE, pass |-> NoPasscode, members |-> {}]

Init ==
  /\ members = {}
  /\ pass = NoPasscode
  /\ vault \in [Slots -> Views]
  /\ saving = NoSlot

\* The client is gone, empty, or another one with no accounts yet.
Leave ==
  /\ saving = NoSlot
  /\ members' = {}
  /\ pass' \in Passcodes
  /\ UNCHANGED <<vault, saving>>

Join(m) ==
  /\ saving = NoSlot
  /\ members' = members \cup {m}
  /\ UNCHANGED <<pass, vault, saving>>

OpenSlot(s) ==
  /\ saving = NoSlot
  /\ vault[s].open
  /\ vault[s].pass = pass
  /\ members' = vault[s].members
  /\ UNCHANGED <<pass, vault, saving>>

BeginSave(s, p) ==
  /\ saving = NoSlot
  /\ members # {}
  /\ pass' = p
  /\ saving' = s
  /\ UNCHANGED <<members, vault>>

\* Writing the files of a slot: a closed slot stays closed, an open one
\* keeps its passcode.  Which of its accounts open changes from file to file;
\* the map of a new account may even uncover the authorization that an
\* abandoned save left at the same index.
Write ==
  /\ saving # NoSlot
  /\ vault[saving].open
  /\ \E view \in {Closed} \cup
       [open : {TRUE}, pass : {vault[saving].pass}, members : SUBSET Members] :
       vault' = [vault EXCEPT ![saving] = view]
  /\ UNCHANGED <<members, pass, saving>>

\* Two accounts with one index share their files.
IndicesClash == \E m, n \in members : m # n /\ m[1] = n[1]

Commit ==
  /\ saving # NoSlot
  /\ \E kept \in IF IndicesClash THEN SUBSET members ELSE {members} :
       vault' = [vault EXCEPT ![saving] =
                   [open |-> TRUE, pass |-> pass, members |-> kept]]
  /\ saving' = NoSlot
  /\ UNCHANGED <<members, pass>>

Abandon ==
  /\ saving # NoSlot
  /\ saving' = NoSlot
  /\ \/ UNCHANGED <<members, pass>>
     \/ members' = {} /\ pass' \in Passcodes
  /\ UNCHANGED vault

Next ==
  \/ Leave
  \/ \E m \in Members : Join(m)
  \/ \E s \in Slots : OpenSlot(s)
  \/ \E s \in Slots, p \in Passcodes : BeginSave(s, p)
  \/ Write
  \/ Commit
  \/ Abandon

Spec == Init /\ [][Next]_vars
=============================================================================
