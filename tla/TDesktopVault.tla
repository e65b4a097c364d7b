---------------------------- MODULE TDesktopVault ---------------------------
(***************************************************************************)
(* TDesktop implements SessionVault: the files of a folder, written one    *)
(* after the other, are seen as what opening the folder would yield.       *)
(***************************************************************************)
EXTENDS TDesktop

AccountsOf(accounts) ==
  {<<accounts[i].index, accounts[i].user>> : i \in DOMAIN accounts}

\* What opening a slot with its passcode yields.
View(s) ==
  LET key  == keyData[s].wrapped
      open == key # NoKey
  IN  [open    |-> open,
       pass    |-> keyData[s].pass,
       members |-> {<<i, mtpFile[<<s[1], ComposeDataString(s[2], i)>>].user>> :
                      i \in IF open THEN ReadableIndices(s, key) ELSE {}}]

NoSlot == <<NoFolder, DefaultKeyFile>>

Vault == INSTANCE SessionVault WITH
  Members <- Indices \X Users,
  members <- IF pc = "loading" THEN {} ELSE AccountsOf(client.accounts),
  pass    <- client.passcode,
  vault   <- [s \in Slots |-> View(s)],
  saving  <- IF pc \in SaveStages THEN CurrentSlot ELSE NoSlot

\* As long as nobody reloads an object by hand, names another key file for a
\* save or switches performance mode, every step of the client is a step of
\* the vault: a completed SaveTData puts exactly the accounts and the
\* passcode of the client into its slot, in one commit, and into no other.
ImplementsVault == Vault!Spec
=============================================================================
