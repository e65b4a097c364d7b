--------------------------- MODULE StorageAccount ---------------------------
(* What an account keeps in a tdata folder, and its way through opentele   *)
(* (td/account.py, class StorageAccount): an account object reads the map, *)
(* the authorization and the configuration that Telegram Desktop wrote, is *)
(* saved, and another object reads what was saved. A read is one action    *)
(* per block of the map, so that an error in the middle is a state.        *)
(*                                                                         *)
(* The files always decrypt here, and the folder has one account: which    *)
(* file an account uses, and what a missing or foreign one does, is the    *)
(* subject of module TDesktop.                                             *)
EXTENDS MapData, MtpData

CONSTANTS
  Givens,      \* what Telegram Desktop may have written: [blocks, auth, config, narrow]
  MaxSaves     \* bound: saves of the account

ASSUME BoundAssumption == MaxSaves \in Nat

VARIABLES
  given,     \* what Telegram Desktop wrote, one of Givens; never changes
  lenient,   \* OPENTELE_LENIENT_UNKNOWN_LSK = "1" in the environment
  files,     \* the sealed files: [map, config, data]
  account,   \* the account object: [map, config, auth, isLoaded]
  pc,        \* the next call of the program
  left,      \* the words of the map that are not read yet
  partial,   \* the local variables of MapData.read
  saves      \* how often the account was saved

vars == <<given, lenient, files, account, pc, left, partial, saves>>

----------------------------------------------------------------------------
(* Telegram Desktop. A block of its map is [type, keys, pairs, tokens,      *)
(* words, damaged], of which one part is used: file keys, pairs [peer,      *)
(* stored, key] (a peer, and its legacy or present form), the two token     *)
(* arrays, or plain words, as in a block another program damaged.           *)

PairTypes == {lskDraft, lskDraftPosition, lskBotStorages}

PairWords(pairs) == FlattenSeq([i \in DOMAIN pairs |-> pairs[i].key \o pairs[i].stored])

BlockBody(b) ==
  CASE b.type \in PairTypes /\ ~b.damaged -> <<Len(b.pairs)>> \o PairWords(b.pairs)
    [] b.type = lskWebviewTokens /\ ~b.damaged ->
         WriteBytes(b.tokens[1]) \o WriteBytes(b.tokens[2])
    [] b.type \in DOMAIN KeyFields /\ ~b.damaged -> U64Words(b.keys)
    [] OTHER -> b.words

BlockWords(b) == <<b.type>> \o BlockBody(b)

Block == [type : Int, keys : Seq(Uint64), words : Seq(Int), damaged : BOOLEAN,
          pairs : Seq([peer : Uint64, stored : Uint64, key : Uint64]),
          tokens : Seq(Seq(Int))]

\* A peer in its present form, or in the legacy one; other kinds are no peer.
Stores(stored, peer) ==
  \/ IsLegacy(peer) /\ stored = Serialize(peer)
  \/ IsLegacy(stored) /\ \E kind \in DOMAIN LegacyShift :
       stored[1] % 16 = kind /\ peer = <<LegacyShift[kind] * 65536, stored[2]>>
  \/ IsLegacy(stored) /\ stored[1] % 16 \notin DOMAIN LegacyShift /\ peer = Zero64

\* A block of a known type that is as Telegram Desktop wrote it.
IsWhole(b) ==
  /\ b.type \in PairTypes =>
       \A i \in DOMAIN b.pairs : Stores(b.pairs[i].stored, b.pairs[i].peer)
  /\ b.type = lskWebviewTokens => Len(b.tokens) = 2
  /\ b.type \in DOMAIN KeyFields => Len(b.keys) = Len(KeyFields[b.type])
  /\ b.type = lskSelfSerialized => b.words # <<>> /\ b.words = WriteBytes(Tail(b.words))
  /\ b.type \in LegacyArrays => b.words # <<>> /\ Len(b.words) = 1 + 7 * Head(b.words)

\* A damaged block ends early or announces too much, and takes the words after
\* it for its own: it comes last.
IsMap(blocks) ==
  /\ blocks \in Seq(Block)
  /\ \A i \in DOMAIN blocks :
       blocks[i].type \in KnownKeys =>
         IF blocks[i].damaged
         THEN i = Len(blocks) /\ ~ReadBlock(blocks[i].type, blocks[i].words, EmptyMap).ok
         ELSE IsWhole(blocks[i])

TelegramOptions(endpoints) ==
  <<-2, Len(endpoints)>> \o
  FlattenSeq([i \in DOMAIN endpoints |->
    <<endpoints[i].dc, endpoints[i].flags, endpoints[i].port>>
    \o WriteBytes(endpoints[i].ip) \o WriteBytes(endpoints[i].secret)]) \o <<0>>

TelegramConfig(c) ==
  <<1, IF c.test THEN 1 ELSE 0>> \o WriteBytes(TelegramOptions(c.endpoints))
  \o FieldsWords(c.fields)

\* Old versions wrote the ids as two words.
TelegramAuthorization(a, narrow) ==
  (IF narrow THEN <<a.user[2], a.dc>> ELSE <<-1, -1>> \o a.user \o <<a.dc>>)
  \o WriteKeys(a.keys) \o WriteKeys(a.destroy)

ASSUME GivensAssumption ==
  \A g \in Givens :
    /\ g = [blocks |-> g.blocks, auth |-> g.auth, config |-> g.config, narrow |-> g.narrow]
    /\ g.narrow \in BOOLEAN
    /\ IsMap(g.blocks)
    /\ IsAuthorization(g.auth, g.narrow)
    /\ IsConfig(g.config)

Seal(words) == PrepareEncrypted(EncryptedDescriptor(4 * Len(words), words))

MtpAuthorization == 75   \* dbi.MtpAuthorization

TelegramFiles(g) ==
  [map    |-> Seal(FlattenSeq([i \in DOMAIN g.blocks |-> BlockWords(g.blocks[i])])),
   config |-> Seal(WriteBytes(TelegramConfig(g.config))),
   data   |-> Seal(<<MtpAuthorization>>
                   \o WriteBytes(TelegramAuthorization(g.auth, g.narrow)))]

----------------------------------------------------------------------------
NewAccount == [map |-> EmptyMap, config |-> Default, auth |-> NoAuth, isLoaded |-> FALSE]

Init ==
  /\ given \in Givens
  /\ lenient \in BOOLEAN
  /\ files = TelegramFiles(given)
  /\ account = NewAccount
  /\ pc = "start"
  /\ left = <<>>
  /\ partial = EmptyMap
  /\ saves = 0

\* start, readMapWith, and MapData.read up to its loop. A map that cannot be
\* opened leaves the account without authorization.
Start ==
  /\ pc = "start"
  /\ LET map == DecryptLocal(files.map)
     IN  IF map.ok
         THEN /\ pc' = "map"
              /\ left' = map.words
         ELSE /\ pc' = "config"
              /\ left' = <<>>
  /\ partial' = EmptyMap
  /\ UNCHANGED <<given, lenient, files, account, saves>>

\* One turn of the loop. A block that raises ends readMapWith with False.
ReadMapBlock ==
  /\ pc = "map"
  /\ left # <<>>
  /\ Head(left) \in KnownKeys
  /\ LET block == ReadBlock(Head(left), Tail(left), partial)
     IN  IF block.ok
         THEN /\ left' = block.rest
              /\ partial' = block.map
              /\ pc' = pc
         ELSE /\ pc' = "config"
              /\ UNCHANGED <<left, partial>>
  /\ UNCHANGED <<given, lenient, files, account, saves>>

\* Mutant: the words after an unknown key are taken for the next block.
UnknownKeySkipped ==
  /\ pc = "map"
  /\ left # <<>>
  /\ Head(left) \notin KnownKeys
  /\ left' = Tail(left)
  /\ UNCHANGED <<given, lenient, files, account, pc, partial, saves>>

\* A key this version does not know: an error, or the end of the map.
UnknownKey ==
  /\ pc = "map"
  /\ left # <<>>
  /\ Head(left) \notin KnownKeys
  /\ IF lenient
     THEN left' = <<>> /\ pc' = pc
     ELSE pc' = "config" /\ left' = left
  /\ UNCHANGED <<given, lenient, files, account, partial, saves>>

\* The end of MapData.read: the fields are assigned.
FinishMap ==
  /\ pc = "map"
  /\ left = <<>>
  /\ account' = [account EXCEPT !.map = partial]
  /\ pc' = "data"
  /\ UNCHANGED <<given, lenient, files, left, partial, saves>>

\* readMtpData. What raises here leaves start: it is not caught.
ReadMtpData ==
  /\ pc = "data"
  /\ LET mtp  == DecryptLocal(files.data)
         auth == setMtpAuthorization(ReadBytes(Tail(mtp.words)).value)
     IN  IF mtp.ok /\ WordAt(mtp.words, 1) = MtpAuthorization /\ auth.ok
         THEN /\ account' = [account EXCEPT !.auth = auth.auth, !.isLoaded = TRUE]
              /\ pc' = "config"
         ELSE /\ account' = account
              /\ pc' = "raised"
  /\ UNCHANGED <<given, lenient, files, left, partial, saves>>

\* readMtpConfig. Every OpenTeleException is swallowed: the default stays.
ReadMtpConfig ==
  /\ pc = "config"
  /\ LET file   == DecryptLocal(files.config)
         bytes  == ReadBytes(file.words)
         config == FromSerializedConfig(bytes.value)
     IN  IF file.ok /\ bytes.ok /\ config.ok
         THEN account' = [account EXCEPT !.config = config.config]
         ELSE account' = account
  /\ pc' = "ready"
  /\ UNCHANGED <<given, lenient, files, left, partial, saves>>

\* writeMap: the first file of _writeData.
WriteMap ==
  /\ pc = "ready"
  /\ account.isLoaded
  /\ saves < MaxSaves
  /\ files' = [files EXCEPT !.map = PrepareEncrypted(prepareToWrite(account.map))]
  /\ pc' = "writeConfig"
  /\ UNCHANGED <<given, lenient, account, left, partial, saves>>

WriteMtpConfig ==
  /\ pc = "writeConfig"
  /\ files' = [files EXCEPT !.config = Seal(WriteBytes(ConfigWords(account.config)))]
  /\ pc' = "writeData"
  /\ UNCHANGED <<given, lenient, account, left, partial, saves>>

WriteMtpData ==
  /\ pc = "writeData"
  /\ files' = [files EXCEPT !.data =
                 Seal(<<MtpAuthorization>>
                      \o WriteBytes(serializeMtpAuthorization(account.auth)))]
  /\ pc' = "saved"
  /\ saves' = saves + 1
  /\ UNCHANGED <<given, lenient, account, left, partial>>

\* Another program, or the same one later, opens the folder.
Reopen ==
  /\ pc = "saved"
  /\ account' = NewAccount
  /\ pc' = "start"
  /\ UNCHANGED <<given, lenient, files, left, partial, saves>>

Next == \/ Start \/ ReadMapBlock \/ UnknownKey \/ FinishMap \/ ReadMtpData
        \/ ReadMtpConfig \/ WriteMap \/ WriteMtpConfig \/ WriteMtpData \/ Reopen

Spec == Init /\ [][Next]_vars

----------------------------------------------------------------------------
(* What the files say, without a parser: a field has the value of the last *)
(* block that carries it, a peer the key of its last pair.                 *)

\* The blocks before the first one of an unknown type.
Known(blocks) ==
  SubSeq(blocks, 1, Min({i \in DOMAIN blocks : blocks[i].type \notin KnownKeys}
                        \cup {Len(blocks) + 1}) - 1)

KeyValue(blocks, f) ==
  LET Carries(b) == b.type \in DOMAIN KeyFields /\ \E j \in DOMAIN b.keys : KeyFields[b.type][j] = f
      last == blocks[Max({i \in DOMAIN blocks : Carries(blocks[i])})]
  IN  IF \E i \in DOMAIN blocks : Carries(blocks[i])
      THEN last.keys[CHOOSE j \in DOMAIN last.keys : KeyFields[last.type][j] = f]
      ELSE Zero64

PairsValue(blocks, type) ==
  LET pairs == FlattenSeq([i \in DOMAIN blocks |->
                 IF blocks[i].type = type THEN blocks[i].pairs ELSE <<>>])
  IN  [p \in {pairs[i].peer : i \in DOMAIN pairs} |->
         pairs[Max({i \in DOMAIN pairs : pairs[i].peer = p})].key]

TokenValue(blocks, which) ==
  LET at == {i \in DOMAIN blocks : blocks[i].type = lskWebviewTokens}
  IN  IF at = {} THEN <<>> ELSE blocks[Max(at)].tokens[which]

Meaning(blocks) ==
  [keys |-> [f \in KeyNames |-> KeyValue(blocks, f)],
   drafts |-> PairsValue(blocks, lskDraft), cursors |-> PairsValue(blocks, lskDraftPosition),
   botStorages |-> PairsValue(blocks, lskBotStorages),
   tokenBots |-> TokenValue(blocks, 1), tokenOther |-> TokenValue(blocks, 2)]

\* Whether the map Telegram Desktop wrote can be read at all.
Readable ==
  /\ \A i \in DOMAIN Known(given.blocks) : ~Known(given.blocks)[i].damaged
  /\ lenient \/ Known(given.blocks) = given.blocks

\* The background keys of old versions are read and never written.
Saved(m) ==
  [m EXCEPT !.keys["legacyBackgroundDay"] = Zero64, !.keys["legacyBackgroundNight"] = Zero64]

\* The program keeps no secrets of proxies: an endpoint loses its own.
Understood(c) ==
  [c EXCEPT !.endpoints = [i \in DOMAIN @ |-> [@[i] EXCEPT !.secret = <<>>]]]

HasMainKey == \E i \in DOMAIN given.auth.keys : given.auth.keys[i].dc = given.auth.dc

----------------------------------------------------------------------------
(* TypeOK: the account, the words and the counters have their types; a peer *)
(* in a map is a plain PeerId, without the flag of the serialized form,     *)
(* which PeerId.Serialize (td/configs.py) insists on when it is written.    *)
TypeOK ==
  /\ given \in Givens /\ lenient \in BOOLEAN
  /\ DOMAIN files = {"map", "config", "data"}
  /\ \A f \in DOMAIN files : files[f] # <<>> /\ Len(files[f]) % WordsPerBlock = 0
  /\ pc \in {"start", "map", "data", "config", "ready", "raised", "writeConfig",
             "writeData", "saved"}
  /\ saves \in 0 .. MaxSaves
  /\ account.isLoaded \in BOOLEAN
  /\ \A m \in {account.map, partial} :
       /\ DOMAIN m.keys = KeyNames
       /\ \A field \in {"drafts", "cursors", "botStorages"} :
            \A p \in DOMAIN m[field] : Len(p) = 2 /\ IsLegacy(p)

(* MapIsRead: however the blocks of the map are mixed, repeated, cut short  *)
(* by damage or by a key of a newer Telegram Desktop, an account that opens *)
(* the folder holds exactly what the blocks say, up to the unknown key in   *)
(* lenient mode, or nothing at all: MapData.read keeps no half-read map.    *)
MapIsRead ==
  saves = 0 =>
    account.map = IF pc \in {"start", "map"} \/ ~Readable THEN EmptyMap
                  ELSE Meaning(Known(given.blocks))

(* ResaveKeepsMap: after a save, the next account that opens the folder has *)
(* the map of the one that saved, but for the background keys of old        *)
(* versions: prepareToWrite and read agree on every block, and a map with   *)
(* nothing to write is read as an empty one.                                *)
ResaveKeepsMap ==
  saves > 0 /\ pc \in {"data", "config", "ready", "writeConfig", "writeData"} =>
    account.map = Saved(Meaning(Known(given.blocks)))

(* AuthorizationKept: an account has the user, the data center and every    *)
(* key Telegram Desktop wrote, in the old form or the wide one, after any   *)
(* number of saves; and the folder of an account without a key for its main *)
(* data center is never taken for a loaded one (TDataAuthKeyNotFound).      *)
AuthorizationKept ==
  /\ account.isLoaded => account.auth = given.auth /\ HasMainKey
  /\ pc = "ready" => account.isLoaded = Readable
  /\ pc = "raised" => ~HasMainKey

(* ConfigIsRead: the configuration Telegram Desktop wrote is read field by  *)
(* field and endpoint by endpoint, whatever became of the map.              *)
ConfigIsRead ==
  saves = 0 /\ pc = "ready" => account.config = Understood(given.config)

(* ConfigKept: "Verify that data is still there after reload"               *)
(* (tests/test_known_issues_1_3_0.py:119): the configuration an account was *)
(* saved with is the one the next account that opens the folder reads.      *)
ConfigKept ==
  saves > 0 /\ pc = "ready" => account.config = Understood(given.config)
=============================================================================
