------------------------------ MODULE MapData ------------------------------
(* The map of an account's files (td/account.py, class MapData): the       *)
(* parser of the blocks Telegram Desktop writes, one per lskType key, and  *)
(* the writer. draftsNotReadMap and botStoragesNotReadMap are the domains  *)
(* of drafts and botStorages and are left out.                             *)
EXTENDS LocalFiles, FiniteSets, TLC, SequencesExt

\* The file keys a map holds, by the name of their field.
KeyNames ==
  {"locations", "trustedBots", "recentStickersOld", "legacyBackgroundDay",
   "legacyBackgroundNight", "settings", "recentHashtagsAndBots",
   "installedStickers", "featuredStickers", "recentStickers", "archivedStickers",
   "favedStickers", "savedGifs", "exportSettings", "installedMasks", "recentMasks",
   "archivedMasks", "installedCustomEmoji", "featuredCustomEmoji",
   "archivedCustomEmoji", "searchSuggestions", "roundPlaceholder",
   "inlineBotsDownloads", "mediaLastPlaybackPositions", "prefs"}

Dropped == "dropped"   \* a value that is read and thrown away

lskDraft          == 1
lskDraftPosition  == 2
lskSelfSerialized == 21
lskWebviewTokens  == 25
lskBotStorages    == 29
LegacyArrays      == {3, 5, 6}   \* images, sticker images, audios

\* The uint64 values of a block that has nothing else, in reading order.
KeyFields ==
  [t \in {4} \cup 7 .. 20 \cup 22 .. 24 \cup 26 .. 28 \cup {30} |->
     CASE t = 4  -> <<"locations">>
       [] t = 7  -> <<"recentStickersOld">>
       [] t = 8  -> <<"legacyBackgroundDay">>
       [] t = 9  -> <<"settings">>
       [] t = 10 -> <<"recentHashtagsAndBots">>
       [] t = 11 -> <<"installedStickers">>
       [] t \in 12 .. 14 -> <<Dropped>>
       [] t = 15 -> <<"savedGifs">>
       [] t = 16 -> <<"installedStickers", "featuredStickers", "recentStickers", "archivedStickers">>
       [] t = 17 -> <<"trustedBots">>
       [] t = 18 -> <<"favedStickers">>
       [] t = 19 -> <<"exportSettings">>
       [] t = 20 -> <<"legacyBackgroundDay", "legacyBackgroundNight">>
       [] t = 22 -> <<"installedMasks", "recentMasks", "archivedMasks">>
       [] t = 23 -> <<"installedCustomEmoji", "featuredCustomEmoji", "archivedCustomEmoji">>
       [] t = 24 -> <<"searchSuggestions">>
       [] t = 26 -> <<"roundPlaceholder">>
       [] t = 27 -> <<"inlineBotsDownloads">>
       [] t = 28 -> <<"mediaLastPlaybackPositions">>
       [] t = 30 -> <<"prefs">>]

KnownKeys == DOMAIN KeyFields \cup LegacyArrays
             \cup {lskDraft, lskDraftPosition, lskSelfSerialized, lskWebviewTokens,
                   lskBotStorages}

NoPairs == [p \in {} |-> Zero64]

EmptyMap == [keys |-> [n \in KeyNames |-> Zero64], drafts |-> NoPairs,
             cursors |-> NoPairs, botStorages |-> NoPairs,
             tokenBots |-> <<>>, tokenOther |-> <<>>]

----------------------------------------------------------------------------
(* Peer ids: the kind of the peer in bits 48-54, its number below. Bit 55   *)
(* marks the serialized form; without it the kind is in bits 32-35.         *)

ReservedFlag == 8388608   \* bit 55: 2^23 in the high word
IsLegacy(v)  == (v[1] \div ReservedFlag) % 2 = 0

\* The kinds of the legacy form: a user, a chat, a channel, a fake one.
LegacyShift == [kind \in {0, 1, 2, 15} |-> IF kind = 15 THEN 127 ELSE kind]

\* Mutant: the flag stays in the value.
FromSerializedFlagged(v) == v

FromSerialized(v) ==
  IF ~IsLegacy(v) THEN <<v[1] - ReservedFlag, v[2]>>
  ELSE IF v[1] % 16 \in DOMAIN LegacyShift
       THEN <<LegacyShift[v[1] % 16] * 65536, v[2]>>
       ELSE Zero64

Serialize(peer) == <<peer[1] + ReservedFlag, peer[2]>>

----------------------------------------------------------------------------
(* Reading. A block that ends early, or announces more pairs than the      *)
(* stream has bytes for, raises.                                           *)

Unreadable == [ok |-> FALSE, rest |-> <<>>, map |-> EmptyMap]
Read(s, m) == [ok |-> TRUE, rest |-> s, map |-> m]

\* _GuardCount: the items have to fit in the bytes that are left, which a
\* count above 2^31 - 1 never does.
FitsIn(count, words, s) == count >= 0 /\ count * words <= Len(s)

\* pairs[peer] = key
Put(pairs, peer, key) ==
  [p \in {peer} \cup DOMAIN pairs |-> IF p = peer THEN key ELSE pairs[p]]

\* FileKey, then PeerId; a peer that comes twice keeps its last key.
ReadPairs(s, count, pairs) ==
  LET after[i \in 0 .. count] ==
        IF i = 0 THEN pairs
        ELSE Put(after[i - 1], FromSerialized(U64At(s, 2 * i)), U64At(s, 2 * i - 1))
  IN  after[count]

PairBlock(s, field, m) ==
  LET count == Head(s)
      body  == Tail(s)
  IN  IF s = <<>> THEN Unreadable
      ELSE IF ~FitsIn(count, 4, body) THEN Unreadable
      ELSE Read(Rest(body, 4 * count),
                [m EXCEPT ![field] = ReadPairs(body, count, m[field])])

LegacyBlock(s, m) ==
  IF s = <<>> THEN Unreadable
  ELSE IF ~FitsIn(Head(s), 7, Tail(s)) THEN Unreadable
  ELSE Read(Rest(s, 1 + 7 * Head(s)), m)

KeyBlock(s, names, m) ==
  IF ~Has(s, 2 * Len(names)) THEN Unreadable
  ELSE Read(Rest(s, 2 * Len(names)),
            [m EXCEPT !.keys = [f \in KeyNames |->
               IF \E i \in DOMAIN names : names[i] = f
               THEN U64At(s, CHOOSE i \in DOMAIN names : names[i] = f) ELSE @[f]]])

TokenBlock(s, m) ==
  LET bots  == ReadBytes(s)
      other == ReadBytes(bots.rest)
  IN  IF ~(bots.ok /\ other.ok) THEN Unreadable
      ELSE Read(other.rest, [m EXCEPT !.tokenBots = bots.value, !.tokenOther = other.value])

SelfBlock(s, m) == LET self == ReadBytes(s)
                   IN  IF self.ok THEN Read(self.rest, m) ELSE Unreadable

\* One turn of the loop of MapData.read after the key type t was read.
ReadBlock(t, s, m) ==
  CASE t = lskDraft          -> PairBlock(s, "drafts", m)
    [] t = lskDraftPosition  -> PairBlock(s, "cursors", m)
    [] t = lskBotStorages    -> PairBlock(s, "botStorages", m)
    [] t = lskSelfSerialized -> SelfBlock(s, m)
    [] t = lskWebviewTokens  -> TokenBlock(s, m)
    [] t \in LegacyArrays    -> LegacyBlock(s, m)
    [] t \in DOMAIN KeyFields -> KeyBlock(s, KeyFields[t], m)

----------------------------------------------------------------------------
(* Writing: the blocks in this order, each one only when it says something. *)

\* The keys a block is written with, in writing order.
SavedKeys ==
  [t \in {4, 7, 9, 10} \cup 15 .. 19 \cup 22 .. 24 \cup 26 .. 28 \cup {30} |->
     CASE t = 4  -> <<"locations">>
       [] t = 17 -> <<"trustedBots">>
       [] t = 7  -> <<"recentStickersOld">>
       [] t = 16 -> <<"installedStickers", "featuredStickers", "recentStickers", "archivedStickers">>
       [] t = 18 -> <<"favedStickers">>
       [] t = 15 -> <<"savedGifs">>
       [] t = 9  -> <<"settings">>
       [] t = 10 -> <<"recentHashtagsAndBots">>
       [] t = 19 -> <<"exportSettings">>
       [] t = 22 -> <<"installedMasks", "recentMasks", "archivedMasks">>
       [] t = 23 -> <<"installedCustomEmoji", "featuredCustomEmoji", "archivedCustomEmoji">>
       [] t = 24 -> <<"searchSuggestions">>
       [] t = 26 -> <<"roundPlaceholder">>
       [] t = 27 -> <<"inlineBotsDownloads">>
       [] t = 28 -> <<"mediaLastPlaybackPositions">>
       [] t = 30 -> <<"prefs">>]

SavedOrder == <<lskDraft, lskDraftPosition, 4, 17, 7, 16, 18, 15, 9, 10, 19, 22, 23, 24,
                lskWebviewTokens, 26, 27, 28, lskBotStorages, 30>>

WritePairs(pairs) ==
  LET peers == SetToSeq(DOMAIN pairs)
  IN  <<Len(peers)>> \o
      FlattenSeq([i \in DOMAIN peers |-> pairs[peers[i]] \o Serialize(peers[i])])

\* The payload of the block of type t, or nothing if it is left out.
SavedBlock(t, m) ==
  CASE t = lskDraft         -> IF m.drafts = NoPairs THEN <<>> ELSE WritePairs(m.drafts)
    [] t = lskDraftPosition -> IF m.cursors = NoPairs THEN <<>> ELSE WritePairs(m.cursors)
    [] t = lskBotStorages   -> IF m.botStorages = NoPairs THEN <<>> ELSE WritePairs(m.botStorages)
    [] t = lskWebviewTokens -> IF m.tokenBots = <<>> /\ m.tokenOther = <<>> THEN <<>>
                               ELSE WriteBytes(m.tokenBots) \o WriteBytes(m.tokenOther)
    [] t \in DOMAIN SavedKeys ->
         LET values == [i \in DOMAIN SavedKeys[t] |-> m.keys[SavedKeys[t][i]]]
         IN  IF \A i \in DOMAIN values : values[i] = Zero64 THEN <<>> ELSE U64Words(values)

MapWords(m) ==
  FlattenSeq([i \in DOMAIN SavedOrder |->
    LET block == SavedBlock(SavedOrder[i], m)
    IN  IF block = <<>> THEN <<>> ELSE <<SavedOrder[i]>> \o block])

\* The bytes of the block of type t, from what it holds.
BlockSize(t, m) ==
  CASE t = lskDraft         -> 8 + 16 * Cardinality(DOMAIN m.drafts)
    [] t = lskDraftPosition -> 8 + 16 * Cardinality(DOMAIN m.cursors)
    [] t = lskBotStorages   -> 8 + 16 * Cardinality(DOMAIN m.botStorages)
    [] t = lskWebviewTokens -> 12 + 4 * Len(m.tokenBots) + 4 * Len(m.tokenOther)
    [] t \in DOMAIN SavedKeys -> 4 + 8 * Len(SavedKeys[t])

\* Mutant: lskPrefs is left out of the sum.
SizedNoPrefs == SubSeq(SavedOrder, 1, 19)

\* The blocks mapSize is added up from, listed apart from the writes.
Sized == <<lskDraft, lskDraftPosition, 4, 17, 7, 16, 18, 15, 9, 10, 19, 22, 23, 24,
           lskWebviewTokens, 26, 27, 28, lskBotStorages, 30>>

MapSize(m) ==
  LET size[i \in 0 .. Len(Sized)] ==
        IF i = 0 THEN 0
        ELSE size[i - 1] + IF SavedBlock(Sized[i], m) = <<>> THEN 0 ELSE BlockSize(Sized[i], m)
  IN  size[Len(Sized)]

prepareToWrite(m) == EncryptedDescriptor(MapSize(m), MapWords(m))
=============================================================================
