-------------------------- MODULE MCStorageAccount --------------------------
(* One block of every kind the map knows, some twice with other values, and *)
(* blocks of a newer Telegram Desktop and of a damaged map; an account in   *)
(* the old form and in the wide one, and one without its main key.          *)
EXTENDS StorageAccount

K(i) == <<i, 100 + i>>   \* a file key

Plain(t) == [type |-> t, keys |-> <<>>, pairs |-> <<>>, tokens |-> <<>>, words |-> <<>>,
             damaged |-> FALSE]

KeyBlockOf(t)       == [Plain(t) EXCEPT !.keys = [i \in DOMAIN KeyFields[t] |-> K(t + i)]]
PairsOf(t, pairs)   == [Plain(t) EXCEPT !.pairs = pairs]
TokensOf(bots, other) == [Plain(lskWebviewTokens) EXCEPT !.tokens = <<bots, other>>]
Words(t, words)     == [Plain(t) EXCEPT !.words = words]
Damaged(t, words)   == [Words(t, words) EXCEPT !.damaged = TRUE]

KeyBlocks == {KeyBlockOf(t) : t \in DOMAIN KeyFields}

\* A user in both forms, a chat and a channel in the old one, a kind that is none.
User    == [peer |-> <<0, 7>>,          stored |-> <<ReservedFlag, 7>>,  key |-> K(1)]
OldUser == [peer |-> <<0, 7>>,          stored |-> <<0, 7>>,             key |-> K(2)]
OldChat == [peer |-> <<65536, 7>>,      stored |-> <<1, 7>>,             key |-> K(3)]
OldFake == [peer |-> <<127 * 65536, 7>>, stored |-> <<15, 7>>,           key |-> K(4)]
Channel == [peer |-> <<2 * 65536, 7>>,  stored |-> <<ReservedFlag + 2 * 65536, 7>>, key |-> K(5)]
NoPeer  == [peer |-> <<0, 0>>,          stored |-> <<3, 7>>,             key |-> K(6)]

PairBlocks == {PairsOf(lskDraft, <<User, OldChat>>), PairsOf(lskDraft, <<OldUser, NoPeer>>),
               PairsOf(lskDraftPosition, <<OldUser, User>>), PairsOf(lskDraftPosition, <<>>),
               PairsOf(lskBotStorages, <<Channel, OldFake>>)}

OtherBlocks == {TokensOf(<<4, 5>>, <<>>),
                TokensOf(<<>>, <<30, 0, 9>>),
                Words(lskSelfSerialized, <<8, 30, 1>>),
                Words(3, <<1, 4, 5, 6, 7, 8, 9, 10>>), Words(6, <<0>>)}

\* The body of an unknown block looks like a block that is known.
NewBlocks == {Words(31, <<30, 77, 78>>), Words(0, <<4, 77, 78, 9, 77>>)}

DamagedBlocks == {Damaged(lskDraft, <<3, 1, 2, 3, 4>>), Damaged(5, <<1000000, 1>>),
                  Damaged(lskWebviewTokens, <<4, 1, 400, 2>>), Damaged(16, <<1, 2, 3>>),
                  Damaged(lskSelfSerialized, <<40, 1>>)}

\* The second of two blocks: one that may repeat what the first one said (the
\* sticker keys and the background have an old and a new block), or end early.
Seconds == {KeyBlockOf(t) : t \in {8, 11, 16, 20, 30}}
           \cup PairBlocks \cup OtherBlocks \cup NewBlocks \cup DamagedBlocks

\* A damaged block takes the words after it for its own: it comes last.
Blocks     == KeyBlocks \cup PairBlocks \cup OtherBlocks \cup NewBlocks
BlockLists == {<<>>} \cup {<<b>> : b \in Blocks \cup DamagedBlocks}
              \cup {<<b, c>> : b \in Blocks, c \in Seconds}

Key(dc, i) == [dc |-> dc, key |-> <<i>>]

Wide  == [user |-> <<1, 5>>, dc |-> 2, keys |-> <<Key(1, 11), Key(2, 12)>>,
          destroy |-> <<Key(4, 13)>>]
Old   == [user |-> <<0, 5>>, dc |-> 1, keys |-> <<Key(1, 11)>>, destroy |-> <<>>]
Other == [user |-> <<0, 6>>, dc |-> 3, keys |-> <<Key(1, 11)>>, destroy |-> <<>>]

Fields(base) ==
  [f \in Range(WriteOrder) |->
     IF f \in StrFields THEN <<base, Len(f)>>
     ELSE IF f \in BoolFields THEN base > 1000
     ELSE base + (CHOOSE i \in DOMAIN WriteOrder : WriteOrder[i] = f)]

\* Twelve characters of an address, four to a word: the first is "149.".
Ip(i) == <<825571630, 825570606, 825570600 + i>>
Endpoint(dc, i, secret) == [dc |-> dc, flags |-> 16, port |-> 443, ip |-> Ip(i), secret |-> secret]

BuiltIn    == [test |-> FALSE, fields |-> Fields(0),
               endpoints |-> <<Endpoint(1, 1, <<>>), Endpoint(2, 2, <<>>)>>]
FromServer == [test |-> FALSE, fields |-> Fields(5000),
               endpoints |-> <<Endpoint(2, 3, <<>>), Endpoint(4, 4, <<9, 9>>)>>]

Given(blocks, auth, config, narrow) ==
  [blocks |-> blocks, auth |-> auth, config |-> config, narrow |-> narrow]

MCGivens ==
  {Given(bs, Wide, FromServer, FALSE) : bs \in BlockLists}
  \cup {Given(bs, a, c, a # Wide) : bs \in {l \in BlockLists : Len(l) < 2},
                                    a \in {Old, Other, Wide}, c \in {BuiltIn, FromServer}}
=============================================================================
