------------------------------ MODULE MtpData ------------------------------
(* The two serialized records kept beside the map: the authorization of an *)
(* account (td/account.py) and the configuration of MTProto (td/mtp.py).   *)
EXTENDS LocalFiles, FiniteSets, SequencesExt

CONSTANTS
  KeyWords,   \* words of an authorization key: AuthKey.kSize / 4, 64 in the program
  Default     \* what MTP.Config(Production) holds: built-in endpoints and fields

ASSUME KeyWordsAssumption == KeyWords \in Nat \ {0}

----------------------------------------------------------------------------
(* The authorization: [user, dc, keys, destroy], a key being [dc, key].     *)

WideIdsTag == -1   \* kWideIdsTag: both halves read as -1

WriteKeys(keys) ==
  <<Len(keys)>> \o FlattenSeq([i \in DOMAIN keys |-> <<keys[i].dc>> \o keys[i].key])

serializeMtpAuthorization(a) ==
  <<WideIdsTag, WideIdsTag>> \o a.user \o <<a.dc>> \o WriteKeys(a.keys) \o WriteKeys(a.destroy)

\* readKeys: an announced count that cannot fit raises, a negative one is 0.
ReadKeys(s) ==
  LET count   == IF Head(s) > 0 THEN Head(s) ELSE 0
      each    == 1 + KeyWords
      At(i)   == 1 + (i - 1) * each
      keys    == [i \in 1 .. count |->
                   [dc |-> s[At(i) + 1], key |-> SubSeq(s, At(i) + 2, At(i) + each)]]
  IN  IF s = <<>> THEN [ok |-> FALSE, keys |-> <<>>, rest |-> <<>>]
      ELSE IF count * each > Len(Tail(s)) THEN [ok |-> FALSE, keys |-> <<>>, rest |-> <<>>]
      ELSE [ok |-> TRUE, keys |-> keys, rest |-> Rest(s, 1 + count * each)]

\* An authorization; the narrow form has no room for a wide user id.
AuthKeys == Seq([dc : Int, key : [1 .. KeyWords -> Int]])
IsAuthorization(a, narrow) ==
  /\ a \in [user : Uint64, dc : Int, keys : AuthKeys, destroy : AuthKeys]
  /\ narrow => a.user[1] = 0 /\ a.dc # WideIdsTag

NoAuth == [user |-> Zero64, dc |-> 0, keys |-> <<>>, destroy |-> <<>>]

\* Mutant: the user id of the wide form is read from one word.
UserIdNarrow(s, wide) == <<0, IF wide THEN s[4] ELSE s[1]>>

UserId(s, wide) == IF wide THEN <<s[3], s[4]>> ELSE <<0, s[1]>>

\* _setMtpAuthorization: the dc of the narrow form being -1 announces the wide
\* one. The account is loaded only with a key for its main data center.
setMtpAuthorization(s) ==
  LET wide    == WordAt(s, 2) = WideIdsTag
      ids     == IF wide THEN 5 ELSE 2
      dc      == WordAt(s, ids)
      keys    == ReadKeys(Rest(s, ids))
      destroy == ReadKeys(keys.rest)
  IN  IF \/ ~Has(s, ids)
         \/ ~keys.ok
         \/ ~destroy.ok
         \/ \A i \in DOMAIN keys.keys : keys.keys[i].dc # dc
      THEN [ok |-> FALSE, auth |-> NoAuth]
      ELSE [ok |-> TRUE,
            auth |-> [user |-> UserId(s, wide), dc |-> dc,
                      keys |-> keys.keys, destroy |-> destroy.keys]]

----------------------------------------------------------------------------
(* The configuration: [test, endpoints, fields]. The endpoints are the      *)
(* lists of DcOptions._data one after the other: an endpoint names its      *)
(* data center.                                                             *)

StrFields  == {"internalLinksDomain", "txtDomainString"}
BoolFields == {"revokePrivateInbox", "phoneCallsEnabled", "blockedMode"}

\* The order Serialize writes the fields in.
WriteOrder ==
  <<"chatSizeMax", "megagroupSizeMax", "forwardedCountMax", "onlineUpdatePeriod",
    "offlineBlurTimeout", "offlineIdleTimeout", "onlineFocusTimeout",
    "onlineCloudTimeout", "notifyCloudDelay", "notifyDefaultDelay", "savedGifsLimit",
    "editTimeLimit", "revokeTimeLimit", "revokePrivateTimeLimit", "revokePrivateInbox",
    "stickersRecentLimit", "stickersFavedLimit", "pinnedDialogsCountMax",
    "pinnedDialogsInFolderMax", "internalLinksDomain", "channelsReadMediaPeriod",
    "callReceiveTimeoutMs", "callRingTimeoutMs", "callConnectTimeoutMs",
    "callPacketTimeoutMs", "webFileDcId", "txtDomainString", "phoneCallsEnabled",
    "blockedMode", "captionLengthMax">>

\* A configuration that can be written: an address of at most 45 bytes, a
\* secret of at most 32, and, as in DcOptions._data, the endpoints of a data
\* center one after the other.
IsConfig(c) ==
  /\ c = [test |-> c.test, endpoints |-> c.endpoints, fields |-> c.fields]
  /\ c.test \in BOOLEAN
  /\ c.endpoints \in Seq([dc : Int, flags : Int, port : Int, ip : Seq(Int), secret : Seq(Int)])
  /\ \A i \in DOMAIN c.endpoints :
       /\ 4 * Len(c.endpoints[i].ip) \in 1 .. 45 /\ 4 * Len(c.endpoints[i].secret) <= 32
       /\ \A j, k \in DOMAIN c.endpoints :
            i < j /\ j < k /\ c.endpoints[i].dc = c.endpoints[k].dc
              => c.endpoints[j].dc = c.endpoints[i].dc
  /\ c.fields = [f \in Range(WriteOrder) |-> c.fields[f]]
  /\ \A f \in Range(WriteOrder) :
       c.fields[f] \in IF f \in StrFields THEN Seq(Int) ELSE IF f \in BoolFields THEN BOOLEAN ELSE Int

ASSUME DefaultAssumption == IsConfig(Default)

\* Mutant: two neighbouring fields are read in the other order.
ReadOrderSwapped == [WriteOrder EXCEPT ![16] = WriteOrder[17], ![17] = WriteOrder[16]]

\* The order FromSerialized reads the fields in, as it is written there.
ReadOrder ==
  <<"chatSizeMax", "megagroupSizeMax", "forwardedCountMax",
    "onlineUpdatePeriod", "offlineBlurTimeout", "offlineIdleTimeout",
    "onlineFocusTimeout", "onlineCloudTimeout", "notifyCloudDelay",
    "notifyDefaultDelay", "savedGifsLimit", "editTimeLimit",
    "revokeTimeLimit", "revokePrivateTimeLimit", "revokePrivateInbox",
    "stickersRecentLimit", "stickersFavedLimit", "pinnedDialogsCountMax",
    "pinnedDialogsInFolderMax", "internalLinksDomain",
    "channelsReadMediaPeriod", "callReceiveTimeoutMs", "callRingTimeoutMs",
    "callConnectTimeoutMs", "callPacketTimeoutMs", "webFileDcId",
    "txtDomainString", "phoneCallsEnabled", "blockedMode",
    "captionLengthMax">>

WriteField(f, v) ==
  IF f \in StrFields THEN WriteBytes(v)
  ELSE IF f \in BoolFields THEN <<IF v THEN 1 ELSE 0>>
  ELSE <<v>>

ReadField(f, s) ==
  IF f \in StrFields THEN ReadBytes(s)
  ELSE IF s = <<>> THEN [ok |-> FALSE, value |-> 0, rest |-> <<>>]
  ELSE [ok |-> TRUE, value |-> IF f \in BoolFields THEN Head(s) = 1 ELSE Head(s),
        rest |-> Tail(s)]

FieldsWords(fields) ==
  FlattenSeq([i \in DOMAIN WriteOrder |-> WriteField(WriteOrder[i], fields[WriteOrder[i]])])

\* The next field is read, into what the fields before left.
ReadNext(acc, f) ==
  LET r == ReadField(f, acc.rest)
  IN  [ok |-> acc.ok /\ r.ok, rest |-> r.rest, fields |-> [acc.fields EXCEPT ![f] = r.value]]

ReadFields(s) ==
  LET after[i \in 0 .. Len(ReadOrder)] ==
        IF i = 0 THEN [ok |-> TRUE, rest |-> s, fields |-> Default.fields]
        ELSE ReadNext(after[i - 1], ReadOrder[i])
  IN  after[Len(ReadOrder)]

\* An endpoint as DcOptions.Serialize writes it: the port is not written.
EndpointWords(e) == <<e.dc, e.flags>> \o WriteBytes(e.ip) \o WriteBytes(e.secret)

\* DcOptions.Serialize: shifted data centers above 1000 are left out, and an
\* empty list of CDN keys follows.
OptionsWords(endpoints) ==
  LET written == {i \in DOMAIN endpoints : endpoints[i].dc % 10000 <= 1000}
  IN  <<-2, Cardinality(written)>>
      \o FlattenSeq([i \in DOMAIN endpoints |->
           IF i \in written THEN EndpointWords(endpoints[i]) ELSE <<>>])
      \o <<0>>

\* An endpoint as constructFromSerialized reads it: dc, flags, port, ip and,
\* since version 1, a secret. applyOneGuarded drops the secret, and appends an
\* endpoint that is there already once more.
ReadEndpoint(acc, version) ==
  LET s      == acc.rest
      ipSize == WordAt(s, 4)
      after  == Rest(s, 4 + ipSize \div 4)
      secret == IF version > 0 THEN ReadBytes(after)
                ELSE [ok |-> TRUE, value |-> <<>>, rest |-> after]
  IN  IF \/ ~acc.ok
         \/ ipSize <= 0 \/ ipSize > 45
         \/ ~Has(s, 4 + ipSize \div 4)
         \/ version > 0 /\ WordAt(after, 1) \notin 0 .. 32
         \/ ~secret.ok
      THEN [ok |-> FALSE, endpoints |-> <<>>, rest |-> <<>>]
      ELSE [ok |-> TRUE, rest |-> secret.rest,
            endpoints |-> Append(acc.endpoints,
              [dc |-> s[1], flags |-> s[2], port |-> s[3],
               ip |-> SubSeq(s, 5, 4 + ipSize \div 4), secret |-> <<>>])]

constructFromSerialized(s) ==
  LET version == IF WordAt(s, 1) < 0 THEN -s[1] ELSE 0
      count   == WordAt(s, IF version > 0 THEN 2 ELSE 1)
      start   == IF version > 0 THEN Rest(s, 2) ELSE Rest(s, 1)
      after[i \in 0 .. IF count > 0 THEN count ELSE 0] ==
        IF i = 0 THEN [ok |-> TRUE, endpoints |-> <<>>, rest |-> start]
        ELSE ReadEndpoint(after[i - 1], version)
  IN  after[IF count > 0 THEN count ELSE 0]

\* Config.Serialize, version 1.
ConfigWords(c) ==
  <<1, IF c.test THEN 1 ELSE 0>> \o WriteBytes(OptionsWords(c.endpoints)) \o FieldsWords(c.fields)

\* Config.FromSerialized; what raises here is swallowed by readMtpConfig.
FromSerializedConfig(s) ==
  LET options   == ReadBytes(Rest(s, 2))
      fields    == ReadFields(options.rest)
      endpoints == constructFromSerialized(options.value)
  IN  IF \/ ~Has(s, 2)
         \/ s[1] # 1
         \/ ~fields.ok
         \/ ~endpoints.ok
      THEN [ok |-> FALSE, config |-> Default]
      ELSE [ok |-> TRUE,
            config |-> [test |-> s[2] = 1, endpoints |-> endpoints.endpoints,
                        fields |-> fields.fields]]
=============================================================================
