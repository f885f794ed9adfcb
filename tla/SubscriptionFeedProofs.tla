----------------------- MODULE SubscriptionFeedProofs -----------------------
(***************************************************************************)
(* What SubscriptionFeed promises, proved for every set of instances, of   *)
(* configurations that pass the validation, of manual URIs and requests,   *)
(* and without any bound on what happens.  First the two URI formats, then *)
(* the order of the entries, then what a rendering knows while the rows it *)
(* reads change under it.                                                  *)
(***************************************************************************)
EXTENDS SubscriptionFeed, FiniteSetTheorems, TLAPS

-----------------------------------------------------------------------------
(* The formats: what the panel makes of an instance.                       *)

(* A range of integers has integers only.                                  *)
LEMMA RangeWhole == ASSUME NEW low \in Int, NEW high \in Int PROVE low..high \subseteq Int
OBVIOUS

LEMMA WholeNumbers ==
  /\ Batches \subseteq Nat \ {0} /\ FragmentSizes \subseteq Int /\ AckTimes \subseteq Int
  /\ Widths \subseteq Int /\ Heights \subseteq Int
<1>1. FragmentSizes \subseteq Int
  BY RangeWhole, SMT DEF FragmentSizes
<1>2. AckTimes \subseteq Int
  BY RangeWhole, SMT DEF AckTimes
<1>3. Widths \subseteq Int /\ Heights \subseteq Int
  BY RangeWhole, SMT DEF Widths, Heights
<1>4. \A n \in Batches : n \in Nat \ {0}
  BY SMT DEF Batches
<1> QED BY <1>1, <1>2, <1>3, <1>4

(* An option that Validate has checked is not one a payload cannot carry.  *)
LEMMA Carried ==
  ASSUME NEW item, ValidInstance(item), NEW n \in DOMAIN StandardPayload(item),
         StandardPayload(item)[n] = Garbled
  PROVE  n = "video_qr_recovery"
<1> DEFINE o == item.options
<1>1. /\ n \in DOMAIN Defaults[item.transport] /\ o[n] = Garbled
      /\ n \in TileOptions => o.video_codec = "tile"
  BY DEF StandardPayload
<1>4. ValidTransport(item) /\ item.transport \in Transports
  BY DEF ValidInstance
<1>5. CASE item.transport = "datachannel"
  BY <1>1, <1>5 DEF Defaults
<1>6. CASE item.transport = "vp8channel"
  <2>3. ValidVP8(o)
    BY <1>4, <1>6 DEF ValidTransport
  <2>1. o.vp8_fps # Garbled /\ o.vp8_batch # Garbled
    <3>1. o.vp8_fps \in 1..240 /\ o.vp8_batch \in Batches
      BY <2>3 DEF ValidVP8
    <3>2. \A k \in Batches : k # Garbled
      BY WholeNumbers, GarbledAssumption
    <3> QED BY <3>1, <3>2, GarbledAssumption
  <2>2. n = "vp8_fps" \/ n = "vp8_batch"
    BY <1>1, <1>6 DEF Defaults
  <2> QED BY <1>1, <2>1, <2>2
<1>7. CASE item.transport = "seichannel"
  <2>3. ValidSEI(o)
    BY <1>4, <1>7 DEF ValidTransport
  <2>4. /\ o.fps \in 1..240 /\ o.batch \in Batches
        /\ o.frag \in FragmentSizes /\ o.ack_ms \in AckTimes
    BY <2>3 DEF ValidSEI
  <2>6. \A size \in Batches : size # Garbled
    BY WholeNumbers, GarbledAssumption
  <2>5. o.fps # Garbled /\ o.batch # Garbled
    BY <2>4, <2>6, GarbledAssumption
  <2>1. o.fps # Garbled /\ o.batch # Garbled /\ o.frag # Garbled /\ o.ack_ms # Garbled
    BY <2>4, <2>5, WholeNumbers, GarbledAssumption, Zenon
  <2>2. n = "fps" \/ n = "batch" \/ n = "frag" \/ n = "ack_ms"
    BY <1>1, <1>7 DEF Defaults
  <2> QED BY <1>1, <2>1, <2>2
<1>8. CASE item.transport = "videochannel"
  <2>1. ValidVideo(o)
    BY <1>4, <1>8 DEF ValidTransport
  <2>2. o.video_w # Garbled /\ o.video_h # Garbled /\ o.video_fps # Garbled
    <3>1. o.video_w \in Widths /\ o.video_h \in Heights /\ o.video_fps \in 1..240
      BY <2>1, SMT DEF ValidVideo
    <3>2. o.video_w # Garbled /\ o.video_h # Garbled
      BY <3>1, WholeNumbers, GarbledAssumption, Zenon
    <3> QED BY <3>1, <3>2, GarbledAssumption
  <2>5. o.video_codec # Garbled /\ o.video_qr_size # Garbled
    BY <2>1, GarbledAssumption DEF ValidVideo
  <2>3. o.video_codec = "tile" => o.video_tile_module # Garbled /\ o.video_tile_rs # Garbled
    BY <2>1, GarbledAssumption DEF ValidVideo
  <2>4. n \in {"video_w", "video_h", "video_fps", "video_codec", "video_qr_size",
               "video_qr_recovery", "video_tile_module", "video_tile_rs"}
    BY <1>1, <1>8 DEF Defaults
  <2> QED BY <1>1, <2>2, <2>3, <2>4, <2>5 DEF TileOptions
<1> QED BY <1>4, <1>5, <1>6, <1>7, <1>8 DEF Transports

(* StandardURI.  It fails for a bad key only, and what it makes is valid   *)
(* but for what LinesParse names.                                          *)
LEMMA StandardSaid ==
  ASSUME NEW item, ValidInstance(item), NEW key, NEW name
  PROVE  LET uri == StandardURI(item, key, name)
         IN IF key = "hex"
            THEN /\ uri # Error /\ uri.shape = "olcbox"
                 /\ ValidateStandardURI(uri) \/ Beyond("olcbox", uri)
            ELSE uri = Error
<1> DEFINE comment == StandardComment(name)
           uri == StandardURI(item, key, name)
<1>1. comment \cap (Reserved \cup {"newline"}) = {}
  BY DEF StandardComment, Reserved
<1>2. CASE key = "hex"
  <2>1. uri = [shape |-> "olcbox", provider |-> item.provider, transport |-> item.transport,
               payload |-> StandardPayload(item), room |-> item.room, key |-> key,
               comment |-> comment]
    BY <1>1, <1>2 DEF StandardURI, ValidInstance
  <2>2. uri # Error
    <3>1. uri.shape = "olcbox" /\ Error.shape = "error"
      BY <2>1 DEF Error
    <3> QED BY <3>1
  <2>3. DOMAIN uri.payload \subseteq PayloadNames(uri.transport)
    BY <2>1 DEF StandardPayload, PayloadNames
  <2>4. uri.comment \cap {"separator", "newline"} = {}
    BY <1>1, <2>1 DEF Reserved
  <2>5. uri.payload = StandardPayload(item) /\ uri.room = item.room /\ uri.shape = "olcbox"
    BY <2>1
  <2>6. CASE "long" \in uri.room \/ BeyondStandard(uri)
    BY <1>2, <2>2, <2>5, <2>6 DEF Beyond
  <2>7. CASE "long" \notin uri.room /\ ~BeyondStandard(uri)
    <3>1. \A n \in DOMAIN uri.payload : uri.payload[n] # Garbled
      BY <2>5, <2>7, Carried DEF BeyondStandard
    <3>2. ValidateStandardTransport(uri)
      BY <2>1, <2>3, <3>1 DEF ValidateStandardTransport, ValidInstance
    <3>3. uri.room # {} /\ uri.room \cap (Reserved \cup {"newline", "long"}) = {}
      BY <2>5, <2>7 DEF ValidInstance
    <3>4. uri.provider \in Providers /\ uri.key = "hex"
      BY <1>2, <2>1 DEF ValidInstance
    <3>5. ValidateStandardURI(uri)
      BY <2>4, <2>5, <3>2, <3>3, <3>4 DEF ValidateStandardURI
    <3> QED BY <1>2, <2>2, <2>5, <3>5
  <2> QED BY <2>6, <2>7
<1>3. CASE key # "hex"
  BY <1>3 DEF StandardURI
<1> QED BY <1>2, <1>3

(* The parameters ClientURI can write, and the rest of such a URI.         *)
ShortNames == {"k", "t", "c", "d", "f", "b", "a"}

Short(uri, item) ==
  /\ uri.shape = "client" /\ uri.provider = item.provider /\ uri.room = item.room
  /\ DOMAIN uri.params \subseteq ShortNames /\ {"k", "t", "c", "d"} \subseteq DOMAIN uri.params
  /\ uri.params["k"] = "hex" /\ uri.params["t"] = item.transport
  /\ uri.params["c"] = "id" /\ uri.params["d"] = item.dns
  /\ "f" \in DOMAIN uri.params <=> item.transport = "vp8channel"
  /\ "b" \in DOMAIN uri.params <=> item.transport = "vp8channel"
  /\ "f" \in DOMAIN uri.params => uri.params["f"] = item.options.vp8_fps
  /\ "b" \in DOMAIN uri.params => uri.params["b"] = item.options.vp8_batch
  /\ ClientCompatible(item.provider, item.transport)

(* ClientURI.  It fails for a bad key, or for an instance the client has   *)
(* no use for; a token is in it only if the instance publishes it.         *)
LEMMA ClientSaid ==
  ASSUME NEW item, NEW key
  PROVE  LET uri == ClientURI(item, key)
         IN IF /\ key = "hex"
               /\ ClientCompatible(item.provider, item.transport)
               /\ item.provider = "wbstream" => item.token \/ item.omit
            THEN /\ uri # Error /\ Short(uri, item)
                 /\ uri = [shape |-> uri.shape, provider |-> uri.provider, room |-> uri.room,
                           params |-> uri.params]
                 /\ "a" \in DOMAIN uri.params => item.provider = "wbstream" /\ ~item.omit
            ELSE uri = Error
<1> DEFINE uri == ClientURI(item, key)
           Fits == /\ key = "hex"
                   /\ ClientCompatible(item.provider, item.transport)
                   /\ item.provider = "wbstream" => item.token \/ item.omit
           names == {"k", "t", "c", "d"}
                      \cup (IF item.transport = "vp8channel" THEN {"f", "b"} ELSE {})
                      \cup (IF item.provider = "wbstream" /\ ~item.omit THEN {"a"} ELSE {})
           params == [n \in names |-> CASE n = "k" -> key
                                        [] n = "t" -> item.transport
                                        [] n = "c" -> "id"
                                        [] n = "d" -> item.dns
                                        [] n = "f" -> item.options.vp8_fps
                                        [] n = "b" -> item.options.vp8_batch
                                        [] n = "a" -> "token"]
<1>1. CASE Fits
  <2>1. uri = [shape |-> "client", provider |-> item.provider, room |-> item.room,
               params |-> params]
    BY <1>1 DEF ClientURI
  <2>2. /\ uri.shape = "client" /\ uri.provider = item.provider
        /\ uri.room = item.room /\ uri.params = params
    BY <2>1
  <2>3. uri # Error
    <3>1. Error.shape = "error"
      BY DEF Error
    <3> QED BY <2>2, <3>1
  <2>4. DOMAIN params = names
    OBVIOUS
  <2>5. params["k"] = "hex" /\ params["t"] = item.transport
    BY <1>1
  <2>6. params["c"] = "id" /\ params["d"] = item.dns
    OBVIOUS
  <2>7. item.transport = "vp8channel" => params["f"] = item.options.vp8_fps
                                          /\ params["b"] = item.options.vp8_batch
    OBVIOUS
  <2>8. "f" \in names <=> item.transport = "vp8channel"
    OBVIOUS
  <2>9. "b" \in names <=> item.transport = "vp8channel"
    OBVIOUS
  <2>10. "a" \in names => item.provider = "wbstream" /\ ~item.omit
    OBVIOUS
  <2>11. names \subseteq ShortNames
    BY DEF ShortNames
  <2>13. uri = [shape |-> uri.shape, provider |-> uri.provider, room |-> uri.room,
                params |-> uri.params]
    BY <2>1, <2>2
  <2> HIDE DEF params, names
  <2>12. Short(uri, item)
    BY <1>1, <2>2, <2>4, <2>5, <2>6, <2>7, <2>8, <2>9, <2>11
       , {"k", "t", "c", "d"} \subseteq names DEF Short, names
  <2> QED BY <1>1, <2>2, <2>3, <2>4, <2>10, <2>12, <2>13
<1>2. CASE ~Fits
  BY <1>2 DEF ClientURI
<1> QED BY <1>1, <1>2

(* ValidateClientURI knows every name of those parameters, and at most one *)
(* name of each is there.                                                  *)
LEMMA ShortNamesKnown ==
  /\ ShortNames \subseteq UNION Range(Aliases)
  /\ \A what \in DOMAIN Aliases : \E n : Aliases[what] \cap ShortNames \subseteq {n}
<1>1. /\ Aliases.key \cap ShortNames = {"k"} /\ Aliases.transport \cap ShortNames = {"t"}
      /\ Aliases.fps \cap ShortNames = {"f"} /\ Aliases.batch \cap ShortNames = {"b"}
      /\ Aliases.client \cap ShortNames = {"c"} /\ Aliases.token \cap ShortNames = {"a"}
      /\ Aliases.dns \cap ShortNames = {"d"}
      /\ Aliases.password \cap ShortNames = {} /\ Aliases.keepalive \cap ShortNames = {}
  BY DEF Aliases, ShortNames
<1>2. DOMAIN Aliases = {"key", "transport", "fps", "batch", "client", "token", "dns",
                        "password", "keepalive"}
  BY DEF Aliases
<1> HIDE DEF Aliases
<1>3. ASSUME NEW n \in ShortNames
      PROVE  \E what \in DOMAIN Aliases : n \in Aliases[what]
  BY <1>1, <1>2 DEF ShortNames
<1>4. ShortNames \subseteq UNION Range(Aliases)
  BY <1>3 DEF Range
<1>5. ASSUME NEW what \in DOMAIN Aliases
      PROVE  \E n : Aliases[what] \cap ShortNames \subseteq {n}
  BY <1>1, <1>2
<1> QED BY <1>4, <1>5

(* The only short name of a token.                                         *)
LEMMA ShortToken ==
  ASSUME NEW uri, DOMAIN uri.params \subseteq ShortNames, HasToken(uri)
  PROVE  "a" \in DOMAIN uri.params
<1>1. Aliases["token"] \cap ShortNames = {"a"}
  BY DEF Aliases, ShortNames
<1>2. PICK n \in DOMAIN uri.params : n \in Aliases["token"]
  BY DEF HasToken, Given
<1>3. n \in Aliases["token"] \cap ShortNames
  BY <1>2
<1>4. n = "a"
  BY <1>1, <1>3
<1> QED BY <1>2, <1>4

(* What the client accepts of such a URI, with a token or without: all but *)
(* what LinesParse names.                                                  *)
LEMMA ShortParses ==
  ASSUME NEW uri, NEW item, ValidInstance(item), Short(uri, item), "long" \notin uri.room
  PROVE  ValidateClientURI(uri) \/ BeyondClient(uri)
<1> DEFINE names == DOMAIN uri.params
<1>1. names \subseteq ShortNames /\ {"k", "t", "c", "d"} \subseteq names
  BY DEF Short
<1>2. /\ Given(uri, "key") = {"k"} /\ Given(uri, "transport") = {"t"}
      /\ Given(uri, "client") = {"c"} /\ Given(uri, "dns") = {"d"}
      /\ Given(uri, "keepalive") = {}
  BY <1>1 DEF Given, Aliases, ShortNames
<1>3. Given(uri, "fps") = (IF "f" \in names THEN {"f"} ELSE {})
  BY <1>1 DEF Given, Aliases, ShortNames
<1>4. Given(uri, "batch") = (IF "b" \in names THEN {"b"} ELSE {})
  BY <1>1 DEF Given, Aliases, ShortNames
<1>5. ASSUME NEW what \in DOMAIN Aliases
      PROVE  Cardinality(Given(uri, what)) <= 1
  <2>1. PICK n : Given(uri, what) \subseteq {n}
    BY <1>1, ShortNamesKnown DEF Given
  <2>2. Given(uri, what) = {} \/ Given(uri, what) = {n}
    BY <2>1
  <2>3. Cardinality({}) = 0 /\ Cardinality({n}) = 1
    BY FS_EmptySet, FS_Singleton
  <2>4. Cardinality(Given(uri, what)) \in {0, 1}
    BY <2>2, <2>3
  <2> QED BY <2>4
<1>6. ASSUME NEW what, NEW n, NEW default, Given(uri, what) = {n}
      PROVE  Parameter(uri, what, default) = uri.params[n]
  BY <1>6 DEF Parameter
<1>7. /\ Parameter(uri, "key", "bad") = "hex" /\ Parameter(uri, "client", "") = "id"
      /\ Parameter(uri, "transport", "datachannel") = item.transport
      /\ Parameter(uri, "dns", "address") = item.dns
  <2>1. Parameter(uri, "key", "bad") = uri.params["k"]
    BY <1>2 DEF Parameter
  <2>2. Parameter(uri, "client", "") = uri.params["c"]
    BY <1>2 DEF Parameter
  <2>3. Parameter(uri, "transport", "datachannel") = uri.params["t"]
    BY <1>2 DEF Parameter
  <2>4. Parameter(uri, "dns", "address") = uri.params["d"]
    BY <1>2 DEF Parameter
  <2> QED BY <2>1, <2>2, <2>3, <2>4 DEF Short
<1>8. item.dns \in {"host", "port"} => BeyondClient(uri)
  BY <1>1 DEF Short, BeyondClient
<1>11. uri.room # {}
  BY DEF Short, ValidInstance
<1>9. CASE item.transport # "vp8channel" /\ item.dns = "address"
  <2>1. Given(uri, "fps") = {} /\ Given(uri, "batch") = {}
    BY <1>3, <1>4, <1>9 DEF Short
  <2>2. \A what \in DOMAIN Limits : Given(uri, what) = {}
    BY <1>2, <2>1 DEF Limits
  <2> QED BY <1>1, <1>5, <1>7, <1>9, <1>11, <2>2, ShortNamesKnown DEF ValidateClientURI, Short
<1>10. CASE item.transport = "vp8channel" /\ item.dns = "address"
  <2>1. "f" \in names /\ uri.params["f"] = item.options.vp8_fps
    BY <1>10 DEF Short
  <2>2. "b" \in names /\ uri.params["b"] = item.options.vp8_batch
    BY <1>10 DEF Short
  <2>3. item.options.vp8_fps \in 1..240 /\ item.options.vp8_batch \in Nat \ {0}
    <3>1. ValidTransport(item)
      BY DEF ValidInstance
    <3>2. ValidVP8(item.options)
      BY <1>10, <3>1 DEF ValidTransport
    <3> QED BY <3>2, WholeNumbers DEF ValidVP8
  <2> DEFINE m == item.options.vp8_fps
             n == item.options.vp8_batch
  <2> HIDE DEF m, n
  <2>4. CASE m > 120 \/ n > 64
    BY <2>1, <2>2, <2>4 DEF BeyondClient, m, n
  <2>5. CASE m \in 1..120 /\ n \in 1..64
    <3>1. Parameter(uri, "fps", 0) \in 1..120
      BY <1>3, <1>6, <2>1, <2>5 DEF m
    <3>2. Parameter(uri, "batch", 0) \in 1..64
      BY <1>4, <1>6, <2>2, <2>5 DEF n
    <3>3. \A what \in DOMAIN Limits :
            Given(uri, what) # {} => Parameter(uri, what, 0) \in Limits[what]
      BY <1>2, <3>1, <3>2 DEF Limits
    <3> QED BY <1>1, <1>5, <1>7, <1>10, <1>11, <3>3, ShortNamesKnown DEF ValidateClientURI, Short
  <2>6. m \in 1..240 /\ n \in Nat \ {0}
    BY <2>3 DEF m, n
  <2>7. m > 120 \/ m \in 1..120
    BY <2>6
  <2>8. n > 64 \/ n \in 1..64
    BY <2>6
  <2> QED BY <2>4, <2>5, <2>7, <2>8
<1> QED BY <1>8, <1>9, <1>10 DEF ValidInstance

(* StripAuthToken.  No name of the token stays, and every other parameter  *)
(* does.                                                                   *)
LEMMA StripShort ==
  ASSUME NEW uri, NEW item, Short(uri, item),
         uri = [shape |-> uri.shape, provider |-> uri.provider, room |-> uri.room,
                params |-> uri.params]
  PROVE  Short(StripAuthToken(uri), item) /\ ~HasToken(StripAuthToken(uri))
<1> DEFINE kept == DOMAIN uri.params \ Aliases["token"]
           params == [n \in kept |-> uri.params[n]]
           stripped == StripAuthToken(uri)
<1>1. stripped = [shape |-> uri.shape, provider |-> uri.provider, room |-> uri.room,
                  params |-> params]
  BY DEF StripAuthToken, Restrict, Short
<1>2. /\ stripped.shape = uri.shape /\ stripped.provider = uri.provider
      /\ stripped.room = uri.room /\ stripped.params = params
  BY <1>1
<1>3. DOMAIN params = kept /\ \A n \in kept : params[n] = uri.params[n]
  OBVIOUS
<1>4. kept \cap Aliases["token"] = {}
  OBVIOUS
<1>5. kept \subseteq DOMAIN uri.params /\ DOMAIN uri.params \ {"a", "auth_token", "auth.token"} \subseteq kept
  BY DEF Aliases
<1> HIDE DEF kept, params, stripped
<1>6. ~HasToken(stripped)
  BY <1>2, <1>3, <1>4 DEF HasToken, Given
<1>7. Short(stripped, item)
  BY <1>2, <1>3, <1>5 DEF Short
<1> QED BY <1>6, <1>7 DEF stripped

-----------------------------------------------------------------------------
(* The types.                                                              *)

Distinct(s) == \A k, l \in DOMAIN s : k # l => s[k] # s[l]

(* SetToSeqs.  An arrangement of a finite set has each of its members.     *)
LEMMA Arranged ==
  ASSUME NEW S, IsFiniteSet(S), NEW s \in SetToSeqs(S)
  PROVE  s \in Seq(S) /\ ToSet(s) = S /\ Distinct(s)
<1> DEFINE n == Cardinality(S)
<1>1. n \in Nat
  BY FS_CardinalityType
<1> HIDE DEF n
<1>2. s \in [1..n -> S] /\ \A k, l \in 1..n : k # l => s[k] # s[l]
  BY DEF SetToSeqs, n
<1>3. s \in Bijection(1..n, ToSet(s))
  BY <1>2 DEF Bijection, Injection, Surjection, IsInjective, ToSet
<1>4. Cardinality(ToSet(s)) = n
  BY <1>1, <1>3, FS_CountingElements DEF ExistsBijection
<1>5. ToSet(s) \subseteq S
  BY <1>2 DEF ToSet
<1>6. ToSet(s) = S
  BY <1>4, <1>5, FS_Subset DEF n
<1>7. s \in Seq(S)
  BY <1>1, <1>2
<1> QED BY <1>2, <1>6, <1>7 DEF Distinct

Links == Instances \cup {None}
Raws == RawURIs \cup {None}
Rows == [here : BOOLEAN, sub : Nat, source : Links, raw : Raws, enabled : BOOLEAN, order : Int]
Items == [here : BOOLEAN, key : BOOLEAN, config : Configs, used : Nat]
Wanted == [id : EntryIds, source : Links, raw : Raws]

(* What a line can be: a manual URI, or one made of an instance.           *)
Made ==
  LET clients == {ClientURI(c, key) : c \in Configs, key \in {"hex", "bad"}}
  IN clients \cup {StripAuthToken(uri) : uri \in clients}
       \cup {StandardURI(c, key, c.name) : c \in Configs, key \in {"hex", "bad"}}
Published == [id : EntryIds, source : Links, uri : Raws \cup Made, used : Nat, quota : Nat]

LEMMA AreMade ==
  ASSUME NEW c \in Configs, NEW key \in {"hex", "bad"}
  PROVE  /\ ClientURI(c, key) \in Made /\ StripAuthToken(ClientURI(c, key)) \in Made
         /\ StandardURI(c, key, c.name) \in Made
  BY DEF Made

Requests == [pc : {"idle", "insert", "update", "delete", "reorder", "import"}, sub : Nat,
             id : Nat, new : Rows, ids : Seq(EntryIds), file : Seq(Rows)]
Renderings == [pc : {"idle", "entries", "resolve", "uri", "served", "failed"},
               format : Formats, sub : Nat, omit : BOOLEAN, todo : Seq(Wanted),
               item : Items \cup {None}, lines : Seq(Published), used : Nat,
               available : Nat, limited : BOOLEAN, total : Nat, subOpen : BOOLEAN,
               instOpen : SUBSET Instances, moved : SUBSET Instances, steady : SUBSET EntryIds]

EntriesTyped == entry \in [EntryIds -> Rows] /\ lastId \in Nat
OpTyped ==
  /\ op \in [Procs -> Requests]
  /\ \A p \in Procs :
       /\ Distinct(op[p].ids)
       /\ op[p].pc = "import" => op[p].file # << >>
       /\ op[p].pc = "update" => op[p].id \in EntryIds

Typed ==
  /\ sub \in [id : Nat, here : BOOLEAN, enabled : BOOLEAN, omit : BOOLEAN]
  /\ EntriesTyped /\ OpTyped
  /\ inst \in [Instances -> Items] /\ fk \in BOOLEAN
  /\ reader \in Renderings

LEMMA SourcesTyped == \A order \in Int : Sources(order) \subseteq Rows
<1>1. ASSUME NEW order \in Int, NEW new \in Sources(order)
      PROVE  new \in Rows
  <2>1. CASE \E i \in Instances : new = Linked(i, order)
    <3>1. PICK i \in Instances : new = Linked(i, order)
      BY <2>1
    <3>2. new = [here |-> TRUE, sub |-> 0, source |-> i, raw |-> None, enabled |-> TRUE,
                 order |-> order]
      BY <3>1 DEF Linked, NoEntry
    <3> QED BY <3>2 DEF Rows, Links, Raws
  <2>2. CASE \E u \in RawURIs : new = Manual(u, order)
    <3>1. PICK u \in RawURIs : new = Manual(u, order)
      BY <2>2
    <3>2. new = [here |-> TRUE, sub |-> 0, source |-> None, raw |-> u, enabled |-> TRUE,
                 order |-> order]
      BY <3>1 DEF Manual, NoEntry
    <3> QED BY <3>2 DEF Rows, Links, Raws
  <2> QED BY <2>1, <2>2 DEF Sources
<1> QED BY <1>1

LEMMA RowsTyped ==
  /\ NoEntry \in Rows
  /\ \A new \in Rows : /\ \A id \in Nat : [new EXCEPT !.sub = id] \in Rows
                       /\ \A e \in BOOLEAN : [new EXCEPT !.enabled = e] \in Rows
                       /\ \A order \in Int : [new EXCEPT !.order = order] \in Rows
                       /\ \A id \in Nat, e \in BOOLEAN :
                            [new EXCEPT !.sub = id, !.enabled = e] \in Rows
<1>1. NoEntry \in Rows
  BY DEF NoEntry, Rows, Links, Raws
<1>3. ASSUME NEW new \in Rows
      PROVE  /\ \A id \in Nat : [new EXCEPT !.sub = id] \in Rows
             /\ \A e \in BOOLEAN : [new EXCEPT !.enabled = e] \in Rows
             /\ \A order \in Int : [new EXCEPT !.order = order] \in Rows
             /\ \A id \in Nat, e \in BOOLEAN : [new EXCEPT !.sub = id, !.enabled = e] \in Rows
  BY DEF Rows
<1> QED BY <1>1, <1>3

LEMMA FileTyped == ImportFile \in Seq(Rows)
<1>1. ToSet(ImportFile) \subseteq Rows
  BY FileAssumption, SourcesTyped
<1> QED BY <1>1, FileAssumption

LEMMA MembersFinite ==
  ASSUME NEW id
  PROVE  Members(id) \subseteq EntryIds /\ IsFiniteSet(Members(id))
<1>1. IsFiniteSet(EntryIds)
  BY BoundAssumption, FS_Interval DEF EntryIds
<1>2. Members(id) \subseteq EntryIds
  BY DEF Members
<1> QED BY <1>1, <1>2, FS_Subset

LEMMA IdleTyped == Idle \in Requests /\ Distinct(Idle.ids) /\ Idle.pc = "idle"
<1>1. << >> \in Seq(EntryIds) /\ << >> \in Seq(Rows)
  OBVIOUS
<1>2. Idle \in Requests
  BY <1>1, RowsTyped DEF Idle, Requests
<1> QED BY <1>2 DEF Idle, Distinct

LEMMA SilentTyped == Silent \in Renderings
  BY DEF Silent, Renderings, Formats

(* The types of the initial states.                                        *)
LEMMA InitTyped == Init => Typed
<1> SUFFICES ASSUME Init PROVE Typed
  OBVIOUS
<1>1. PICK i \in Instances :
        entry = [e \in EntryIds |-> IF e = 1 THEN [Linked(i, 0) EXCEPT !.sub = 1] ELSE NoEntry]
  BY DEF Init
<1>2. Linked(i, 0) \in Rows
  <2>1. Linked(i, 0) \in Sources(0) /\ 0 \in Int
    BY DEF Sources
  <2> QED BY ONLY <2>1, SourcesTyped
<1>3. EntriesTyped
  BY <1>1, <1>2, RowsTyped DEF EntriesTyped, Init
<1>4. OpTyped
  BY IdleTyped DEF OpTyped, Init
<1>5. sub \in [id : Nat, here : BOOLEAN, enabled : BOOLEAN, omit : BOOLEAN]
  BY DEF Init
<1>6. inst \in [Instances -> Items]
  BY DEF Init, Items
<1> QED BY <1>3, <1>4, <1>5, <1>6, SilentTyped DEF Typed, Init

(* What a goroutine keeps, at the start of a request and at its end.       *)
Fine(request) ==
  /\ request \in Requests /\ Distinct(request.ids)
  /\ request.pc = "import" => request.file # << >>
  /\ request.pc = "update" => request.id \in EntryIds

LEMMA PutTyped ==
  ASSUME OpTyped, NEW p \in Procs, NEW request, Fine(request),
         op' = [op EXCEPT ![p] = request]
  PROVE  OpTyped'
<1>1. op' \in [Procs -> Requests]
  BY DEF OpTyped, Fine
<1>2. ASSUME NEW q \in Procs
      PROVE  op'[q] = request \/ op'[q] = op[q]
  BY DEF OpTyped
<1> QED BY <1>1, <1>2 DEF OpTyped, Fine

LEMMA EndTyped ==
  ASSUME OpTyped, NEW p \in Procs, End(p)
  PROVE  OpTyped'
<1>1. Fine(Idle)
  BY IdleTyped DEF Fine
<1> QED BY <1>1, PutTyped DEF End

LEMMA RequestsFine ==
  /\ Fine(Idle)
  /\ \A new \in Rows : Fine([Idle EXCEPT !.pc = "insert", !.new = new])
  /\ \A e \in EntryIds, new \in Rows :
       Fine([Idle EXCEPT !.pc = "update", !.id = e, !.new = new])
  /\ \A id, e \in Nat : Fine([Idle EXCEPT !.pc = "delete", !.sub = id, !.id = e])
  /\ \A id \in Nat, ids \in Seq(EntryIds) :
       Distinct(ids) => Fine([Idle EXCEPT !.pc = "reorder", !.sub = id, !.ids = ids])
  /\ \A id \in Nat, file \in Seq(Rows) :
       file # << >> => Fine([Idle EXCEPT !.pc = "import", !.sub = id, !.file = file])
<1>1. Fine(Idle)
  BY IdleTyped DEF Fine
<1>2. ASSUME NEW new \in Rows
      PROVE  Fine([Idle EXCEPT !.pc = "insert", !.new = new])
  <2> DEFINE r == [Idle EXCEPT !.pc = "insert", !.new = new]
  <2>1. r \in Requests
    BY IdleTyped DEF Requests
  <2>2. r.pc = "insert" /\ r.ids = Idle.ids
    BY IdleTyped DEF Requests
  <2> HIDE DEF r
  <2>3. Fine(r)
    BY <2>1, <2>2, IdleTyped DEF Fine
  <2> QED BY <2>3 DEF r
<1>3. ASSUME NEW e \in EntryIds, NEW new \in Rows
      PROVE  Fine([Idle EXCEPT !.pc = "update", !.id = e, !.new = new])
  <2> DEFINE r == [Idle EXCEPT !.pc = "update", !.id = e, !.new = new]
  <2>1. e \in Nat
    BY BoundAssumption DEF EntryIds
  <2>2. r \in Requests
    BY IdleTyped, <2>1 DEF Requests
  <2>3. r.pc = "update" /\ r.ids = Idle.ids /\ r.id = e
    BY IdleTyped DEF Requests
  <2> HIDE DEF r
  <2>4. Fine(r)
    BY <2>2, <2>3, IdleTyped DEF Fine
  <2> QED BY <2>4 DEF r
<1>4. ASSUME NEW id \in Nat, NEW e \in Nat
      PROVE  Fine([Idle EXCEPT !.pc = "delete", !.sub = id, !.id = e])
  <2> DEFINE r == [Idle EXCEPT !.pc = "delete", !.sub = id, !.id = e]
  <2>1. r \in Requests
    BY IdleTyped DEF Requests
  <2>2. r.pc = "delete" /\ r.ids = Idle.ids
    BY IdleTyped DEF Requests
  <2> HIDE DEF r
  <2>3. Fine(r)
    BY <2>1, <2>2, IdleTyped DEF Fine
  <2> QED BY <2>3 DEF r
<1>5. ASSUME NEW id \in Nat, NEW ids \in Seq(EntryIds), Distinct(ids)
      PROVE  Fine([Idle EXCEPT !.pc = "reorder", !.sub = id, !.ids = ids])
  <2> DEFINE r == [Idle EXCEPT !.pc = "reorder", !.sub = id, !.ids = ids]
  <2>1. r \in Requests
    BY IdleTyped DEF Requests
  <2>2. r.pc = "reorder" /\ r.ids = ids
    BY IdleTyped DEF Requests
  <2> HIDE DEF r
  <2>3. Fine(r)
    BY <1>5, <2>1, <2>2, IdleTyped DEF Fine
  <2> QED BY <2>3 DEF r
<1>6. ASSUME NEW id \in Nat, NEW file \in Seq(Rows), file # << >>
      PROVE  Fine([Idle EXCEPT !.pc = "import", !.sub = id, !.file = file])
  <2> DEFINE r == [Idle EXCEPT !.pc = "import", !.sub = id, !.file = file]
  <2>1. r \in Requests
    BY IdleTyped DEF Requests
  <2>2. r.pc = "import" /\ r.ids = Idle.ids /\ r.file = file
    BY IdleTyped DEF Requests
  <2> HIDE DEF r
  <2>3. Fine(r)
    BY <1>6, <2>1, <2>2, IdleTyped DEF Fine
  <2> QED BY <2>3 DEF r
<1> QED BY <1>1, <1>2, <1>3, <1>4, <1>5, <1>6

(* What is written to the table of entries.                                *)
LEMMA InsertTyped ==
  ASSUME EntriesTyped, NEW new \in Rows, Insert(new)
  PROVE  EntriesTyped'
<1>1. CASE ForeignKeys(new)
  BY <1>1 DEF Insert, EntriesTyped
<1>2. CASE ~ForeignKeys(new)
  BY <1>2 DEF Insert, EntriesTyped
<1> QED BY <1>1, <1>2

LEMMA CascadeTyped ==
  ASSUME EntriesTyped, NEW lost, entry' = Cascade(lost), lastId' = lastId
  PROVE  EntriesTyped'
  BY RowsTyped DEF EntriesTyped, Cascade

(* What a change by a request does to a rendering: the history alone.      *)
Watched == /\ reader' \in Renderings
           /\ \A f \in {"pc", "format", "sub", "omit", "todo", "item", "lines", "used",
                        "available", "limited", "total"} : reader'[f] = reader[f]
           /\ reader'.steady \subseteq reader.steady
           /\ (reader.subOpen => reader'.subOpen)
           /\ reader.instOpen \subseteq reader'.instOpen /\ reader.moved \subseteq reader'.moved

LEMMA WatchedStays ==
  ASSUME reader \in Renderings, reader' = reader
  PROVE  Watched
  BY DEF Watched

LEMMA WatchedDisturbed ==
  ASSUME reader \in Renderings, NEW es, Disturbed(es)
  PROVE  Watched /\ reader'.steady = reader.steady \ es
  BY DEF Watched, Disturbed, Renderings

LEMMA WatchedOpen ==
  ASSUME reader \in Renderings, NEW omit \in BOOLEAN,
         reader' = IF Rendering THEN [reader EXCEPT !.subOpen = @ \/ ~omit] ELSE reader
  PROVE  Watched /\ reader'.steady = reader.steady
  BY DEF Watched, Renderings

-----------------------------------------------------------------------------
(* The types stay: requests of the administrator.                          *)

LEMMA CreateBeginTyped ==
  ASSUME Typed, NEW p \in Procs, CreateBegin(p)
  PROVE  OpTyped'
<1>1. PICK order \in Orders :
        LET place == IF order = 0 THEN Cardinality(Members(sub.id)) ELSE order
        IN \E new \in Sources(place) :
             Start(p, [Idle EXCEPT !.pc = "insert", !.new = [new EXCEPT !.sub = sub.id]])
  BY DEF CreateBegin
<1> DEFINE place == IF order = 0 THEN Cardinality(Members(sub.id)) ELSE order
<1>2. place \in Int
  BY OrdersAssumption, MembersFinite, FS_CardinalityType
<1> HIDE DEF place
<1>3. PICK new \in Sources(place) :
        Start(p, [Idle EXCEPT !.pc = "insert", !.new = [new EXCEPT !.sub = sub.id]])
  BY <1>1 DEF place
<1>4. sub.id \in Nat
  BY DEF Typed
<1> DEFINE row == [new EXCEPT !.sub = sub.id]
<1>5. row \in Rows
  BY <1>2, <1>4, SourcesTyped, RowsTyped
<1> HIDE DEF row
<1>6. Fine([Idle EXCEPT !.pc = "insert", !.new = row])
  BY <1>5, RequestsFine
<1>7. op' = [op EXCEPT ![p] = [Idle EXCEPT !.pc = "insert", !.new = row]]
  BY <1>3 DEF Start, row
<1> QED BY <1>6, <1>7, PutTyped DEF Typed

LEMMA UpdateBeginTyped ==
  ASSUME Typed, NEW p \in Procs, UpdateBegin(p)
  PROVE  OpTyped'
<1>1. PICK e \in Members(sub.id), order \in Orders, enabled \in BOOLEAN :
        \E new \in Sources(order) :
          Start(p, [Idle EXCEPT !.pc = "update", !.id = e,
                                !.new = [new EXCEPT !.sub = sub.id, !.enabled = enabled]])
  BY DEF UpdateBegin
<1>2. PICK new \in Sources(order) :
        Start(p, [Idle EXCEPT !.pc = "update", !.id = e,
                              !.new = [new EXCEPT !.sub = sub.id, !.enabled = enabled]])
  BY <1>1
<1>3. sub.id \in Nat /\ order \in Int /\ e \in EntryIds
  BY OrdersAssumption, MembersFinite DEF Typed
<1> DEFINE row == [new EXCEPT !.sub = sub.id, !.enabled = enabled]
<1>4. row \in Rows
  BY <1>3, SourcesTyped, RowsTyped
<1> HIDE DEF row
<1>5. Fine([Idle EXCEPT !.pc = "update", !.id = e, !.new = row])
  BY <1>3, <1>4, RequestsFine
<1>6. op' = [op EXCEPT ![p] = [Idle EXCEPT !.pc = "update", !.id = e, !.new = row]]
  BY <1>2 DEF Start, row
<1> QED BY <1>5, <1>6, PutTyped DEF Typed

LEMMA DeleteBeginTyped ==
  ASSUME Typed, NEW p \in Procs, DeleteBegin(p)
  PROVE  OpTyped'
<1>1. PICK e \in 1..lastId :
        Start(p, [Idle EXCEPT !.pc = "delete", !.sub = sub.id, !.id = e])
  BY DEF DeleteBegin
<1>2. sub.id \in Nat /\ e \in Nat
  BY DEF Typed, EntriesTyped
<1>3. Fine([Idle EXCEPT !.pc = "delete", !.sub = sub.id, !.id = e])
  BY <1>2, RequestsFine
<1> QED BY <1>1, <1>3, PutTyped DEF Typed, Start

LEMMA ReorderBeginTyped ==
  ASSUME Typed, NEW p \in Procs, ReorderBegin(p)
  PROVE  OpTyped'
<1>1. PICK ids \in SetToSeqs(Members(sub.id)) :
        Start(p, [Idle EXCEPT !.pc = "reorder", !.sub = sub.id, !.ids = ids])
  BY DEF ReorderBegin
<1>2. ids \in Seq(Members(sub.id)) /\ Distinct(ids)
  BY Arranged, MembersFinite
<1>3. ids \in Seq(EntryIds)
  BY <1>2, MembersFinite
<1>4. sub.id \in Nat
  BY DEF Typed
<1>5. Fine([Idle EXCEPT !.pc = "reorder", !.sub = sub.id, !.ids = ids])
  BY <1>2, <1>3, <1>4, RequestsFine
<1> QED BY <1>1, <1>5, PutTyped DEF Typed, Start

LEMMA ImportEntryTyped ==
  ASSUME Typed, NEW p \in Procs, ImportEntry(p)
  PROVE  EntriesTyped' /\ OpTyped'
<1> DEFINE file == op[p].file
           new == [Head(file) EXCEPT !.sub = op[p].sub]
<1>1. op[p] \in Requests /\ file \in Seq(Rows) /\ file # << >> /\ op[p].sub \in Nat
  BY DEF Typed, OpTyped, Requests, ImportEntry
<1>2. Head(file) \in Rows /\ Tail(file) \in Seq(Rows)
  BY <1>1
<1>3. new \in Rows
  BY <1>1, <1>2, RowsTyped
<1>4. EntriesTyped'
  <2>1. CASE ValidEntry(new)
    <3>1. Insert(new)
      BY <2>1 DEF ImportEntry
    <3> QED BY <1>3, <3>1, InsertTyped DEF Typed
  <2>2. CASE ~ValidEntry(new)
    <3>1. UNCHANGED <<entry, lastId>>
      BY <2>2 DEF ImportEntry
    <3> QED BY <3>1 DEF Typed, EntriesTyped
  <2> QED BY <2>1, <2>2
<1>5. OpTyped'
  <2>1. CASE Tail(file) = << >>
    <3>1. End(p)
      BY <2>1 DEF ImportEntry
    <3> QED BY <3>1, EndTyped DEF Typed
  <2>2. CASE Tail(file) # << >>
    <3> DEFINE request == [op[p] EXCEPT !.file = Tail(file)]
    <3>1. op' = [op EXCEPT ![p] = request]
      BY <2>2 DEF ImportEntry
    <3>2. request \in Requests
      BY <1>1, <1>2 DEF Requests
    <3>3. request.file = Tail(file) /\ request.ids = op[p].ids /\ request.pc = op[p].pc
      BY <1>1 DEF Requests
    <3>4. op[p].pc = "import" /\ Distinct(op[p].ids)
      BY DEF ImportEntry, Typed, OpTyped
    <3> HIDE DEF request
    <3>5. Fine(request)
      BY <2>2, <3>2, <3>3, <3>4 DEF Fine
    <3> QED BY <3>1, <3>5, PutTyped DEF Typed
  <2> QED BY <2>1, <2>2
<1> QED BY <1>4, <1>5

LEMMA NewSubscriptionTyped ==
  ASSUME Typed, NEW p \in Procs, NEW file \in {<< >>, ImportFile}, NewSubscription(p, file)
  PROVE  OpTyped' /\ sub' \in [id : Nat, here : BOOLEAN, enabled : BOOLEAN, omit : BOOLEAN]
<1>1. PICK omit \in BOOLEAN :
        sub' = [id |-> sub.id + 1, here |-> TRUE, enabled |-> TRUE, omit |-> omit]
  BY DEF NewSubscription
<1>2. sub.id \in Nat
  BY DEF Typed
<1>3. sub' \in [id : Nat, here : BOOLEAN, enabled : BOOLEAN, omit : BOOLEAN]
  BY <1>1, <1>2
<1>4. CASE file = << >>
  <2>1. op' = [op EXCEPT ![p] = Idle]
    BY <1>4 DEF NewSubscription, Start
  <2> QED BY <1>3, <2>1, RequestsFine, PutTyped DEF Typed
<1>5. CASE file # << >>
  <2>1. op' = [op EXCEPT ![p] = [Idle EXCEPT !.pc = "import", !.sub = sub.id + 1, !.file = file]]
    BY <1>5 DEF NewSubscription, Start
  <2>2. file \in Seq(Rows) /\ sub.id + 1 \in Nat
    BY <1>2, <1>5, FileTyped
  <2>3. Fine([Idle EXCEPT !.pc = "import", !.sub = sub.id + 1, !.file = file])
    BY <1>5, <2>2, RequestsFine
  <2> QED BY <1>3, <2>1, <2>3, PutTyped DEF Typed
<1> QED BY <1>4, <1>5

-----------------------------------------------------------------------------
(* The order of the entries, and what a change means to a rendering.       *)

(* An entry that is gone never comes back, so the order that was set holds *)
(* of what is left of it.                                                  *)
Ordered ==
  /\ \A e \in EntryIds : entry[e].here => e <= lastId
  /\ \A k \in DOMAIN sent : sent[k] \in EntryIds /\ sent[k] <= lastId
  /\ OrderAsSent

SameInstance(i) ==
  /\ inst'[i].here = inst[i].here /\ inst'[i].key = inst[i].key
  /\ inst'[i].config = inst[i].config

(* A change around a rendering: what it takes for steady stays as it is,   *)
(* and an instance that is edited is noted.                                *)
Around ==
  /\ Watched /\ lastId <= lastId'
  /\ \A e \in reader'.steady :
       /\ entry'[e].source = entry[e].source /\ entry'[e].raw = entry[e].raw
       /\ entry[e].source \in Instances => SameInstance(entry[e].source)
  /\ \A i \in Instances :
       /\ ~inst[i].key => ~inst'[i].key
       /\ \/ inst'[i].config = inst[i].config
          \/ /\ Rendering /\ ~inst'[i].config.omit => i \in reader'.instOpen
             /\ /\ reader.pc = "uri" /\ Head(reader.todo).source = i
                /\ inst'[i].config.provider # inst[i].config.provider
                => i \in reader'.moved

SteadyKnown == \A e \in reader.steady : e <= lastId

LEMMA StillAround ==
  ASSUME Typed, UNCHANGED <<entry, lastId, inst, reader>>
  PROVE  Around
<1>1. Watched
  BY WatchedStays DEF Typed
<1>2. \A i \in Instances : SameInstance(i)
  BY DEF SameInstance
<1>3. lastId <= lastId'
  BY DEF Typed, EntriesTyped
<1> QED BY <1>1, <1>2, <1>3 DEF Around

(* Insert.                                                                 *)
LEMMA InsertAround ==
  ASSUME Typed, Ordered, SteadyKnown, NEW new \in Rows, Insert(new),
         UNCHANGED <<inst, reader, sent>>
  PROVE  Around /\ Ordered'
<1>1. CASE ~ForeignKeys(new)
  <2>1. UNCHANGED <<entry, lastId>>
    BY <1>1 DEF Insert
  <2>2. Around
    BY <2>1, StillAround
  <2>3. Ordered'
    BY <2>1 DEF Ordered, OrderAsSent, Before
  <2> QED BY <2>2, <2>3
<1>2. CASE ForeignKeys(new)
  <2>1. lastId < MaxEntries /\ lastId' = lastId + 1
        /\ entry' = [entry EXCEPT ![lastId + 1] = new]
    BY <1>2 DEF Insert
  <2>2. lastId \in Nat /\ entry \in [EntryIds -> Rows]
    BY DEF Typed, EntriesTyped
  <2>3. \A e \in EntryIds : e <= lastId => entry'[e] = entry[e]
    BY <2>1, <2>2, BoundAssumption DEF EntryIds
  <2>4. \A e \in EntryIds : entry'[e].here => e <= lastId'
    <3> SUFFICES ASSUME NEW e \in EntryIds, entry'[e].here PROVE e <= lastId'
      OBVIOUS
    <3>1. CASE e = lastId + 1
      BY <2>1, <2>2, <3>1
    <3>2. CASE e # lastId + 1
      <4>1. entry'[e] = entry[e]
        BY <2>1, <2>2, <3>2
      <4>2. e <= lastId
        BY <4>1 DEF Ordered
      <4> QED BY <2>1, <2>2, <4>2, BoundAssumption DEF EntryIds
    <3> QED BY <3>1, <3>2
  <2>5. \A k \in DOMAIN sent : /\ sent[k] \in EntryIds /\ sent[k] <= lastId
                               /\ entry'[sent[k]] = entry[sent[k]]
    BY <2>3 DEF Ordered
  <2>6. \A k \in DOMAIN sent : sent[k] <= lastId'
    BY <2>1, <2>2, <2>5, BoundAssumption DEF EntryIds
  <2>7. OrderAsSent'
    BY <2>5 DEF Ordered, OrderAsSent, Before
  <2>8. Ordered'
    BY <2>4, <2>5, <2>6, <2>7 DEF Ordered
  <2>9. \A e \in reader.steady : entry'[e] = entry[e]
    BY <2>3 DEF SteadyKnown, Typed, Renderings
  <2>10. \A i \in Instances : SameInstance(i)
    BY DEF SameInstance
  <2>11. Watched
    BY WatchedStays DEF Typed
  <2>12. lastId <= lastId'
    BY <2>1, <2>2
  <2>13. Around
    BY <2>9, <2>10, <2>11, <2>12 DEF Around
  <2> QED BY <2>8, <2>13
<1> QED BY <1>1, <1>2

(* DeleteSubscriptionEntry and the cascades.                               *)
LEMMA ClearOrdered ==
  ASSUME Typed, Ordered, NEW gone,
         entry' = [e \in EntryIds |-> IF e \in gone THEN NoEntry ELSE entry[e]],
         lastId' = lastId, sent' = sent \/ sent' = << >>
  PROVE  Ordered' /\ EntriesTyped'
<1>1. ~NoEntry.here
  BY DEF NoEntry
<1>2. \A e \in EntryIds : entry'[e] = entry[e] \/ ~entry'[e].here
  BY <1>1
<1>3. EntriesTyped'
  BY RowsTyped DEF Typed, EntriesTyped
<1>4. \A e \in EntryIds : entry'[e].here => e <= lastId'
  BY <1>2 DEF Ordered
<1>5. CASE sent' = sent
  <2>1. \A k \in DOMAIN sent' : sent'[k] \in EntryIds /\ sent'[k] <= lastId'
    BY <1>5 DEF Ordered
  <2>2. OrderAsSent'
    BY <1>2, <1>5, <2>1 DEF Ordered, OrderAsSent, Before
  <2> QED BY <1>3, <1>4, <2>1, <2>2 DEF Ordered
<1>6. CASE sent' = << >>
  <2>1. DOMAIN sent' = {}
    BY <1>6
  <2> QED BY <1>3, <1>4, <2>1 DEF Ordered, OrderAsSent
<1> QED BY <1>5, <1>6

LEMMA ClearAround ==
  ASSUME Typed, NEW gone, NEW es, gone \cap reader.steady \subseteq es,
         entry' = [e \in EntryIds |-> IF e \in gone THEN NoEntry ELSE entry[e]],
         Disturbed(es), lastId' = lastId,
         \A i \in Instances : SameInstance(i) \/ (~inst'[i].key /\ LinkedTo(i) \subseteq es),
         \A i \in Instances : inst'[i].config = inst[i].config
  PROVE  Around
<1>1. Watched /\ reader'.steady = reader.steady \ es
  BY WatchedDisturbed DEF Typed
<1>2. reader.steady \subseteq EntryIds
  BY DEF Typed, Renderings
<1>3. ASSUME NEW e \in reader'.steady
      PROVE  /\ entry'[e].source = entry[e].source /\ entry'[e].raw = entry[e].raw
             /\ entry[e].source \in Instances => SameInstance(entry[e].source)
  <2>1. e \in EntryIds /\ e \notin es /\ e \notin gone
    BY <1>1, <1>2
  <2>2. entry'[e] = entry[e]
    BY <2>1
  <2>3. entry[e].source \in Instances => SameInstance(entry[e].source)
    BY <2>1 DEF LinkedTo
  <2> QED BY <2>2, <2>3
<1>4. \A i \in Instances : ~inst[i].key => ~inst'[i].key
  BY DEF SameInstance
<1>5. lastId <= lastId'
  BY DEF Typed, EntriesTyped
<1> QED BY <1>1, <1>3, <1>4, <1>5 DEF Around

LEMMA UpdateWriteAround ==
  ASSUME Typed, Ordered, NEW p \in Procs, UpdateWrite(p)
  PROVE  EntriesTyped' /\ Ordered' /\ Around
<1> DEFINE e == op[p].id
           new == op[p].new
<1>1. e \in EntryIds /\ new \in Rows
  BY DEF UpdateWrite, Typed, OpTyped, Requests
<1>2. entry \in [EntryIds -> Rows] /\ lastId \in Nat /\ reader \in Renderings
  BY DEF Typed, EntriesTyped
<1>3. lastId' = lastId /\ inst' = inst
  BY DEF UpdateWrite
<1>4. CASE ~(entry[e].here /\ ForeignKeys(new))
  <2>1. UNCHANGED <<entry, sent, reader>>
    BY <1>4 DEF UpdateWrite
  <2>2. Ordered' /\ EntriesTyped'
    BY <1>3, <2>1 DEF Ordered, OrderAsSent, Before, Typed, EntriesTyped
  <2> QED BY <1>3, <2>1, <2>2, StillAround
<1>5. CASE entry[e].here /\ ForeignKeys(new)
  <2>1. /\ entry' = [entry EXCEPT ![e] = new] /\ Disturbed({e})
        /\ sent' = Restrict(sent, {k \in DOMAIN sent : sent[k] # e})
    BY <1>5 DEF UpdateWrite
  <2> HIDE DEF e, new
  <2>2. EntriesTyped'
    BY <1>1, <1>2, <1>3, <2>1 DEF EntriesTyped
  <2>3. \A d \in EntryIds : d # e => entry'[d] = entry[d]
    BY <1>2, <2>1
  <2>4. \A d \in EntryIds : entry'[d].here => d <= lastId'
    BY <1>3, <1>5, <2>3 DEF Ordered
  <2>5. \A k \in DOMAIN sent' : /\ k \in DOMAIN sent /\ sent'[k] = sent[k] /\ sent[k] # e
    BY <2>1 DEF Restrict
  <2>6. \A k \in DOMAIN sent' :
          /\ sent'[k] \in EntryIds /\ sent'[k] <= lastId' /\ entry'[sent'[k]] = entry[sent[k]]
    BY <1>3, <2>3, <2>5 DEF Ordered
  <2>7. OrderAsSent'
    BY <2>5, <2>6 DEF Ordered, OrderAsSent, Before
  <2>8. Ordered'
    BY <2>4, <2>6, <2>7 DEF Ordered
  <2>9. Watched /\ reader'.steady = reader.steady \ {e}
    BY <1>2, <2>1, WatchedDisturbed
  <2>10. \A d \in reader'.steady : entry'[d] = entry[d]
    BY <1>2, <2>3, <2>9 DEF Renderings
  <2>11. \A i \in Instances : SameInstance(i)
    BY <1>3 DEF SameInstance
  <2>12. Around
    BY <1>2, <1>3, <2>9, <2>10, <2>11 DEF Around
  <2> QED BY <2>2, <2>8, <2>12
<1> QED BY <1>4, <1>5

LEMMA DeleteWriteAround ==
  ASSUME Typed, Ordered, NEW p \in Procs, DeleteWrite(p)
  PROVE  EntriesTyped' /\ Ordered' /\ Around
<1> DEFINE gone == {op[p].id} \cap Members(op[p].sub)
<1>1. /\ entry' = [e \in EntryIds |-> IF e \in gone THEN NoEntry ELSE entry[e]]
      /\ Disturbed(gone) /\ lastId' = lastId /\ sent' = sent /\ inst' = inst
  BY DEF DeleteWrite
<1> HIDE DEF gone
<1>2. Ordered' /\ EntriesTyped'
  BY <1>1, ClearOrdered
<1>3. \A i \in Instances : SameInstance(i) /\ inst'[i].config = inst[i].config
  BY <1>1 DEF SameInstance
<1> QED BY <1>1, <1>2, <1>3, ClearAround

(* ReorderSubscriptionEntries.  Every entry has the place it was given.    *)
LEMMA Placed ==
  ASSUME NEW ids, ids \in Seq(EntryIds), Distinct(ids), NEW k \in DOMAIN ids
  PROVE  Place(ids, ids[k]) = k - 1
<1> DEFINE l == CHOOSE m \in DOMAIN ids : ids[m] = ids[k]
<1>1. l \in DOMAIN ids /\ ids[l] = ids[k]
  OBVIOUS
<1>2. l = k
  BY <1>1 DEF Distinct
<1> QED BY <1>2 DEF Place

LEMMA ReorderWriteAround ==
  ASSUME Typed, Ordered, NEW p \in Procs, ReorderWrite(p)
  PROVE  EntriesTyped' /\ Ordered' /\ Around
<1> DEFINE ids == op[p].ids
<1>1. ids \in Seq(EntryIds) /\ Distinct(ids)
  BY DEF Typed, OpTyped, Requests
<1>2. entry \in [EntryIds -> Rows] /\ lastId \in Nat /\ reader \in Renderings
  BY DEF Typed, EntriesTyped
<1>3. lastId' = lastId /\ inst' = inst /\ reader' = reader
  BY DEF ReorderWrite
<1>4. CASE ~(ToSet(ids) \subseteq Members(op[p].sub))
  <2>1. UNCHANGED <<entry, sent>>
    BY <1>4 DEF ReorderWrite
  <2>2. Ordered' /\ EntriesTyped'
    BY <1>3, <2>1 DEF Ordered, OrderAsSent, Before, Typed, EntriesTyped
  <2> QED BY <1>3, <2>1, <2>2, StillAround
<1>5. CASE ToSet(ids) \subseteq Members(op[p].sub)
  <2>1. /\ entry' = [e \in EntryIds |-> IF e \in ToSet(ids)
                                        THEN [entry[e] EXCEPT !.order = Place(ids, e)]
                                        ELSE entry[e]]
        /\ sent' = ids
    BY <1>5 DEF ReorderWrite
  <2>2. \A e \in ToSet(ids) : entry[e].here
    BY <1>5 DEF Members
  <2> HIDE DEF ids
  <2>3. ToSet(ids) \subseteq EntryIds /\ DOMAIN ids \subseteq Nat
    BY <1>1 DEF ToSet
  <2>4. \A e \in ToSet(ids) : Place(ids, e) \in Int
    BY <1>1, <2>3, Placed DEF ToSet
  <2>5. \A e \in EntryIds : entry'[e] \in Rows
    BY <1>2, <2>1, <2>4, RowsTyped
  <2>6. EntriesTyped'
    BY <1>2, <1>3, <2>1, <2>5 DEF EntriesTyped
  <2>7. \A e \in EntryIds : /\ entry'[e].here = entry[e].here
                            /\ entry'[e].source = entry[e].source
                            /\ entry'[e].raw = entry[e].raw
    BY <1>2, <2>1 DEF Rows
  <2>8. \A k \in DOMAIN ids : /\ ids[k] \in EntryIds /\ entry[ids[k]].here
                              /\ entry'[ids[k]].order = k - 1
    <3> SUFFICES ASSUME NEW k \in DOMAIN ids
                 PROVE  /\ ids[k] \in EntryIds /\ entry[ids[k]].here
                        /\ entry'[ids[k]].order = k - 1
      OBVIOUS
    <3>1. ids[k] \in ToSet(ids) /\ ids[k] \in EntryIds
      BY <2>3 DEF ToSet
    <3>2. entry'[ids[k]] = [entry[ids[k]] EXCEPT !.order = Place(ids, ids[k])]
      BY <2>1, <3>1
    <3>3. entry'[ids[k]].order = Place(ids, ids[k])
      BY <1>2, <3>1, <3>2 DEF Rows
    <3> QED BY <1>1, <2>2, <3>1, <3>3, Placed
  <2>9. OrderAsSent'
    BY <2>1, <2>3, <2>8 DEF OrderAsSent, Before
  <2>10. Ordered'
    BY <1>3, <2>1, <2>7, <2>8, <2>9 DEF Ordered
  <2>11. reader.steady \subseteq EntryIds /\ reader'.steady = reader.steady
    BY <1>2, <1>3 DEF Renderings
  <2>12. \A i \in Instances : SameInstance(i)
    BY <1>3 DEF SameInstance
  <2>13. Around
    BY <1>2, <1>3, <2>7, <2>11, <2>12, WatchedStays DEF Around
  <2> QED BY <2>6, <2>10, <2>13
<1> QED BY <1>4, <1>5

SubTyped == sub \in [id : Nat, here : BOOLEAN, enabled : BOOLEAN, omit : BOOLEAN]

LEMMA PutSubscriptionAround ==
  ASSUME Typed, Ordered, NEW enabled \in BOOLEAN, NEW omit \in BOOLEAN,
         PutSubscription(enabled, omit)
  PROVE  SubTyped' /\ Ordered' /\ Around
<1>1. /\ sub' = [sub EXCEPT !.enabled = enabled, !.omit = omit]
      /\ reader' = IF Rendering THEN [reader EXCEPT !.subOpen = @ \/ ~omit] ELSE reader
      /\ UNCHANGED <<entry, lastId, inst, sent>>
  BY DEF PutSubscription
<1>2. SubTyped'
  BY <1>1 DEF Typed, SubTyped
<1>3. Ordered'
  BY <1>1 DEF Ordered, OrderAsSent, Before
<1>4. Watched /\ reader'.steady = reader.steady
  BY <1>1, WatchedOpen DEF Typed
<1>5. \A i \in Instances : SameInstance(i)
  BY <1>1 DEF SameInstance
<1>6. lastId <= lastId'
  BY <1>1 DEF Typed, EntriesTyped
<1> QED BY <1>1, <1>2, <1>3, <1>4, <1>5, <1>6 DEF Around

LEMMA NewSubscriptionAround ==
  ASSUME Typed, Ordered, NEW p \in Procs, NEW file, NewSubscription(p, file)
  PROVE  Ordered' /\ Around
<1>1. PICK omit \in BOOLEAN :
        reader' = IF Rendering THEN [reader EXCEPT !.subOpen = @ \/ ~omit] ELSE reader
  BY DEF NewSubscription
<1>2. UNCHANGED <<entry, lastId, inst, sent>>
  BY DEF NewSubscription
<1>3. Ordered'
  BY <1>2 DEF Ordered, OrderAsSent, Before
<1>4. Watched /\ reader'.steady = reader.steady
  BY <1>1, WatchedOpen DEF Typed
<1>5. \A i \in Instances : SameInstance(i)
  BY <1>2 DEF SameInstance
<1>6. lastId <= lastId'
  BY <1>2 DEF Typed, EntriesTyped
<1> QED BY <1>2, <1>3, <1>4, <1>5, <1>6 DEF Around

LEMMA DropSubscriptionAround ==
  ASSUME Typed, Ordered, DropSubscription
  PROVE  SubTyped' /\ EntriesTyped' /\ Ordered' /\ Around
<1> DEFINE gone == IF fk THEN Members(sub.id) ELSE {}
<1>1. /\ entry' = Cascade(Members(sub.id)) /\ sent' = << >> /\ Disturbed(EntryIds)
      /\ lastId' = lastId /\ inst' = inst /\ sub' = [sub EXCEPT !.here = FALSE]
  BY DEF DropSubscription
<1>2. entry' = [e \in EntryIds |-> IF e \in gone THEN NoEntry ELSE entry[e]]
  BY <1>1 DEF Cascade
<1>3. gone \subseteq EntryIds
  BY MembersFinite
<1> HIDE DEF gone
<1>4. SubTyped'
  BY <1>1 DEF Typed, SubTyped
<1>5. Ordered' /\ EntriesTyped'
  BY <1>1, <1>2, ClearOrdered
<1>6. \A i \in Instances : SameInstance(i) /\ inst'[i].config = inst[i].config
  BY <1>1 DEF SameInstance
<1> QED BY <1>1, <1>2, <1>3, <1>4, <1>5, <1>6, ClearAround

(* Instances change.                                                       *)
LEMMA EditAround ==
  ASSUME Typed, Ordered, NEW i \in Instances, NEW config \in Configs, Edit(i, config)
  PROVE  inst' \in [Instances -> Items] /\ Ordered' /\ Around
<1> DEFINE opens == Rendering /\ ~config.omit
           moves == /\ reader.pc = "uri" /\ Head(reader.todo).source = i
                    /\ config.provider # inst[i].config.provider
<1>1. /\ inst' = [inst EXCEPT ![i].config = config]
      /\ reader' = [reader EXCEPT
                      !.steady = @ \ LinkedTo(i),
                      !.instOpen = IF opens THEN @ \cup {i} ELSE @,
                      !.moved = IF moves THEN @ \cup {i} ELSE @]
      /\ UNCHANGED <<entry, lastId, sent>>
  BY DEF Edit
<1> HIDE DEF opens, moves
<1>2. reader \in Renderings /\ inst \in [Instances -> Items] /\ lastId \in Nat
  BY DEF Typed, EntriesTyped
<1>3. inst' \in [Instances -> Items]
  BY <1>1, <1>2 DEF Items
<1>4. Ordered'
  BY <1>1 DEF Ordered, OrderAsSent, Before
<1>5. /\ reader'.steady = reader.steady \ LinkedTo(i)
      /\ reader'.instOpen = IF opens THEN reader.instOpen \cup {i} ELSE reader.instOpen
      /\ reader'.moved = IF moves THEN reader.moved \cup {i} ELSE reader.moved
  BY <1>1, <1>2 DEF Renderings
<1>6. reader' \in Renderings
  <2>1. /\ reader.steady \ LinkedTo(i) \in SUBSET EntryIds
        /\ (IF opens THEN reader.instOpen \cup {i} ELSE reader.instOpen) \in SUBSET Instances
        /\ (IF moves THEN reader.moved \cup {i} ELSE reader.moved) \in SUBSET Instances
    BY <1>2 DEF Renderings
  <2> QED BY <1>1, <1>2, <2>1 DEF Renderings
<1>7. Watched
  BY <1>1, <1>2, <1>5, <1>6 DEF Watched, Renderings
<1>8. \A j \in Instances \ {i} : SameInstance(j)
  BY <1>1, <1>2 DEF SameInstance
<1>9. inst'[i].config = config /\ inst'[i].key = inst[i].key
  BY <1>1, <1>2 DEF Items
<1>10. \A e \in reader'.steady : entry[e].source # i
  BY <1>2, <1>5 DEF LinkedTo, Renderings
<1>11. opens => i \in reader'.instOpen
  BY <1>5
<1>12. moves => i \in reader'.moved
  BY <1>5
<1>13. lastId <= lastId'
  BY <1>1, <1>2
<1>14. ASSUME NEW j \in Instances
       PROVE  /\ ~inst[j].key => ~inst'[j].key
              /\ \/ inst'[j].config = inst[j].config
                 \/ /\ Rendering /\ ~inst'[j].config.omit => j \in reader'.instOpen
                    /\ /\ reader.pc = "uri" /\ Head(reader.todo).source = j
                       /\ inst'[j].config.provider # inst[j].config.provider
                       => j \in reader'.moved
  BY <1>8, <1>9, <1>11, <1>12 DEF SameInstance, opens, moves
<1>15. Around
  BY <1>1, <1>7, <1>8, <1>10, <1>13, <1>14 DEF Around
<1> QED BY <1>3, <1>4, <1>15

LEMMA CountAround ==
  ASSUME Typed, Ordered, NEW i \in Instances, Count(i)
  PROVE  inst' \in [Instances -> Items] /\ Ordered' /\ Around
<1>1. inst' = [inst EXCEPT ![i].used = @ + 1] /\ UNCHANGED <<entry, lastId, reader, sent>>
  BY DEF Count
<1>2. inst \in [Instances -> Items] /\ lastId \in Nat
  BY DEF Typed, EntriesTyped
<1>3. inst' \in [Instances -> Items] /\ \A j \in Instances : SameInstance(j)
  BY <1>1, <1>2 DEF Items, SameInstance
<1>4. Ordered'
  BY <1>1 DEF Ordered, OrderAsSent, Before
<1>5. Around
  BY <1>1, <1>2, <1>3, WatchedStays DEF Around, SameInstance, Typed
<1> QED BY <1>3, <1>4, <1>5

LEMMA RemoveFilesAround ==
  ASSUME Typed, Ordered, NEW i \in Instances, RemoveFiles(i)
  PROVE  inst' \in [Instances -> Items] /\ Ordered' /\ Around
<1>1. /\ inst' = [inst EXCEPT ![i].key = FALSE] /\ Disturbed(LinkedTo(i))
      /\ UNCHANGED <<entry, lastId, sent>>
  BY DEF RemoveFiles
<1>2. inst \in [Instances -> Items] /\ lastId \in Nat /\ reader \in Renderings
  BY DEF Typed, EntriesTyped
<1>3. inst' \in [Instances -> Items]
  BY <1>1, <1>2 DEF Items
<1>4. \A j \in Instances \ {i} : SameInstance(j)
  BY <1>1, <1>2 DEF SameInstance
<1>5. ~inst'[i].key /\ inst'[i].config = inst[i].config
  BY <1>1, <1>2 DEF Items
<1>6. Ordered'
  BY <1>1 DEF Ordered, OrderAsSent, Before
<1>7. Watched /\ reader'.steady = reader.steady \ LinkedTo(i)
  BY <1>1, <1>2, WatchedDisturbed
<1>8. \A e \in reader'.steady : entry[e].source # i
  BY <1>2, <1>7 DEF LinkedTo, Renderings
<1>9. \A j \in Instances : /\ ~inst[j].key => ~inst'[j].key
                           /\ inst'[j].config = inst[j].config
  BY <1>4, <1>5 DEF SameInstance
<1>10. Around
  BY <1>1, <1>2, <1>4, <1>7, <1>8, <1>9 DEF Around
<1> QED BY <1>3, <1>6, <1>10

LEMMA RemoveRowAround ==
  ASSUME Typed, Ordered, NEW i \in Instances, RemoveRow(i)
  PROVE  inst' \in [Instances -> Items] /\ EntriesTyped' /\ Ordered' /\ Around
<1> DEFINE gone == IF fk THEN LinkedTo(i) ELSE {}
<1>1. /\ inst' = [inst EXCEPT ![i].here = FALSE] /\ entry' = Cascade(LinkedTo(i))
      /\ Disturbed(LinkedTo(i)) /\ lastId' = lastId /\ sent' = sent /\ ~inst[i].key
  BY DEF RemoveRow
<1>2. entry' = [e \in EntryIds |-> IF e \in gone THEN NoEntry ELSE entry[e]]
  BY <1>1 DEF Cascade
<1>3. gone \subseteq LinkedTo(i)
  OBVIOUS
<1> HIDE DEF gone
<1>4. inst \in [Instances -> Items]
  BY DEF Typed
<1>5. inst' \in [Instances -> Items]
  BY <1>1, <1>4 DEF Items
<1>6. \A j \in Instances \ {i} : SameInstance(j) /\ inst'[j].config = inst[j].config
  BY <1>1, <1>4 DEF SameInstance
<1>7. ~inst'[i].key /\ inst'[i].config = inst[i].config
  BY <1>1, <1>4 DEF Items
<1>8. Ordered' /\ EntriesTyped'
  BY <1>1, <1>2, ClearOrdered
<1>9. Around
  <2>1. \A j \in Instances : SameInstance(j) \/ (~inst'[j].key /\ LinkedTo(j) \subseteq LinkedTo(i))
    BY <1>6, <1>7
  <2>2. \A j \in Instances : inst'[j].config = inst[j].config
    BY <1>6, <1>7
  <2> QED BY <1>1, <1>2, <1>3, <2>1, <2>2, ClearAround
<1> QED BY <1>5, <1>8, <1>9

-----------------------------------------------------------------------------
(* What a rendering knows.                                                 *)

(* An entry still to come is the row it was read from, as long as nothing  *)
(* has happened to the row.                                                *)
Matching ==
  \A k \in DOMAIN reader.todo :
    LET e == reader.todo[k]
    IN e.id \in reader.steady => entry[e.id].source = e.source /\ entry[e.id].raw = e.raw

(* Between Get and URI: what Get has read is what is there, or the entry   *)
(* is not steady any more, and a change of the provider has been noted.    *)
Reading ==
  /\ reader.pc \in {"uri", "failed"} =>
       /\ reader.todo # << >> /\ Head(reader.todo).source \in Instances
       /\ reader.item \in Items /\ Included(reader.item.config)
  /\ reader.pc = "uri" =>
       LET e == Head(reader.todo)
       IN /\ e.id \in reader.steady =>
               inst[e.source].here /\ inst[e.source].config = reader.item.config
          /\ \/ inst[e.source].config.provider = reader.item.config.provider
             \/ e.source \in reader.moved

(* Who has allowed the token since the request began.                      *)
Noted ==
  /\ reader.pc # "idle" /\ ~reader.omit => reader.subOpen
  /\ Rendering => \A i \in Instances : ~inst[i].config.omit => i \in reader.instOpen

(* An entry that can be said is still to come, or is there.                *)
Covered ==
  /\ reader.pc \in {"resolve", "uri", "served"} =>
       \A e \in reader.steady :
         Sayable(entry[e]) => \/ \E k \in DOMAIN reader.todo : reader.todo[k].id = e
                              \/ \E line \in Lines : line.id = e
  /\ reader.pc = "served" => reader.todo = << >>

(* aggregateEntries.                                                       *)
Sums ==
  /\ reader.limited <=> \A line \in Lines : line.quota # 0
  /\ reader.lines = << >> => reader.used + reader.available = 0
  /\ reader.lines # << >> /\ reader.limited => reader.used + reader.available > 0
  /\ reader.pc = "served" =>
       reader.total = IF reader.limited THEN reader.used + reader.available ELSE 0

Told == LinesParse /\ TokenWithheld /\ FailsForReason
Rendered == SteadyKnown /\ Matching /\ Reading /\ Noted /\ Covered /\ Sums /\ Told

LEMMA LinesOf == Lines = ToSet(reader.lines)
  BY DEF Lines, ToSet

(* Whatever happens around a rendering, all of that stays.                 *)
LEMMA WatchedSame ==
  ASSUME Watched
  PROVE  /\ reader'.pc = reader.pc /\ reader'.format = reader.format
         /\ reader'.omit = reader.omit /\ reader'.todo = reader.todo
         /\ reader'.item = reader.item /\ reader'.lines = reader.lines
         /\ reader'.used = reader.used /\ reader'.available = reader.available
         /\ reader'.limited = reader.limited /\ reader'.total = reader.total
         /\ Lines' = Lines
<1>1. /\ reader'.pc = reader.pc /\ reader'.format = reader.format
      /\ reader'.omit = reader.omit /\ reader'.todo = reader.todo
      /\ reader'.item = reader.item /\ reader'.lines = reader.lines
      /\ reader'.used = reader.used /\ reader'.available = reader.available
      /\ reader'.limited = reader.limited /\ reader'.total = reader.total
  BY DEF Watched
<1> QED BY <1>1 DEF Lines

LEMMA AroundReading ==
  ASSUME Typed, Rendered, Around, EntriesTyped'
  PROVE  SteadyKnown' /\ Matching' /\ Reading' /\ Noted'
<1>1. Watched /\ lastId <= lastId' /\ lastId \in Nat
  BY DEF Around, Typed, EntriesTyped
<1>2. reader'.steady \subseteq reader.steady /\ reader.steady \subseteq EntryIds
  BY <1>1 DEF Watched, Typed, Renderings
<1>3. \A e \in reader'.steady :
        /\ entry'[e].source = entry[e].source /\ entry'[e].raw = entry[e].raw
        /\ entry[e].source \in Instances => SameInstance(entry[e].source)
  BY DEF Around
<1>4. SteadyKnown'
  <2>1. lastId' \in Int
    BY DEF EntriesTyped
  <2>2. \A e \in reader'.steady : e \in Nat
    BY <1>2, BoundAssumption DEF EntryIds
  <2>3. \A e \in reader'.steady : e <= lastId
    BY <1>2 DEF Rendered, SteadyKnown
  <2> QED BY <1>1, <2>1, <2>2, <2>3 DEF SteadyKnown
<1>5. Matching'
  BY <1>1, <1>2, <1>3, WatchedSame DEF Matching, Rendered
<1>6. Reading'
  <2>1. ASSUME reader.pc \in {"uri", "failed"}
        PROVE  /\ reader.todo # << >> /\ Head(reader.todo).source \in Instances
               /\ reader.item \in Items /\ Included(reader.item.config)'
    BY <1>1, <2>1, WatchedSame DEF Rendered, Reading, Included
  <2>2. ASSUME reader.pc = "uri"
        PROVE  LET e == Head(reader.todo)
               IN /\ e.id \in reader'.steady =>
                       inst'[e.source].here /\ inst'[e.source].config = reader.item.config
                  /\ \/ inst'[e.source].config.provider = reader.item.config.provider
                     \/ e.source \in reader'.moved
    <3> DEFINE e == Head(reader.todo)
    <3>1. /\ e.id \in reader.steady =>
               inst[e.source].here /\ inst[e.source].config = reader.item.config
          /\ \/ inst[e.source].config.provider = reader.item.config.provider
             \/ e.source \in reader.moved
          /\ e.source \in Instances /\ reader.todo # << >>
      BY <2>2 DEF Rendered, Reading
    <3>2. reader.todo \in Seq(Wanted)
      BY DEF Typed, Renderings
    <3>3. e = reader.todo[1] /\ 1 \in DOMAIN reader.todo
      BY <3>1, <3>2
    <3>4. e.id \in reader.steady => entry[e.id].source = e.source
      BY <3>3 DEF Rendered, Matching
    <3>5. e.id \in reader'.steady => SameInstance(e.source)
      BY <1>2, <1>3, <3>1, <3>4
    <3>6. e.id \in reader'.steady =>
            inst'[e.source].here /\ inst'[e.source].config = reader.item.config
      BY <1>2, <3>1, <3>5 DEF SameInstance
    <3>7. \/ inst'[e.source].config.provider = reader.item.config.provider
          \/ e.source \in reader'.moved
      <4>1. reader.moved \subseteq reader'.moved
        BY <1>1 DEF Watched
      <4>2. \/ inst'[e.source].config.provider = inst[e.source].config.provider
            \/ e.source \in reader'.moved
        BY <2>2, <3>1 DEF Around
      <4> QED BY <3>1, <4>1, <4>2
    <3> QED BY <3>6, <3>7
  <2> QED BY <1>1, <2>1, <2>2, WatchedSame DEF Reading
<1>7. Noted'
  <2>1. (reader.subOpen => reader'.subOpen) /\ reader.instOpen \subseteq reader'.instOpen
    BY <1>1 DEF Watched
  <2>2. reader'.pc # "idle" /\ ~reader'.omit => reader'.subOpen
    BY <1>1, <2>1, WatchedSame DEF Rendered, Noted
  <2>3. Rendering' <=> Rendering
    BY <1>1, WatchedSame DEF Rendering
  <2>4. ASSUME Rendering, NEW i \in Instances, ~inst'[i].config.omit
        PROVE  i \in reader'.instOpen
    BY <2>1, <2>4 DEF Rendered, Noted, Around
  <2> QED BY <2>2, <2>3, <2>4 DEF Noted
<1> QED BY <1>4, <1>5, <1>6, <1>7

LEMMA AroundCovered ==
  ASSUME Typed, Rendered, Around
  PROVE  Covered'
<1>1. Watched
  BY DEF Around
<1>2. \A e \in reader'.steady : e \in reader.steady /\ e \in EntryIds
  BY <1>1 DEF Watched, Typed, Renderings
<1>3. ASSUME NEW e \in reader'.steady, Sayable(entry[e])'
      PROVE  Sayable(entry[e])
  <2>1. /\ entry'[e].source = entry[e].source /\ entry'[e].raw = entry[e].raw
        /\ entry[e].source \in Instances => SameInstance(entry[e].source)
    BY DEF Around
  <2>2. entry[e].source \in Links /\ reader'.format = reader.format
    BY <1>1, <1>2, WatchedSame DEF Typed, EntriesTyped, Rows
  <2>3. CASE entry[e].source = None
    BY <1>3, <2>1, <2>2, <2>3 DEF Sayable
  <2>4. CASE entry[e].source # None
    <3>1. SameInstance(entry[e].source)
      BY <2>1, <2>2, <2>4 DEF Links
    <3> QED BY <1>3, <2>1, <2>2, <2>4, <3>1 DEF Sayable, SameInstance
  <2> QED BY <2>3, <2>4
<1>4. ASSUME reader'.pc \in {"resolve", "uri", "served"}, NEW e \in reader'.steady,
             Sayable(entry[e])'
      PROVE  \/ \E k \in DOMAIN reader'.todo : reader'.todo[k].id = e
             \/ \E line \in Lines' : line.id = e
  <2>1. Sayable(entry[e]) /\ e \in reader.steady
    BY <1>2, <1>3, <1>4
  <2> QED BY <1>1, <1>4, <2>1, WatchedSame DEF Rendered, Covered
<1>5. reader'.pc = "served" => reader'.todo = << >>
  BY <1>1, WatchedSame DEF Rendered, Covered
<1> QED BY <1>4, <1>5 DEF Covered

LEMMA AroundRendered ==
  ASSUME Typed, Rendered, Around, EntriesTyped'
  PROVE  Rendered'
<1>1. Watched
  BY DEF Around
<1>2. Sums'
  BY <1>1, WatchedSame DEF Rendered, Sums
<1>3. LinesParse'
  BY <1>1, WatchedSame DEF Rendered, Told, LinesParse
<1>4. TokenWithheld'
  <2>1. /\ (reader.subOpen => reader'.subOpen) /\ reader.instOpen \subseteq reader'.instOpen
        /\ reader.moved \subseteq reader'.moved
    BY <1>1 DEF Watched
  <2> QED BY <1>1, <2>1, WatchedSame DEF Rendered, Told, TokenWithheld
<1>5. FailsForReason'
  <2>1. reader'.steady \subseteq reader.steady
    BY <1>1 DEF Watched
  <2>2. ASSUME reader.pc = "failed", ~inst[Head(reader.todo).source].key
        PROVE  ~inst'[Head(reader.todo).source].key
    <3>1. Head(reader.todo).source \in Instances
      BY <2>2 DEF Rendered, Reading
    <3> QED BY <2>2, <3>1 DEF Around
  <2> QED BY <1>1, <2>1, <2>2, WatchedSame DEF Rendered, Told, FailsForReason
<1> QED BY <1>2, <1>3, <1>4, <1>5, AroundReading, AroundCovered DEF Rendered, Told

-----------------------------------------------------------------------------
(* The steps of a rendering.                                               *)

LEMMA TailItems ==
  ASSUME NEW S, NEW s \in Seq(S), s # << >>
  PROVE  /\ Head(s) \in S /\ Head(s) = s[1] /\ 1 \in DOMAIN s /\ Tail(s) \in Seq(S)
         /\ \A k \in DOMAIN Tail(s) : k + 1 \in DOMAIN s /\ Tail(s)[k] = s[k + 1]
         /\ \A k \in DOMAIN s : k = 1 \/ (k - 1 \in DOMAIN Tail(s) /\ s[k] = Tail(s)[k - 1])
  OBVIOUS

LEMMA AppendItems ==
  ASSUME NEW S, NEW s \in Seq(S), NEW x \in S
  PROVE  ToSet(Append(s, x)) = ToSet(s) \cup {x} /\ Append(s, x) # << >>
<1> DEFINE t == Append(s, x)
<1>1. Len(s) \in Nat /\ DOMAIN s = 1..Len(s)
  OBVIOUS
<1>2. DOMAIN t = 1..(Len(s) + 1) /\ t[Len(s) + 1] = x /\ \A k \in 1..Len(s) : t[k] = s[k]
  OBVIOUS
<1> HIDE DEF t
<1>3. DOMAIN t = DOMAIN s \cup {Len(s) + 1}
  BY <1>1, <1>2
<1>4. ToSet(t) = ToSet(s) \cup {x}
  BY <1>1, <1>2, <1>3 DEF ToSet
<1>5. t # << >>
  BY <1>3
<1> QED BY <1>4, <1>5 DEF t

RowsStay == UNCHANGED <<entry, lastId, inst>>

(* The entry at the head of todo is done with: the others are as before.   *)
LEMMA NextEntry ==
  ASSUME Typed, Rendered, RowsStay, reader.todo # << >>,
         reader'.todo = Tail(reader.todo), reader'.steady \subseteq reader.steady,
         reader'.pc = "resolve", reader'.format = reader.format, Lines \subseteq Lines',
         LET e == Head(reader.todo).id
         IN e \in reader'.steady => ~Sayable(entry[e]) \/ \E line \in Lines' : line.id = e,
         reader.pc \in {"resolve", "uri"}
  PROVE  SteadyKnown' /\ Matching' /\ Reading' /\ Covered'
<1>1. /\ Tail(reader.todo) \in Seq(Wanted) /\ Head(reader.todo) = reader.todo[1]
      /\ \A k \in DOMAIN Tail(reader.todo) :
           k + 1 \in DOMAIN reader.todo /\ Tail(reader.todo)[k] = reader.todo[k + 1]
      /\ \A k \in DOMAIN reader.todo :
           \/ k = 1
           \/ k - 1 \in DOMAIN Tail(reader.todo) /\ reader.todo[k] = Tail(reader.todo)[k - 1]
  BY TailItems DEF Typed, Renderings
<1>2. SteadyKnown'
  BY DEF Rendered, SteadyKnown, RowsStay
<1>3. Matching'
  <2>1. ASSUME NEW k \in DOMAIN Tail(reader.todo), Tail(reader.todo)[k].id \in reader'.steady
        PROVE  LET e == Tail(reader.todo)[k]
               IN entry[e.id].source = e.source /\ entry[e.id].raw = e.raw
    BY <1>1, <2>1 DEF Rendered, Matching
  <2> QED BY <2>1 DEF Matching, RowsStay
<1>4. Reading'
  BY DEF Reading
<1>5. Covered'
  <2>1. \A e \in reader.steady : Sayable(entry[e])' <=> Sayable(entry[e])
    BY DEF Sayable, RowsStay
  <2>2. ASSUME NEW e \in reader'.steady, Sayable(entry[e])
        PROVE  \/ \E k \in DOMAIN Tail(reader.todo) : Tail(reader.todo)[k].id = e
               \/ \E line \in Lines' : line.id = e
    <3>1. CASE \E line \in Lines : line.id = e
      BY <3>1
    <3>2. CASE \E k \in DOMAIN reader.todo : reader.todo[k].id = e
      <4>1. PICK k \in DOMAIN reader.todo : reader.todo[k].id = e
        BY <3>2
      <4>2. CASE k = 1
        BY <1>1, <2>2, <4>1, <4>2
      <4>3. CASE k # 1
        BY <1>1, <4>1, <4>3
      <4> QED BY <4>2, <4>3
    <3> QED BY <2>2, <3>1, <3>2 DEF Rendered, Covered
  <2> QED BY <2>1, <2>2 DEF Covered
<1> QED BY <1>2, <1>3, <1>4, <1>5

LEMMA PublishRendered ==
  ASSUME Typed, Rendered, RowsStay, reader.pc \in {"resolve", "uri"}, reader.todo # << >>,
         NEW line \in Published, line.id = Head(reader.todo).id, Publish(line),
         Known(reader.format, line.uri) \/ (line.source # None /\ Beyond(reader.format, line.uri)),
         line.source # None /\ HasToken(line.uri) /\ line.source \notin reader.moved
           => reader.subOpen /\ line.source \in reader.instOpen
  PROVE  reader' \in Renderings /\ Rendered'
<1>1. reader \in Renderings /\ reader.todo \in Seq(Wanted)
  BY DEF Typed, Renderings
<1>2. Tail(reader.todo) \in Seq(Wanted)
  BY <1>1, TailItems
<1>3. line.used \in Nat /\ line.quota \in Nat /\ Remaining(line) \in Nat
      /\ (line.quota > 0 => line.used + Remaining(line) > 0)
  BY DEF Published, Remaining
<1> DEFINE lines == Append(reader.lines, line)
           used == reader.used + line.used
           available == reader.available + Remaining(line)
           limited == reader.limited /\ line.quota > 0
<1>4. reader.lines \in Seq(Published) /\ reader.used \in Nat /\ reader.available \in Nat
      /\ reader.limited \in BOOLEAN
  BY <1>1 DEF Renderings
<1>5. lines \in Seq(Published) /\ used \in Nat /\ available \in Nat /\ limited \in BOOLEAN
  BY <1>3, <1>4
<1>6. reader' = [reader EXCEPT !.pc = "resolve", !.todo = Tail(reader.todo), !.item = None,
                               !.lines = lines, !.used = used, !.available = available,
                               !.limited = limited]
  BY DEF Publish
<1>7. ToSet(lines) = ToSet(reader.lines) \cup {line} /\ lines # << >>
  BY <1>4, AppendItems
<1> HIDE DEF lines, used, available, limited
<1>8. reader' \in Renderings
  BY <1>1, <1>2, <1>5, <1>6 DEF Renderings
<1>9. /\ reader'.pc = "resolve" /\ reader'.todo = Tail(reader.todo)
      /\ reader'.lines = lines /\ reader'.used = used /\ reader'.available = available
      /\ reader'.limited = limited /\ reader'.format = reader.format
      /\ reader'.steady = reader.steady /\ reader'.omit = reader.omit
      /\ reader'.subOpen = reader.subOpen /\ reader'.instOpen = reader.instOpen
      /\ reader'.moved = reader.moved
  BY <1>1, <1>6 DEF Renderings
<1>10. Lines' = Lines \cup {line}
  <2>1. Lines' = ToSet(reader'.lines)
    BY DEF Lines, ToSet
  <2> QED BY <1>7, <1>9, <2>1, LinesOf
<1>11. SteadyKnown' /\ Matching' /\ Reading' /\ Covered'
  BY <1>9, <1>10, NextEntry
<1>12. Noted'
  BY <1>9 DEF Rendered, Noted, RowsStay, Rendering
<1>13. Sums'
  <2>1. limited <=> \A l \in Lines' : l.quota # 0
    BY <1>3, <1>4, <1>10 DEF limited, Rendered, Sums
  <2>2. limited => used + available > 0
    BY <1>3, <1>4 DEF limited, used, available
  <2> QED BY <1>7, <1>9, <2>1, <2>2 DEF Sums
<1>14. LinesParse'
  BY <1>9, <1>10 DEF Rendered, Told, LinesParse
<1>15. TokenWithheld'
  BY <1>9, <1>10 DEF Rendered, Told, TokenWithheld
<1>16. FailsForReason'
  BY <1>9 DEF FailsForReason
<1> QED BY <1>8, <1>11, <1>12, <1>13, <1>14, <1>15, <1>16 DEF Rendered, Told

LEMMA SkipRendered ==
  ASSUME Typed, Rendered, RowsStay, reader.pc = "resolve", reader.todo # << >>,
         NEW steady, steady \subseteq reader.steady,
         reader' = [reader EXCEPT !.todo = Tail(@), !.steady = steady],
         LET e == Head(reader.todo).id IN e \in steady => ~Sayable(entry[e])
  PROVE  reader' \in Renderings /\ Rendered'
<1>1. reader \in Renderings /\ reader.todo \in Seq(Wanted)
  BY DEF Typed, Renderings
<1>2. Tail(reader.todo) \in Seq(Wanted)
  BY <1>1, TailItems
<1>3. reader' = [reader EXCEPT !.todo = Tail(reader.todo), !.steady = steady]
  OBVIOUS
<1>4. reader' \in Renderings
  BY <1>1, <1>2, <1>3 DEF Renderings
<1>5. /\ reader'.pc = reader.pc /\ reader'.todo = Tail(reader.todo)
      /\ reader'.lines = reader.lines /\ reader'.used = reader.used
      /\ reader'.available = reader.available /\ reader'.limited = reader.limited
      /\ reader'.format = reader.format /\ reader'.steady = steady
      /\ reader'.omit = reader.omit /\ reader'.subOpen = reader.subOpen
      /\ reader'.instOpen = reader.instOpen /\ reader'.moved = reader.moved
  BY <1>1, <1>3 DEF Renderings
<1>6. Lines' = Lines
  BY <1>5 DEF Lines
<1>7. SteadyKnown' /\ Matching' /\ Reading' /\ Covered'
  BY <1>5, <1>6, NextEntry
<1>8. Noted'
  BY <1>5 DEF Rendered, Noted, RowsStay, Rendering
<1>9. Sums'
  BY <1>5, <1>6 DEF Rendered, Sums
<1>10. LinesParse' /\ TokenWithheld' /\ FailsForReason'
  BY <1>5, <1>6 DEF Rendered, Told, LinesParse, TokenWithheld, FailsForReason
<1> QED BY <1>4, <1>7, <1>8, <1>9, <1>10 DEF Rendered, Told

LEMMA OmitRendered ==
  ASSUME Typed, Rendered, RowsStay, reader.pc = "resolve", reader.todo # << >>, Omit,
         LET e == Head(reader.todo).id IN e \in reader.steady => ~Sayable(entry[e])
  PROVE  reader' \in Renderings /\ Rendered'
<1>1. reader' = [reader EXCEPT !.todo = Tail(@), !.steady = reader.steady]
  BY DEF Omit, Typed, Renderings
<1> QED BY <1>1, SkipRendered

LEMMA RenderRowRendered ==
  ASSUME Typed, Rendered, NEW format \in Formats, RenderRow(format)
  PROVE  reader' \in Renderings /\ Rendered'
<1> DEFINE open == {i \in Instances : ~inst[i].config.omit}
<1>1. /\ reader = Silent /\ RowsStay
      /\ reader' = [Silent EXCEPT !.pc = "entries", !.format = format, !.sub = sub.id,
                                  !.omit = sub.omit, !.subOpen = ~sub.omit,
                                  !.instOpen = open]
  BY DEF RenderRow, RowsStay
<1>2. Silent \in Renderings
  BY SilentTyped
<1>3. sub.id \in Nat /\ sub.omit \in BOOLEAN /\ open \in SUBSET Instances
  BY DEF Typed
<1> HIDE DEF open
<1>4. reader' \in Renderings
  BY <1>1, <1>2, <1>3 DEF Renderings
<1>5. /\ reader'.pc = "entries" /\ reader'.omit = sub.omit /\ reader'.subOpen = ~sub.omit
      /\ reader'.instOpen = open /\ reader'.todo = Silent.todo
      /\ reader'.lines = Silent.lines /\ reader'.used = Silent.used
      /\ reader'.available = Silent.available /\ reader'.limited = Silent.limited
      /\ reader'.steady = Silent.steady
  BY <1>1, <1>2 DEF Renderings
<1>6. /\ Silent.todo = << >> /\ Silent.lines = << >> /\ Silent.used = 0
      /\ Silent.available = 0 /\ Silent.limited = TRUE /\ Silent.steady = {}
  BY DEF Silent
<1>7. Lines' = {}
  BY <1>5, <1>6 DEF Lines
<1>8. SteadyKnown' /\ Matching' /\ Reading' /\ Covered'
  BY <1>5, <1>6 DEF SteadyKnown, Matching, Reading, Covered
<1>9. Noted'
  BY <1>1, <1>5 DEF Noted, RowsStay, open
<1>10. Sums'
  BY <1>5, <1>6, <1>7 DEF Sums
<1>11. LinesParse' /\ TokenWithheld' /\ FailsForReason'
  BY <1>5, <1>7 DEF LinesParse, TokenWithheld, FailsForReason
<1> QED BY <1>4, <1>8, <1>9, <1>10, <1>11 DEF Rendered, Told

LEMMA RenderEntriesRendered ==
  ASSUME Typed, Ordered, Rendered, RenderEntries
  PROVE  reader' \in Renderings /\ Rendered'
<1>1. PICK listed \in Listing(reader.sub) :
        reader' = [reader EXCEPT !.pc = "resolve", !.steady = ToSet(listed),
                     !.todo = [k \in DOMAIN listed |->
                                 [id |-> listed[k], source |-> entry[listed[k]].source,
                                  raw |-> entry[listed[k]].raw]]]
  BY DEF RenderEntries
<1> DEFINE S == {e \in Members(reader.sub) : entry[e].enabled}
           todo == [k \in DOMAIN listed |->
                      [id |-> listed[k], source |-> entry[listed[k]].source,
                       raw |-> entry[listed[k]].raw]]
<1>2. S \subseteq EntryIds /\ IsFiniteSet(S) /\ \A e \in S : entry[e].here
  BY MembersFinite, FS_Subset DEF Members
<1>3. listed \in Seq(S) /\ ToSet(listed) = S
  BY <1>1, <1>2, Arranged DEF Listing
<1> HIDE DEF S
<1>4. \A k \in DOMAIN listed : listed[k] \in EntryIds
  BY <1>2, <1>3
<1>5. DOMAIN todo = 1..Len(listed) /\ Len(listed) \in Nat
  BY <1>3
<1>6. \A k \in DOMAIN listed : todo[k] \in Wanted
  BY <1>4 DEF Wanted, Typed, EntriesTyped, Rows
<1>7. todo \in Seq(Wanted)
  BY <1>3, <1>5, <1>6
<1>8. \A k \in DOMAIN todo : /\ todo[k].id = listed[k]
                             /\ todo[k].source = entry[todo[k].id].source
                             /\ todo[k].raw = entry[todo[k].id].raw
  OBVIOUS
<1>9. \A e \in S : \E k \in DOMAIN todo : todo[k].id = e
  BY <1>3, <1>8 DEF ToSet
<1>10. reader' = [reader EXCEPT !.pc = "resolve", !.steady = S, !.todo = todo]
  BY <1>1, <1>3
<1> HIDE DEF todo
<1>11. reader \in Renderings /\ reader.pc = "entries" /\ RowsStay
  BY DEF Typed, RenderEntries, RowsStay
<1>12. reader' \in Renderings
  BY <1>2, <1>7, <1>10, <1>11 DEF Renderings
<1>13. /\ reader'.pc = "resolve" /\ reader'.steady = S /\ reader'.todo = todo
       /\ reader'.lines = reader.lines /\ reader'.used = reader.used
       /\ reader'.available = reader.available /\ reader'.limited = reader.limited
       /\ reader'.format = reader.format /\ reader'.omit = reader.omit
       /\ reader'.subOpen = reader.subOpen /\ reader'.instOpen = reader.instOpen
       /\ reader'.moved = reader.moved
  BY <1>10, <1>11 DEF Renderings
<1>14. Lines' = Lines
  BY <1>13 DEF Lines
<1>15. SteadyKnown'
  BY <1>2, <1>11, <1>13 DEF SteadyKnown, Ordered, RowsStay
<1>16. Matching'
  BY <1>8, <1>11, <1>13 DEF Matching, RowsStay
<1>17. Reading' /\ Covered'
  BY <1>9, <1>13 DEF Reading, Covered
<1>18. Noted'
  BY <1>11, <1>13 DEF Rendered, Noted, RowsStay, Rendering
<1>19. Sums'
  BY <1>13, <1>14 DEF Rendered, Sums
<1>20. LinesParse' /\ TokenWithheld' /\ FailsForReason'
  BY <1>13, <1>14 DEF Rendered, Told, LinesParse, TokenWithheld, FailsForReason
<1> QED BY <1>12, <1>15, <1>16, <1>17, <1>18, <1>19, <1>20 DEF Rendered, Told

(* The entry at the head of todo, if nothing has happened to it.           *)
LEMMA HeadMatches ==
  ASSUME Typed, Rendered, reader.todo # << >>
  PROVE  LET e == Head(reader.todo)
         IN /\ e \in Wanted
            /\ e.id \in reader.steady =>
                 entry[e.id].source = e.source /\ entry[e.id].raw = e.raw
<1>1. reader.todo \in Seq(Wanted)
  BY DEF Typed, Renderings
<1>2. Head(reader.todo) \in Wanted /\ Head(reader.todo) = reader.todo[1]
      /\ 1 \in DOMAIN reader.todo
  BY <1>1, TailItems
<1> QED BY <1>2 DEF Rendered, Matching

LEMMA ResolveManualRendered ==
  ASSUME Typed, Rendered, ResolveManual
  PROVE  reader' \in Renderings /\ Rendered'
<1> DEFINE e == Head(reader.todo)
<1>1. /\ reader.pc = "resolve" /\ reader.todo # << >> /\ e.source = None /\ RowsStay
      /\ IF Known(reader.format, e.raw) THEN Publish(Line(e.id, None, e.raw, 0, 0)) ELSE Omit
  BY DEF ResolveManual, RowsStay
<1>2. /\ e \in Wanted
      /\ e.id \in reader.steady => entry[e.id].source = None /\ entry[e.id].raw = e.raw
  BY <1>1, HeadMatches
<1>3. CASE Known(reader.format, e.raw)
  <2> DEFINE line == Line(e.id, None, e.raw, 0, 0)
  <2>1. line \in Published
    BY <1>2 DEF Line, Published, Wanted, Links
  <2>2. line.id = e.id /\ line.uri = e.raw /\ line.source = None
    BY DEF Line
  <2>3. Publish(line)
    BY <1>1, <1>3
  <2> HIDE DEF line
  <2> QED BY <1>1, <1>3, <2>1, <2>2, <2>3, PublishRendered
<1>4. CASE ~Known(reader.format, e.raw)
  <2>1. e.id \in reader.steady => ~Sayable(entry[e.id])
    BY <1>2, <1>4 DEF Sayable
  <2> QED BY <1>1, <1>4, <2>1, OmitRendered
<1> QED BY <1>3, <1>4

LEMMA ResolveGetRendered ==
  ASSUME Typed, Rendered, ResolveGet
  PROVE  reader' \in Renderings /\ Rendered'
<1> DEFINE e == Head(reader.todo)
           i == e.source
<1>1. /\ reader.pc = "resolve" /\ reader.todo # << >> /\ i # None /\ RowsStay
      /\ \/ IF inst[i].here /\ Included(inst[i].config)
            THEN reader' = [reader EXCEPT !.pc = "uri", !.item = inst[i]]
            ELSE Omit
         \/ reader' = [reader EXCEPT !.todo = Tail(@), !.steady = @ \ {e.id}]
  BY DEF ResolveGet, RowsStay, Omit
<1>7. CASE reader' = [reader EXCEPT !.todo = Tail(@), !.steady = @ \ {e.id}]
  <2> DEFINE steady == reader.steady \ {e.id}
  <2>1. reader' = [reader EXCEPT !.todo = Tail(@), !.steady = steady]
    BY <1>7
  <2>2. steady \subseteq reader.steady /\ e.id \notin steady
    OBVIOUS
  <2> QED BY <1>1, <2>1, <2>2, SkipRendered
<1>2. /\ e \in Wanted
      /\ e.id \in reader.steady => entry[e.id].source = i /\ entry[e.id].raw = e.raw
  BY <1>1, HeadMatches
<1>3. i \in Instances
  BY <1>1, <1>2 DEF Wanted, Links
<1>4. reader \in Renderings /\ inst[i] \in Items
  BY <1>3 DEF Typed
<1>5. CASE reader' = [reader EXCEPT !.pc = "uri", !.item = inst[i]]
           /\ inst[i].here /\ Included(inst[i].config)
  <2>1. reader' = [reader EXCEPT !.pc = "uri", !.item = inst[i]]
    BY <1>5
  <2>2. reader' \in Renderings
    BY <1>4, <2>1 DEF Renderings
  <2>3. /\ reader'.pc = "uri" /\ reader'.item = inst[i] /\ reader'.todo = reader.todo
        /\ reader'.lines = reader.lines /\ reader'.used = reader.used
        /\ reader'.available = reader.available /\ reader'.limited = reader.limited
        /\ reader'.format = reader.format /\ reader'.steady = reader.steady
        /\ reader'.omit = reader.omit /\ reader'.subOpen = reader.subOpen
        /\ reader'.instOpen = reader.instOpen /\ reader'.moved = reader.moved
    BY <1>4, <2>1 DEF Renderings
  <2>4. Lines' = Lines
    BY <2>3 DEF Lines
  <2>5. SteadyKnown' /\ Matching'
    BY <1>1, <2>3 DEF Rendered, SteadyKnown, Matching, RowsStay
  <2>6. Included(inst[i].config)'
    BY <1>1, <1>5, <2>3 DEF Included, RowsStay
  <2>7. Reading'
    BY <1>1, <1>3, <1>4, <1>5, <2>3, <2>6 DEF Reading, RowsStay
  <2>8. Noted'
    BY <1>1, <2>3 DEF Rendered, Noted, RowsStay, Rendering
  <2>9. \A d \in EntryIds : Sayable(entry[d])' <=> Sayable(entry[d])
    BY <1>1, <2>3 DEF Sayable, RowsStay
  <2>10. Covered'
    BY <1>1, <1>4, <2>3, <2>4, <2>9 DEF Rendered, Covered, Renderings
  <2>11. Sums'
    BY <2>3, <2>4 DEF Rendered, Sums
  <2>12. LinesParse' /\ TokenWithheld' /\ FailsForReason'
    BY <2>3, <2>4 DEF Rendered, Told, LinesParse, TokenWithheld, FailsForReason
  <2> QED BY <2>2, <2>5, <2>7, <2>8, <2>10, <2>11, <2>12 DEF Rendered, Told
<1>6. CASE Omit /\ ~(inst[i].here /\ Included(inst[i].config))
  <2>1. ASSUME e.id \in reader.steady, Sayable(entry[e.id])
        PROVE  FALSE
    <3>1. /\ inst[i].here
          /\ reader.format = "client" => ClientURI(inst[i].config, "hex") # Error
      BY <1>1, <1>2, <2>1 DEF Sayable
    <3>2. Included(inst[i].config)
      BY <3>1, ClientSaid DEF Included
    <3> QED BY <1>6, <3>1, <3>2
  <2> QED BY <1>1, <1>6, <2>1, OmitRendered
<1> QED BY <1>1, <1>5, <1>6, <1>7

(* Manager.URI.  The instance is read again: what it is now decides what   *)
(* the line says, what Get has read decides whether the token goes.        *)
LEMMA ResolveURIRendered ==
  ASSUME Typed, Rendered, ResolveURI
  PROVE  reader' \in Renderings /\ Rendered'
<1> DEFINE e == Head(reader.todo)
           i == e.source
           key == IF inst[i].key THEN "hex" ELSE "bad"
           item == inst[i].config
           uri == IF ~inst[i].here THEN Error
                  ELSE IF reader.format = "client" THEN ClientURI(item, key)
                  ELSE StandardURI(item, key, item.name)
           strips == /\ reader.format = "client" /\ reader.omit
                     /\ reader.item.config.provider = "wbstream"
           stripped == IF strips THEN StripAuthToken(uri) ELSE uri
           line == Line(e.id, i, stripped, reader.item.used, reader.item.config.quota)
<1>1. /\ reader.pc = "uri" /\ RowsStay
      /\ IF uri = Error THEN reader' = [reader EXCEPT !.pc = "failed"] ELSE Publish(line)
  BY DEF ResolveURI, RowsStay
<1>2. /\ reader.todo # << >> /\ i \in Instances /\ reader.item \in Items
      /\ Included(reader.item.config)
      /\ e.id \in reader.steady => inst[i].here /\ inst[i].config = reader.item.config
      /\ item.provider = reader.item.config.provider \/ i \in reader.moved
  BY <1>1 DEF Rendered, Reading
<1>3. e \in Wanted
  BY <1>2, HeadMatches
<1>4. reader \in Renderings /\ inst[i] \in Items
  BY <1>2 DEF Typed
<1>5. item \in Configs /\ ValidInstance(item) /\ item.token \in BOOLEAN /\ item.omit \in BOOLEAN
  BY <1>4, ConfigsAssumption DEF Items
<1>6. reader.format \in {"client", "olcbox"} /\ reader.omit \in BOOLEAN
  BY <1>4 DEF Renderings, Formats
<1>7. CASE uri = Error
  <2>1. reader' = [reader EXCEPT !.pc = "failed"]
    BY <1>1, <1>7
  <2>2. reader' \in Renderings
    BY <1>4, <2>1 DEF Renderings
  <2>3. /\ reader'.pc = "failed" /\ reader'.item = reader.item /\ reader'.todo = reader.todo
        /\ reader'.lines = reader.lines /\ reader'.used = reader.used
        /\ reader'.available = reader.available /\ reader'.limited = reader.limited
        /\ reader'.format = reader.format /\ reader'.steady = reader.steady
        /\ reader'.omit = reader.omit /\ reader'.subOpen = reader.subOpen
        /\ reader'.instOpen = reader.instOpen /\ reader'.moved = reader.moved
    BY <1>4, <2>1 DEF Renderings
  <2>4. Lines' = Lines
    BY <2>3 DEF Lines
  <2>5. SteadyKnown' /\ Matching'
    <3>1. SteadyKnown'
      BY <1>1, <2>3 DEF Rendered, SteadyKnown, RowsStay
    <3>2. entry' = entry
      BY <1>1 DEF RowsStay
    <3>3. Matching
      BY DEF Rendered
    <3> QED
      BY <2>3, <3>1, <3>2, <3>3 DEF Matching
  <2>6. Included(reader.item.config)'
    BY <1>2, <2>3 DEF Included
  <2>7. Reading' /\ Covered'
    BY <1>2, <2>3, <2>6 DEF Reading, Covered
  <2>8. Noted'
    BY <1>1, <2>3 DEF Rendered, Noted, RowsStay, Rendering
  <2>9. Sums'
    BY <2>3, <2>4 DEF Rendered, Sums
  <2>10. LinesParse' /\ TokenWithheld'
    BY <2>3, <2>4 DEF Rendered, Told, LinesParse, TokenWithheld
  <2>11. ASSUME e.id \in reader.steady, inst[i].key
         PROVE  /\ reader.format = "client" /\ reader.omit
                /\ ~reader.item.config.token /\ ~reader.item.config.omit
    <3>1. inst[i].here /\ item = reader.item.config /\ key = "hex"
      BY <1>2, <2>11
    <3>2. reader.format = "client"
      BY <1>5, <1>6, <1>7, <3>1, StandardSaid
    <3>3. ClientURI(item, "hex") = Error
      BY <1>7, <3>1, <3>2
    <3>4. ~(/\ ClientCompatible(item.provider, item.transport)
            /\ item.provider = "wbstream" => item.token \/ item.omit)
      BY <3>3, ClientSaid
    <3> QED BY <1>2, <3>1, <3>2, <3>4 DEF Included
  <2>12. FailsForReason'
    BY <1>1, <2>3, <2>11 DEF FailsForReason, RowsStay
  <2> QED BY <2>2, <2>5, <2>7, <2>8, <2>9, <2>10, <2>12 DEF Rendered, Told
<1>8. CASE uri # Error
  <2>1. Publish(line) /\ inst[i].here
    BY <1>1, <1>8
  <2>2. key \in {"hex", "bad"}
    OBVIOUS
  <2>3. uri \in Made /\ (strips => StripAuthToken(uri) \in Made)
    <3>1. CASE reader.format = "client"
      BY <1>5, <2>1, <2>2, <3>1, AreMade
    <3>2. CASE reader.format = "olcbox"
      BY <1>5, <2>1, <2>2, <3>2, AreMade
    <3> QED BY <1>6, <3>1, <3>2
  <2>4. line \in Published
    BY <1>2, <1>3, <1>4, <1>5, <2>3, ConfigsAssumption DEF Line, Published, Wanted, Items, Links
  <2>5. line.id = e.id /\ line.source = i /\ line.uri = stripped
    BY DEF Line
  <2>6. CASE reader.format = "client"
    <3>1. uri = ClientURI(item, key)
      BY <2>1, <2>6
    <3>2. Short(uri, item) /\ ("a" \in DOMAIN uri.params => ~item.omit)
          /\ ("a" \in DOMAIN uri.params => item.provider = "wbstream")
      BY <1>8, <3>1, ClientSaid
    <3>3. uri = [shape |-> uri.shape, provider |-> uri.provider, room |-> uri.room,
                 params |-> uri.params]
      BY <1>8, <3>1, ClientSaid
    <3>4. Short(stripped, item) /\ (strips => ~HasToken(stripped))
      BY <3>2, <3>3, StripShort
    <3>5. Known(reader.format, stripped) \/ Beyond(reader.format, stripped)
      BY <1>5, <2>6, <3>4, ShortParses DEF Known, Beyond
    <3>6. HasToken(uri) => "a" \in DOMAIN uri.params
      BY <3>2, ShortToken DEF Short
    <3>7. ASSUME HasToken(stripped), i \notin reader.moved
          PROVE  reader.subOpen /\ i \in reader.instOpen
      <4>1. ~strips /\ HasToken(uri)
        BY <3>4, <3>7
      <4>2. item.provider = "wbstream" /\ ~item.omit
        BY <3>2, <3>6, <4>1
      <4>3. ~reader.omit
        BY <1>2, <2>6, <3>7, <4>1, <4>2
      <4> QED BY <1>1, <1>2, <4>2, <4>3 DEF Rendered, Noted, Rendering
    <3>8. i # None
      BY <1>2, NoneAssumption
    <3> HIDE DEF line, stripped
    <3> QED BY <1>1, <1>2, <2>1, <2>4, <2>5, <2>6, <3>5, <3>7, <3>8, PublishRendered
  <2>7. CASE reader.format = "olcbox"
    <3>1. stripped = StandardURI(item, key, item.name) /\ uri = stripped
      BY <2>1, <2>7
    <3>2. /\ stripped.shape = "olcbox"
          /\ ValidateStandardURI(stripped) \/ Beyond("olcbox", stripped)
      <4> DEFINE said == StandardURI(item, key, item.name)
      <4>1. IF key = "hex"
            THEN /\ said # Error /\ said.shape = "olcbox"
                 /\ ValidateStandardURI(said) \/ Beyond("olcbox", said)
            ELSE said = Error
        BY <1>5, StandardSaid
      <4>2. said = stripped /\ stripped # Error
        BY <1>8, <3>1
      <4> HIDE DEF said, stripped, key
      <4> QED BY <4>1, <4>2
    <3>3. Known(reader.format, stripped) \/ Beyond(reader.format, stripped)
      <4> HIDE DEF stripped
      <4> QED BY <2>7, <3>2 DEF Known
    <3>4. ~HasToken(stripped)
      BY <3>2 DEF HasToken
    <3>5. i # None
      BY <1>2, NoneAssumption
    <3> HIDE DEF line, stripped
    <3> QED BY <1>1, <1>2, <2>1, <2>4, <2>5, <3>3, <3>4, <3>5, PublishRendered
  <2> QED BY <1>6, <2>6, <2>7
<1> QED BY <1>7, <1>8

LEMMA ServeRendered ==
  ASSUME Typed, Rendered, Serve
  PROVE  reader' \in Renderings /\ Rendered'
<1> DEFINE total == IF reader.limited THEN reader.used + reader.available ELSE 0
<1>1. /\ reader.pc = "resolve" /\ reader.todo = << >> /\ RowsStay
      /\ reader' = [reader EXCEPT !.pc = "served", !.total = total]
  BY DEF Serve, RowsStay
<1>2. reader \in Renderings /\ total \in Nat
  BY DEF Typed, Renderings
<1> HIDE DEF total
<1>3. reader' \in Renderings
  BY <1>1, <1>2 DEF Renderings
<1>4. /\ reader'.pc = "served" /\ reader'.total = total /\ reader'.todo = reader.todo
      /\ reader'.lines = reader.lines /\ reader'.used = reader.used
      /\ reader'.available = reader.available /\ reader'.limited = reader.limited
      /\ reader'.format = reader.format /\ reader'.steady = reader.steady
      /\ reader'.omit = reader.omit /\ reader'.subOpen = reader.subOpen
      /\ reader'.instOpen = reader.instOpen /\ reader'.moved = reader.moved
  BY <1>1, <1>2 DEF Renderings
<1>5. Lines' = Lines
  BY <1>4 DEF Lines
<1>6. SteadyKnown' /\ Matching' /\ Reading'
  BY <1>1, <1>4 DEF Rendered, SteadyKnown, Matching, Reading, RowsStay
<1>7. Noted'
  BY <1>1, <1>4 DEF Rendered, Noted, Rendering
<1>8. \A d \in EntryIds : Sayable(entry[d])' <=> Sayable(entry[d])
  BY <1>1, <1>4 DEF Sayable, RowsStay
<1>9. Covered'
  BY <1>1, <1>2, <1>4, <1>5, <1>8 DEF Rendered, Covered, Renderings
<1>10. Sums'
  BY <1>4, <1>5 DEF Rendered, Sums, total
<1>11. LinesParse' /\ TokenWithheld' /\ FailsForReason'
  BY <1>4, <1>5 DEF Rendered, Told, LinesParse, TokenWithheld, FailsForReason
<1> QED BY <1>3, <1>6, <1>7, <1>9, <1>10, <1>11 DEF Rendered, Told

LEMMA SilentRendered ==
  ASSUME reader = Silent
  PROVE  Rendered
<1>1. /\ reader.todo = << >> /\ reader.lines = << >> /\ reader.used = 0
      /\ reader.available = 0 /\ reader.limited = TRUE /\ reader.steady = {}
      /\ reader.pc = "idle"
  BY DEF Silent
<1>2. Lines = {}
  BY <1>1 DEF Lines
<1>3. SteadyKnown /\ Matching /\ Reading /\ Covered
  BY <1>1 DEF SteadyKnown, Matching, Reading, Covered
<1>4. Noted
  BY <1>1 DEF Noted, Rendering
<1>5. Sums
  BY <1>1, <1>2 DEF Sums
<1>6. LinesParse /\ TokenWithheld /\ FailsForReason
  BY <1>1, <1>2 DEF LinesParse, TokenWithheld, FailsForReason
<1> QED BY <1>3, <1>4, <1>5, <1>6 DEF Rendered, Told


-----------------------------------------------------------------------------
(* The inductive invariant.                                                *)

IInv == Typed /\ Ordered /\ Rendered

LEMMA InitIInv == Init => IInv
<1> SUFFICES ASSUME Init PROVE IInv
  OBVIOUS
<1>1. Typed
  BY InitTyped
<1>2. Rendered
  BY SilentRendered DEF Init
<1>3. Ordered
  <2>1. PICK i \in Instances :
          entry = [e \in EntryIds |-> IF e = 1 THEN [Linked(i, 0) EXCEPT !.sub = 1] ELSE NoEntry]
    BY DEF Init
  <2>2. \A e \in EntryIds : entry[e].here => e = 1
    BY <2>1 DEF NoEntry
  <2>3. lastId = 1 /\ sent = << >>
    BY DEF Init
  <2>. QED  BY <2>2, <2>3 DEF Ordered, OrderAsSent
<1>. QED  BY <1>1, <1>2, <1>3 DEF IInv

(* Around a rendering all stays that is not of the request's own types.    *)
LEMMA AroundIInv ==
  ASSUME IInv, Around, Ordered', SubTyped', EntriesTyped', OpTyped',
         inst' \in [Instances -> Items], fk' \in BOOLEAN
  PROVE  IInv'
<1>1. Rendered'
  BY AroundRendered DEF IInv
<1>2. reader' \in Renderings
  BY DEF Around, Watched
<1>3. Typed'
  BY <1>2 DEF Typed, SubTyped
<1>. QED  BY <1>1, <1>3 DEF IInv

(* A step of the rendering changes nothing else.                           *)
LEMMA ReaderIInv ==
  ASSUME IInv, UNCHANGED <<sub, entry, lastId, inst, fk, op, sent>>,
         reader' \in Renderings, Rendered'
  PROVE  IInv'
<1>1. Typed'
  BY DEF IInv, Typed, EntriesTyped, OpTyped
<1>2. Ordered'
  BY DEF IInv, Ordered, OrderAsSent, Before
<1>. QED  BY <1>1, <1>2 DEF IInv

(* A request that begins, or a connection that is replaced.                *)
LEMMA BeginIInv ==
  ASSUME IInv, UNCHANGED <<sub, entry, lastId, inst, reader, sent>>, OpTyped',
         fk' \in BOOLEAN
  PROVE  IInv'
<1>1. Around
  BY StillAround DEF IInv
<1>2. Ordered'
  BY DEF IInv, Ordered, OrderAsSent, Before
<1>3. SubTyped' /\ EntriesTyped' /\ inst' \in [Instances -> Items]
  BY DEF IInv, Typed, SubTyped, EntriesTyped
<1>. QED  BY <1>1, <1>2, <1>3, AroundIInv

(* A row that is inserted, by either of the requests that do.              *)
LEMMA InsertIInv ==
  ASSUME IInv, NEW new \in Rows, Insert(new) \/ UNCHANGED <<entry, lastId>>, OpTyped',
         UNCHANGED <<sub, inst, fk, reader, sent>>
  PROVE  IInv'
<1>1. CASE Insert(new)
  <2>1. Around /\ Ordered'
    BY <1>1, InsertAround DEF IInv, Rendered
  <2>2. EntriesTyped'
    BY <1>1, InsertTyped DEF IInv, Typed
  <2>3. SubTyped' /\ inst' \in [Instances -> Items] /\ fk' \in BOOLEAN
    BY DEF IInv, Typed, SubTyped
  <2>. QED  BY <2>1, <2>2, <2>3, AroundIInv
<1>2. CASE UNCHANGED <<entry, lastId>>
  BY <1>2, BeginIInv DEF IInv, Typed
<1>. QED  BY <1>1, <1>2

(* The requests that write entries, at either of their steps.              *)
LEMMA RequestIInv ==
  ASSUME IInv, NEW p \in Procs
  PROVE  /\ CreateBegin(p) \/ CreateWrite(p) \/ UpdateBegin(p) \/ UpdateWrite(p) => IInv'
         /\ DeleteBegin(p) \/ DeleteWrite(p) \/ ReorderBegin(p) \/ ReorderWrite(p) => IInv'
<1>. Typed /\ Ordered
  BY DEF IInv
<1>0. SubTyped /\ inst \in [Instances -> Items] /\ fk \in BOOLEAN /\ OpTyped
  BY DEF Typed, SubTyped
<1>1. ASSUME CreateBegin(p) PROVE IInv'
  BY <1>0, <1>1, CreateBeginTyped, BeginIInv DEF CreateBegin
<1>2. ASSUME CreateWrite(p) PROVE IInv'
  <2>1. op[p].new \in Rows
    BY DEF Typed, OpTyped, Requests
  <2>2. OpTyped'
    BY <1>0, <1>2, EndTyped DEF CreateWrite
  <2>. QED  BY <1>2, <2>1, <2>2, InsertIInv DEF CreateWrite
<1>3. ASSUME UpdateBegin(p) PROVE IInv'
  BY <1>0, <1>3, UpdateBeginTyped, BeginIInv DEF UpdateBegin
<1>4. ASSUME UpdateWrite(p) PROVE IInv'
  <2>1. EntriesTyped' /\ Ordered' /\ Around
    BY <1>4, UpdateWriteAround
  <2>2. OpTyped' /\ UNCHANGED <<sub, inst, fk>>
    BY <1>0, <1>4, EndTyped DEF UpdateWrite
  <2>. QED  BY <1>0, <2>1, <2>2, AroundIInv DEF SubTyped
<1>5. ASSUME DeleteBegin(p) PROVE IInv'
  BY <1>0, <1>5, DeleteBeginTyped, BeginIInv DEF DeleteBegin
<1>6. ASSUME DeleteWrite(p) PROVE IInv'
  <2>1. EntriesTyped' /\ Ordered' /\ Around
    BY <1>6, DeleteWriteAround
  <2>2. OpTyped' /\ UNCHANGED <<sub, inst, fk>>
    BY <1>0, <1>6, EndTyped DEF DeleteWrite
  <2>. QED  BY <1>0, <2>1, <2>2, AroundIInv DEF SubTyped
<1>7. ASSUME ReorderBegin(p) PROVE IInv'
  BY <1>0, <1>7, ReorderBeginTyped, BeginIInv DEF ReorderBegin
<1>8. ASSUME ReorderWrite(p) PROVE IInv'
  <2>1. EntriesTyped' /\ Ordered' /\ Around
    BY <1>8, ReorderWriteAround
  <2>2. OpTyped' /\ UNCHANGED <<sub, inst, fk>>
    BY <1>0, <1>8, EndTyped DEF ReorderWrite
  <2>. QED  BY <1>0, <2>1, <2>2, AroundIInv DEF SubTyped
<1>. QED  BY <1>1, <1>2, <1>3, <1>4, <1>5, <1>6, <1>7, <1>8

(* Imports, and what the administrator does to the subscription.           *)
LEMMA SubscriptionIInv ==
  ASSUME IInv
  PROVE  /\ \A p \in Procs : ImportEntry(p) => IInv'
         /\ \A p \in Procs, file \in {<< >>, ImportFile} : NewSubscription(p, file) => IInv'
         /\ \A enabled, omit \in BOOLEAN : PutSubscription(enabled, omit) => IInv'
         /\ DropSubscription => IInv'
<1>. Typed /\ Ordered
  BY DEF IInv
<1>0. EntriesTyped /\ inst \in [Instances -> Items] /\ fk \in BOOLEAN /\ OpTyped
  BY DEF Typed
<1>1. ASSUME NEW p \in Procs, ImportEntry(p) PROVE IInv'
  <2> DEFINE new == [Head(op[p].file) EXCEPT !.sub = op[p].sub]
  <2>1. OpTyped'
    BY <1>1, ImportEntryTyped
  <2>2. op[p] \in Requests /\ op[p].file # << >>
    BY <1>1 DEF Typed, OpTyped, ImportEntry
  <2>3. Head(op[p].file) \in Rows /\ op[p].sub \in Nat
    BY <2>2, TailItems DEF Requests
  <2>4. new \in Rows
    BY <2>3, RowsTyped
  <2>5. Insert(new) \/ UNCHANGED <<entry, lastId>>
    BY <1>1 DEF ImportEntry
  <2>6. UNCHANGED <<sub, inst, fk, reader, sent>>
    BY <1>1 DEF ImportEntry
  <2> HIDE DEF new
  <2>. QED  BY <2>1, <2>4, <2>5, <2>6, InsertIInv
<1>2. ASSUME NEW p \in Procs, NEW file \in {<< >>, ImportFile}, NewSubscription(p, file)
      PROVE  IInv'
  <2>1. Ordered' /\ Around
    BY <1>2, NewSubscriptionAround
  <2>2. OpTyped' /\ SubTyped'
    BY <1>2, NewSubscriptionTyped DEF SubTyped
  <2>3. UNCHANGED <<entry, lastId, inst, fk>>
    BY <1>2 DEF NewSubscription
  <2>. QED  BY <1>0, <2>1, <2>2, <2>3, AroundIInv DEF EntriesTyped
<1>3. ASSUME NEW enabled \in BOOLEAN, NEW omit \in BOOLEAN, PutSubscription(enabled, omit)
      PROVE  IInv'
  <2>1. SubTyped' /\ Ordered' /\ Around
    BY <1>3, PutSubscriptionAround
  <2>2. UNCHANGED <<entry, lastId, inst, fk, op>>
    BY <1>3 DEF PutSubscription
  <2>. QED  BY <1>0, <2>1, <2>2, AroundIInv DEF EntriesTyped, OpTyped
<1>4. ASSUME DropSubscription PROVE IInv'
  <2>1. SubTyped' /\ EntriesTyped' /\ Ordered' /\ Around
    BY <1>4, DropSubscriptionAround
  <2>2. UNCHANGED <<inst, fk, op>>
    BY <1>4 DEF DropSubscription
  <2>. QED  BY <1>0, <2>1, <2>2, AroundIInv DEF OpTyped
<1>. QED  BY <1>1, <1>2, <1>3, <1>4

(* What happens to an instance.                                            *)
LEMMA InstanceIInv ==
  ASSUME IInv, NEW i \in Instances
  PROVE  /\ Count(i) => IInv'
         /\ RemoveFiles(i) => IInv'
         /\ RemoveRow(i) => IInv'
         /\ \A c \in Configs : Edit(i, c) => IInv'
<1>. Typed /\ Ordered
  BY DEF IInv
<1>0. SubTyped /\ EntriesTyped /\ fk \in BOOLEAN /\ OpTyped
  BY DEF Typed, SubTyped
<1>1. ASSUME Count(i) PROVE IInv'
  <2>1. inst' \in [Instances -> Items] /\ Ordered' /\ Around
    BY <1>1, CountAround
  <2>2. UNCHANGED <<sub, entry, lastId, fk, op>>
    BY <1>1 DEF Count
  <2>. QED  BY <1>0, <2>1, <2>2, AroundIInv DEF SubTyped, EntriesTyped, OpTyped
<1>2. ASSUME RemoveFiles(i) PROVE IInv'
  <2>1. inst' \in [Instances -> Items] /\ Ordered' /\ Around
    BY <1>2, RemoveFilesAround
  <2>2. UNCHANGED <<sub, entry, lastId, fk, op>>
    BY <1>2 DEF RemoveFiles
  <2>. QED  BY <1>0, <2>1, <2>2, AroundIInv DEF SubTyped, EntriesTyped, OpTyped
<1>3. ASSUME RemoveRow(i) PROVE IInv'
  <2>1. inst' \in [Instances -> Items] /\ EntriesTyped' /\ Ordered' /\ Around
    BY <1>3, RemoveRowAround
  <2>2. UNCHANGED <<sub, fk, op>>
    BY <1>3 DEF RemoveRow
  <2>. QED  BY <1>0, <2>1, <2>2, AroundIInv DEF SubTyped, OpTyped
<1>4. ASSUME NEW c \in Configs, Edit(i, c) PROVE IInv'
  <2>1. inst' \in [Instances -> Items] /\ Ordered' /\ Around
    BY <1>4, EditAround
  <2>2. UNCHANGED <<sub, entry, lastId, fk, op>>
    BY <1>4 DEF Edit
  <2>. QED  BY <1>0, <2>1, <2>2, AroundIInv DEF SubTyped, EntriesTyped, OpTyped
<1>. QED  BY <1>1, <1>2, <1>3, <1>4

LEMMA SilentNext == reader' = Silent => Rendered'
<1>1. reader = Silent => Rendered
  BY SilentRendered
<1>2. (reader = Silent => Rendered)'
  BY <1>1, PTL
<1>. QED  BY <1>2 DEF Silent

(* The steps of a rendering.                                               *)
LEMMA RenderingIInv ==
  ASSUME IInv
  PROVE  /\ \A format \in Formats : RenderRow(format) => IInv'
         /\ RenderEntries \/ ResolveManual \/ ResolveGet \/ ResolveURI => IInv'
         /\ Serve \/ Rest => IInv'
<1>. Typed /\ Ordered /\ Rendered
  BY DEF IInv
<1>1. ASSUME NEW format \in Formats, RenderRow(format) PROVE IInv'
  BY <1>1, RenderRowRendered, ReaderIInv DEF RenderRow
<1>2. ASSUME RenderEntries PROVE IInv'
  BY <1>2, RenderEntriesRendered, ReaderIInv DEF RenderEntries
<1>3. ASSUME ResolveManual PROVE IInv'
  BY <1>3, ResolveManualRendered, ReaderIInv DEF ResolveManual
<1>4. ASSUME ResolveGet PROVE IInv'
  BY <1>4, ResolveGetRendered, ReaderIInv DEF ResolveGet
<1>5. ASSUME ResolveURI PROVE IInv'
  BY <1>5, ResolveURIRendered, ReaderIInv DEF ResolveURI
<1>6. ASSUME Serve PROVE IInv'
  BY <1>6, ServeRendered, ReaderIInv DEF Serve
<1>7. ASSUME Rest PROVE IInv'
  <2>1. reader' = Silent /\ UNCHANGED <<sub, entry, lastId, inst, fk, op, sent>>
    BY <1>7 DEF Rest
  <2>. QED  BY <2>1, SilentTyped, SilentNext, ReaderIInv
<1>. QED  BY <1>1, <1>2, <1>3, <1>4, <1>5, <1>6, <1>7

LEMMA NextIInv == IInv /\ [Next]_vars => IInv'
<1> SUFFICES ASSUME IInv, [Next]_vars PROVE IInv'
  OBVIOUS
<1>0. Typed /\ OpTyped /\ fk \in BOOLEAN
  BY DEF IInv, Typed
<1>1. ASSUME NEW p \in Procs,
             \/ CreateBegin(p) \/ CreateWrite(p) \/ UpdateBegin(p) \/ UpdateWrite(p)
             \/ DeleteBegin(p) \/ DeleteWrite(p) \/ ReorderBegin(p) \/ ReorderWrite(p)
      PROVE  IInv'
  BY <1>1, RequestIInv
<1>2. ASSUME NEW p \in Procs,
             ImportEntry(p) \/ \E file \in {<< >>, ImportFile} : NewSubscription(p, file)
      PROVE  IInv'
  BY <1>2, SubscriptionIInv
<1>3. ASSUME NEW enabled \in BOOLEAN, NEW omit \in BOOLEAN, PutSubscription(enabled, omit)
      PROVE  IInv'
  BY <1>3, SubscriptionIInv
<1>4. ASSUME DropSubscription PROVE IInv'
  BY <1>4, SubscriptionIInv
<1>5. ASSUME Reconnect PROVE IInv'
  BY <1>0, <1>5, BeginIInv DEF Reconnect, OpTyped
<1>6. ASSUME NEW i \in Instances,
             Count(i) \/ RemoveFiles(i) \/ RemoveRow(i) \/ \E c \in Configs : Edit(i, c)
      PROVE  IInv'
  BY <1>6, InstanceIInv
<1>7. ASSUME \/ \E format \in Formats : RenderRow(format)
             \/ RenderEntries \/ ResolveManual \/ ResolveGet \/ ResolveURI \/ Serve \/ Rest
      PROVE  IInv'
  BY <1>7, RenderingIInv
<1>8. ASSUME UNCHANGED vars PROVE IInv'
  BY <1>0, <1>8, BeginIInv DEF vars, OpTyped
<1>. QED  BY <1>1, <1>2, <1>3, <1>4, <1>5, <1>6, <1>7, <1>8 DEF Next

LEMMA SpecIInv == Spec => []IInv
BY InitIInv, NextIInv, PTL DEF Spec


-----------------------------------------------------------------------------
(* What the invariant is for.                                              *)

(* The order an administrator has set is the order of the feed, until an   *)
(* entry is updated: adding, deleting, importing and a reorder that is     *)
(* rolled back keep it (handlers of server/subscriptions.go).              *)
THEOREM OrderAsSentHolds == Spec => []OrderAsSent
<1>1. IInv => OrderAsSent
  BY DEF IInv, Ordered
<1>. QED  BY <1>1, SpecIInv, PTL

(* Every line render publishes would be accepted as a manual entry of the  *)
(* feed's format (ValidateClientURI, ValidateStandardURI), but for those    *)
(* Beyond names, which come from settings Validate lets pass.              *)
THEOREM LinesParseHolds == Spec => []LinesParse
<1>1. IInv => LinesParse
  BY DEF IInv, Rendered, Told
<1>. QED  BY <1>1, SpecIInv, PTL

(* resolveEntryForFormat publishes a token only if the subscription and    *)
(* the instance have both allowed it since the request began.              *)
THEOREM TokenWithheldHolds == Spec => []TokenWithheld
<1>1. IInv => TokenWithheld
  BY DEF IInv, Rendered, Told
<1>. QED  BY <1>1, SpecIInv, PTL

(* render fails only if what it fails at changed after it was listed, or   *)
(* is being deleted, or was let in without a token.                        *)
THEOREM FailsForReasonHolds == Spec => []FailsForReason
<1>1. IInv => FailsForReason
  BY DEF IInv, Rendered, Told
<1>. QED  BY <1>1, SpecIInv, PTL

(* A feed that is served leaves no entry out that was listed, stayed as it *)
(* was, and can be said in the format, unless Get failed for it (render    *)
(* then skips the entry, service.go:331-335).                              *)
THEOREM NothingLostHolds == Spec => []NothingLost
<1>1. IInv => NothingLost
  <2> SUFFICES ASSUME IInv, reader.pc = "served",
                      NEW e \in reader.steady, Sayable(entry[e])
               PROVE  \E line \in Lines : line.id = e
    BY DEF NothingLost
  <2>1. Covered
    BY DEF IInv, Rendered
  <2>. QED  BY <2>1 DEF Covered
<1>. QED  BY <1>1, SpecIInv, PTL

(* The header of a feed that is served (aggregateEntries, TrafficHeader):  *)
(* no total exactly if a line is unlimited or there is none, and never     *)
(* more used than there is.                                                *)
THEOREM HeaderHonestHolds == Spec => []HeaderHonest
<1>1. IInv => HeaderHonest
  <2> SUFFICES ASSUME IInv, reader.pc = "served"
               PROVE  /\ reader.total = 0
                           <=> reader.lines = << >> \/ \E line \in Lines : line.quota = 0
                      /\ reader.total # 0 => reader.used <= reader.total
    BY DEF HeaderHonest
  <2>1. reader.used \in Nat /\ reader.available \in Nat /\ reader.limited \in BOOLEAN
    BY DEF IInv, Typed, Renderings
  <2>2. /\ reader.limited <=> \A line \in Lines : line.quota # 0
        /\ reader.lines = << >> => reader.used + reader.available = 0
        /\ reader.lines # << >> /\ reader.limited => reader.used + reader.available > 0
        /\ reader.total = IF reader.limited THEN reader.used + reader.available ELSE 0
    BY DEF IInv, Rendered, Sums
  <2>3. reader.lines = << >> => reader.total = 0
    BY <2>2
  <2>4. (\E line \in Lines : line.quota = 0) => reader.total = 0
    BY <2>2
  <2>5. reader.lines # << >> /\ ~(\E line \in Lines : line.quota = 0) => reader.total # 0
    <3>1. ~(\E line \in Lines : line.quota = 0) => reader.limited
      BY <2>2
    <3>. QED  BY <2>1, <2>2, <3>1
  <2>6. reader.total # 0 => reader.used <= reader.total
    BY <2>1, <2>2
  <2>. QED  BY <2>3, <2>4, <2>5, <2>6
<1>. QED  BY <1>1, SpecIInv, PTL

=============================================================================
