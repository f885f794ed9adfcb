---------------------------- MODULE ConnectionUri ----------------------------
(***************************************************************************)
(* The two URI formats of internal/instance/uri.go, with the validation of *)
(* instances in internal/instance/config.go as far as it decides what such *)
(* a URI can say.                                                          *)
(*                                                                         *)
(* A text is the set of the kinds of characters in it; one of more than    *)
(* 16 KiB has the kind "long".  An address of a DNS server is "address" (a *)
(* numeric IP and a port in 1..65535), "host" (a name, or nothing, in its  *)
(* place) or "port" (0, nothing or a word in the place of the port); a key *)
(* is "hex" (64 digits) or "bad".  A URI of the OLCRTC Client is a         *)
(* function of parameters, one of OLCBOX has fields and a payload.         *)
(***************************************************************************)
EXTENDS Integers, FiniteSets, Functions

CONSTANT Garbled   (* the value of an option that a payload cannot carry:  *)
                   (* blank, with a separator, too long, a word as a number*)

ASSUME GarbledAssumption == Garbled \notin Int /\ Garbled \notin {"qrcode", "tile"}

Providers == {"telemost", "jitsi", "wbstream"}
Transports == {"datachannel", "vp8channel", "seichannel", "videochannel"}

Reserved == {"question", "separator"}   (* ? and < > @ # $                 *)
Error == [shape |-> "error"]

(* The options of a transport and the values that need no mention; the     *)
(* names have hyphens in the URI.                                          *)
Defaults ==
  [datachannel  |-> << >>,
   vp8channel   |-> [vp8_fps |-> 30, vp8_batch |-> 64],
   seichannel   |-> [fps |-> 30, batch |-> 64, frag |-> 900, ack_ms |-> 2000],
   videochannel |-> [video_w |-> 1920, video_h |-> 1080, video_fps |-> 30,
                     video_codec |-> "qrcode", video_qr_size |-> 0,
                     video_qr_recovery |-> "low", video_tile_module |-> 4,
                     video_tile_rs |-> 20]]
TileOptions == {"video_tile_module", "video_tile_rs"}

(* ApplyDefaults: what an instance was not told has the default value.     *)
Options(transport, given) ==
  [n \in DOMAIN Defaults[transport] |->
     IF n \in DOMAIN given THEN given[n] ELSE Defaults[transport][n]]

(* What validateTransport asks of numbers, and what it asks case by case.  *)
Batches == 1..4096
FragmentSizes == 128..65535
AckTimes == 100..120000
Widths == 64..7680
Heights == 64..4320

ValidVP8(o) == o.vp8_fps \in 1..240 /\ o.vp8_batch \in Batches
ValidSEI(o) ==
  /\ o.fps \in 1..240 /\ o.batch \in Batches
  /\ o.frag \in FragmentSizes /\ o.ack_ms \in AckTimes
ValidVideo(o) ==
  /\ o.video_codec \in {"qrcode", "tile"}
  /\ o.video_w \in Widths /\ o.video_h \in Heights /\ o.video_fps \in 1..240
  /\ o.video_qr_size \in Int
  /\ o.video_codec = "tile" =>
       /\ o.video_w = 1080 /\ o.video_h = 1080
       /\ o.video_tile_module \in 1..270 /\ o.video_tile_rs \in 0..200

ValidTransport(item) ==
  /\ item.transport = "vp8channel" => ValidVP8(item.options)
  /\ item.transport = "seichannel" => ValidSEI(item.options)
  /\ item.transport = "videochannel" => ValidVideo(item.options)

(* Validate: what an instance may be.                                      *)
ValidInstance(item) ==
  /\ item.provider \in Providers /\ item.transport \in Transports
  /\ item.room # {} /\ item.room \cap (Reserved \cup {"newline"}) = {}
  /\ "newline" \notin item.name
  /\ item.dns \in {"address", "host", "port"}
  /\ ValidTransport(item)

-----------------------------------------------------------------------------
(* The format of OLCBOX.                                                   *)

(* Mutant: only line breaks are replaced.                                  *)
StandardComment_Raw(text) == text \ {"newline"}

StandardComment(text) ==
  (text \ (Reserved \cup {"newline"})) \cup (IF text \cap Reserved = {} THEN {} ELSE {"plain"})

StandardPayload(item) ==
  LET usual == Defaults[item.transport]
      shown == {n \in DOMAIN usual :
                  /\ item.options[n] # usual[n]
                  /\ n \in TileOptions => item.options.video_codec = "tile"}
  IN [n \in shown |-> item.options[n]]

StandardURI(item, key, name) ==
  LET comment == StandardComment(name)
  IN IF key = "hex" /\ item.provider \in Providers /\ item.transport \in Transports
          /\ (item.room \cup comment) \cap (Reserved \cup {"newline"}) = {}
     THEN [shape |-> "olcbox", provider |-> item.provider, transport |-> item.transport,
           payload |-> StandardPayload(item), room |-> item.room, key |-> key,
           comment |-> comment]
     ELSE Error

(* Payload parameters a URI may have; datachannel has no payload.          *)
PayloadNames(transport) ==
  DOMAIN Defaults[transport]
    \cup (IF transport = "videochannel" THEN {"video_bitrate", "video_hw"} ELSE {})

ValidateStandardTransport(uri) ==
  /\ uri.transport \in Transports
  /\ DOMAIN uri.payload \subseteq PayloadNames(uri.transport)
  /\ \A n \in DOMAIN uri.payload : uri.payload[n] # Garbled

(* A question mark in the comment is tolerated, in the room it is not.     *)
ValidateStandardURI(uri) ==
  /\ uri.shape = "olcbox"
  /\ uri.provider \in Providers
  /\ ValidateStandardTransport(uri)
  /\ uri.key = "hex"
  /\ uri.room # {} /\ uri.room \cap (Reserved \cup {"newline", "long"}) = {}
  /\ uri.comment \cap {"separator", "newline"} = {}

-----------------------------------------------------------------------------
(* The format of the OLCRTC Client.                                        *)

ClientCompatible(provider, transport) ==
  \/ provider \in {"wbstream", "telemost"} /\ transport = "vp8channel"
  \/ provider = "jitsi" /\ transport = "datachannel"

(* The WB token is there unless the instance keeps it to itself.           *)
ClientURI(item, key) ==
  IF /\ key = "hex"
     /\ ClientCompatible(item.provider, item.transport)
     /\ item.provider = "wbstream" => item.token \/ item.omit
  THEN LET names == {"k", "t", "c", "d"}
                    \cup (IF item.transport = "vp8channel" THEN {"f", "b"} ELSE {})
                    \cup (IF item.provider = "wbstream" /\ ~item.omit THEN {"a"} ELSE {})
       IN [shape |-> "client", provider |-> item.provider, room |-> item.room,
           params |-> [n \in names |->
                         CASE n = "k" -> key
                           [] n = "t" -> item.transport
                           [] n = "c" -> "id"
                           [] n = "d" -> item.dns
                           [] n = "f" -> item.options.vp8_fps
                           [] n = "b" -> item.options.vp8_batch
                           [] n = "a" -> "token"]]
  ELSE Error

(* Names a parameter may have, the short one and the long ones.            *)
Aliases ==
  [key |-> {"key", "k"}, transport |-> {"transport", "t"}, fps |-> {"vp8_fps", "f"},
   batch |-> {"vp8_batch", "b"}, client |-> {"client_id", "c"},
   token |-> {"auth_token", "auth.token", "a"}, dns |-> {"dns", "d"},
   password |-> {"room_password", "rp"}, keepalive |-> {"keepalive", "ka"}]

(* Mutant: only the first name of a parameter is looked up.                *)
Given_Long(uri, what) == {what} \cap DOMAIN uri.params

Given(uri, what) == Aliases[what] \cap DOMAIN uri.params
Parameter(uri, what, default) ==
  IF Given(uri, what) = {} THEN default ELSE uri.params[CHOOSE n \in Given(uri, what) : TRUE]

(* Numbers the client takes: fewer than an instance may have.              *)
Limits == [fps |-> 1..120, batch |-> 1..64, keepalive |-> 0..3600]

ValidateClientURI(uri) ==
  /\ uri.shape = "client"
  /\ uri.room # {} /\ "long" \notin uri.room
  /\ DOMAIN uri.params \subseteq UNION Range(Aliases)
  /\ \A what \in DOMAIN Aliases : Cardinality(Given(uri, what)) <= 1
  /\ Parameter(uri, "key", "bad") = "hex"
  /\ Parameter(uri, "client", "") # ""
  /\ ClientCompatible(uri.provider, Parameter(uri, "transport", "datachannel"))
  /\ \A what \in DOMAIN Limits :
       Given(uri, what) # {} => Parameter(uri, what, 0) \in Limits[what]
  /\ Parameter(uri, "dns", "address") = "address"

(* Mutant: the short name is forgotten.                                    *)
StripAuthToken_Long(uri) ==
  IF uri.shape = "client"
  THEN [uri EXCEPT !.params = Restrict(@, DOMAIN @ \ {"auth_token", "auth.token"})]
  ELSE uri

(* A URI of OLCBOX has no query and stays as it is.                        *)
StripAuthToken(uri) ==
  IF uri.shape = "client"
  THEN [uri EXCEPT !.params = Restrict(@, DOMAIN @ \ Aliases["token"])]
  ELSE uri

HasToken(uri) == uri.shape = "client" /\ Given(uri, "token") # {}

=============================================================================
