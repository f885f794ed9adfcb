------------------------- MODULE MCSubscriptionFeed -------------------------
(* Instances of SubscriptionFeed for TLC.                                  *)
EXTENDS SubscriptionFeed, TLC

Instance(provider, transport, options, token, omit, dns, name, quota) ==
  [provider |-> provider, transport |-> transport, options |-> Options(transport, options),
   token |-> token, omit |-> omit, dns |-> dns, name |-> name, quota |-> quota,
   room |-> {"plain"}]

(* WB with a token it publishes, without one, and with one it keeps; the   *)
(* settings include those the validation of URIs refuses.                  *)
WBOpen == Instance("wbstream", "vp8channel", << >>, TRUE, FALSE, "address", {"plain"}, 1)
WBBare == [Instance("wbstream", "vp8channel", [vp8_fps |-> 200], FALSE, FALSE, "host",
                    {"plain", "question"}, 0)
             EXCEPT !.room = {"plain", "long"}]
WBKept == Instance("wbstream", "vp8channel", [vp8_batch |-> 16], FALSE, TRUE, "port",
                   {"separator"}, 1)
(* One the client cannot use, and a provider without token.                *)
Tiles == Instance("jitsi", "videochannel",
                  [video_w |-> 1080, video_codec |-> "tile", video_tile_rs |-> 0,
                   video_qr_recovery |-> Garbled],
                  FALSE, FALSE, "address", {"plain", "separator"}, 0)
Meeting == Instance("jitsi", "datachannel", << >>, FALSE, FALSE, "address", {"plain"}, 1)

AllConfigs == {WBOpen, WBBare, WBKept, Tiles, Meeting}

ClientRaw == [shape |-> "client", provider |-> "wbstream", room |-> {"plain"},
              params |-> [k |-> "hex", client_id |-> "id", transport |-> "vp8channel",
                          a |-> "token", ka |-> 60]]
BoxRaw == [shape |-> "olcbox", provider |-> "telemost", transport |-> "videochannel",
           payload |-> [video_hw |-> "none"], room |-> {"plain"}, key |-> "hex",
           comment |-> {"question"}]
Raws == {ClientRaw, BoxRaw}

File == <<Manual(BoxRaw, 1), Linked(CHOOSE i \in Instances : TRUE, 0)>>

Symmetry == Permutations(Procs)

=============================================================================
