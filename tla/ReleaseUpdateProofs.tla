------------------------- MODULE ReleaseUpdateProofs -------------------------
(***************************************************************************)
(* What ReleaseUpdate promises, proved for every set of bundles, assets, *)
(* settings and requests and without any bound on what happens.  One     *)
(* inductive invariant carries all four properties: Settled (the settings *)
(* and the leaf), Linked (the links), Written (the two writers of the    *)
(* assets), Chosen (what the script has put in place at each of its      *)
(* steps) and PutBack (how a failed installation ends).                  *)
(***************************************************************************)
EXTENDS ReleaseUpdate, TLAPS

-----------------------------------------------------------------------------
(* The inductive invariant.                                              *)

(* The settings are valid; a pair that was not torn is one pair, or the  *)
(* only handler at work completes it.                                    *)
Settled ==
  /\ cert \in Nat /\ key \in Nat /\ events \in Nat
  /\ own \in [Handlers -> Nat]
  /\ step \in [Handlers -> {"idle", "cert", "key", "port", "read", "write"}]
  /\ torn \in BOOLEAN
  /\ DOMAIN stored = {"port", "panel_path", "subscription_path"}
  /\ DOMAIN input = Handlers /\ \A h \in Handlers : input[h].ip \in BOOLEAN
  /\ DOMAIN candidate = Handlers /\ \A h \in Handlers : DOMAIN candidate[h] = Keys
  /\ \A h \in Handlers : step[h] = "write" => \A k \in Keys : candidate[h][k] # None
  /\ ~ Up => \A h \in Handlers : step[h] = "idle"
  /\ ~ torn => \A h \in Regenerating : own[h] = cert /\ Regenerating = {h}
  /\ StartsAgain

Working == {"switch", "keep", "assets", "check", "unit", "completed",
            "back", "assets_back", "unit_back", "check_back"}
Backing == {"assets_back", "unit_back", "check_back"}

(* Of the bundle before and of the one chosen at each step.              *)
Linked ==
  /\ proven \subseteq Works /\ (Up => exe \in Works)
  /\ disk[current] # "absent" /\ (previous # None => disk[previous] # "absent")
  /\ blind \/ current \in proven \/ previous \in proven
  /\ op = "install" /\ pc # "idle" => target \in Bundles
  /\ op = "install" /\ pc \in {"names", "surnames", "look"} \cup Working =>
       disk[target] = "whole"
  /\ pc \in Working =>
       /\ old \in Bundles /\ disk[old] # "absent"
       /\ target \in Bundles /\ disk[target] # "absent"
       /\ ~ blind => old \in proven /\ disk[old] = "whole"
       /\ ~ blind /\ op = "rollback" => target \in proven
  /\ op = "install" /\ pc \in Working \ {"keep"} => previous = old
  /\ op = "install" /\ pc \in {"keep", "switch"} => current = old
  /\ op = "rollback" => pc \notin {"fetch", "unpack", "names", "surnames", "unit", "back"} \cup Backing

(* Who refreshes assets of the browser writes those of the selected        *)
(* bundle, unless the link changed under it; the script has still to write *)
(* the rest.                                                               *)
Written ==
  /\ refresher # None /\ ~ crossed => refresher = current
  /\ pc \in {"keep", "switch"} => todo = Assets
  /\ pc \in {"assets", "assets_back"} => \A a \in Assets \ todo : InPlace(a)

Whole == /\ \A a \in Assets : InPlace(a)
         /\ Up => exe = current

(* What is in place once the chosen bundle is switched to.               *)
Chosen ==
  /\ pc \in {"assets", "check", "unit", "completed"} => current = target
  /\ pc = "keep" /\ op = "rollback" => current = target
  /\ pc \in {"check", "unit", "completed"} => Whole
  /\ pc \in {"unit", "completed"} => current \in proven
  /\ op = "install" /\ pc \in {"surnames", "look"} \cup Working =>
       names = target
  /\ op = "install" /\ pc \in {"look"} \cup Working => surnames = target
  /\ file = "completed" =>
       /\ pc \in {"idle", "prepare"} /\ Whole
       /\ current = on /\ current \in proven
       /\ was = "install" => names = current /\ surnames = current

(* What is in place once the old bundle is switched back to.             *)
PutBack ==
  /\ pc \in Backing => current = old
  /\ pc \in Backing /\ ~ moved => asked = Url
  /\ pc \in {"unit_back", "check_back"} => Whole
  /\ pc \in {"unit_back", "check_back"} /\ ~ moved /\ Up => url = Url
  /\ pc = "idle" /\ ended \in {"back", "lost"} =>
       /\ current = old /\ Whole
       /\ ended = "lost" =>
            \/ moved \/ slow \/ blind
            \/ torn /\ ~ Up /\ cert # key

Inv == TypeOK /\ Settled /\ Linked /\ Written /\ Chosen /\ PutBack

-----------------------------------------------------------------------------
(* The settings and the leaf.                                            *)

(* What is not a settings request leaves them as they are.               *)
LEMMA SameSettings ==
  ASSUME Settled, UNCHANGED requests, UNCHANGED events \/ Event,
         ~ Up' => ~ Up \/ \A h \in Handlers : step[h] = "idle"
  PROVE  Settled'
<1>1. events' \in Nat
  BY DEF Settled, Event
<1>2. Regenerating' = Regenerating
  BY DEF requests, Regenerating
<1>3. StartsAgain'
  BY <1>2 DEF requests, Settled, StartsAgain, Stored
<1> QED BY <1>1, <1>2, <1>3 DEF requests, Settled, Up

(* A request that begins touches neither settings nor the pair.          *)
LEMMA PutSettled ==
  ASSUME Settled, NEW h \in Handlers, Put(h), Up, UNCHANGED exe PROVE Settled'
<1>1. events' \in Nat
  BY DEF Put, Event, Settled
<1>2. PICK i \in Inputs : input' = [input EXCEPT ![h] = i] /\ step' = [step EXCEPT ![h] = First(i)]
  BY DEF Put
<1>3. i.ip \in BOOLEAN
  BY InputAssumption
<1>4. First(i) \in {"idle", "cert", "port", "read"}
  BY <1>3 DEF First, Port, Paths
<1>5. Regenerating' = Regenerating
  BY <1>2, <1>4 DEF Regenerating, Put, Settled
<1>6. StartsAgain'
  BY <1>5 DEF Settled, StartsAgain, Stored, Put
<1> QED BY <1>1, <1>2, <1>3, <1>4, <1>5, <1>6 DEF Settled, Put, Up, NoPaths, Regenerating

(* Replacing the certificate: alone, the handler owns it; else it is torn. *)
LEMMA CertSettled ==
  ASSUME Settled, NEW h \in Handlers, ReplaceCert(h), Up, UNCHANGED exe PROVE Settled'
<1>1. Regenerating' = Regenerating \cup {h}
  BY DEF Regenerating, ReplaceCert, Settled
<1>2. StartsAgain'
  BY <1>1 DEF Settled, StartsAgain, Stored, ReplaceCert
<1> QED BY <1>1, <1>2 DEF Settled, ReplaceCert, Up

(* Replacing the key completes the pair of the only handler at work.     *)
LEMMA KeySettled ==
  ASSUME Settled, NEW h \in Handlers, ReplaceKey(h) \/ KeyFails(h), Up, UNCHANGED exe PROVE Settled'
<1>1. events' \in Nat
  BY DEF ReplaceKey, KeyFails, Event, Settled
<1>2. Port(input[h]) \in {"idle", "port", "read"}
  BY DEF Port, Paths
<1>3. Regenerating' = Regenerating \ {h} /\ h \in Regenerating
  BY <1>2 DEF Regenerating, ReplaceKey, KeyFails, Settled
<1>4. Valid(Stored("panel_path"), Stored("subscription_path"))'
  BY DEF Settled, StartsAgain, Stored, ReplaceKey, KeyFails
<1>5. ~ torn' => ReplaceKey(h) /\ key' = cert' /\ Regenerating' = {}
  BY <1>3 DEF ReplaceKey, KeyFails, Settled
<1>6. StartsAgain'
  BY <1>4, <1>5 DEF StartsAgain, KeyFails
<1>7. \A g \in Handlers : step'[g] = "write" => \A k \in Keys : candidate'[g][k] # None
  BY <1>2 DEF Settled, ReplaceKey, KeyFails
<1>8. step' \in [Handlers -> {"idle", "cert", "key", "port", "read", "write"}]
  BY <1>2 DEF Settled, ReplaceKey, KeyFails
<1>9. torn' \in BOOLEAN
  BY Zenon DEF Settled, ReplaceKey, KeyFails
<1>10. key' \in Nat
  BY DEF Settled, ReplaceKey, KeyFails
<1>11. UNCHANGED <<cert, stored, input, candidate, own>>
  BY DEF Settled, ReplaceKey, KeyFails
<1> QED BY <1>1, <1>5, <1>6, <1>7, <1>8, <1>9, <1>10, <1>11 DEF Settled, Up

(* The port is no part of what must be valid.                            *)
LEMMA PortSettled ==
  ASSUME Settled, NEW h \in Handlers, StorePort(h), Up, UNCHANGED exe PROVE Settled'
<1>1. Paths(input[h]) \in {"idle", "read"}
  BY DEF Paths
<1>2. Regenerating' = Regenerating
  BY <1>1 DEF Regenerating, StorePort, Settled
<1>3. StartsAgain'
  BY <1>2 DEF Settled, StartsAgain, Stored, StorePort
<1> QED BY <1>1, <1>2, <1>3 DEF Settled, StorePort, Up

(* A handler writes only when it has a value for each path.              *)
LEMMA ReadSettled ==
  ASSUME Settled, NEW h \in Handlers, ReadPath(h), Up, UNCHANGED exe PROVE Settled'
<1>1. Regenerating' = Regenerating
  BY DEF Regenerating, ReadPath, Settled
<1>2. StartsAgain'
  BY <1>1 DEF Settled, StartsAgain, Stored, ReadPath
<1> QED BY <1>1, <1>2 DEF Settled, ReadPath, Up

(* Both paths are stored together, and only when they are valid together. *)
LEMMA PathsSettled ==
  ASSUME Settled, NEW h \in Handlers, StorePaths(h), Up, UNCHANGED exe PROVE Settled'
<1>1. Regenerating' = Regenerating
  BY DEF Regenerating, StorePaths, Settled
<1>2. \A k \in Keys : candidate[h][k] # None
  BY DEF StorePaths, Settled
<1>3. Valid(Stored("panel_path"), Stored("subscription_path"))'
  <2>1. CASE UNCHANGED stored
    BY <2>1 DEF Settled, StartsAgain, Stored
  <2>2. CASE ~ UNCHANGED stored
    <3>1. Valid(candidate[h].panel_path, candidate[h].subscription_path)
      BY <2>2 DEF StorePaths
    <3>2. stored'["panel_path"] = candidate[h]["panel_path"]
          /\ stored'["subscription_path"] = candidate[h]["subscription_path"]
      BY <2>2 DEF StorePaths, Saves, Settled, Keys
    <3> QED BY <1>2, <3>1, <3>2 DEF Stored, Keys
  <2> QED BY <2>1, <2>2
<1>4. StartsAgain'
  BY <1>1, <1>3 DEF Settled, StartsAgain, StorePaths
<1> QED BY <1>1, <1>4 DEF Settled, StorePaths, Up

(* What is cut short is torn.                                            *)
LEMMA DieSettled == ASSUME Settled, HandlersDie PROVE Settled'
<1>1. events' \in Nat
  BY DEF HandlersDie, Event, Settled
<1>2. Regenerating' = {}
  BY DEF HandlersDie, Regenerating
<1>3. StartsAgain'
  BY <1>2 DEF Settled, StartsAgain, Stored, HandlersDie
<1> QED BY <1>1, <1>2, <1>3 DEF Settled, HandlersDie

(* All that happens in the panel keeps Settled.                          *)
LEMMA SettingSettled ==
  ASSUME Settled, Setting \/ KeyLost \/ PanelDies \/ HostRestarts PROVE Settled'
<1>1. CASE Setting
  BY <1>1, PutSettled, CertSettled, KeySettled, PortSettled, ReadSettled, PathsSettled
  DEF Setting, panel
<1>2. CASE KeyLost
  BY <1>2, KeySettled DEF KeyLost, panel
<1> QED BY <1>1, <1>2, DieSettled DEF PanelDies, HostRestarts

(* Tuples of variables and what says only that they stay as they are.    *)
USE DEF links, panel, script, browser, view, verdict, history, requests, settings,
        Parameters, Goto, Calm, Up, InPlace

(* The first step of the script is one.                                  *)
LEMMA StepPrepare == "prepare" \in Steps
BY DEF Steps

(* The URL depends on what is stored only.                               *)
LEMMA SameUrl == ASSUME UNCHANGED stored PROVE Url' = Url
BY DEF Url, Stored

-----------------------------------------------------------------------------
(* The panel and its settings.                                           *)

(* A panel that starts has a pair that belongs together.                 *)
LEMMA BootInv ==
  ASSUME Inv, Boot PROVE Inv'
<1>1. Placed'
  BY DEF Inv, TypeOK, Placed, Boot
<1>2. Noted'
  BY Zenon DEF Inv, TypeOK, Noted, Boot
<1>3. Flags'
  BY Zenon DEF Inv, TypeOK, Flags, Boot
<1>4. Settled'
  BY SameSettings DEF Inv, Boot
<1>5. Linked'
  BY DEF Inv, TypeOK, Linked, Boot, MayServe
<1>6. Chosen'
  BY DEF Inv, TypeOK, Chosen, Whole, Boot
<1>7. PutBack'
  BY SameUrl DEF Inv, TypeOK, PutBack, Whole, Boot, MayServe, Loads
<1>9. Written'
  BY DEF Inv, TypeOK, Written, Boot
<1> QED BY <1>1, <1>2, <1>3, <1>4, <1>5, <1>6, <1>7, <1>9 DEF Inv, TypeOK

(* A panel that dies leaves everything of the script as it is.           *)
LEMMA PanelDiesInv ==
  ASSUME Inv, PanelDies PROVE Inv'
<1>1. Placed'
  BY DEF Inv, TypeOK, Placed, PanelDies
<1>2. Noted'
  BY Zenon DEF Inv, TypeOK, Noted, PanelDies
<1>3. Flags'
  BY Zenon DEF Inv, TypeOK, Flags, PanelDies
<1>4. Settled'
  BY SettingSettled DEF Inv
<1>5. Linked'
  BY DEF Inv, TypeOK, Linked, PanelDies
<1>6. Chosen'
  BY DEF Inv, TypeOK, Chosen, Whole, PanelDies
<1>7. PutBack'
  BY SameUrl DEF Inv, TypeOK, PutBack, Whole, PanelDies, HandlersDie
<1>9. Written'
  BY DEF Inv, TypeOK, Written, PanelDies
<1> QED BY <1>1, <1>2, <1>3, <1>4, <1>5, <1>6, <1>7, <1>9 DEF Inv, TypeOK

(* After a restart of the host no script runs and nothing is reported.   *)
LEMMA HostRestartsInv ==
  ASSUME Inv, HostRestarts PROVE Inv'
<1>1. Placed'
  BY DEF Inv, TypeOK, Placed, HostRestarts, Fresh
<1>2. Noted'
  BY DEF Inv, TypeOK, Noted, HostRestarts, Fresh, Steps, Endings
<1>3. Flags'
  BY Zenon DEF Inv, TypeOK, Flags, HostRestarts
<1>4. Settled'
  BY SettingSettled DEF Inv
<1>5. Linked'
  BY DEF Inv, TypeOK, Linked, HostRestarts, Fresh, Working
<1>6. Chosen'
  BY DEF Inv, TypeOK, Chosen, HostRestarts, Working
<1>7. PutBack'
  BY DEF Inv, TypeOK, PutBack, HostRestarts, Backing
<1>9. Written'
  BY DEF Inv, TypeOK, Written, HostRestarts, Fresh
<1> QED BY <1>1, <1>2, <1>3, <1>4, <1>5, <1>6, <1>7, <1>9 DEF Inv, TypeOK

(* Settings requests change what the script asks for only with "moved".  *)
LEMMA SettingInv ==
  ASSUME Inv, Setting PROVE Inv'
<1>1. Placed'
  BY DEF Inv, TypeOK, Placed, Setting
<1>2. Noted'
  BY Zenon DEF Inv, TypeOK, Noted, Setting
<1>3. Flags'
  BY Zenon DEF Inv, TypeOK, Flags, Setting
<1>4. Settled'
  BY SettingSettled DEF Inv
<1>5. Linked'
  BY DEF Inv, TypeOK, Linked, Setting
<1>6. Chosen'
  BY DEF Inv, TypeOK, Chosen, Whole, Setting
<1>7. PutBack'
  BY DEF Inv, TypeOK, PutBack, Whole, Setting
<1>9. Written'
  BY DEF Inv, TypeOK, Written, Setting
<1> QED BY <1>1, <1>2, <1>3, <1>4, <1>5, <1>6, <1>7, <1>9 DEF Inv, TypeOK

(* The same for a request that cannot write its key.                     *)
LEMMA KeyLostInv ==
  ASSUME Inv, KeyLost PROVE Inv'
<1>1. Placed'
  BY DEF Inv, TypeOK, Placed, KeyLost
<1>2. Noted'
  BY Zenon DEF Inv, TypeOK, Noted, KeyLost
<1>3. Flags'
  BY Zenon DEF Inv, TypeOK, Flags, KeyLost
<1>4. Settled'
  BY SettingSettled DEF Inv
<1>5. Linked'
  BY DEF Inv, TypeOK, Linked, KeyLost
<1>6. Chosen'
  BY DEF Inv, TypeOK, Chosen, Whole, KeyLost
<1>7. PutBack'
  BY SameUrl DEF Inv, TypeOK, PutBack, Whole, KeyLost, KeyFails
<1>9. Written'
  BY DEF Inv, TypeOK, Written, KeyLost
<1> QED BY <1>1, <1>2, <1>3, <1>4, <1>5, <1>6, <1>7, <1>9 DEF Inv, TypeOK

(* A browser session starts to refresh the assets of the selected bundle. *)
LEMMA StartRefreshInv ==
  ASSUME Inv, StartRefresh PROVE Inv'
<1>1. Placed'
  BY DEF Inv, TypeOK, Placed, StartRefresh
<1>2. Noted'
  BY Zenon DEF Inv, TypeOK, Noted, StartRefresh
<1>3. Flags'
  BY Zenon DEF Inv, TypeOK, Flags, StartRefresh
<1>4. Settled'
  BY SameSettings DEF Inv, StartRefresh
<1>5. Linked'
  BY DEF Inv, TypeOK, Linked, StartRefresh
<1>6. Chosen'
  BY DEF Inv, TypeOK, Chosen, Whole, StartRefresh
<1>7. PutBack'
  BY SameUrl DEF Inv, TypeOK, PutBack, Whole, StartRefresh
<1>9. Written'
  BY DEF Inv, TypeOK, Written, StartRefresh
<1> QED BY <1>1, <1>2, <1>3, <1>4, <1>5, <1>6, <1>7, <1>9 DEF Inv, TypeOK

(* What it writes is of the selected bundle, or excepted.                *)
LEMMA RefreshAssetInv ==
  ASSUME Inv, RefreshAsset PROVE Inv'
<1> PICK b \in stale : assets' = [assets EXCEPT ![b] = refresher] /\ stale' = stale \ {b}
  BY DEF RefreshAsset
<1>a. b \in WBAssets /\ b \in Assets
  BY BundleAssumption DEF Inv, TypeOK, Placed
<1>b. refresher \in Bundles /\ (~ crossed => refresher = current)
  BY DEF Inv, TypeOK, Placed, Written, RefreshAsset
<1>c. assets \in [Assets -> Bundles]
  BY DEF Inv, TypeOK, Placed
<1>d. \A a \in Assets : InPlace(a) => InPlace(a)'
  BY <1>a, <1>b, <1>c DEF RefreshAsset
<1>1. Placed'
  BY <1>a, <1>b DEF Inv, TypeOK, Placed, RefreshAsset
<1>2. Noted'
  BY Zenon DEF Inv, TypeOK, Noted, RefreshAsset
<1>3. Flags'
  BY Zenon DEF Inv, TypeOK, Flags, RefreshAsset
<1>4. Settled'
  BY SameSettings DEF Inv, RefreshAsset
<1>5. Linked'
  BY DEF Inv, TypeOK, Linked, RefreshAsset
<1>8. Whole => Whole'
  BY <1>d DEF Whole, RefreshAsset
<1>6. Chosen'
  BY <1>8 DEF Inv, TypeOK, Chosen, RefreshAsset
<1>7. PutBack'
  BY SameUrl, <1>8 DEF Inv, TypeOK, PutBack, RefreshAsset
<1>9. Written'
  BY <1>d DEF Inv, TypeOK, Written, RefreshAsset
<1> QED BY <1>1, <1>2, <1>3, <1>4, <1>5, <1>6, <1>7, <1>9 DEF Inv, TypeOK

(* When it has ended nobody writes beside the script.                    *)
LEMMA RefreshEndsInv ==
  ASSUME Inv, RefreshEnds PROVE Inv'
<1>1. Placed'
  BY DEF Inv, TypeOK, Placed, RefreshEnds
<1>2. Noted'
  BY Zenon DEF Inv, TypeOK, Noted, RefreshEnds
<1>3. Flags'
  BY Zenon DEF Inv, TypeOK, Flags, RefreshEnds
<1>4. Settled'
  BY SameSettings DEF Inv, RefreshEnds
<1>5. Linked'
  BY DEF Inv, TypeOK, Linked, RefreshEnds
<1>6. Chosen'
  BY DEF Inv, TypeOK, Chosen, Whole, RefreshEnds
<1>7. PutBack'
  BY SameUrl DEF Inv, TypeOK, PutBack, Whole, RefreshEnds
<1>9. Written'
  BY DEF Inv, TypeOK, Written, RefreshEnds
<1> QED BY <1>1, <1>2, <1>3, <1>4, <1>5, <1>6, <1>7, <1>9 DEF Inv, TypeOK

(* A script that starts has chosen a bundle and has changed nothing.     *)
LEMMA StartInv ==
  ASSUME Inv, NEW o \in {"install", "rollback"}, NEW b \in Bundles, Start(o, b) PROVE Inv'
<1>1. Placed'
  BY DEF Inv, TypeOK, Placed, Start, Fresh
<1>2. Noted'
  BY StepPrepare, Zenon DEF Inv, TypeOK, Noted, Start, Fresh
<1>3. Flags'
  BY Zenon DEF Inv, TypeOK, Flags, Start
<1>4. Settled'
  BY SameSettings DEF Inv, Start
<1>5. Linked'
  BY DEF Inv, TypeOK, Linked, Start, Fresh, Working, Backing
<1>6. Chosen'
  BY DEF Inv, TypeOK, Chosen, Whole, Start, Working
<1>7. PutBack'
  BY SameUrl DEF Inv, TypeOK, PutBack, Whole, Start, Backing
<1>9. Written'
  BY DEF Inv, TypeOK, Written, Start
<1> QED BY <1>1, <1>2, <1>3, <1>4, <1>5, <1>6, <1>7, <1>9 DEF Inv, TypeOK

(* The tracker is no part of what the script relies on ...               *)
LEMMA NoticeInv ==
  ASSUME Inv, Notice PROVE Inv'
<1>1. Placed'
  BY DEF Inv, TypeOK, Placed, Notice
<1>2. Noted'
  BY Zenon DEF Inv, TypeOK, Noted, Notice
<1>3. Flags'
  BY Zenon DEF Inv, TypeOK, Flags, Notice
<1>4. Settled'
  BY SameSettings DEF Inv, Notice
<1>5. Linked'
  BY DEF Inv, TypeOK, Linked, Notice
<1>6. Chosen'
  BY DEF Inv, TypeOK, Chosen, Whole, Notice
<1>7. PutBack'
  BY SameUrl DEF Inv, TypeOK, PutBack, Whole, Notice
<1>9. Written'
  BY DEF Inv, TypeOK, Written, Notice
<1> QED BY <1>1, <1>2, <1>3, <1>4, <1>5, <1>6, <1>7, <1>9 DEF Inv, TypeOK

(* ... also when it gives up.                                            *)
LEMMA LoseClientInv ==
  ASSUME Inv, LoseClient PROVE Inv'
<1>1. Placed'
  BY DEF Inv, TypeOK, Placed, LoseClient
<1>2. Noted'
  BY Zenon DEF Inv, TypeOK, Noted, LoseClient
<1>3. Flags'
  BY Zenon DEF Inv, TypeOK, Flags, LoseClient
<1>4. Settled'
  BY SameSettings DEF Inv, LoseClient
<1>5. Linked'
  BY DEF Inv, TypeOK, Linked, LoseClient
<1>6. Chosen'
  BY DEF Inv, TypeOK, Chosen, Whole, LoseClient
<1>7. PutBack'
  BY SameUrl DEF Inv, TypeOK, PutBack, Whole, LoseClient
<1>9. Written'
  BY DEF Inv, TypeOK, Written, LoseClient
<1> QED BY <1>1, <1>2, <1>3, <1>4, <1>5, <1>6, <1>7, <1>9 DEF Inv, TypeOK

-----------------------------------------------------------------------------
(* The script.                                                           *)

(* From here the page shows no older result.                             *)
LEMMA PrepareInv ==
  ASSUME Inv, Prepare PROVE Inv'
<1>1. Placed'
  BY DEF Inv, TypeOK, Placed, Prepare
<1>2. Noted'
  BY DEF Inv, TypeOK, Placed, Noted, Prepare, Steps, Endings
<1>3. Flags'
  BY Zenon DEF Inv, TypeOK, Flags, Prepare
<1>4. Settled'
  BY SameSettings DEF Inv, Prepare
<1>5. Linked'
  BY DEF Inv, TypeOK, Linked, Prepare, Working, Backing
<1>6. Chosen'
  BY DEF Inv, TypeOK, Chosen, Prepare, Working
<1>7. PutBack'
  BY DEF Inv, TypeOK, PutBack, Prepare, Backing
<1>9. Written'
  BY DEF Inv, TypeOK, Written, Prepare
<1> QED BY <1>1, <1>2, <1>3, <1>4, <1>5, <1>6, <1>7, <1>9 DEF Inv, TypeOK

(* A refusal changes the state file only.                                *)
LEMMA RefuseBundleInv ==
  ASSUME Inv, RefuseBundle PROVE Inv'
<1>1. Placed'
  BY DEF Inv, TypeOK, Placed, RefuseBundle, End
<1>2. Noted'
  BY DEF Inv, TypeOK, Noted, RefuseBundle, End, Phase, Steps, Endings
<1>3. Flags'
  BY Zenon DEF Inv, TypeOK, Flags, RefuseBundle
<1>4. Settled'
  BY SameSettings DEF Inv, RefuseBundle
<1>5. Linked'
  BY DEF Inv, TypeOK, Linked, RefuseBundle, End, Working, Backing
<1>6. Chosen'
  BY DEF Inv, TypeOK, Chosen, RefuseBundle, End, Phase, Working
<1>7. PutBack'
  BY DEF Inv, TypeOK, PutBack, RefuseBundle, End, Backing
<1>9. Written'
  BY DEF Inv, TypeOK, Written, RefuseBundle, End
<1> QED BY <1>1, <1>2, <1>3, <1>4, <1>5, <1>6, <1>7, <1>9 DEF Inv, TypeOK

(* The same without a bundle to go back to.                              *)
LEMMA RefuseRollbackInv ==
  ASSUME Inv, RefuseRollback PROVE Inv'
<1>1. Placed'
  BY DEF Inv, TypeOK, Placed, RefuseRollback, End
<1>2. Noted'
  BY DEF Inv, TypeOK, Noted, RefuseRollback, End, Phase, Steps, Endings
<1>3. Flags'
  BY Zenon DEF Inv, TypeOK, Flags, RefuseRollback
<1>4. Settled'
  BY SameSettings DEF Inv, RefuseRollback
<1>5. Linked'
  BY DEF Inv, TypeOK, Linked, RefuseRollback, End, Working, Backing
<1>6. Chosen'
  BY DEF Inv, TypeOK, Chosen, RefuseRollback, End, Phase, Working
<1>7. PutBack'
  BY DEF Inv, TypeOK, PutBack, RefuseRollback, End, Backing
<1>9. Written'
  BY DEF Inv, TypeOK, Written, RefuseRollback, End
<1> QED BY <1>1, <1>2, <1>3, <1>4, <1>5, <1>6, <1>7, <1>9 DEF Inv, TypeOK

(* The chosen bundle is whole when its files are in place.               *)
LEMMA UnpackInv ==
  ASSUME Inv, Unpack PROVE Inv'
<1>1. Placed'
  BY DEF Inv, TypeOK, Placed, Unpack
<1>2. Noted'
  BY DEF Inv, TypeOK, Linked, Noted, Unpack, Steps
<1>3. Flags'
  BY Zenon DEF Inv, TypeOK, Flags, Unpack
<1>4. Settled'
  BY SameSettings DEF Inv, Unpack
<1>5. Linked'
  BY DEF Inv, TypeOK, Placed, Linked, Unpack, Working
<1>6. Chosen'
  BY DEF Inv, TypeOK, Chosen, Unpack, Working
<1>7. PutBack'
  BY DEF Inv, TypeOK, PutBack, Unpack, Backing
<1>9. Written'
  BY DEF Inv, TypeOK, Written, Unpack
<1> QED BY <1>1, <1>2, <1>3, <1>4, <1>5, <1>6, <1>7, <1>9 DEF Inv, TypeOK

(* The names are those of the chosen bundle, first one, then the other.  *)
LEMMA ShareDataInv ==
  ASSUME Inv, ShareData PROVE Inv'
<1>1. Placed'
  BY DEF Inv, TypeOK, Placed, Noted, Linked, ShareData
<1>2. Noted'
  BY DEF Inv, TypeOK, Noted, ShareData, Steps
<1>3. Flags'
  BY Zenon DEF Inv, TypeOK, Flags, ShareData
<1>4. Settled'
  BY SameSettings DEF Inv, ShareData
<1>5. Linked'
  BY DEF Inv, TypeOK, Linked, ShareData, Working
<1>6. Chosen'
  BY DEF Inv, TypeOK, Chosen, ShareData, Working
<1>7. PutBack'
  BY DEF Inv, TypeOK, PutBack, ShareData, Backing
<1>9. Written'
  BY DEF Inv, TypeOK, Written, ShareData
<1> QED BY <1>1, <1>2, <1>3, <1>4, <1>5, <1>6, <1>7, <1>9 DEF Inv, TypeOK

(* "blind" records whether there is a bundle to go back to.              *)
LEMMA LookInv ==
  ASSUME Inv, Look PROVE Inv'
<1>1. Placed'
  BY DEF Inv, TypeOK, Placed, Look
<1>2. Noted'
  BY DEF Inv, TypeOK, Placed, Noted, Look, LinkOrder, Steps
<1>3. Flags'
  BY Zenon DEF Inv, TypeOK, Flags, Look
<1>4. Settled'
  BY SameSettings DEF Inv, Look
<1>5. Linked'
  BY DEF Inv, TypeOK, Placed, Noted, Linked, Look, LinkOrder, Usable,
    Backing
<1>6. Chosen'
  BY DEF Inv, TypeOK, Chosen, Look, LinkOrder
<1>7. PutBack'
  BY SameUrl DEF Inv, TypeOK, PutBack, Look, LinkOrder
<1>9. Written'
  BY DEF Inv, TypeOK, Written, Look, LinkOrder
<1> QED BY <1>1, <1>2, <1>3, <1>4, <1>5, <1>6, <1>7, <1>9 DEF Inv, TypeOK

(* While one link is changed the other one still names a proven bundle.  *)
LEMMA KeepInv ==
  ASSUME Inv, Keep PROVE Inv'
<1>1. Placed'
  BY DEF Inv, TypeOK, Placed, Noted, Keep
<1>2. Noted'
  BY DEF Inv, TypeOK, Noted, Keep, AfterLink, LinkOrder, Steps
<1>3. Flags'
  BY Zenon DEF Inv, TypeOK, Flags, Keep
<1>4. Settled'
  BY SameSettings DEF Inv, Keep
<1>5. Linked'
  BY DEF Inv, TypeOK, Linked, Keep, AfterLink, LinkOrder, Working, Backing
<1>6. Chosen'
  BY DEF Inv, TypeOK, Noted, Chosen, Keep, AfterLink, LinkOrder, Working
<1>7. PutBack'
  BY DEF Inv, TypeOK, PutBack, Keep, AfterLink, LinkOrder, Backing
<1>9. Written'
  BY DEF Inv, TypeOK, Written, Keep, AfterLink, LinkOrder
<1> QED BY <1>1, <1>2, <1>3, <1>4, <1>5, <1>6, <1>7, <1>9 DEF Inv, TypeOK

(* The same for the other link.                                          *)
LEMMA SwitchInv ==
  ASSUME Inv, Switch PROVE Inv'
<1>1. Placed'
  BY DEF Inv, TypeOK, Placed, Linked, Switch, Working
<1>2. Noted'
  BY DEF Inv, TypeOK, Noted, Switch, AfterLink, LinkOrder, Steps
<1>3. Flags'
  BY Zenon DEF Inv, TypeOK, Flags, Switch
<1>4. Settled'
  BY SameSettings DEF Inv, Switch
<1>5. Linked'
  BY DEF Inv, TypeOK, Noted, Linked, Switch, AfterLink, LinkOrder, Working,
    Backing
<1>6. Chosen'
  BY DEF Inv, TypeOK, Chosen, Switch, AfterLink, LinkOrder, Working
<1>7. PutBack'
  BY DEF Inv, TypeOK, PutBack, Switch, AfterLink, LinkOrder, Backing
<1>9. Written'
  BY DEF Inv, TypeOK, Written, Switch, AfterLink, LinkOrder
<1> QED BY <1>1, <1>2, <1>3, <1>4, <1>5, <1>6, <1>7, <1>9 DEF Inv, TypeOK

(* Assets become those of the selected bundle one by one.                *)
LEMMA InstallAssetInv ==
  ASSUME Inv, InstallAsset PROVE Inv'
<1> PICK b \in todo : assets' = [assets EXCEPT ![b] = current] /\ todo' = todo \ {b}
  BY DEF InstallAsset
<1>a. b \in Assets /\ assets \in [Assets -> Bundles] /\ todo \subseteq Assets
  BY DEF Inv, TypeOK, Placed
<1>b. \A a \in Assets : a = b \/ InPlace(a) => InPlace(a)'
  BY <1>a DEF InstallAsset
<1>1. Placed'
  BY DEF Inv, TypeOK, Placed, InstallAsset
<1>2. Noted'
  BY DEF Inv, TypeOK, Linked, Working, Noted, InstallAsset
<1>3. Flags'
  BY Zenon DEF Inv, TypeOK, Flags, InstallAsset
<1>4. Settled'
  BY SameSettings DEF Inv, InstallAsset
<1>5. Linked'
  BY DEF Inv, TypeOK, Linked, InstallAsset
<1>6. Chosen'
  BY DEF Inv, TypeOK, Chosen, InstallAsset
<1>7. PutBack'
  BY SameUrl DEF Inv, TypeOK, PutBack, InstallAsset
<1>9. Written'
  BY <1>a, <1>b DEF Inv, TypeOK, Placed, Written, InstallAsset
<1> QED BY <1>1, <1>2, <1>3, <1>4, <1>5, <1>6, <1>7, <1>9 DEF Inv, TypeOK

(* The panel that is restarted is the selected one, or there is none.    *)
LEMMA RestartPanelInv ==
  ASSUME Inv, RestartPanel PROVE Inv'
<1>1. Placed'
  BY DEF Inv, TypeOK, Placed, RestartPanel, Restarted
<1>2. Noted'
  BY DEF Inv, TypeOK, Noted, RestartPanel, Steps
<1>3. Flags'
  BY Zenon DEF Inv, TypeOK, Flags, RestartPanel
<1>4. Settled'
  BY SameSettings DEF Inv, RestartPanel
<1>5. Linked'
  BY DEF Inv, TypeOK, Linked, RestartPanel, Restarted, MayServe, Working,
    Backing
<1>6. Chosen'
  BY DEF Inv, TypeOK, Written, Chosen, Whole, RestartPanel, Restarted, Working
<1>7. PutBack'
  BY SameUrl DEF Inv, TypeOK, Written, PutBack, Whole, RestartPanel, Restarted,
    Backing
<1>9. Written'
  BY DEF Inv, TypeOK, Written, RestartPanel
<1> QED BY <1>1, <1>2, <1>3, <1>4, <1>5, <1>6, <1>7, <1>9 DEF Inv, TypeOK

(* What answers where it is asked is the selected bundle.                *)
LEMMA HealthyInv ==
  ASSUME Inv, Healthy PROVE Inv'
<1>1. Placed'
  BY DEF Inv, TypeOK, Placed, Healthy, Answers
<1>2. Noted'
  BY DEF Inv, TypeOK, Noted, Healthy, NextCheck, Steps
<1>3. Flags'
  BY Zenon DEF Inv, TypeOK, Flags, Healthy
<1>4. Settled'
  BY SameSettings DEF Inv, Healthy
<1>5. Linked'
  BY DEF Inv, TypeOK, Linked, Healthy, NextCheck, Answers, Working, Backing
<1>6. Chosen'
  BY DEF Inv, TypeOK, Chosen, Whole, Healthy, Answers, Working
<1>7. PutBack'
  BY DEF Inv, TypeOK, PutBack, Healthy, NextCheck, Backing
<1>9. Written'
  BY DEF Inv, TypeOK, Written, Healthy, NextCheck
<1> QED BY <1>1, <1>2, <1>3, <1>4, <1>5, <1>6, <1>7, <1>9 DEF Inv, TypeOK

(* A check after going back fails for one of the reasons only.           *)
LEMMA UnhealthyInv ==
  ASSUME Inv, Unhealthy PROVE Inv'
<1>1. Placed'
  BY DEF Inv, TypeOK, Placed, Unhealthy, End
<1>2. Noted'
  BY DEF Inv, TypeOK, Noted, Unhealthy, End, Phase, Steps, Endings
<1>3. Flags'
  BY Zenon DEF Inv, TypeOK, Flags, Unhealthy
<1>4. Settled'
  BY SameSettings DEF Inv, Unhealthy
<1>5. Linked'
  BY DEF Inv, TypeOK, Linked, Unhealthy, End, Working, Backing
<1>6. Chosen'
  BY DEF Inv, TypeOK, Chosen, Unhealthy, End, Phase, Working
<1>7. ~ Up /\ ~ Serves(current) /\ pc = "check_back" => blind \/ (torn /\ cert # key)
  BY DEF Inv, Settled, StartsAgain, Regenerating, Linked, PutBack, Serves,
    Loads, Backing, Working
<1>8. PutBack'
  BY <1>7 DEF Inv, TypeOK, PutBack, Whole, Unhealthy, End, Answers, Backing
<1>9. Written'
  BY DEF Inv, TypeOK, Written, Unhealthy, End
<1> QED BY <1>1, <1>2, <1>3, <1>4, <1>5, <1>6, <1>8, <1>9 DEF Inv, TypeOK

(* The instances are no part of the invariant.                           *)
LEMMA RestartUnitInv ==
  ASSUME Inv, RestartUnit PROVE Inv'
<1>1. Placed'
  BY DEF Inv, TypeOK, Placed, RestartUnit
<1>2. Noted'
  BY DEF Inv, TypeOK, Linked, Noted, RestartUnit, Steps
<1>3. Flags'
  BY Zenon DEF Inv, TypeOK, Flags, RestartUnit
<1>4. Settled'
  BY SameSettings DEF Inv, RestartUnit
<1>5. Linked'
  BY DEF Inv, TypeOK, Linked, RestartUnit, Working
<1>6. Chosen'
  BY DEF Inv, TypeOK, Chosen, Whole, RestartUnit, Working
<1>7. PutBack'
  BY DEF Inv, TypeOK, PutBack, RestartUnit, Backing
<1>9. Written'
  BY DEF Inv, TypeOK, Written, RestartUnit
<1> QED BY <1>1, <1>2, <1>3, <1>4, <1>5, <1>6, <1>7, <1>9 DEF Inv, TypeOK

(* A script that completes has everything of its bundle in place.        *)
LEMMA CompleteInv ==
  ASSUME Inv, Complete PROVE Inv'
<1>1. Placed'
  BY DEF Inv, TypeOK, Placed, Complete, End
<1>2. Noted'
  BY DEF Inv, TypeOK, Noted, Complete, End, Phase, Steps, Endings
<1>3. Flags'
  BY Zenon DEF Inv, TypeOK, Flags, Complete
<1>4. Settled'
  BY SameSettings DEF Inv, Complete
<1>5. Linked'
  BY DEF Inv, TypeOK, Linked, Complete, End, Working, Backing
<1>6. Chosen'
  BY DEF Inv, TypeOK, Chosen, Whole, Complete, End, Working
<1>7. PutBack'
  BY DEF Inv, TypeOK, PutBack, Complete, End, Backing
<1>9. Written'
  BY DEF Inv, TypeOK, Written, Complete, End
<1> QED BY <1>1, <1>2, <1>3, <1>4, <1>5, <1>6, <1>7, <1>9 DEF Inv, TypeOK

(* Going back selects the bundle of before, and asks for its URL.        *)
LEMMA SwitchBackInv ==
  ASSUME Inv, SwitchBack PROVE Inv'
<1>1. Placed'
  BY DEF Inv, TypeOK, Placed, Linked, SwitchBack, Working
<1>2. Noted'
  BY DEF Inv, TypeOK, Noted, SwitchBack, Steps
<1>3. Flags'
  BY Zenon DEF Inv, TypeOK, Flags, SwitchBack
<1>4. Settled'
  BY SameSettings DEF Inv, SwitchBack
<1>5. Linked'
  BY DEF Inv, TypeOK, Linked, SwitchBack, Working
<1>6. Chosen'
  BY DEF Inv, TypeOK, Chosen, SwitchBack, Working
<1>7. PutBack'
  BY SameUrl DEF Inv, TypeOK, PutBack, SwitchBack, RollbackUrl
<1>9. Written'
  BY DEF Inv, TypeOK, Written, SwitchBack
<1> QED BY <1>1, <1>2, <1>3, <1>4, <1>5, <1>6, <1>7, <1>9 DEF Inv, TypeOK

(* The instances are no part of the invariant.                           *)
LEMMA RestartUnitBackInv ==
  ASSUME Inv, RestartUnitBack PROVE Inv'
<1>1. Placed'
  BY DEF Inv, TypeOK, Placed, RestartUnitBack
<1>2. Noted'
  BY DEF Inv, TypeOK, Noted, RestartUnitBack, Steps
<1>3. Flags'
  BY Zenon DEF Inv, TypeOK, Flags, RestartUnitBack
<1>4. Settled'
  BY SameSettings DEF Inv, RestartUnitBack
<1>5. Linked'
  BY DEF Inv, TypeOK, Linked, RestartUnitBack, Working, Backing
<1>6. Chosen'
  BY DEF Inv, TypeOK, Chosen, RestartUnitBack, Working
<1>7. PutBack'
  BY SameUrl DEF Inv, TypeOK, PutBack, Whole, RestartUnitBack, Backing
<1>9. Written'
  BY DEF Inv, TypeOK, Written, RestartUnitBack
<1> QED BY <1>1, <1>2, <1>3, <1>4, <1>5, <1>6, <1>7, <1>9 DEF Inv, TypeOK

(* The bundle of before answers: the installation ends as "back".        *)
LEMMA HealthyBackInv ==
  ASSUME Inv, HealthyBack PROVE Inv'
<1>1. Placed'
  BY DEF Inv, TypeOK, Placed, HealthyBack, Answers, End
<1>2. Noted'
  BY DEF Inv, TypeOK, Noted, HealthyBack, End, Phase, Steps, Endings
<1>3. Flags'
  BY Zenon DEF Inv, TypeOK, Flags, HealthyBack
<1>4. Settled'
  BY SameSettings DEF Inv, HealthyBack
<1>5. Linked'
  BY DEF Inv, TypeOK, Linked, HealthyBack, End, Answers, Working, Backing
<1>6. Chosen'
  BY DEF Inv, TypeOK, Chosen, HealthyBack, End, Phase, Working
<1>7. PutBack'
  BY DEF Inv, TypeOK, PutBack, Whole, HealthyBack, End, Backing
<1>9. Written'
  BY DEF Inv, TypeOK, Written, HealthyBack, End
<1> QED BY <1>1, <1>2, <1>3, <1>4, <1>5, <1>6, <1>7, <1>9 DEF Inv, TypeOK

(* A script that is aborted reports an error and leaves the links.       *)
LEMMA AbortInv ==
  ASSUME Inv, Abort PROVE Inv'
<1>1. Placed'
  BY DEF Inv, TypeOK, Placed, Abort, End
<1>2. Noted'
  BY DEF Inv, TypeOK, Noted, Abort, End, Phase, Steps, Endings
<1>3. Flags'
  BY Zenon DEF Inv, TypeOK, Flags, Abort
<1>4. Settled'
  BY SameSettings DEF Inv, Abort
<1>5. Linked'
  BY DEF Inv, TypeOK, Linked, Abort, End, Working, Backing
<1>6. Chosen'
  BY DEF Inv, TypeOK, Chosen, Abort, End, Phase, Working
<1>7. PutBack'
  BY DEF Inv, TypeOK, PutBack, Abort, End, Backing
<1>9. Written'
  BY DEF Inv, TypeOK, Written, Abort, End
<1> QED BY <1>1, <1>2, <1>3, <1>4, <1>5, <1>6, <1>7, <1>9 DEF Inv, TypeOK

-----------------------------------------------------------------------------
(* What follows.                                                         *)

(* What install.sh leaves.                                               *)
LEMMA InitInv == Init => Inv
<1> SUFFICES ASSUME Init PROVE Inv OBVIOUS
<1>1. Placed /\ Noted
  BY BundleAssumption DEF Init, Placed, Noted, Steps, Endings
<1>2. Flags
  BY Zenon DEF Init, Flags
<1>3. Regenerating = {}
  BY DEF Init, SettingsInit, Regenerating
<1>4. StartsAgain
  BY <1>3, ConfigAssumption DEF Init, SettingsInit, StartsAgain, Stored
<1>5. Settled
  BY <1>3, <1>4 DEF Init, SettingsInit, Settled, NoPaths, Keys
<1>6. Linked
  BY BundleAssumption DEF Init, Linked, Working, Backing
<1>7. Chosen /\ PutBack
  BY BundleAssumption DEF Init, Chosen, PutBack, Whole, Working, Backing
<1>8. Written
  BY DEF Init, Written
<1> QED BY <1>1, <1>2, <1>5, <1>6, <1>7, <1>8 DEF Inv, TypeOK

(* The invariant is inductive: each step by the lemma of its action.     *)
LEMMA NextInv == Inv /\ [Next]_vars => Inv'
<1> SUFFICES ASSUME Inv, [Next]_vars PROVE Inv' OBVIOUS
<1>1. CASE UNCHANGED vars
  <2>1. Placed' /\ Noted'
    <3>1. Placed'
      BY <1>1 DEF vars, Inv, TypeOK, Placed
    <3>2. Noted'
      BY <1>1 DEF vars, Inv, TypeOK, Noted
    <3> QED BY <3>1, <3>2
  <2>5. Flags'
    BY <1>1, Zenon DEF vars, Inv, TypeOK, Flags
  <2>2. Settled'
    BY <1>1, SameSettings DEF vars, Inv
  <2>3. Linked' /\ Chosen'
    BY <1>1 DEF vars, Inv, Linked, Chosen, Whole
  <2>6. Written'
    BY <1>1 DEF vars, Inv, Written
  <2>4. PutBack'
    BY <1>1, SameUrl DEF vars, Inv, PutBack, Whole
  <2> QED BY <2>1, <2>2, <2>3, <2>4, <2>5, <2>6 DEF Inv, TypeOK
<1>2. CASE Boot \/ PanelDies \/ HostRestarts \/ Setting \/ KeyLost \/ Notice \/ LoseClient
          \/ StartRefresh \/ RefreshAsset \/ RefreshEnds
  BY <1>2, BootInv, PanelDiesInv, HostRestartsInv, SettingInv, KeyLostInv, NoticeInv, LoseClientInv,
    StartRefreshInv, RefreshAssetInv, RefreshEndsInv
<1>3. CASE (\E b \in Bundles : Start("install", b)) \/ Start("rollback", Factory)
  BY <1>3, StartInv, BundleAssumption
<1>4. CASE Script
  BY <1>4, PrepareInv, RefuseBundleInv, RefuseRollbackInv, UnpackInv, ShareDataInv, LookInv, KeepInv, SwitchInv,
    InstallAssetInv, RestartPanelInv, HealthyInv, UnhealthyInv, RestartUnitInv, CompleteInv,
    SwitchBackInv, RestartUnitBackInv, HealthyBackInv, AbortInv DEF Script
<1> QED BY <1>1, <1>2, <1>3, <1>4 DEF Next

(* So it always holds.                                                   *)
LEMMA Invariant == Spec => []Inv
<1> QED BY InitInv, NextInv, PTL DEF Spec

(* Every variable has its type, whatever happens.                        *)
THEOREM TypeCorrect == Spec => []TypeOK
<1>1. Inv => TypeOK
  BY DEF Inv
<1> QED BY <1>1, Invariant, PTL

(* Settings requests that interleave leave a panel that can start:       *)
(* handleSettingsPut validates both paths together.                      *)
THEOREM StartsAgainHolds == Spec => []StartsAgain
<1>1. Inv => StartsAgain
  BY DEF Inv, Settled
<1> QED BY <1>1, Invariant, PTL

(* update.sh keeps one link at a proven bundle while it changes the other. *)
THEOREM WayBackHolds == Spec => []WayBack
<1>1. Inv /\ current \in proven => Usable(current) \/ disk[current] = "partial"
  BY DEF Inv, TypeOK, Placed, Noted, Linked, Usable
<1>2. Inv /\ previous \in proven =>
        Usable(previous) \/ (previous # None /\ disk[previous] = "partial")
  BY BundleAssumption DEF Inv, TypeOK, Placed, Noted, Linked, Usable
<1>3. Inv => blind \/ current \in proven \/ previous \in proven
  BY DEF Inv, Linked
<1>4. Inv => current # None
  BY BundleAssumption DEF Inv, TypeOK, Placed
<1>5. Inv => WayBack
  BY <1>1, <1>2, <1>3, <1>4 DEF WayBack
<1> QED BY <1>5, Invariant, PTL

(* The rollback of install() ends with the bundle of before, its assets and *)
(* its panel; assets a browser session was refreshing as the link changed *)
(* are excepted.                                                         *)
THEOREM FailureRestoresHolds == Spec => []FailureRestores
<1>1. Inv => FailureRestores
  BY DEF Inv, PutBack, Whole, FailureRestores
<1> QED BY <1>1, Invariant, PTL

(* "completed" is written only when everything of the bundle is in place, *)
(* but for assets a browser session was refreshing as the link changed.  *)
THEOREM VerdictHonestHolds == Spec => []VerdictHonest
<1>1. Progress = "completed" => file = "completed" \/ tracker = "completed"
  BY DEF Progress
<1>2. Inv => VerdictHonest
  BY <1>1 DEF Inv, TypeOK, Placed, Noted, Chosen, Whole, VerdictHonest
<1> QED BY <1>2, Invariant, PTL
=============================================================================
