---------------------------- MODULE ReleaseUpdate ----------------------------
(***************************************************************************)
(* Installing a release bundle and going back to the one before:           *)
(* update.sh, which handleUpdatesInstall and handleUpdatesRollback start   *)
(* through systemd-run, the embedded assets it installs (assets.go), the   *)
(* panel it restarts, and what handleUpdatesProgress makes of the state    *)
(* file and of the operation tracker (operations.go).  A second writer of  *)
(* the assets is the unit a browser session starts with, which refreshes   *)
(* those of the browser worker beside the script.                          *)
(*                                                                         *)
(* The script makes one change per step.  Under "set -e" a command that    *)
(* fails ends it; the host may go down between any two steps.  One unit    *)
(* stands for the active instances.                                        *)
(***************************************************************************)
EXTENDS PanelStart

CONSTANTS
  Bundles,
  Factory,    (* the bundle install.sh installed                           *)
  Works,      (* bundles whose panel serves                                *)
  Assets,     (* files embedded in the panel: units, scripts, worker       *)
  WBAssets    (* those a browser session refreshes                         *)

ASSUME BundleAssumption ==
  /\ Factory \in Bundles /\ Works \subseteq Bundles /\ Factory \in Works /\ None \notin Bundles
  /\ WBAssets \subseteq Assets

VARIABLES
  disk,               (* releases/<bundle>: absent, partial or whole       *)
  current, previous,  (* the links below releases                          *)
  names, surnames,    (* the bundle releases/data/names, surnames are of   *)
  assets,             (* the bundle each installed asset comes from        *)
  unit,               (* the bundle the instances run, None: stopped       *)
  exe, url,           (* the bundle the panel runs, where it answers       *)
  pc, op,             (* update.sh: the next step; install or rollback     *)
  target, old,        (* the chosen bundle, the one before                 *)
  active,             (* the instances were active                         *)
  asked,              (* the health URL                                    *)
  todo,               (* what "assets install" has still to write          *)
  refresher, stale,   (* the bundle whose binary refreshes the assets of   *)
                      (* the browser, None: nobody; those it has to write  *)
  file,               (* phase in the state file                           *)
  tracker,            (* operationTracker: idle, running or failed         *)
  proven,             (* history: bundles that have answered               *)
  ended, on, was,     (* history: how the last script ended, the bundle it *)
                      (* had chosen, what it was asked for                 *)
  blind,              (* history: the last switch was from an unproven     *)
                      (* bundle, or back to one                            *)
  moved, slow,        (* history: since the script asked for the URL the   *)
                      (* settings changed; its last check came too early   *)
  crossed             (* history: assets were being refreshed when the     *)
                      (* link "current" changed last                       *)

links == <<disk, current, previous, names, surnames>>
panel == <<exe, url>>
script == <<pc, op, target, old, active, asked, todo>>
browser == <<refresher, stale>>
view == <<file, tracker>>
verdict == <<ended, on, was>>
history == <<proven, verdict, blind, moved, slow, crossed>>
vars == <<settings, links, assets, unit, panel, script, browser, view, history>>

Usable(b) == b \in proven /\ disk[b] = "whole"
Up == exe # None
Url == [port |-> Stored("port"), path |-> Stored("panel_path")]

Init ==
  /\ SettingsInit
  /\ disk = [b \in Bundles |-> IF b = Factory THEN "whole" ELSE "absent"]
  /\ current = Factory /\ previous = None
  /\ names = Factory /\ surnames = Factory
  /\ assets = [a \in Assets |-> Factory]
  /\ unit \in {Factory, None}
  /\ exe = Factory /\ url = Url
  /\ pc = "idle" /\ op = "install" /\ target = None /\ old = None
  /\ active = FALSE /\ asked = None /\ todo = {}
  /\ refresher = None /\ stale = {}
  /\ file = "" /\ tracker = "idle"
  /\ proven = {Factory} /\ ended = "" /\ on = None /\ was = "install"
  /\ blind = FALSE /\ moved = FALSE /\ slow = FALSE /\ crossed = FALSE

-----------------------------------------------------------------------------
(* The panel process.                                                      *)

(* systemd executes the binary of the link "current".  A directory that is *)
(* being replaced may or may not hold a binary that runs.                  *)
Serves(b) == disk[b] = "whole" /\ b \in Works /\ Loads
MayServe(b) == disk[b] # "absent" /\ b \in Works /\ Loads
Restarted ==
  \/ MayServe(current) /\ exe' = current /\ url' = Url
  \/ ~ Serves(current) /\ exe' = None /\ url' = None

(* The variables of a script that has not started yet.                     *)
Fresh(o, b) ==
  /\ op' = o /\ target' = b
  /\ old' = None /\ active' = FALSE /\ asked' = None /\ todo' = {}

(* Restart=on-failure, or the start of the host.                           *)
Boot ==
  /\ ~ Up /\ MayServe(current)
  /\ exe' = current /\ url' = Url
  /\ UNCHANGED <<settings, links, assets, unit, script, browser, view, history>>

PanelDies ==
  /\ Up
  /\ exe' = None /\ url' = None /\ tracker' = "idle" /\ HandlersDie
  /\ UNCHANGED <<links, assets, unit, script, browser, file, history>>

(* /run is gone with the script; the instances start again.                *)
HostRestarts ==
  /\ exe' = None /\ url' = None /\ tracker' = "idle" /\ HandlersDie
  /\ pc' = "idle" /\ Fresh("install", None)
  /\ file' = "" /\ ended' = "" /\ on' = None /\ was' = "install"
  /\ unit' = IF unit = None THEN None ELSE current
  /\ refresher' = None /\ stale' = {}
  /\ UNCHANGED <<links, assets, proven, blind, moved, slow, crossed>>

Setting ==
  /\ Up
  /\ \E h \in Handlers :
       \/ Put(h) \/ ReplaceCert(h) \/ ReplaceKey(h) \/ StorePort(h) \/ ReadPath(h) \/ StorePaths(h)
  /\ moved' = (moved \/ Url' # Url)
  /\ UNCHANGED <<links, assets, unit, panel, script, browser, view, proven, verdict, blind, slow,
                 crossed>>

KeyLost ==
  /\ Up
  /\ \E h \in Handlers : KeyFails(h)
  /\ UNCHANGED <<links, assets, unit, panel, script, browser, view, history>>

-----------------------------------------------------------------------------
(* The start of a browser session: handleWBSessionStart.                   *)

(* refreshWBAutomationRuntimeAssets stops the unit if it still runs, and   *)
(* starts it again with the binary of the link "current".  The unit goes   *)
(* on when the panel or the request ends.                                  *)
StartRefresh ==
  /\ Up /\ Event /\ disk[current] # "absent"
  /\ refresher' = current /\ stale' = WBAssets
  /\ UNCHANGED <<requests, links, assets, unit, panel, script, view, history>>

(* RefreshWBAutomation: one file after the other.                          *)
RefreshAsset ==
  /\ refresher # None
  /\ \E a \in stale : assets' = [assets EXCEPT ![a] = refresher] /\ stale' = stale \ {a}
  /\ UNCHANGED <<settings, links, unit, panel, script, refresher, view, history>>

(* All is written, or a file cannot be, or a new start stops the unit.     *)
RefreshEnds ==
  /\ refresher # None
  /\ refresher' = None /\ stale' = {}
  /\ UNCHANGED <<settings, links, assets, unit, panel, script, view, history>>

-----------------------------------------------------------------------------
(* handleUpdatesInstall and handleUpdatesRollback.                         *)

(* The unit olcrtc-panel-update exists while the script runs: systemd-run  *)
(* fails, and only the tracker hears of it.                                *)
Start(o, b) ==
  /\ Up /\ tracker # "running" /\ Event
  /\ IF pc = "idle"
     THEN /\ tracker' = "running"
          /\ pc' = "prepare" /\ Fresh(o, b)
     ELSE tracker' = "failed" /\ UNCHANGED script
  /\ UNCHANGED <<requests, links, assets, unit, panel, browser, file, history>>

(* The goroutine of operationTracker.start sees systemd-run end, unless    *)
(* the panel was restarted meanwhile.                                      *)
Notice ==
  /\ tracker = "running" /\ pc = "idle"
  /\ tracker' = "failed"
  /\ UNCHANGED <<settings, links, assets, unit, panel, script, browser, file, history>>

(* 30 minutes, or systemd-run is killed: the script goes on without it.    *)
LoseClient ==
  /\ tracker = "running" /\ pc # "idle"
  /\ tracker' = "failed"
  /\ UNCHANGED <<settings, links, assets, unit, panel, script, browser, file, history>>

(* operationProgressFrom: the tracker, and once it knows nothing the file. *)
Progress ==
  IF tracker # "idle" THEN tracker
  ELSE CASE file = "completed" -> "completed"
         [] file = "error" -> "failed"
         [] file = "" -> "idle"
         [] OTHER -> "running"

-----------------------------------------------------------------------------
(* update.sh.                                                              *)

Parameters == <<op, target, old, active, asked, todo>>
Goto(s) == pc' = s /\ UNCHANGED Parameters
Calm == UNCHANGED <<settings, unit, panel, browser, tracker>>

(* Mutant: what was put back well ends well.                               *)
Phase_Back(as) == IF as \in {"completed", "back"} THEN "completed" ELSE "error"
(* The trap on EXIT writes "error", also when the old bundle is back.      *)
Phase(as) == IF as = "completed" THEN "completed" ELSE "error"

End(as) ==
  /\ Goto("idle")
  /\ file' = Phase(as)
  /\ ended' = as /\ on' = target /\ was' = op

Prepare ==
  /\ pc = "prepare" /\ Calm
  /\ file' = "busy"
  /\ IF op = "install"
     THEN Goto("fetch")
     ELSE pc' = "look" /\ target' = previous /\ UNCHANGED <<op, old, active, asked, todo>>
  /\ ended' = ""
  /\ UNCHANGED <<links, assets, on, was, proven, blind, moved, slow, crossed>>

(* A download or a checksum fails.                                         *)
RefuseBundle ==
  /\ pc = "fetch"
  /\ End("refused") /\ Calm
  /\ UNCHANGED <<links, assets, proven, blind, moved, slow, crossed>>

(* There is no executable to go back to.                                   *)
RefuseRollback ==
  /\ pc = "look" /\ op = "rollback"
  /\ previous # None => disk[previous] # "whole"
  /\ End("refused") /\ Calm
  /\ UNCHANGED <<links, assets, proven, blind, moved, slow, crossed>>

(* The files of the bundle are replaced one after the other, in place.     *)
Unpack ==
  /\ \/ pc = "fetch" /\ Goto("unpack") /\ disk' = [disk EXCEPT ![target] = "partial"]
     \/ pc = "unpack" /\ Goto("names") /\ disk' = [disk EXCEPT ![target] = "whole"]
  /\ Calm
  /\ UNCHANGED <<current, previous, names, surnames, assets, file, history>>

ShareData ==
  /\ \/ pc = "names" /\ Goto("surnames") /\ names' = target /\ UNCHANGED surnames
     \/ pc = "surnames" /\ Goto("look") /\ surnames' = target /\ UNCHANGED names
  /\ Calm
  /\ UNCHANGED <<disk, current, previous, assets, file, history>>

(* Mutant: both switch first.                                              *)
LinkOrder_Switch(o) == <<"switch", "keep">>
(* An installation keeps the bundle first and then switches, a rollback    *)
(* switches first.                                                         *)
LinkOrder(o) == IF o = "install" THEN <<"keep", "switch">> ELSE <<"switch", "keep">>
AfterLink == IF pc = LinkOrder(op)[1] THEN LinkOrder(op)[2] ELSE "assets"

(* health-url of the chosen binary, readlink, list-units.                  *)
Look ==
  /\ pc = "look"
  /\ op = "rollback" => target # None /\ disk[target] # "absent"
  /\ pc' = LinkOrder(op)[1]
  /\ old' = current /\ active' = (unit # None) /\ asked' = Url /\ todo' = Assets
  /\ UNCHANGED <<op, target>>
  /\ moved' = FALSE /\ slow' = FALSE
  /\ blind' = (~ Usable(current) \/ (op = "rollback" /\ ~ Usable(target)))
  /\ Calm
  /\ UNCHANGED <<links, assets, file, proven, verdict, crossed>>

Keep ==
  /\ pc = "keep" /\ Calm
  /\ previous' = old
  /\ Goto(AfterLink)
  /\ UNCHANGED <<disk, current, names, surnames, assets, file, history>>

Switch ==
  /\ pc = "switch" /\ Calm
  /\ current' = target /\ crossed' = (refresher # None)
  /\ Goto(AfterLink)
  /\ UNCHANGED <<disk, previous, names, surnames, assets, file, proven, verdict, blind, moved, slow>>

(* "assets install" of the current binary, in the order of a Go map.       *)
InstallAsset ==
  /\ pc \in {"assets", "assets_back"} /\ Calm
  /\ \E a \in todo : assets' = [assets EXCEPT ![a] = current] /\ todo' = todo \ {a}
  /\ UNCHANGED <<links, pc, op, target, old, active, asked, file, history>>

(* http.Server.Shutdown waits for the handlers; systemd-run and the        *)
(* tracker end with the panel.                                             *)
RestartPanel ==
  /\ pc \in {"assets", "assets_back"}
  /\ todo = {}
  /\ \A h \in Handlers : step[h] = "idle"
  /\ Restarted /\ tracker' = "idle"
  /\ Goto(IF pc = "assets" THEN "check" ELSE "unit_back")
  /\ UNCHANGED <<settings, links, assets, unit, browser, file, history>>

Answers == Up /\ url = asked
NextCheck == IF op = "install" THEN "unit" ELSE "completed"
(* wait_for_panel: the panel answers in time at the URL.                   *)
Healthy ==
  /\ pc = "check" /\ Answers /\ Calm
  /\ proven' = proven \cup {exe}
  /\ Goto(NextCheck)
  /\ UNCHANGED <<links, assets, file, verdict, blind, moved, slow, crossed>>

(* It cannot answer there, or does too late; systemd starts one that died  *)
(* again before the 20 tries are over.                                     *)
Unhealthy ==
  /\ pc \in {"check", "check_back"}
  /\ \/ (IF Up THEN ~ Answers ELSE ~ Serves(current)) /\ UNCHANGED <<events, slow>>
     \/ (Up => Answers) /\ Event /\ slow' = TRUE
  /\ CASE pc = "check_back" -> End("lost")
       [] pc = "check" /\ op = "rollback" -> End("unhealthy")
       [] OTHER -> Goto("back") /\ UNCHANGED <<file, verdict>>
  /\ UNCHANGED <<requests, links, assets, unit, panel, browser, tracker, proven, blind, moved,
                 crossed>>

(* The instances that were active are restarted; one may not come up.      *)
RestartUnit ==
  /\ pc = "unit"
  /\ \/ ~ active /\ UNCHANGED unit /\ Goto("completed")
     \/ active /\ unit' = current /\ Goto("completed")
     \/ active /\ unit' = None /\ Goto("back")
  /\ UNCHANGED <<settings, links, assets, panel, browser, view, history>>

Complete ==
  /\ pc = "completed" /\ Calm
  /\ End("completed")
  /\ UNCHANGED <<links, assets, proven, blind, moved, slow, crossed>>

-----------------------------------------------------------------------------
(* The old bundle is put back.                                             *)

(* Mutant: the URL asked for before the update.                            *)
RollbackUrl_Old(last) == last
(* health-url of the old binary: the settings may have changed.            *)
RollbackUrl(last) == Url

SwitchBack ==
  /\ pc = "back" /\ Calm
  /\ current' = old
  /\ pc' = "assets_back" /\ asked' = RollbackUrl(asked) /\ todo' = Assets
  /\ UNCHANGED <<op, target, old, active>>
  /\ moved' = FALSE /\ slow' = FALSE /\ crossed' = (refresher # None)
  /\ UNCHANGED <<disk, previous, names, surnames, assets, file, proven, verdict, blind>>

RestartUnitBack ==
  /\ pc = "unit_back"
  /\ \/ unit' = IF active THEN current ELSE unit
     \/ active /\ unit' = None
  /\ Goto("check_back")
  /\ UNCHANGED <<settings, links, assets, panel, browser, view, history>>

HealthyBack ==
  /\ pc = "check_back" /\ Answers /\ Calm
  /\ End("back")
  /\ proven' = proven \cup {exe}
  /\ UNCHANGED <<links, assets, blind, moved, slow, crossed>>

(* Any other command fails: the trap, and nothing is put back.             *)
Abort ==
  /\ pc \notin {"idle", "prepare", "check", "check_back", "completed"}
  /\ Event
  /\ End("aborted")
  /\ UNCHANGED <<requests, links, assets, unit, panel, browser, tracker, proven, blind, moved,
                 slow, crossed>>

-----------------------------------------------------------------------------

Script ==
  \/ Prepare \/ RefuseBundle \/ RefuseRollback \/ Unpack \/ ShareData
  \/ Look \/ Keep \/ Switch \/ InstallAsset \/ RestartPanel \/ Healthy \/ Unhealthy \/ RestartUnit \/ Complete
  \/ SwitchBack \/ RestartUnitBack \/ HealthyBack \/ Abort

Next ==
  \/ Boot \/ PanelDies \/ HostRestarts \/ Setting \/ KeyLost
  \/ StartRefresh \/ RefreshAsset \/ RefreshEnds
  \/ \E b \in Bundles : Start("install", b)
  \/ Start("rollback", Factory)
  \/ Notice \/ LoseClient \/ Script

Spec == Init /\ [][Next]_vars
-----------------------------------------------------------------------------
Steps == {"idle", "prepare", "fetch", "unpack", "names", "surnames", "look", "keep",
          "switch", "assets", "check", "unit", "completed", "back", "assets_back",
          "unit_back", "check_back"}
Endings == {"", "refused", "aborted", "unhealthy", "back", "lost", "completed"}

Placed ==
  /\ disk \in [Bundles -> {"absent", "partial", "whole"}]
  /\ current \in Bundles /\ previous \in Bundles \cup {None}
  /\ names \in Bundles /\ surnames \in Bundles
  /\ assets \in [Assets -> Bundles] /\ todo \subseteq Assets
  /\ refresher \in Bundles \cup {None} /\ stale \subseteq WBAssets
  /\ unit \in Bundles \cup {None} /\ exe \in Bundles \cup {None}
  /\ proven \subseteq Bundles
Noted ==
  /\ file \in {"", "busy", "completed", "error"}
  /\ tracker \in {"idle", "running", "failed"}
  /\ pc \in Steps /\ op \in {"install", "rollback"}
  /\ target \in Bundles \cup {None} /\ old \in Bundles \cup {None}
  /\ ended \in Endings /\ on \in Bundles \cup {None} /\ was \in {"install", "rollback"}
Flags == blind \in BOOLEAN /\ moved \in BOOLEAN /\ slow \in BOOLEAN /\ crossed \in BOOLEAN

TypeOK == Placed /\ Noted /\ Flags

(***************************************************************************)
(* WayBack: whenever update.sh is interrupted, the selected bundle or the  *)
(* one "previous" names has answered before and is complete.  Excepted are *)
(* a switch away from a bundle that never answered or is damaged, as an    *)
(* interrupted update leaves one, and replacing the files of one of the    *)
(* two in place.                                                           *)
(***************************************************************************)
WayBack ==
  \/ Usable(current) \/ Usable(previous)
  \/ blind
  \/ \E b \in {current, previous} \ {None} : disk[b] = "partial"

(***************************************************************************)
(* An asset is of the selected bundle.  The exception are those of the     *)
(* browser when a session was just refreshing them as the link changed:    *)
(* the binary that does so is the one from before, and update.sh does not  *)
(* wait for it.                                                            *)
(***************************************************************************)
InPlace(a) == assets[a] = current \/ (crossed /\ a \in WBAssets)

(***************************************************************************)
(* FailureRestores: when an installation fails its health check and no     *)
(* further command fails, the bundle of before, its assets and its panel   *)
(* are back; the check after it fails only when the panel is late, when    *)
(* its settings or its certificate changed under the script, or when the   *)
(* bundle of before had never answered or is damaged.                      *)
(***************************************************************************)
FailureRestores ==
  pc = "idle" /\ ended \in {"back", "lost"} =>
    /\ current = old /\ \A a \in Assets : InPlace(a)
    /\ Up => exe = current
    /\ ended = "lost" => moved \/ slow \/ torn \/ blind

(***************************************************************************)
(* VerdictHonest: the page shows "completed" only when the bundle that was *)
(* chosen is selected, has answered, and nothing of another one is left:   *)
(* assets, running panel, after an installation also the names.            *)
(***************************************************************************)
VerdictHonest ==
  Progress = "completed" =>
    /\ pc \in {"idle", "prepare"}
    /\ current = on /\ current \in proven
    /\ \A a \in Assets : InPlace(a)
    /\ Up => exe = current
    /\ was = "install" => names = current /\ surnames = current
=============================================================================
