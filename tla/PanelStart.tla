------------------------------ MODULE PanelStart ------------------------------
(***************************************************************************)
(* What the panel needs to start: the public settings that                 *)
(* handleSettingsPut (server/settings.go) stores and serve (cmd/main.go)   *)
(* applies and validates, and the leaf certificate and key that            *)
(* certificates.go replaces when the public address changes.  A handler    *)
(* makes one statement or file replacement per step and handlers           *)
(* interleave: nothing locks the settings or the TLS directory.            *)
(* handleRegenerateCertificate (server/system.go) replaces the same pair   *)
(* for an address: it is a request whose body has only the address.        *)
(*                                                                         *)
(* A mount path is the sequence of its segments, a certificate or key file *)
(* the request that made it.  ReleaseUpdate adds the process that starts.  *)
(***************************************************************************)
EXTENDS Integers, Sequences, FiniteSets
LOCAL INSTANCE SequencesExt

CONSTANTS
  Handlers,  (* settings requests served at the same time                  *)
  Inputs,    (* their bodies: [ip, port, panel_path, subscription_path]    *)
  Config,    (* config.yaml: [port, panel_path, subscription_path]         *)
  None,      (* a field not sent, a setting without a row                  *)
  MaxEvents  (* bound: requests and mishaps                                *)

Keys == {"panel_path", "subscription_path"}
Overlap(left, right) == IsPrefix(left, right) \/ IsPrefix(right, left)
Valid(panelPath, subPath) ==
  subPath # <<>> /\ (panelPath = <<>> \/ ~ Overlap(panelPath, subPath))

ASSUME ConfigAssumption ==
  /\ Valid(Config.panel_path, Config.subscription_path)
  /\ None \notin {Config.panel_path, Config.subscription_path}
ASSUME InputAssumption == \A i \in Inputs : i.ip \in BOOLEAN
ASSUME BoundAssumption == MaxEvents \in Nat

VARIABLES
  stored,    (* rows of the table settings                                 *)
  cert, key, (* server.crt and server.key                                  *)
  step,      (* what each handler does next                                *)
  input,     (* its body                                                   *)
  candidate, (* the paths it has read, with those sent in place            *)
  own,       (* the key it generates                                       *)
  torn,      (* history: the last replacement of the pair was cut short,   *)
             (* or another one ran into it                                 *)
  events     (* requests and mishaps so far                                *)

requests == <<stored, cert, key, step, input, candidate, own, torn>>
settings == <<requests, events>>

(* applyStoredSettings.                                                    *)
Stored(k) == IF stored[k] = None THEN Config[k] ELSE stored[k]
Loads == cert = key /\ Valid(Stored("panel_path"), Stored("subscription_path"))
Regenerating == {h \in Handlers : step[h] = "key"}
Event == events < MaxEvents /\ events' = events + 1

NoPaths == [k \in Keys |-> None]
SettingsInit ==
  /\ stored = [port |-> None, panel_path |-> None, subscription_path |-> None]
  /\ cert = 0 /\ key = 0
  /\ step = [h \in Handlers |-> "idle"]
  /\ input = [h \in Handlers |-> [ip |-> FALSE, port |-> None, panel_path |-> None, subscription_path |-> None]]
  /\ candidate = [h \in Handlers |-> NoPaths]
  /\ own = [h \in Handlers |-> 0]
  /\ torn = FALSE /\ events = 0

-----------------------------------------------------------------------------
(* handleSettingsPut: the address, the port, then the paths.               *)

Paths(i) == IF \E k \in Keys : i[k] # None THEN "read" ELSE "idle"
Port(i) == IF i.port # None THEN "port" ELSE Paths(i)
First(i) == IF i.ip THEN "cert" ELSE Port(i)

Put(h) ==
  /\ step[h] = "idle" /\ Event
  /\ \E i \in Inputs :
       /\ input' = [input EXCEPT ![h] = i]
       /\ step' = [step EXCEPT ![h] = First(i)]
  /\ candidate' = [candidate EXCEPT ![h] = NoPaths]
  /\ own' = [own EXCEPT ![h] = events']
  /\ UNCHANGED <<stored, cert, key, torn>>

(* createLeaf generates a key and replaces first the certificate ...       *)
ReplaceCert(h) ==
  /\ step[h] = "cert" /\ step' = [step EXCEPT ![h] = "key"]
  /\ cert' = own[h]
  /\ torn' = (Regenerating # {})
  /\ UNCHANGED <<stored, key, input, candidate, own, events>>

(* ... then the key.                                                       *)
ReplaceKey(h) ==
  /\ step[h] = "key" /\ step' = [step EXCEPT ![h] = Port(input[h])]
  /\ key' = own[h]
  /\ UNCHANGED <<stored, cert, input, candidate, own, torn, events>>

(* The key cannot be written: 500, the rest of the request is dropped.     *)
KeyFails(h) ==
  /\ step[h] = "key" /\ step' = [step EXCEPT ![h] = "idle"]
  /\ torn' = TRUE
  /\ Event
  /\ UNCHANGED <<stored, cert, key, input, candidate, own>>

(* The error of SetSetting is dropped.                                     *)
StorePort(h) ==
  /\ step[h] = "port" /\ step' = [step EXCEPT ![h] = Paths(input[h])]
  /\ \/ stored' = [stored EXCEPT !.port = input[h].port]
     \/ UNCHANGED stored
  /\ UNCHANGED <<cert, key, input, candidate, own, torn, events>>

(* configuredPublicSettings reads key by key, in any order; a change by    *)
(* another request may come in between.  What was sent replaces it.        *)
ReadPath(h) ==
  /\ step[h] = "read"
  /\ \E k \in Keys :
       /\ candidate[h][k] = None
       /\ candidate' = [candidate EXCEPT ![h][k] =
            IF input[h][k] # None THEN input[h][k] ELSE Stored(k)]
  /\ step' = [step EXCEPT ![h] =
       IF \E k \in Keys : candidate'[h][k] = None THEN "read" ELSE "write"]
  /\ UNCHANGED <<stored, cert, key, input, own, torn, events>>

(* Mutant: only what was sent is stored.                                   *)
Saves_Sent(h, k) == input[h][k] # None
(* Both paths are stored in one transaction, also the one not sent.        *)
Saves(h, k) == TRUE

StorePaths(h) ==
  /\ step[h] = "write" /\ step' = [step EXCEPT ![h] = "idle"]
  /\ \/ /\ Valid(candidate[h].panel_path, candidate[h].subscription_path)
        /\ stored' = [k \in DOMAIN stored |->
             IF k \in Keys /\ Saves(h, k) THEN candidate[h][k] ELSE stored[k]]
     \/ UNCHANGED stored
  /\ UNCHANGED <<cert, key, input, candidate, own, torn, events>>

(* The process dies with its handlers.                                     *)
HandlersDie ==
  /\ step' = [h \in Handlers |-> "idle"]
  /\ torn' = (torn \/ Regenerating # {})
  /\ Event
  /\ UNCHANGED <<stored, cert, key, input, candidate, own>>

-----------------------------------------------------------------------------

(***************************************************************************)
(* StartsAgain: whatever settings requests do to each other, the panel     *)
(* that starts next finds settings that serve accepts and, unless the last *)
(* replacement of the leaf was cut short or overlapped another one, a      *)
(* certificate with its own key (main.go Validate and ListenAndServeTLS).  *)
(***************************************************************************)
StartsAgain ==
  /\ Valid(Stored("panel_path"), Stored("subscription_path"))
  /\ Regenerating = {} /\ ~ torn => cert = key
=============================================================================
