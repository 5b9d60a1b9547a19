----------------------------- MODULE RuntimeSettings -----------------------------
(***************************************************************************)
(* The administrator's runtime settings (services/system_settings.py): one *)
(* row that holds two profiles, production and development, and which of   *)
(* them everybody reads.  Earlier releases kept one flat value; it becomes *)
(* both profiles with the first write.                                     *)
(*                                                                         *)
(* Both endpoints read the row, work out a new value for all of it, and    *)
(* write it; another administrator may write in between.                   *)
(***************************************************************************)
EXTENDS Naturals

CONSTANTS
  Admins,
  Payloads,    \* the settings an administrator may send: some of the fields
  Legacy       \* modes and flat values an earlier release may have left

VARIABLES
  stored,      \* the row: absent, flat, or two profiles
  asks         \* administrator -> the request in flight

settings == <<stored, asks>>

Modes == {"production", "development"}
Fields == {"parser", "fallback", "routing", "allocation", "override"}

Allowed(f) ==
  CASE f = "parser" -> {"llm", "rule"}
    [] f = "routing" -> {"internal_auto", "external"}
    [] f = "allocation" -> {"node", "gpu_slot"}
    [] OTHER -> BOOLEAN

Defaults ==
  [parser |-> "llm", fallback |-> TRUE, routing |-> "internal_auto", allocation |-> "node",
   override |-> FALSE]

Overlaid(base, fields) == [f \in Fields |-> IF f \in DOMAIN fields THEN fields[f] ELSE base[f]]

\* What cannot be used becomes the default; an external router needs slots.
Normalized(value) ==
  LET usable == [f \in Fields |-> IF value[f] \in Allowed(f) THEN value[f] ELSE Defaults[f]]
  IN  IF usable.routing = "external" THEN [usable EXCEPT !.allocation = "gpu_slot"] ELSE usable

NoRow == [shape |-> "none", active |-> "production"]
Flat(active, value) == [shape |-> "flat", active |-> active, value |-> value]
Written(active, profiles) == [shape |-> "profiles", active |-> active, profiles |-> profiles]

Profiles ==
  [m \in Modes |->
     CASE stored.shape = "none" -> Defaults
       [] stored.shape = "flat" -> Normalized(Overlaid(Defaults, stored.value))
       [] stored.shape = "profiles" -> Normalized(stored.profiles[m])]

\* get_runtime_settings
Settings == Profiles[stored.active]

NoAsk == [kind |-> "none"]

SettingsInit ==
  /\ stored \in {NoRow} \cup {Flat(old.mode, old.value) : old \in Legacy}
  /\ asks = [a \in Admins |-> NoAsk]

\* update_runtime_settings switches to the profile it changes.
UpdateReads(a, mode, payload) ==
  /\ asks[a] = NoAsk
  /\ asks' = [asks EXCEPT ![a] =
       [kind |-> "asked", new |-> stored = NoRow, active |-> mode,
        profiles |-> [Profiles EXCEPT ![mode] = Normalized(Overlaid(@, payload))]]]
  /\ UNCHANGED stored

ActivateReads(a, mode) ==
  /\ asks[a] = NoAsk
  /\ asks' = [asks EXCEPT ![a] =
       [kind |-> "asked", new |-> stored = NoRow, active |-> mode, profiles |-> Profiles]]
  /\ UNCHANGED stored

\* The row's key is its primary key: of two first writes one fails.
SettingsWritten(a) ==
  /\ asks[a] # NoAsk
  /\ stored' = IF asks[a].new /\ stored # NoRow THEN stored
               ELSE Written(asks[a].active, asks[a].profiles)
  /\ asks' = [asks EXCEPT ![a] = NoAsk]

AdminStep(a) ==
  \/ \E mode \in Modes, payload \in Payloads : UpdateReads(a, mode, payload)
  \/ \E mode \in Modes : ActivateReads(a, mode)
  \/ SettingsWritten(a)

\* should_use_llm_intent_parser (with an API key), allow_rule_intent_fallback
UsesModel == Settings.parser = "llm"
MayFallBack == Settings.fallback
=============================================================================
