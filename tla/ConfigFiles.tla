----------------------------- MODULE ConfigFiles -----------------------------
(***************************************************************************)
(* config.rs: the two files of the configuration.  config.json is the      *)
(* user's: the program reads it once, at its start, and writes it only if  *)
(* there is none.  syncPairs.json is the program's: it is rewritten, in    *)
(* place, before each launch of the Filen CLI, which reads it.  Any write  *)
(* may fail half-way, and the program may die at any moment.               *)
(*                                                                         *)
(* An option has its default or a value the user chose.                    *)
(***************************************************************************)
EXTENDS Naturals, Functions

CONSTANTS Required,   \* options without a serde default
          Optional,   \* options that may be left out
          MaxEdits,   \* bound: how often the user saves config.json
          MaxDeaths   \* bound: deaths of the program

BoundsAssumption == {MaxEdits, MaxDeaths} \subseteq Nat
OptionsAssumption == Required \cap Optional = {}

Options == Required \cup Optional
Values  == {"default", "custom"}
Configs == [Options -> Values]
Default == [o \in Options |-> "default"]

\* A file: the options it names.  A torn one was truncated, or is no JSON.
Json(options) == [kind |-> "json", options |-> options]
Missing       == [kind |-> "missing", options |-> <<>>]
Torn          == [kind |-> "torn", options |-> <<>>]
Files == {Missing, Torn} \cup {Json(f) : f \in UNION {[S -> Values] : S \in SUBSET Options}}

VARIABLES
  file, pairs,   \* config.json and syncPairs.json
  pc,            \* the program: loading, or its manager in a start transaction
  config,        \* what it runs with
  cli,           \* its CLI: "none", "launched" or "syncing"
  read,          \* the pairs that CLI has read
  edits, deaths
vars == <<file, pairs, pc, config, cli, read, edits, deaths>>

TypeOK ==
  /\ {file, pairs, read} \subseteq Files /\ config \in Configs
  /\ pc \in {"down", "load", "create", "save", "up", "truncate", "pairs", "spawn"}
  /\ cli \in {"none", "launched", "syncing"}
  /\ edits \in 0..MaxEdits /\ deaths \in 0..MaxDeaths

Init ==
  /\ file = Missing /\ pairs = Missing /\ pc = "load" /\ config = Default
  /\ cli = "none" /\ read = Missing /\ edits = 0 /\ deaths = 0
-----------------------------------------------------------------------------
\* serde: a file that lacks a required option is an error.
Parses(f) == f.kind = "json" /\ Required \subseteq DOMAIN f.options

\* What serde makes of a file that parses.
Parsed(f) == [o \in Options |-> IF o \in DOMAIN f.options THEN f.options[o] ELSE "default"]

\* What save writes: an optional value is left out if it is its default.
Saved(c) == Json(Restrict(c, {o \in Options : o \in Required \/ c[o] # "default"}))

\* Config::load, and lib.rs: on an error the program goes on with defaults.
Load ==
  /\ pc = "load"
  /\ IF Parses(file)
     THEN config' = Parsed(file) /\ pc' = "up"
     ELSE config' = Default /\ pc' = IF file = Missing THEN "create" ELSE "up"
  /\ UNCHANGED <<file, pairs, cli, read, edits, deaths>>

\* Config::save: std::fs::write truncates, then writes; its error is no more
\* than printed.
CreateFile ==
  /\ pc = "create"
  /\ \/ file' = Torn /\ pc' = "save"
     \/ pc' = "up" /\ UNCHANGED file
  /\ UNCHANGED <<pairs, config, cli, read, edits, deaths>>

SaveFile ==
  /\ pc = "save" /\ pc' = "up"
  /\ file' \in {file, Saved(config)}
  /\ UNCHANGED <<pairs, config, cli, read, edits, deaths>>
-----------------------------------------------------------------------------
\* start_sync_if_permitted: the CLI that runs is stopped first.
StartSync ==
  /\ pc = "up" /\ pc' = "truncate"
  /\ cli' = "none" /\ read' = Missing
  /\ UNCHANGED <<file, pairs, config, edits, deaths>>

\* write_sync_pairs, truncation and write, each of which may fail.
TruncatePairs ==
  /\ pc = "truncate"
  /\ \/ pairs' = Torn /\ pc' = "pairs"
     \/ pc' = "up" /\ UNCHANGED pairs
  /\ UNCHANGED <<file, config, cli, read, edits, deaths>>

\* A mutant of WritePairs: the launch does not depend on the write.
WritePairsOrNot ==
  /\ pc = "pairs" /\ pc' = "spawn"
  /\ pairs' \in {pairs, Json(config)}
  /\ UNCHANGED <<file, config, cli, read, edits, deaths>>

WritePairs ==
  /\ pc = "pairs"
  /\ \/ pairs' = Json(config) /\ pc' = "spawn"
     \/ pc' = "up" /\ UNCHANGED pairs
  /\ UNCHANGED <<file, config, cli, read, edits, deaths>>

Spawn ==
  /\ pc = "spawn" /\ pc' = "up"
  /\ cli' \in {"none", "launched"}
  /\ UNCHANGED <<file, pairs, config, read, edits, deaths>>

\* The Filen CLI reads its pairs some time after it was launched.
CliReads ==
  /\ cli = "launched" /\ cli' = "syncing"
  /\ read' = pairs
  /\ UNCHANGED <<file, pairs, pc, config, edits, deaths>>
-----------------------------------------------------------------------------
\* The user saves config.json with any options, or breaks it.  Nobody is
\* assumed to create it in the instant in which the first start does.
Edit ==
  /\ edits < MaxEdits /\ edits' = edits + 1 /\ pc \notin {"create", "save"}
  /\ file' \in Files \ {Missing}
  /\ UNCHANGED <<pairs, pc, config, cli, read, deaths>>

Die ==
  /\ deaths < MaxDeaths /\ deaths' = deaths + 1 /\ pc # "down" /\ pc' = "down"
  /\ cli' = "none" /\ read' = Missing
  /\ UNCHANGED <<file, pairs, config, edits>>

Restart ==
  /\ pc = "down" /\ pc' = "load"
  /\ UNCHANGED <<file, pairs, config, cli, read, edits, deaths>>

Program == Load \/ CreateFile \/ SaveFile \/ StartSync \/ TruncatePairs \/ WritePairs \/ Spawn

Next == Program \/ CliReads \/ Edit \/ Die \/ Restart

Spec == Init /\ [][Next]_vars
-----------------------------------------------------------------------------
\* cli/mod.rs, start_sync_if_permitted: a CLI lives outside the start
\* transactions only, and what it finds is what the last one wrote.
PairsInStep ==
  /\ cli # "none" => pc = "up"
  /\ pc = "spawn" \/ cli = "launched" => pairs = Json(config)

\* cli/mod.rs:578: a CLI syncs the folder, in the mode and with the patterns
\* its program runs with, all of them, whatever write failed or death left
\* half a file behind, and however config.json has been edited meanwhile.
SyncsConfig == cli = "syncing" => read = Json(config)

\* README.md:254-264 lists a default for each option: one that the file
\* leaves out takes it, and the others are those of the file.
\* The code does not keep it (README, Other disagreements).
OmittedTakesDefault ==
  [][pc = "load" /\ pc' = "up" /\ file.kind = "json" => config' = Parsed(file)]_vars
=============================================================================
