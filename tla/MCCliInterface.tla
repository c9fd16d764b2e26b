--------------------------- MODULE MCCliInterface ---------------------------
(***************************************************************************)
(* Model checking of what passes between the application and the Filen     *)
(* CLI: the characters, bytes and lines the CLI prints, the dialogue of a  *)
(* login, and the configuration it is given in a file.  The five parts     *)
(* share no state.  A behaviour is one of the part it begins with; the     *)
(* others stay as they are initially.                                      *)
(***************************************************************************)
EXTENDS Naturals

CONSTANTS MaxBuffer, MaxLevel,               \* JsonFramer
          MaxStream, MaxRead, Kinds,         \* Utf8Chunks
          MaxLine,                           \* LineFramer
          MaxChunk, BufferLimit, MaxNoise,   \* LoginDialogue
          Required, Optional, MaxEdits, MaxDeaths   \* ConfigFiles

VARIABLES
  part,
  buffer, depth, inString, escaped, discardingText, discarding, discardLineStart,
  discardClosingLine, frames, record, level, quoted, escaping, column, brace, due, wellFormed,
  stream, pending, decoded, ended,
  lineBuffer, discardingLine, records, line, lineEnded,
  alive, asks, told, given, terminal, input, output, sent, fields, todo, waiting,
  verdict, outcome, cancelled,
  file, pairs, pc, config, cli, read, edits, deaths

jsonVars     == <<buffer, depth, inString, escaped, discardingText, discarding,
                  discardLineStart, discardClosingLine, frames, record, level, quoted,
                  escaping, column, brace, due, wellFormed>>
utf8Vars     == <<stream, pending, decoded, ended>>
linesVars    == <<lineBuffer, discardingLine, records, line, lineEnded>>
dialogueVars == <<alive, asks, told, given, terminal, input, output, sent, fields, todo,
                  waiting, verdict, outcome, cancelled>>
configVars   == <<file, pairs, pc, config, cli, read, edits, deaths>>
vars == <<part, jsonVars, utf8Vars, linesVars, dialogueVars, configVars>>

Json == INSTANCE JsonFramer

Utf8 == INSTANCE Utf8Chunks WITH MaxBytes <- MaxStream, MaxChunk <- MaxRead, Bytes <- Kinds

Lines == INSTANCE LineFramer
           WITH MaxBytes <- MaxLine, buffer <- lineBuffer,
                discarding <- discardingLine, ended <- lineEnded

Dialogue == INSTANCE LoginDialogue

Config == INSTANCE ConfigFiles

ASSUME InterfaceAssumption ==
  /\ Json!FramerAssumption /\ Utf8!ChunksAssumption /\ Lines!LineAssumption
  /\ Dialogue!LimitAssumption /\ Config!BoundsAssumption /\ Config!OptionsAssumption

Init ==
  /\ part \in {"json", "utf8", "lines", "dialogue", "config"}
  /\ Json!Init /\ (wellFormed => part = "json")
  /\ Utf8!Init /\ Lines!Init /\ Dialogue!Init /\ Config!Init

\* One part takes a step, and what is not its own stays.
JsonStep     == part = "json" /\ Json!Next
Utf8Step     == part = "utf8" /\ Utf8!Next
LinesStep    == part = "lines" /\ Lines!Next
DialogueStep == part = "dialogue" /\ Dialogue!Next
ConfigStep   == part = "config" /\ Config!Next

Next ==
  \/ JsonStep     /\ UNCHANGED <<part, utf8Vars, linesVars, dialogueVars, configVars>>
  \/ Utf8Step     /\ UNCHANGED <<part, jsonVars, linesVars, dialogueVars, configVars>>
  \/ LinesStep    /\ UNCHANGED <<part, jsonVars, utf8Vars, dialogueVars, configVars>>
  \/ DialogueStep /\ UNCHANGED <<part, jsonVars, utf8Vars, linesVars, configVars>>
  \/ ConfigStep   /\ UNCHANGED <<part, jsonVars, utf8Vars, linesVars, dialogueVars>>

\* Where the dialogue has not begun nothing of it is enabled that is fair.
Spec == Init /\ [][Next]_vars /\ Dialogue!Fairness
-----------------------------------------------------------------------------
\* The type invariants of the five parts, and what the objects, the records,
\* the answers and the pairs of a CLI rest on.
InterfaceInv ==
  /\ Json!FramerInv /\ Utf8!TypeOK /\ Lines!TypeOK /\ Dialogue!DriverInv /\ Config!TypeOK
  /\ Lines!BufferIsLine /\ Config!PairsInStep

\* framer.rs: JsonFramer!FramesExact and JsonFramer!Recovers, of the objects
\* and lines in the CLI's stdout.
FramesExact == Json!FramesExact
Recovers    == Json!Recovers

\* cli/mod.rs: Utf8Chunks!DecodedExact, of reads that end within a character.
DecodedExact == Utf8!DecodedExact

\* cli/mod.rs: LineFramer!RecordsExact, of the records on stderr.
RecordsExact == Lines!RecordsExact

\* login.rs: DialogueInv and NothingMissed of LoginDialogue.
DialogueInv   == Dialogue!DialogueInv
NothingMissed == Dialogue!NothingMissed

\* config.rs: ConfigFiles!SyncsConfig, of files that are torn or edited.
SyncsConfig == Config!SyncsConfig
=============================================================================
