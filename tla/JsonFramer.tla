----------------------------- MODULE JsonFramer -----------------------------
(***************************************************************************)
(* cli/framer.rs: the framer that cuts the CLI's stdout into JSON objects  *)
(* and lines of text, one character at a time.  Its state outlives a chunk *)
(* of input, so where the chunks end makes no difference.                  *)
(*                                                                         *)
(* Beside it goes the writer: the nesting, strings and layout of what the  *)
(* CLI prints, and the frame that is due after each character.             *)
(***************************************************************************)
EXTENDS Naturals, Sequences, FiniteSetsExt

CONSTANTS MaxBuffer,   \* MAX_BUFFER_BYTES
          MaxLevel     \* how deep the writer nests objects

FramerAssumption == {MaxBuffer, MaxLevel} \subseteq Nat \ {0}

\* A letter stands for all that means nothing to the framer, a blank for
\* spaces, tabs and carriage returns.  (A carriage return that opens a line of
\* text is not kept: one byte of an over-long line, and trimmed otherwise.)
Chars == {"open", "close", "quote", "backslash", "newline", "blank", "letter"}
Space == {"newline", "blank"}

VARIABLES
  buffer, depth, inString, escaped,
  discardingText, discarding, discardLineStart, discardClosingLine,
  frames,                                  \* what the last character completed
  record, level, quoted, escaping, column, \* the writer
  brace,                                   \* while an object is discarded: its
                                           \* line so far is a brace and blanks
  due,
  wellFormed                               \* the CLI keeps to JSON and to its layout

flags == <<discardingText, discarding, discardLineStart, discardClosingLine>>
framer == <<buffer, depth, inString, escaped, flags, frames>>
writer == <<record, level, quoted, escaping, column, brace, due>>
vars == <<framer, writer, wellFormed>>

Frame(kind, text) == [kind |-> kind, text |-> text]

Solid(s) == {i \in DOMAIN s : s[i] \notin Space}
Blank(s) == Solid(s) = {}
Trim(s)  == IF Blank(s) THEN <<>> ELSE SubSeq(s, Min(Solid(s)), Max(Solid(s)))

TypeOK ==
  /\ buffer \in Seq(Chars) /\ Len(buffer) <= IF depth = 0 THEN MaxBuffer ELSE MaxBuffer + 1
  /\ depth \in 0..(MaxBuffer + MaxLevel)
  /\ {inString, escaped, discardingText, discarding, discardLineStart,
      discardClosingLine, wellFormed} \subseteq BOOLEAN
  /\ discarding \/ discardingText => buffer = <<>>
  /\ column \in {"start", "later"} /\ brace \in BOOLEAN
  /\ Len(frames) <= 1

Init ==
  /\ buffer = <<>> /\ depth = 0 /\ inString = FALSE /\ escaped = FALSE
  /\ discardingText = FALSE /\ discarding = FALSE
  /\ discardLineStart = FALSE /\ discardClosingLine = FALSE /\ frames = <<>>
  /\ record = <<>> /\ level = 0 /\ quoted = FALSE /\ escaping = FALSE
  /\ column = "start" /\ brace = FALSE /\ due = <<>>
  /\ wellFormed \in BOOLEAN

-----------------------------------------------------------------------------
(* push_chunk, for one character                                           *)

Reset ==
  /\ buffer' = <<>> /\ depth' = 0 /\ inString' = FALSE /\ escaped' = FALSE
  /\ discardingText' = FALSE /\ discarding' = FALSE
  /\ discardLineStart' = FALSE /\ discardClosingLine' = FALSE

SkipText(ch) ==
  /\ discardingText
  /\ discardingText' = (ch # "newline")
  /\ frames' = <<>>
  /\ UNCHANGED <<buffer, depth, inString, escaped, discarding, discardLineStart,
                 discardClosingLine>>

AtTop == ~discardingText /\ depth = 0 /\ ~discarding

OpenObject(ch) ==
  /\ AtTop /\ ch = "open" /\ Blank(buffer)
  /\ buffer' = Append(buffer, ch) /\ depth' = 1 /\ frames' = <<>>
  /\ UNCHANGED <<inString, escaped, flags>>

EndText(ch) ==
  /\ AtTop /\ ch = "newline"
  /\ frames' = IF Blank(buffer) THEN <<>> ELSE <<Frame("Text", Trim(buffer))>>
  /\ buffer' = <<>>
  /\ UNCHANGED <<depth, inString, escaped, flags>>

CollectText(ch) ==
  /\ AtTop /\ ch # "newline" /\ ~(ch = "open" /\ Blank(buffer))
  /\ frames' = <<>>
  /\ IF Len(buffer) < MaxBuffer
     THEN buffer' = Append(buffer, ch) /\ UNCHANGED discardingText
     ELSE buffer' = <<>> /\ discardingText' = TRUE
  /\ UNCHANGED <<depth, inString, escaped, discarding, discardLineStart, discardClosingLine>>

\* A brace alone in its line, at column zero, ends what is being discarded.
DiscardBoundary(ch) == discarding /\ ch = "newline" /\ discardClosingLine

Nesting(ch) ==
  IF inString
  THEN /\ escaped' = (~escaped /\ ch = "backslash")
       /\ inString' = (escaped \/ ch # "quote")
       /\ UNCHANGED depth
  ELSE /\ inString' = (ch = "quote") /\ UNCHANGED escaped
       /\ depth' = CASE ch = "open" -> depth + 1 [] ch = "close" -> depth - 1 [] OTHER -> depth

Closes(ch) == ~inString /\ ch = "close" /\ depth = 1

\* The object is complete, or a boundary gives up what was being discarded.
EndObject(ch) ==
  /\ ~discardingText /\ ~AtTop /\ (Closes(ch) \/ DiscardBoundary(ch))
  /\ frames' = IF discarding THEN <<>> ELSE <<Frame("Json", Trim(Append(buffer, ch)))>>
  /\ Reset

\* A mutant of OverflowObject: the nesting is forgotten with the buffer.
OverflowForgets(ch) ==
  /\ ~discardingText /\ ~AtTop /\ ~discarding /\ ~Closes(ch) /\ Len(buffer) >= MaxBuffer
  /\ frames' = <<>> /\ Reset

OverflowObject(ch) ==
  /\ ~discardingText /\ ~AtTop /\ ~discarding /\ ~Closes(ch) /\ Len(buffer) >= MaxBuffer
  /\ buffer' = <<>> /\ discarding' = TRUE
  /\ discardLineStart' = (ch = "newline") /\ discardClosingLine' = FALSE
  /\ frames' = <<>> /\ Nesting(ch) /\ UNCHANGED discardingText

CollectObject(ch) ==
  /\ ~discardingText /\ ~AtTop /\ ~discarding /\ ~Closes(ch) /\ Len(buffer) < MaxBuffer
  /\ buffer' = Append(buffer, ch) /\ frames' = <<>> /\ Nesting(ch)
  /\ UNCHANGED flags

\* A mutant of DiscardObject: the layout is not watched.
DiscardBlindly(ch) ==
  /\ discarding /\ ~Closes(ch) /\ ~DiscardBoundary(ch)
  /\ frames' = <<>> /\ Nesting(ch) /\ UNCHANGED <<buffer, flags>>

DiscardObject(ch) ==
  /\ discarding /\ ~Closes(ch) /\ ~DiscardBoundary(ch)
  /\ discardLineStart' = (ch = "newline" \/ (discardClosingLine /\ ch = "blank" /\ discardLineStart))
  /\ discardClosingLine' = \/ ch = "close" /\ discardLineStart
                           \/ ch = "blank" /\ discardClosingLine
  /\ frames' = <<>> /\ Nesting(ch) /\ UNCHANGED <<buffer, discardingText, discarding>>

PushChar(ch) ==
  \/ SkipText(ch) \/ OpenObject(ch) \/ EndText(ch) \/ CollectText(ch)
  \/ EndObject(ch) \/ OverflowObject(ch) \/ CollectObject(ch) \/ DiscardObject(ch)

-----------------------------------------------------------------------------
(* The writer                                                              *)

\* An object is not indented out of the buffer, strings keep to their line,
\* and inside an object only its last brace stands at the start of a line.
Legal(ch) ==
  CASE level = 0 -> ch = "open" /\ Blank(record) => Len(record) < MaxBuffer
    [] level > 0 /\ quoted -> ch # "newline"
    [] OTHER -> /\ ch # "backslash" /\ (ch = "open" => level < MaxLevel)
                /\ column = "start" => ch = "blank" \/ (ch = "close" /\ level = 1)

Opens(ch) == level = 0 /\ ch = "open" /\ Blank(record) /\ Len(record) <= MaxBuffer
Ends(ch)  == IF level = 0 THEN ch = "newline" ELSE level = 1 /\ ~quoted /\ ch = "close"

\* Records up to the limit are due when they end, and no other frame is.
Write(ch) ==
  /\ record' = IF Ends(ch) THEN <<>>
               ELSE IF Len(record) > MaxBuffer THEN record ELSE Append(record, ch)
  /\ due' = IF ~Ends(ch) \/ Len(record) > MaxBuffer THEN <<>>
            ELSE IF level > 0 THEN <<Frame("Json", Trim(Append(record, ch)))>>
            ELSE IF Blank(record) THEN <<>> ELSE <<Frame("Text", Trim(record))>>
  /\ level' = IF Opens(ch) THEN 1
              ELSE IF level = 0 \/ quoted THEN level
              ELSE CASE ch = "open" -> level + 1 [] ch = "close" -> level - 1 [] OTHER -> level
  /\ quoted' = IF level = 0 THEN FALSE
               ELSE IF quoted THEN escaping \/ ch # "quote" ELSE ch = "quote"
  /\ escaping' = (quoted /\ ~escaping /\ ch = "backslash")
  /\ column' = IF ch = "newline" THEN "start" ELSE "later"
  /\ brace' = \/ discarding /\ column = "start" /\ ch = "close"
              \/ brace /\ ch = "blank"

\* Without its rules the writer is only the line it is in.
Scribble(ch) ==
  /\ column' = IF ch = "newline" THEN "start" ELSE "later"
  /\ brace' = \/ discarding /\ column = "start" /\ ch = "close"
              \/ brace /\ ch = "blank"
  /\ UNCHANGED <<record, level, quoted, escaping, due>>

Next ==
  \E ch \in Chars :
    /\ PushChar(ch)
    /\ UNCHANGED wellFormed
    /\ \/ wellFormed /\ Legal(ch) /\ Write(ch)
       \/ ~wellFormed /\ (ch = "open" => depth < MaxBuffer + MaxLevel) /\ Scribble(ch)

Spec == Init /\ [][Next]_vars
-----------------------------------------------------------------------------
\* What is handed on as JSON is one whole object, whatever was read: nesting
\* is positive until the last brace, strings and escapes taken into account.
Outside == [depth |-> 0, string |-> FALSE, escape |-> FALSE]

Scanned(s, ch) ==
  [depth  |-> IF s.string \/ ch \notin {"open", "close"} THEN s.depth
              ELSE IF ch = "open" THEN s.depth + 1
              ELSE IF s.depth = 0 THEN 0 ELSE s.depth - 1,
   string |-> IF s.string THEN s.escape \/ ch # "quote" ELSE ch = "quote",
   escape |-> s.string /\ ~s.escape /\ ch = "backslash"]

Scan(text) ==
  LET step[i \in 0..Len(text)] == IF i = 0 THEN Outside ELSE Scanned(step[i - 1], text[i])
  IN step

JsonIsWhole ==
  \A i \in DOMAIN frames : frames[i].kind = "Json" =>
    LET text == frames[i].text
        scan == Scan(text)
    IN /\ \A n \in 1..(Len(text) - 1) : scan[n].depth > 0
       /\ scan[Len(text)].depth = 0

\* framer.rs:6-12: of a CLI that keeps to JSON and to its layout each record
\* is framed when it ends, whatever its strings hold, and one that is too
\* long is dropped without a piece of it or a record after it being lost.  Of
\* any other output what is handed on as JSON is whole.
FramesExact == JsonIsWhole /\ (wellFormed => frames = due)

-----------------------------------------------------------------------------
(* What these rest on                                                      *)

\* The flags exclude each other, and what is discarded remembers its line.
FlagsFit ==
  /\ discardingText => depth = 0 /\ ~discarding
  /\ discarding => depth > 0
  /\ depth = 0 => ~inString
  /\ escaped => inString
  /\ brace => depth = 0 \/ discardClosingLine
  /\ discarding /\ column = "start" => discardLineStart
  /\ discardLineStart \/ discardClosingLine => discarding

\* The object in the buffer, and where its scan is.
From(s) == SubSeq(s, Min(Solid(s)), Len(s))
ObjectScanned ==
  depth > 0 /\ ~discarding =>
    LET scan == Scan(From(buffer))
    IN /\ ~Blank(buffer) /\ \A n \in 1..Len(From(buffer)) : scan[n].depth > 0
       /\ scan[Len(From(buffer))] = [depth |-> depth, string |-> inString, escape |-> escaped]

\* The framer is where a writer is that keeps to JSON and to its layout.
WriterFollowed ==
  wellFormed =>
    /\ record \in Seq(Chars) /\ level \in 0..MaxLevel
    /\ level = depth /\ quoted = inString /\ escaping = escaped
    /\ IF Len(record) > MaxBuffer THEN discarding \/ discardingText
       ELSE ~discarding /\ ~discardingText /\ buffer = record
    /\ ~discardClosingLine /\ (discardLineStart => column = "start")
    /\ level > 0 /\ column = "start" => ~quoted

FramerInv == TypeOK /\ FlagsFit /\ ObjectScanned /\ WriterFollowed

\* framer.rs:92-96: however broken an oversized object was, the line that
\* holds nothing but its last brace brings the framer back to the top.
Recovers ==
  [][discarding /\ brace /\ column' = "start" => ~discarding' /\ depth' = 0]_vars
=============================================================================
