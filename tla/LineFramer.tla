----------------------------- MODULE LineFramer -----------------------------
(***************************************************************************)
(* cli/mod.rs: BoundedLineFramer, which cuts the CLI's stderr into         *)
(* records, byte by byte, and takes the last one when the stream ends.     *)
(***************************************************************************)
EXTENDS Naturals, Sequences, SequencesExt

CONSTANTS MaxBytes    \* max_bytes

LineAssumption == MaxBytes \in Nat \ {0}

\* A letter stands for every other byte.
Bytes == {"letter", "return", "newline"}

VARIABLES buffer, discarding,
          records,   \* what the last byte, or the end, completed
          line,      \* ghost: the record so far, one byte past the limit at most
          ended
vars == <<buffer, discarding, records, line, ended>>

TypeOK ==
  /\ buffer \in Seq(Bytes \ {"newline"}) /\ Len(buffer) <= MaxBytes
  /\ discarding \in BOOLEAN /\ (discarding => buffer = <<>>)
  /\ Len(records) <= 1 /\ Len(line) <= MaxBytes + 1 /\ ended \in BOOLEAN

Init == /\ buffer = <<>> /\ discarding = FALSE /\ records = <<>>
        /\ line = <<>> /\ ended = FALSE

\* A record without the carriage return of its line end, none if that is all.
Chomp(text) == IF IsSuffix(<<"return">>, text) THEN Front(text) ELSE text
Nonempty(text) == IF text = <<>> THEN <<>> ELSE <<text>>

TakeRecord == records' = Nonempty(Chomp(buffer)) /\ buffer' = <<>>

SkipByte(byte) ==
  /\ discarding /\ discarding' = (byte # "newline")
  /\ records' = <<>> /\ UNCHANGED buffer

EndLine(byte) ==
  /\ ~discarding /\ byte = "newline" /\ TakeRecord /\ UNCHANGED discarding

\* A mutant of Overflow: the rest of a long record is read as a record.
OverflowInPieces(byte) ==
  /\ ~discarding /\ byte # "newline" /\ Len(buffer) = MaxBytes
  /\ buffer' = <<>> /\ records' = <<>> /\ UNCHANGED discarding

Overflow(byte) ==
  /\ ~discarding /\ byte # "newline" /\ Len(buffer) = MaxBytes
  /\ buffer' = <<>> /\ discarding' = TRUE /\ records' = <<>>

\* A mutant of Collect: the limit is one byte off.
CollectOneMore(byte) ==
  /\ ~discarding /\ byte # "newline" /\ Len(buffer) <= MaxBytes
  /\ buffer' = Append(buffer, byte) /\ records' = <<>> /\ UNCHANGED discarding

Collect(byte) ==
  /\ ~discarding /\ byte # "newline" /\ Len(buffer) < MaxBytes
  /\ buffer' = Append(buffer, byte) /\ records' = <<>> /\ UNCHANGED discarding

PushByte ==
  /\ ~ended /\ UNCHANGED ended
  /\ \E byte \in Bytes :
       /\ SkipByte(byte) \/ EndLine(byte) \/ Overflow(byte) \/ Collect(byte)
       /\ line' = IF byte = "newline" THEN <<>>
                  ELSE IF Len(line) > MaxBytes THEN line ELSE Append(line, byte)

Finish ==
  /\ ~ended /\ ended' = TRUE
  /\ IF discarding
     THEN discarding' = FALSE /\ buffer' = <<>> /\ records' = <<>>
     ELSE TakeRecord /\ UNCHANGED discarding
  /\ line' = <<>>

Next == PushByte \/ Finish

Spec == Init /\ [][Next]_vars
-----------------------------------------------------------------------------
\* The buffer is the record so far, and a record is discarded from the byte
\* on that passes the limit.
BufferIsLine ==
  /\ line \in Seq(Bytes) /\ (discarding <=> Len(line) > MaxBytes)
  /\ buffer = IF discarding THEN <<>> ELSE line

\* cli/mod.rs:303-305: a record of at most the limit is handed on whole when
\* its line or the stream ends, a longer one not at all, and neither leaves
\* anything to the next.
RecordsExact ==
  [][records' = IF line' # <<>> \/ Len(line) > MaxBytes THEN <<>>
                ELSE Nonempty(Chomp(line))]_vars
=============================================================================
