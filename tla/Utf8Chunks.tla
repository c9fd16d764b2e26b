----------------------------- MODULE Utf8Chunks -----------------------------
(***************************************************************************)
(* cli/mod.rs: how monitor_stdout turns the bytes of the CLI's stdout into *)
(* characters.  A read ends anywhere; what take_valid_utf8 leaves in       *)
(* pending is decoded with the next one.                                   *)
(***************************************************************************)
EXTENDS Naturals, Sequences, FiniteSetsExt

CONSTANTS MaxBytes,   \* bound: length of the stream
          MaxChunk,   \* the longest read
          Bytes       \* the kinds of byte the CLI writes

\* How many bytes the character takes that a byte opens.  Zero: it opens none
\* (a continuation byte, or one that UTF-8 does not have).
Width == [ascii |-> 1, two |-> 2, three |-> 3, continuation |-> 0, invalid |-> 0]

ChunksAssumption ==
  /\ {MaxBytes, MaxChunk} \subseteq Nat \ {0} /\ Bytes \subseteq DOMAIN Width

VARIABLES stream,    \* every byte read so far
          pending, decoded, ended
vars == <<stream, pending, decoded, ended>>

\* The bytes of a character, or what stands for bytes that are none.
Replacement == <<"replacement">>

TypeOK ==
  /\ stream \in Seq(Bytes) /\ Len(stream) <= MaxBytes /\ ended \in BOOLEAN
  /\ pending \in Seq(Bytes) /\ Len(pending) < 3

Init == stream = <<>> /\ pending = <<>> /\ decoded = <<>> /\ ended = FALSE
-----------------------------------------------------------------------------
(* std::str::from_utf8                                                     *)

Continued(s, i, n) == \A k \in (i + 1)..n : s[k] = "continuation"

WholeAt(s, i) ==
  LET last == i + Width[s[i]] - 1
  IN Width[s[i]] > 0 /\ last <= Len(s) /\ Continued(s, i, last)

\* Utf8Error without error_len: the input ends in the middle of a character.
CutAt(s, i) == i + Width[s[i]] - 1 > Len(s) /\ Continued(s, i, Len(s))

\* How many bytes one replacement character stands for at i.
BadBytes(s, i) ==
  IF Width[s[i]] = 0 THEN 1
  ELSE Max({n \in 1..(Len(s) - i + 1) : n < Width[s[i]] /\ Continued(s, i, i + n - 1)})

\* Where the first character is that is not whole, past the end if all are.
ErrorAt(s) ==
  LET at[i \in 1..(Len(s) + 1)] ==
        IF i <= Len(s) /\ WholeAt(s, i) THEN at[i + Width[s[i]]] ELSE i
  IN at[1]

\* String::from_utf8_lossy
Lossy(s) ==
  LET from[i \in 1..(Len(s) + 1)] ==
        IF i > Len(s) THEN <<>>
        ELSE IF WholeAt(s, i)
        THEN <<SubSeq(s, i, i + Width[s[i]] - 1)>> \o from[i + Width[s[i]]]
        ELSE <<Replacement>> \o from[i + BadBytes(s, i)]
  IN from[1]

Whole(s) == ErrorAt(s) > Len(s)
Cut(s)   == ~Whole(s) /\ CutAt(s, ErrorAt(s))
-----------------------------------------------------------------------------

\* What take_valid_utf8 leaves in the buffer, and what it takes out.
Kept(buffer) ==
  IF Cut(buffer) THEN SubSeq(buffer, ErrorAt(buffer), Len(buffer)) ELSE <<>>

Taken(buffer) == SubSeq(buffer, 1, Len(buffer) - Len(Kept(buffer)))

Read ==
  /\ ~ended
  /\ \E n \in 1..MaxChunk : \E chunk \in [1..n -> Bytes] :
       /\ Len(stream) + n <= MaxBytes
       /\ stream' = stream \o chunk
       /\ decoded' = decoded \o Lossy(Taken(pending \o chunk))
       /\ pending' = Kept(pending \o chunk)
  /\ UNCHANGED ended

\* A mutant of ReadEnd: what is pending at the end of the stream is dropped.
ReadEndSilently == ~ended /\ ended' = TRUE /\ UNCHANGED <<stream, pending, decoded>>

ReadEnd ==
  /\ ~ended /\ ended' = TRUE
  /\ decoded' = decoded \o Lossy(pending)
  /\ UNCHANGED <<stream, pending>>

Next == Read \/ ReadEnd

Spec == Init /\ [][Next]_vars
-----------------------------------------------------------------------------
\* cli/mod.rs:256: invalid bytes do not stall the monitor.  What waits is the
\* start of one character, and it ends what was read.
NothingStalls ==
  pending # <<>> =>
    /\ Cut(pending) /\ ErrorAt(pending) = 1
    /\ SubSeq(stream, Len(stream) - Len(pending) + 1, Len(stream)) = pending

\* cli/mod.rs:254-256: of a CLI that writes UTF-8 every character arrives, in
\* order and once, wherever the reads end; at the end of a stream that breaks
\* off, and only there, a replacement character stands for the cut one.
DecodedExact ==
  /\ NothingStalls
  /\ Whole(stream) \/ Cut(stream) =>
       /\ ended => decoded = Lossy(stream)
       /\ ~ended => /\ decoded = Lossy(SubSeq(stream, 1, ErrorAt(stream) - 1))
                    /\ pending = SubSeq(stream, ErrorAt(stream), Len(stream))

\* cli/mod.rs:254: a read may end in the middle of a character.  The result
\* is that of the whole stream decoded at once, invalid bytes or not.
\* The code does not keep it (README, Other disagreements).
ChunksDontMatter == ended => decoded = Lossy(stream)
=============================================================================
