------------------------ MODULE CliInterface_proofs ------------------------
(***************************************************************************)
(* The five parts of MCCliInterface, for any bounds: the records that are  *)
(* cut from stderr, the sync pairs a CLI is given, the objects and lines   *)
(* that are cut from stdout, the dialogue of a login, and the characters   *)
(* that are decoded.                                                       *)
(***************************************************************************)
EXTENDS MCCliInterface, Sequences, NaturalsInduction, WellFoundedInduction, TLAPS

-----------------------------------------------------------------------------
(* LineFramer                                                              *)

\* The step formula of LineFramer!RecordsExact.
RecordStep ==
  records' = IF line' # <<>> \/ Len(line) > MaxLine THEN <<>>
             ELSE Lines!Nonempty(Lines!Chomp(line))

LEMMA LinesInit == Init => Lines!BufferIsLine
  BY InterfaceAssumption DEF Init, Lines!Init, Lines!BufferIsLine, Lines!LineAssumption

LEMMA LinesNext ==
  ASSUME Lines!BufferIsLine, Lines!Next
  PROVE  Lines!BufferIsLine' /\ RecordStep
<1>0. MaxLine \in Nat \ {0}
  BY InterfaceAssumption DEF Lines!LineAssumption
<1>1. /\ line \in Seq(Lines!Bytes) /\ Len(line) \in Nat
      /\ discardingLine <=> Len(line) > MaxLine
      /\ lineBuffer = IF discardingLine THEN <<>> ELSE line
  BY DEF Lines!BufferIsLine
<1>2. CASE Lines!PushByte
  <2>1. PICK byte \in Lines!Bytes :
          /\ Lines!SkipByte(byte) \/ Lines!EndLine(byte) \/ Lines!Overflow(byte) \/ Lines!Collect(byte)
          /\ line' = IF byte = "newline" THEN <<>>
                     ELSE IF Len(line) > MaxLine THEN line ELSE Append(line, byte)
    BY <1>2 DEF Lines!PushByte
  <2>2. byte = "newline" => line' = <<>>
    BY <2>1
  <2>3. byte # "newline" /\ Len(line) > MaxLine => line' = line
    BY <2>1
  <2>4. byte # "newline" /\ ~(Len(line) > MaxLine) =>
          line' = Append(line, byte) /\ Len(line') = Len(line) + 1
    BY <1>1, <2>1
  <2>5. line' \in Seq(Lines!Bytes)
    BY <1>1, <2>1, <2>2, <2>3, <2>4
  <2>6. CASE Lines!SkipByte(byte)
    <3>1. /\ discardingLine /\ Len(line) > MaxLine /\ lineBuffer = <<>>
          /\ discardingLine' = (byte # "newline") /\ records' = <<>> /\ lineBuffer' = <<>>
      BY <1>1, <2>6 DEF Lines!SkipByte
    <3>2. CASE byte = "newline"
      <4>1. ~discardingLine' /\ line' = <<>> /\ Len(line') = 0
        BY <2>2, <3>1, <3>2
      <4> QED BY <1>0, <2>5, <3>1, <4>1 DEF Lines!BufferIsLine, RecordStep
    <3>3. CASE byte # "newline"
      <4>1. discardingLine' /\ line' = line
        BY <2>3, <3>1, <3>3
      <4> QED BY <2>5, <3>1, <4>1 DEF Lines!BufferIsLine, RecordStep
    <3> QED BY <3>2, <3>3
  <2>7. CASE Lines!EndLine(byte)
    BY <1>0, <1>1, <2>2, <2>5, <2>7
       DEF Lines!EndLine, Lines!TakeRecord, Lines!BufferIsLine, RecordStep
  <2>8. CASE Lines!Overflow(byte)
    BY <1>0, <1>1, <2>4, <2>5, <2>8 DEF Lines!Overflow, Lines!BufferIsLine, RecordStep
  <2>9. CASE Lines!Collect(byte)
    BY <1>0, <1>1, <2>4, <2>5, <2>9 DEF Lines!Collect, Lines!BufferIsLine, RecordStep
  <2> QED BY <2>1, <2>6, <2>7, <2>8, <2>9
<1>3. CASE Lines!Finish
  BY <1>0, <1>1, <1>3 DEF Lines!Finish, Lines!TakeRecord, Lines!BufferIsLine, RecordStep
<1> QED BY <1>2, <1>3 DEF Lines!Next

LEMMA LinesStutter ==
  ASSUME Lines!BufferIsLine, UNCHANGED linesVars
  PROVE  Lines!BufferIsLine'
  BY DEF linesVars, Lines!BufferIsLine

LEMMA LinesKeeps ==
  ASSUME Lines!BufferIsLine, [Next]_vars
  PROVE  Lines!BufferIsLine' /\ [RecordStep]_(Lines!vars)
<1>1. CASE LinesStep
  BY <1>1, LinesNext DEF LinesStep
<1>2. CASE UNCHANGED linesVars
  BY <1>2, LinesStutter DEF linesVars, Lines!vars
<1>3. LinesStep \/ UNCHANGED linesVars
  BY DEF Next, vars
<1> QED BY <1>1, <1>2, <1>3

\* cli/mod.rs, BoundedLineFramer: whatever the limit and the bytes, a record
\* of at most the limit is handed on whole, a longer one not at all, and
\* neither leaves anything to the next.
THEOREM RecordsFramed == Spec => RecordsExact
<1>1. [][RecordStep]_(Lines!vars) <=> RecordsExact
  BY PTL DEF RecordStep, RecordsExact, Lines!RecordsExact
<1> QED BY <1>1, LinesInit, LinesKeeps, PTL DEF Spec

-----------------------------------------------------------------------------
(* ConfigFiles                                                             *)

ConfigInv == Config!PairsInStep /\ Config!SyncsConfig

LEMMA ConfigInit == Init => ConfigInv
  BY DEF Init, Config!Init, ConfigInv, Config!PairsInStep, Config!SyncsConfig

LEMMA ConfigNext ==
  ASSUME ConfigInv, Config!Next
  PROVE  ConfigInv'
<1> USE DEF ConfigInv, Config!PairsInStep, Config!SyncsConfig
<1>1. CASE Config!Load \/ Config!CreateFile \/ Config!SaveFile
  BY <1>1 DEF Config!Load, Config!CreateFile, Config!SaveFile
<1>2. CASE Config!StartSync
  BY <1>2 DEF Config!StartSync
<1>3. CASE Config!TruncatePairs
  BY <1>3 DEF Config!TruncatePairs
<1>4. CASE Config!WritePairs
  BY <1>4 DEF Config!WritePairs
<1>5. CASE Config!Spawn
  BY <1>5 DEF Config!Spawn
<1>6. CASE Config!CliReads
  BY <1>6 DEF Config!CliReads
<1>7. CASE Config!Edit
  BY <1>7 DEF Config!Edit
<1>8. CASE Config!Die \/ Config!Restart
  BY <1>8 DEF Config!Die, Config!Restart
<1> QED BY <1>1, <1>2, <1>3, <1>4, <1>5, <1>6, <1>7, <1>8 DEF Config!Next, Config!Program

LEMMA ConfigKeeps ==
  ASSUME ConfigInv, [Next]_vars
  PROVE  ConfigInv'
<1>1. CASE ConfigStep
  BY <1>1, ConfigNext DEF ConfigStep
<1>2. CASE UNCHANGED configVars
  BY <1>2 DEF configVars, ConfigInv, Config!PairsInStep, Config!SyncsConfig
<1>3. ConfigStep \/ UNCHANGED configVars
  BY DEF Next, vars
<1> QED BY <1>1, <1>2, <1>3

\* cli/mod.rs:578: whatever write fails, and whenever the user edits
\* config.json or the program dies, a CLI that syncs has read the pairs of
\* the configuration its program runs with.
THEOREM PairsAreConfig == Spec => []SyncsConfig
<1>1. ConfigInv => SyncsConfig
  BY DEF ConfigInv, SyncsConfig
<1> QED BY <1>1, ConfigInit, ConfigKeeps, PTL DEF Spec

-----------------------------------------------------------------------------
(* JsonFramer: the scan of a text                                          *)

LEMMA Limits == MaxBuffer \in Nat /\ MaxBuffer > 0 /\ MaxLevel \in Nat /\ MaxLevel > 0
  BY InterfaceAssumption DEF Json!FramerAssumption

LEMMA Smallest ==
  ASSUME NEW S \in SUBSET Nat, S # {}
  PROVE  \E n \in S : \A m \in S : ~(m < n)
<1> DEFINE R == OpToRel(<, Nat)
<1>1. IsWellFoundedOn(R, Nat)
  BY NatLessThanWellFounded
<1>2. \A m \in Nat, n \in Nat : m < n => <<m, n>> \in R
  BY DEF OpToRel
<1> HIDE DEF R
<1>3. PICK n \in S : \A m \in S : ~(<<m, n>> \in R)
  BY <1>1, WFMin
<1>4. \A m \in S : ~(m < n)
  <2> TAKE m \in S
  <2>1. ~(<<m, n>> \in R)
    BY <1>3
  <2>2. m \in Nat /\ n \in Nat
    OBVIOUS
  <2>3. m < n => <<m, n>> \in R
    BY <1>2, <2>2, Zenon
  <2> QED BY <2>1, <2>3
<1> QED BY <1>4

IsScan(f, text, n) ==
  /\ f = [i \in 0..n |-> f[i]] /\ f[0] = Json!Outside
  /\ \A i \in 1..n : f[i] = Json!Scanned(f[i - 1], text[i])

LEMMA ScanExists ==
  ASSUME NEW text \in Seq(Json!Chars)
  PROVE  \E f : IsScan(f, text, Len(text))
<1> DEFINE Without == {n \in Nat : n <= Len(text) /\ ~ \E f : IsScan(f, text, n)}
<1>0. Len(text) \in Nat
  OBVIOUS
<1>1. SUFFICES ASSUME Without # {} PROVE FALSE
  BY <1>0
<1>2. PICK n \in Without : \A m \in Without : ~(m < n)
  <2>1. Without \in SUBSET Nat
    OBVIOUS
  <2> HIDE DEF Without
  <2> QED BY <1>1, <2>1, Smallest
<1>3. n \in Nat /\ n <= Len(text) /\ ~ \E f : IsScan(f, text, n)
  BY <1>2
<1>4. n # 0
  <2>1. ASSUME n = 0 PROVE FALSE
    <3>1. IsScan([i \in 0..0 |-> Json!Outside], text, 0)
      BY DEF IsScan
    <3> QED BY <1>3, <2>1, <3>1
  <2> QED BY <2>1
<1>5. n - 1 \in Nat /\ n - 1 <= Len(text) /\ n - 1 < n /\ n \in 1..Len(text)
  BY <1>0, <1>3, <1>4
<1>6. n - 1 \notin Without
  BY <1>2, <1>5
<1>7. PICK f : IsScan(f, text, n - 1)
  BY <1>5, <1>6
<1>8. f[0] = Json!Outside /\ \A i \in 1..(n - 1) : f[i] = Json!Scanned(f[i - 1], text[i])
  BY <1>7 DEF IsScan
<1> DEFINE last == Json!Scanned(f[n - 1], text[n])
           g == [i \in 0..n |-> IF i = n THEN last ELSE f[i]]
<1> HIDE DEF last
<1>10. g = [i \in 0..n |-> g[i]]
  OBVIOUS
<1>11. g[0] = Json!Outside
  <2>1. 0 \in 0..n /\ 0 # n
    BY <1>3, <1>4
  <2> QED BY <1>8, <2>1
<1>12. \A i \in 1..n : g[i] = Json!Scanned(g[i - 1], text[i])
  <2> TAKE i \in 1..n
  <2>1. i \in 0..n /\ i - 1 \in 0..n /\ i - 1 # n /\ (i # n => i \in 1..(n - 1))
    BY <1>3
  <2>2. g[i - 1] = f[i - 1] /\ (i = n => g[i] = last) /\ (i # n => g[i] = f[i])
    BY <2>1
  <2> HIDE DEF g
  <2> QED BY <1>8, <2>1, <2>2 DEF last
<1>13. IsScan(g, text, n)
  <2> HIDE DEF g
  <2> QED BY <1>10, <1>11, <1>12 DEF IsScan
<1> QED BY <1>3, <1>13

LEMMA ScanIs ==
  ASSUME NEW text \in Seq(Json!Chars)
  PROVE  IsScan(Json!Scan(text), text, Len(text))
<1> DEFINE n == Len(text)
           Equation(f) == f = [i \in 0..n |-> IF i = 0 THEN Json!Outside
                                              ELSE Json!Scanned(f[i - 1], text[i])]
<1>0. n \in Nat
  OBVIOUS
<1>1. PICK f : IsScan(f, text, n)
  BY ScanExists
<1>2. f = [i \in 0..n |-> f[i]]
  BY <1>1 DEF IsScan
<1>3. \A i \in 0..n : f[i] = IF i = 0 THEN Json!Outside ELSE Json!Scanned(f[i - 1], text[i])
  <2>1. \A i \in 0..n : i # 0 => i \in 1..n
    BY <1>0
  <2> HIDE DEF n
  <2> QED BY <1>1, <2>1 DEF IsScan
<1>4. Equation(f)
  <2> HIDE DEF n
  <2> QED BY <1>2, <1>3, Zenon
<1>5. Json!Scan(text) = CHOOSE g : Equation(g)
  BY Zenon DEF Json!Scan
<1>6. Equation(Json!Scan(text))
  <2> HIDE DEF Equation
  <2> QED BY <1>4, <1>5, Zenon
<1> DEFINE scan == Json!Scan(text)
<1>7. scan = [i \in 0..n |-> IF i = 0 THEN Json!Outside ELSE Json!Scanned(scan[i - 1], text[i])]
  BY <1>6, Zenon
<1>8. DOMAIN scan = 0..n
      /\ \A i \in 0..n : scan[i] = IF i = 0 THEN Json!Outside ELSE Json!Scanned(scan[i - 1], text[i])
  <2> HIDE DEF scan, n
  <2> QED BY <1>7
<1>9. scan = [i \in 0..n |-> scan[i]]
  <2> HIDE DEF scan, n
  <2> QED BY <1>7
<1>10. scan[0] = Json!Outside /\ \A i \in 1..n : scan[i] = Json!Scanned(scan[i - 1], text[i])
  <2>1. 0 \in 0..n /\ \A i \in 1..n : i \in 0..n /\ i # 0
    BY <1>0
  <2> HIDE DEF scan, n
  <2> QED BY <1>8, <2>1
<1> QED BY <1>9, <1>10 DEF IsScan

LEMMA ScanUnique ==
  ASSUME NEW n \in Nat, NEW f, NEW g, NEW s, NEW t, IsScan(f, s, n), IsScan(g, t, n),
         \A i \in 1..n : s[i] = t[i]
  PROVE  \A i \in 0..n : f[i] = g[i]
<1> DEFINE Differ == {i \in Nat : i <= n /\ f[i] # g[i]}
<1>1. SUFFICES ASSUME Differ # {} PROVE FALSE
  OBVIOUS
<1>2. PICK i \in Differ : \A m \in Differ : ~(m < i)
  <2>1. Differ \in SUBSET Nat
    OBVIOUS
  <2> HIDE DEF Differ
  <2> QED BY <1>1, <2>1, Smallest
<1>3. i \in Nat /\ i <= n /\ f[i] # g[i]
  BY <1>2
<1>4. i # 0
  BY <1>3 DEF IsScan
<1>5. i \in 1..n /\ i - 1 \in Nat /\ i - 1 <= n /\ i - 1 < i
  BY <1>3, <1>4
<1>6. f[i - 1] = g[i - 1]
  BY <1>2, <1>5
<1>7. f[i] = Json!Scanned(f[i - 1], s[i]) /\ g[i] = Json!Scanned(g[i - 1], t[i])
  BY <1>5 DEF IsScan
<1> QED BY <1>3, <1>5, <1>6, <1>7

LEMMA ScanGrows ==
  ASSUME NEW text \in Seq(Json!Chars), NEW ch \in Json!Chars
  PROVE  /\ \A i \in 0..Len(text) : Json!Scan(Append(text, ch))[i] = Json!Scan(text)[i]
         /\ Json!Scan(Append(text, ch))[Len(text) + 1] = Json!Scanned(Json!Scan(text)[Len(text)], ch)
<1> DEFINE n == Len(text)
           new == Append(text, ch)
           f == Json!Scan(new)
           g == Json!Scan(text)
<1>1. /\ n \in Nat /\ new \in Seq(Json!Chars) /\ Len(new) = n + 1 /\ new[n + 1] = ch
      /\ \A i \in 1..n : new[i] = text[i]
  OBVIOUS
<1>2. IsScan(f, new, n + 1) /\ IsScan(g, text, n)
  BY <1>1, ScanIs
<1> HIDE DEF new, f, g
<1>3. \A i \in 0..n : f[i] = g[i]
  <2>1. f[0] = Json!Outside /\ \A i \in 1..(n + 1) : f[i] = Json!Scanned(f[i - 1], new[i])
    BY <1>2 DEF IsScan
  <2> DEFINE h == [i \in 0..n |-> f[i]]
  <2>2. IsScan(h, new, n)
    <3> HIDE DEF n
    <3>1. h = [i \in 0..n |-> h[i]] /\ 0 \in 0..n
      BY <1>1
    <3>2. \A i \in 1..n : i \in 0..n /\ i - 1 \in 0..n /\ i \in 1..(n + 1)
      BY <1>1
    <3>3. \A i \in 0..n : h[i] = f[i]
      OBVIOUS
    <3> HIDE DEF h
    <3> QED BY <2>1, <3>1, <3>2, <3>3 DEF IsScan
  <2>3. \A i \in 0..n : h[i] = f[i]
    OBVIOUS
  <2> HIDE DEF h, n
  <2>4. \A i \in 0..n : h[i] = g[i]
    BY <1>1, <1>2, <2>2, ScanUnique
  <2> QED BY <2>3, <2>4
<1>4. f[n + 1] = Json!Scanned(g[n], ch)
  <2> HIDE DEF n
  <2>1. n + 1 \in 1..(n + 1) /\ n + 1 - 1 = n /\ n \in 0..n
    BY <1>1
  <2>2. \A i \in 1..(n + 1) : f[i] = Json!Scanned(f[i - 1], new[i])
    BY <1>2 DEF IsScan
  <2>3. f[n + 1] = Json!Scanned(f[n + 1 - 1], new[n + 1])
    BY <2>1, <2>2
  <2> QED BY <1>1, <1>3, <2>1, <2>3
<1> QED BY <1>3, <1>4 DEF f, g, new

-----------------------------------------------------------------------------
(* JsonFramer: what is blank                                               *)

LEMMA FirstSolid ==
  ASSUME NEW s \in Seq(Json!Chars), ~Json!Blank(s)
  PROVE  /\ Json!Min(Json!Solid(s)) \in Json!Solid(s)
         /\ \A i \in Json!Solid(s) : Json!Min(Json!Solid(s)) <= i
<1> DEFINE S == Json!Solid(s)
<1>1. S \in SUBSET Nat /\ S # {}
  BY DEF Json!Solid, Json!Blank
<1> HIDE DEF S
<1>2. PICK n \in S : \A m \in S : ~(m < n)
  BY <1>1, Smallest
<1>3. \A m \in S : n <= m
  BY <1>1, <1>2
<1>4. \E x \in S : \A y \in S : x <= y
  BY <1>3
<1>5. Json!Min(S) \in S /\ \A y \in S : Json!Min(S) <= y
  BY <1>4, Zenon DEF Json!Min
<1> QED BY <1>5 DEF S

LEMMA SolidGrows ==
  ASSUME NEW s \in Seq(Json!Chars), NEW ch \in Json!Chars
  PROVE  /\ Len(s) \in Nat /\ Json!Solid(s) \subseteq 1..Len(s)
         /\ Json!Solid(Append(s, ch)) =
              IF ch \in Json!Space THEN Json!Solid(s) ELSE Json!Solid(s) \cup {Len(s) + 1}
<1> DEFINE n == Len(s)
           t == Append(s, ch)
<1>1. /\ n \in Nat /\ DOMAIN s = 1..n /\ DOMAIN t = 1..(n + 1) /\ t[n + 1] = ch
      /\ \A i \in 1..n : t[i] = s[i]
  OBVIOUS
<1>2. 1..(n + 1) = (1..n) \cup {n + 1} /\ n + 1 \notin 1..n
  BY <1>1
<1> HIDE DEF n, t
<1>3. Json!Solid(t) = IF ch \in Json!Space THEN Json!Solid(s) ELSE Json!Solid(s) \cup {n + 1}
  BY <1>1, <1>2 DEF Json!Solid
<1>4. Json!Solid(s) \subseteq 1..n
  BY <1>1 DEF Json!Solid
<1> QED BY <1>1, <1>3, <1>4 DEF n, t

\* What is not blank keeps its first solid character when it grows.
LEMMA FirstKept ==
  ASSUME NEW s \in Seq(Json!Chars), NEW ch \in Json!Chars, ~Json!Blank(s)
  PROVE  ~Json!Blank(Append(s, ch)) /\ Json!Min(Json!Solid(Append(s, ch))) = Json!Min(Json!Solid(s))
<1> DEFINE S == Json!Solid(s)
           T == Json!Solid(Append(s, ch))
<1>1. Append(s, ch) \in Seq(Json!Chars)
  OBVIOUS
<1>2. S \subseteq T /\ S \subseteq 1..Len(s) /\ T \subseteq S \cup {Len(s) + 1} /\ Len(s) \in Nat
  BY SolidGrows
<1>3. ~Json!Blank(Append(s, ch))
  BY <1>2 DEF Json!Blank
<1>4. Json!Min(S) \in S /\ \A i \in S : Json!Min(S) <= i
  BY FirstSolid
<1>5. Json!Min(T) \in T /\ \A i \in T : Json!Min(T) <= i
  BY <1>1, <1>3, FirstSolid
<1> HIDE DEF S, T
<1>6. Json!Min(T) <= Json!Min(S)
  BY <1>2, <1>4, <1>5
<1>8. /\ Json!Min(S) \in Nat /\ Json!Min(T) \in Nat /\ Json!Min(S) <= Len(s)
      /\ Json!Min(T) \in S \/ Json!Min(T) = Len(s) + 1
  <2>1. Json!Min(S) \in 1..Len(s) /\ (Json!Min(T) \in 1..Len(s) \/ Json!Min(T) = Len(s) + 1)
    BY <1>2, <1>4, <1>5
  <2>2. Json!Min(T) \in S \/ Json!Min(T) = Len(s) + 1
    BY <1>2, <1>5
  <2> QED BY <1>2, <2>1, <2>2
<1>7. Json!Min(S) <= Json!Min(T)
  <2>1. CASE Json!Min(T) \in S
    BY <1>4, <2>1
  <2>2. CASE Json!Min(T) = Len(s) + 1
    BY <1>2, <1>8, <2>2
  <2> QED BY <1>8, <2>1, <2>2
<1>9. Json!Min(T) = Json!Min(S)
  BY <1>6, <1>7, <1>8
<1> QED BY <1>3, <1>9 DEF S, T

LEMMA FromGrows ==
  ASSUME NEW s \in Seq(Json!Chars), NEW ch \in Json!Chars, ~Json!Blank(s)
  PROVE  /\ Json!From(s) \in Seq(Json!Chars) /\ Len(Json!From(s)) \in Nat /\ Len(Json!From(s)) > 0
         /\ Json!From(Append(s, ch)) = Append(Json!From(s), ch)
         /\ ch \notin Json!Space => Json!Trim(Append(s, ch)) = Append(Json!From(s), ch)
<1> DEFINE k == Json!Min(Json!Solid(s))
           n == Len(s)
           t == Append(s, ch)
<1>1. n \in Nat /\ Len(t) = n + 1 /\ t \in Seq(Json!Chars)
  OBVIOUS
<1>2. k \in 1..n
  BY FirstSolid, SolidGrows
<1>3. ~Json!Blank(t) /\ Json!Min(Json!Solid(t)) = k
  BY FirstKept
<1>4. SubSeq(t, k, n + 1) = Append(SubSeq(s, k, n), ch)
  <2> HIDE DEF k
  <2> QED BY <1>1, <1>2
<1>5. SubSeq(s, k, n) \in Seq(Json!Chars) /\ Len(SubSeq(s, k, n)) = n - k + 1
  <2> HIDE DEF k
  <2> QED BY <1>1, <1>2
<1>6. ASSUME ch \notin Json!Space PROVE Json!Max(Json!Solid(t)) = n + 1
  <2>1. Json!Solid(t) = Json!Solid(s) \cup {n + 1} /\ Json!Solid(s) \subseteq 1..n
    BY <1>6, SolidGrows
  <2> DEFINE T == Json!Solid(t)
  <2>2. n + 1 \in T /\ \A y \in T : n + 1 >= y /\ y \in Nat
    BY <1>1, <2>1
  <2> HIDE DEF T
  <2>3. Json!Max(T) \in T /\ \A y \in T : Json!Max(T) >= y
    BY <2>2, Zenon DEF Json!Max
  <2>4. Json!Max(T) = n + 1
    BY <1>1, <2>2, <2>3
  <2> QED BY <2>4 DEF T
<1>7. ch \notin Json!Space => Json!Trim(t) = SubSeq(t, k, n + 1)
  BY <1>3, <1>6 DEF Json!Trim
<1>8. Len(SubSeq(s, k, n)) > 0 /\ Len(SubSeq(s, k, n)) \in Nat
  <2> HIDE DEF k
  <2> QED BY <1>1, <1>2, <1>5
<1> QED BY <1>1, <1>3, <1>4, <1>5, <1>7, <1>8 DEF Json!From
\* A line goes on: what Write and Scribble say alike.
LineGoesOn(ch) ==
  /\ column' = IF ch = "newline" THEN "start" ELSE "later"
  /\ brace' = \/ discarding /\ column = "start" /\ ch = "close"
              \/ brace /\ ch = "blank"

BufferKept ==
  /\ buffer \in Seq(Json!Chars) /\ Len(buffer) <= IF depth = 0 THEN MaxBuffer ELSE MaxBuffer + 1
  /\ discarding \/ discardingText => buffer = <<>>

FlagTypes ==
  /\ inString \in BOOLEAN /\ escaped \in BOOLEAN
  /\ discardingText \in BOOLEAN /\ discarding \in BOOLEAN
  /\ discardLineStart \in BOOLEAN /\ discardClosingLine \in BOOLEAN
  /\ column \in {"start", "later"} /\ brace \in BOOLEAN

Basis == depth \in Nat /\ FlagTypes /\ BufferKept /\ Json!FlagsFit /\ Len(frames) <= 1

\* A step in an object that is not its last.
LEMMA NestingKept ==
  ASSUME Basis, NEW ch \in Json!Chars, Json!Nesting(ch), ~Json!Closes(ch), depth > 0
  PROVE  /\ depth' \in Nat /\ depth' > 0 /\ depth' <= depth + 1
         /\ depth' > depth => ch = "open"
         /\ inString' \in BOOLEAN /\ escaped' \in BOOLEAN /\ (escaped' => inString')
<1>1. depth \in Nat /\ inString \in BOOLEAN /\ escaped \in BOOLEAN /\ (escaped => inString)
  BY DEF Basis, FlagTypes, Json!FlagsFit
<1>2. CASE inString
  <2>1. /\ escaped' = (~escaped /\ ch = "backslash")
        /\ inString' = (escaped \/ ch # "quote") /\ depth' = depth
    BY <1>2 DEF Json!Nesting
  <2>2. escaped' \in BOOLEAN /\ inString' \in BOOLEAN
    BY <2>1, Zenon
  <2>3. escaped' => inString'
    <3>1. "backslash" # "quote"
      OBVIOUS
    <3> QED BY <2>1, <3>1, Zenon
  <2>4. depth' \in Nat /\ depth' > 0 /\ depth' <= depth + 1 /\ ~(depth' > depth)
    <3>1. depth' = depth /\ depth \in Nat
      BY <1>1, <2>1
    <3> QED BY <3>1
  <2> QED BY <2>2, <2>3, <2>4
<1>3. CASE ~inString
  <2>1. /\ inString' = (ch = "quote") /\ escaped' = escaped
        /\ depth' = IF ch = "open" THEN depth + 1 ELSE IF ch = "close" THEN depth - 1 ELSE depth
    BY <1>3 DEF Json!Nesting
  <2>2. ch = "close" => depth # 1
    BY <1>3 DEF Json!Closes
  <2>3. inString' \in BOOLEAN
    BY <2>1, Zenon
  <2>4. escaped' \in BOOLEAN /\ ~escaped'
    BY <1>1, <1>3, <2>1, Zenon
  <2>5. depth' = IF ch = "open" THEN depth + 1 ELSE IF ch = "close" THEN depth - 1 ELSE depth
    BY <2>1
  <2>6. depth' \in Nat /\ depth' > 0 /\ depth' <= depth + 1 /\ (depth' > depth => ch = "open")
    <3>0. depth \in Nat
      BY <1>1
    <3>1. CASE ch = "open"
      BY <2>5, <3>0, <3>1
    <3>2. CASE ch # "open" /\ ch = "close"
      <4>1. depth' = depth - 1 /\ depth # 1
        BY <2>2, <2>5, <3>2
      <4> QED BY <3>0, <4>1
    <3>3. CASE ch # "open" /\ ch # "close"
      <4>1. depth' = depth
        BY <2>5, <3>3
      <4> QED BY <3>0, <4>1
    <3> QED BY <3>1, <3>2, <3>3
  <2> QED BY <2>3, <2>4, <2>6
<1> QED BY <1>2, <1>3

\* What a character leaves as Basis wants it.
Fits(ch) == Basis' /\ depth' <= depth + 1 /\ (depth' > depth => ch = "open")

LEMMA LineFacts ==
  ASSUME Basis, NEW ch \in Json!Chars, LineGoesOn(ch)
  PROVE  /\ column' \in {"start", "later"} /\ (column' = "start" <=> ch = "newline")
         /\ brace' \in BOOLEAN
         /\ brace' => \/ discarding /\ column = "start" /\ ch = "close"
                      \/ brace /\ ch = "blank"
<1>1. column' \in {"start", "later"} /\ (column' = "start" <=> ch = "newline")
  BY DEF LineGoesOn
<1>2. brace' = ((discarding /\ column = "start" /\ ch = "close") \/ (brace /\ ch = "blank"))
  BY DEF LineGoesOn
<1>3. brace' \in BOOLEAN
  BY <1>2, Zenon
<1>4. brace' => \/ discarding /\ column = "start" /\ ch = "close"
                \/ brace /\ ch = "blank"
  BY <1>2, Zenon
<1> QED BY <1>1, <1>3, <1>4

LEMMA NoBrace ==
  ASSUME Basis, NEW ch \in Json!Chars, LineGoesOn(ch), depth > 0, ~discarding
  PROVE  ~brace'
<1>1. depth # 0 /\ ~discarding
  BY DEF Basis
<1>2. ~brace
  BY <1>1, Zenon DEF Basis, Json!FlagsFit
<1> QED BY <1>1, <1>2, LineFacts, Zenon

LEMMA AppendFacts ==
  ASSUME Basis, NEW ch \in Json!Chars
  PROVE  /\ Append(buffer, ch) \in Seq(Json!Chars) /\ Len(buffer) \in Nat
         /\ Len(Append(buffer, ch)) = Len(buffer) + 1
         /\ <<>> \in Seq(Json!Chars) /\ Len(<<>>) = 0
  BY DEF Basis, BufferKept

LEMMA OneFrame == \A f : Len(<<f>>) = 1
  OBVIOUS

LEMMA BufferIntro ==
  ASSUME buffer' \in Seq(Json!Chars), Len(buffer') <= MaxBuffer + 1,
         depth' = 0 => Len(buffer') <= MaxBuffer,
         discarding' \/ discardingText' => buffer' = <<>>
  PROVE  BufferKept'
  BY DEF BufferKept

LEMMA FitsIntro ==
  ASSUME NEW ch \in Json!Chars, depth' \in Nat, FlagTypes', BufferKept', Json!FlagsFit',
         Len(frames') <= 1,
         depth' <= depth + 1, depth' > depth => ch = "open"
  PROVE  Fits(ch)
<1>1. Basis'
  BY DEF Basis
<1> QED BY <1>1 DEF Fits

\* Nothing in the buffer is within any limit.
LEMMA EmptyFits == /\ <<>> \in Seq(Json!Chars) /\ Len(<<>>) = 0
                   /\ Len(<<>>) <= 1 /\ Len(<<>>) <= MaxBuffer /\ Len(<<>>) <= MaxBuffer + 1
  BY Limits

LEMMA SameDepth ==
  ASSUME depth \in Nat, depth' = depth
  PROVE  depth' \in Nat /\ depth' <= depth + 1 /\ ~(depth' > depth)
  OBVIOUS

\* Within an object, and without the flags of an object that is discarded.
LEMMA InsideFlags ==
  ASSUME depth' \in Nat, depth' > 0, ~discardingText', escaped' => inString',
         brace' => discardClosingLine', discarding' /\ column' = "start" => discardLineStart',
         discardLineStart' \/ discardClosingLine' => discarding'
  PROVE  Json!FlagsFit'
  BY DEF Json!FlagsFit

LEMMA SkipTextFits ==
  ASSUME Basis, NEW ch \in Json!Chars, LineGoesOn(ch), Json!SkipText(ch)
  PROVE  Fits(ch)
<1>1. /\ discardingText /\ discardingText' = (ch # "newline") /\ frames' = <<>>
      /\ UNCHANGED <<buffer, depth, inString, escaped, discarding, discardLineStart,
                     discardClosingLine>>
  BY DEF Json!SkipText
<1>2. discardingText' \in BOOLEAN
  BY <1>1, Zenon
<1>3. depth = 0 /\ ~discarding /\ buffer = <<>>
  BY <1>1 DEF Basis, Json!FlagsFit, BufferKept
<1>4. FlagTypes'
  BY <1>1, <1>2, LineFacts DEF Basis, FlagTypes
<1>5. BufferKept'
  BY <1>1, <1>3 DEF Basis, BufferKept
<1>6. Json!FlagsFit'
  BY <1>1, <1>3 DEF Basis, Json!FlagsFit
<1>7. depth' = depth /\ depth \in Nat /\ Len(frames') <= 1
  BY <1>1, EmptyFits DEF Basis
<1> QED BY <1>4, <1>5, <1>6, <1>7, SameDepth, FitsIntro

LEMMA OpenObjectFits ==
  ASSUME Basis, NEW ch \in Json!Chars, LineGoesOn(ch), Json!OpenObject(ch)
  PROVE  Fits(ch)
<1>1. /\ ~discardingText /\ depth = 0 /\ ~discarding /\ ch = "open" /\ frames' = <<>>
      /\ buffer' = Append(buffer, ch) /\ depth' = 1
      /\ UNCHANGED <<inString, escaped, discardingText, discarding, discardLineStart,
                     discardClosingLine>>
  BY DEF Json!OpenObject, Json!AtTop, Json!flags
<1>2. Len(buffer) <= MaxBuffer
  BY <1>1 DEF Basis, BufferKept
<1>3. ~brace' /\ ~(column' = "start")
  BY <1>1, LineFacts
<1>4. FlagTypes'
  BY <1>1, LineFacts DEF Basis, FlagTypes
<1>5. BufferKept'
  <2>1. buffer' \in Seq(Json!Chars) /\ Len(buffer') = Len(buffer) + 1 /\ Len(buffer) \in Nat
    BY <1>1, AppendFacts
  <2>2. Len(buffer') <= MaxBuffer + 1
    BY <1>2, <2>1, Limits
  <2>3. ~(discarding' \/ discardingText')
    BY <1>1, Zenon
  <2>4. depth' # 0
    BY <1>1
  <2> QED BY <2>1, <2>2, <2>3, <2>4, BufferIntro
<1>6. Json!FlagsFit'
  BY <1>1, <1>3 DEF Basis, Json!FlagsFit
<1>7. Len(frames') <= 1
  BY <1>1, EmptyFits
<1>8. depth' \in Nat /\ depth' <= depth + 1
  BY <1>1
<1> QED BY <1>1, <1>4, <1>5, <1>6, <1>7, <1>8, FitsIntro

LEMMA EndTextFits ==
  ASSUME Basis, NEW ch \in Json!Chars, LineGoesOn(ch), Json!EndText(ch)
  PROVE  Fits(ch)
<1>1. /\ ~discardingText /\ depth = 0 /\ ~discarding /\ buffer' = <<>>
      /\ frames' = IF Json!Blank(buffer) THEN <<>> ELSE <<Json!Frame("Text", Json!Trim(buffer))>>
      /\ UNCHANGED <<depth, inString, escaped, discardingText, discarding,
                     discardLineStart, discardClosingLine>>
  BY DEF Json!EndText, Json!AtTop, Json!flags
<1>4. FlagTypes'
  BY <1>1, LineFacts DEF Basis, FlagTypes
<1>5. BufferKept'
  BY <1>1, EmptyFits, BufferIntro
<1>6. Json!FlagsFit'
  BY <1>1 DEF Basis, Json!FlagsFit
<1>7. Len(frames') <= 1
  BY <1>1, EmptyFits, OneFrame
<1> QED BY <1>1, <1>4, <1>5, <1>6, <1>7, FitsIntro

LEMMA CollectTextFits ==
  ASSUME Basis, NEW ch \in Json!Chars, LineGoesOn(ch), Json!CollectText(ch)
  PROVE  Fits(ch)
<1>1. /\ ~discardingText /\ depth = 0 /\ ~discarding /\ frames' = <<>>
      /\ IF Len(buffer) < MaxBuffer
         THEN buffer' = Append(buffer, ch) /\ discardingText' = discardingText
         ELSE buffer' = <<>> /\ discardingText' = TRUE
      /\ UNCHANGED <<depth, inString, escaped, discarding, discardLineStart,
                     discardClosingLine>>
  BY DEF Json!CollectText, Json!AtTop, Json!flags
<1>4. FlagTypes'
  BY <1>1, LineFacts DEF Basis, FlagTypes
<1>5. BufferKept'
  <2>1. CASE Len(buffer) < MaxBuffer
    <3>1. buffer' \in Seq(Json!Chars) /\ Len(buffer') = Len(buffer) + 1 /\ Len(buffer) \in Nat
      BY <1>1, <2>1, AppendFacts
    <3>2. Len(buffer') <= MaxBuffer + 1 /\ Len(buffer') <= MaxBuffer
      BY <2>1, <3>1, Limits
    <3> QED BY <1>1, <2>1, <3>1, <3>2, BufferIntro
  <2>2. CASE ~(Len(buffer) < MaxBuffer)
    <3>1. buffer' = <<>>
      BY <1>1, <2>2
    <3> QED BY <3>1, EmptyFits, BufferIntro
  <2> QED BY <2>1, <2>2
<1>6. Json!FlagsFit'
  BY <1>1 DEF Basis, Json!FlagsFit
<1>7. Len(frames') <= 1
  BY <1>1, EmptyFits, OneFrame
<1> QED BY <1>1, <1>4, <1>5, <1>6, <1>7, FitsIntro

LEMMA InsideFacts ==
  ASSUME Basis, ~discardingText, ~Json!AtTop
  PROVE  depth \in Nat /\ depth > 0
  BY DEF Basis, Json!AtTop, Json!FlagsFit

LEMMA EndObjectFits ==
  ASSUME Basis, NEW ch \in Json!Chars, LineGoesOn(ch), Json!EndObject(ch)
  PROVE  Fits(ch)
<1>1. /\ buffer' = <<>> /\ depth' = 0 /\ inString' = FALSE /\ escaped' = FALSE
      /\ discardingText' = FALSE /\ discarding' = FALSE
      /\ discardLineStart' = FALSE /\ discardClosingLine' = FALSE
      /\ frames' = IF discarding THEN <<>> ELSE <<Json!Frame("Json", Json!Trim(Append(buffer, ch)))>>
  BY DEF Json!EndObject, Json!Reset
<1>4. FlagTypes'
  BY <1>1, LineFacts DEF FlagTypes
<1>5. BufferKept'
  BY <1>1, EmptyFits, BufferIntro
<1>6. Json!FlagsFit'
  BY <1>1 DEF Json!FlagsFit
<1>7. Len(frames') <= 1
  BY <1>1, EmptyFits, OneFrame
<1>8. depth' \in Nat /\ depth' <= depth + 1 /\ ~(depth' > depth)
  <2>1. depth \in Nat /\ depth' = 0
    BY <1>1 DEF Basis
  <2> QED BY <2>1
<1> QED BY <1>4, <1>5, <1>6, <1>7, <1>8, FitsIntro

LEMMA OverflowObjectFits ==
  ASSUME Basis, NEW ch \in Json!Chars, LineGoesOn(ch), Json!OverflowObject(ch)
  PROVE  Fits(ch)
<1>0. depth > 0
  BY InsideFacts DEF Json!OverflowObject
<1>1. /\ ~discardingText /\ ~discarding /\ buffer' = <<>> /\ discarding' = TRUE
      /\ discardLineStart' = (ch = "newline") /\ discardClosingLine' = FALSE
      /\ frames' = <<>> /\ Json!Nesting(ch) /\ discardingText' = discardingText /\ ~Json!Closes(ch)
  BY DEF Json!OverflowObject
<1>2. /\ depth' \in Nat /\ depth' > 0 /\ depth' <= depth + 1 /\ (depth' > depth => ch = "open")
      /\ inString' \in BOOLEAN /\ escaped' \in BOOLEAN /\ (escaped' => inString')
  BY <1>0, <1>1, NestingKept
<1>3. discardLineStart' \in BOOLEAN /\ (ch = "newline" => discardLineStart')
  BY <1>1, Zenon
<1>4. FlagTypes'
  BY <1>1, <1>2, <1>3, LineFacts DEF Basis, FlagTypes
<1>5. BufferKept'
  BY <1>1, EmptyFits, BufferIntro
<1>6. ~brace'
  BY <1>0, <1>1, NoBrace
<1>7. Json!FlagsFit'
  <2>1. ~discardingText' /\ discarding'
    BY <1>1, Zenon
  <2>2. column' = "start" => discardLineStart'
    BY <1>3, LineFacts
  <2> QED BY <1>2, <1>6, <2>1, <2>2, InsideFlags
<1>8. Len(frames') <= 1
  BY <1>1, EmptyFits
<1> QED BY <1>2, <1>4, <1>5, <1>7, <1>8, FitsIntro

LEMMA CollectObjectFits ==
  ASSUME Basis, NEW ch \in Json!Chars, LineGoesOn(ch), Json!CollectObject(ch)
  PROVE  Fits(ch)
<1>0. depth > 0
  BY InsideFacts DEF Json!CollectObject
<1>1. /\ ~discardingText /\ ~discarding /\ Len(buffer) < MaxBuffer
      /\ buffer' = Append(buffer, ch) /\ frames' = <<>> /\ Json!Nesting(ch) /\ ~Json!Closes(ch)
      /\ UNCHANGED <<discardingText, discarding, discardLineStart, discardClosingLine>>
  BY DEF Json!CollectObject, Json!flags
<1>2. /\ depth' \in Nat /\ depth' > 0 /\ depth' <= depth + 1 /\ (depth' > depth => ch = "open")
      /\ inString' \in BOOLEAN /\ escaped' \in BOOLEAN /\ (escaped' => inString')
  BY <1>0, <1>1, NestingKept
<1>4. FlagTypes'
  BY <1>1, <1>2, LineFacts DEF Basis, FlagTypes
<1>5. BufferKept'
  <2>1. buffer' \in Seq(Json!Chars) /\ Len(buffer') = Len(buffer) + 1 /\ Len(buffer) \in Nat
    BY <1>1, AppendFacts
  <2>2. Len(buffer') <= MaxBuffer + 1
    BY <1>1, <2>1, Limits
  <2>3. ~(discarding' \/ discardingText')
    BY <1>1, Zenon
  <2>4. depth' # 0
    BY <1>2
  <2> QED BY <2>1, <2>2, <2>3, <2>4, BufferIntro
<1>6. ~brace'
  BY <1>0, <1>1, NoBrace
<1>7. Json!FlagsFit'
  <2>1. ~discardingText' /\ ~discarding'
    BY <1>1, Zenon
  <2>2. ~discardLineStart' /\ ~discardClosingLine'
    <3>1. ~discardLineStart /\ ~discardClosingLine
      BY <1>1 DEF Basis, Json!FlagsFit
    <3> QED BY <1>1, <3>1, Zenon
  <2> QED BY <1>2, <1>6, <2>1, <2>2, InsideFlags
<1>8. Len(frames') <= 1
  BY <1>1, EmptyFits
<1> QED BY <1>2, <1>4, <1>5, <1>7, <1>8, FitsIntro

LEMMA DiscardObjectFits ==
  ASSUME Basis, NEW ch \in Json!Chars, LineGoesOn(ch), Json!DiscardObject(ch)
  PROVE  Fits(ch)
<1>0. depth > 0 /\ discarding /\ ~discardingText
  BY DEF Json!DiscardObject, Basis, Json!FlagsFit
<1>1. /\ discardLineStart' = (ch = "newline" \/ (discardClosingLine /\ ch = "blank" /\ discardLineStart))
      /\ discardClosingLine' = ((ch = "close" /\ discardLineStart) \/ (ch = "blank" /\ discardClosingLine))
      /\ frames' = <<>> /\ Json!Nesting(ch) /\ ~Json!Closes(ch)
      /\ UNCHANGED <<buffer, discardingText, discarding>>
  BY DEF Json!DiscardObject
<1>2. /\ depth' \in Nat /\ depth' > 0 /\ depth' <= depth + 1 /\ (depth' > depth => ch = "open")
      /\ inString' \in BOOLEAN /\ escaped' \in BOOLEAN /\ (escaped' => inString')
  BY <1>0, <1>1, NestingKept
<1>3. /\ discardLineStart' \in BOOLEAN /\ (ch = "newline" => discardLineStart')
      /\ discardClosingLine' \in BOOLEAN
      /\ ch = "close" /\ discardLineStart => discardClosingLine'
      /\ ch = "blank" /\ discardClosingLine => discardClosingLine'
  BY <1>1, Zenon
<1>4. FlagTypes'
  BY <1>1, <1>2, <1>3, LineFacts DEF Basis, FlagTypes
<1>5. BufferKept'
  <2>1. buffer' = <<>>
    BY <1>0, <1>1 DEF Basis, BufferKept
  <2> QED BY <2>1, EmptyFits, BufferIntro
<1>6. brace' => discardClosingLine'
  <2>1. brace => discardClosingLine
    BY <1>0 DEF Basis, Json!FlagsFit
  <2>2. column = "start" => discardLineStart
    BY <1>0 DEF Basis, Json!FlagsFit
  <2> QED BY <1>3, <2>1, <2>2, LineFacts
<1>7. Json!FlagsFit'
  <2>1. ~discardingText' /\ discarding'
    BY <1>0, <1>1, Zenon
  <2>2. column' = "start" => discardLineStart'
    BY <1>3, LineFacts
  <2> QED BY <1>2, <1>6, <2>1, <2>2, InsideFlags
<1>8. Len(frames') <= 1
  BY <1>1, EmptyFits
<1> QED BY <1>2, <1>4, <1>5, <1>7, <1>8, FitsIntro

LEMMA CharFits ==
  ASSUME Basis, NEW ch \in Json!Chars, LineGoesOn(ch), Json!PushChar(ch)
  PROVE  Fits(ch)
  BY SkipTextFits, OpenObjectFits, EndTextFits, CollectTextFits, EndObjectFits,
     OverflowObjectFits, CollectObjectFits, DiscardObjectFits DEF Json!PushChar

LEMMA FromOpened ==
  ASSUME NEW s \in Seq(Json!Chars), NEW ch \in Json!Chars, Json!Blank(s), ch \notin Json!Space
  PROVE  ~Json!Blank(Append(s, ch)) /\ Json!From(Append(s, ch)) = Append(<<>>, ch)
<1> DEFINE n == Len(s)
           t == Append(s, ch)
<1>1. n \in Nat /\ Len(t) = n + 1 /\ t \in Seq(Json!Chars) /\ t[n + 1] = ch
  OBVIOUS
<1>2. Json!Solid(t) = {n + 1}
  BY SolidGrows DEF Json!Blank
<1> DEFINE T == Json!Solid(t)
<1>3. T # {} /\ \A y \in T : y = n + 1
  BY <1>2
<1>4. ~Json!Blank(t)
  BY <1>3 DEF Json!Blank
<1>5. Json!Min(T) \in T
  BY <1>1, <1>4, FirstSolid
<1>6. Json!Min(T) = n + 1
  BY <1>3, <1>5
<1> HIDE DEF T
<1>7. Json!From(t) = SubSeq(t, n + 1, n + 1)
  BY <1>1, <1>6 DEF Json!From, T
<1>8. SubSeq(t, n + 1, n + 1) = <<ch>>
  <2> HIDE DEF t, n
  <2>1. SubSeq(t, n + 1, n + 1) = [i \in 1..1 |-> t[n + i]]
    BY <1>1
  <2>2. [i \in 1..1 |-> t[n + i]] = [i \in 1..1 |-> ch]
    BY <1>1
  <2>3. [i \in 1..1 |-> ch] = <<ch>>
    OBVIOUS
  <2> QED BY <2>1, <2>2, <2>3
<1> QED BY <1>4, <1>7, <1>8

\* The scan of what is in the buffer.
ScanFits(s, state) ==
  /\ ~Json!Blank(s) /\ \A n \in 1..Len(Json!From(s)) : Json!Scan(Json!From(s))[n].depth > 0
  /\ Json!Scan(Json!From(s))[Len(Json!From(s))] = state

LEMMA ScannedIs == Json!ObjectScanned <=>
    (depth > 0 /\ ~discarding =>
       ScanFits(buffer, [depth |-> depth, string |-> inString, escape |-> escaped]))
  BY DEF Json!ObjectScanned, ScanFits

LEMMA ScannedOpen ==
  Json!Scanned(Json!Outside, "open") = [depth |-> 1, string |-> FALSE, escape |-> FALSE]
<1>1. Json!Outside.depth = 0 /\ ~Json!Outside.string /\ ~Json!Outside.escape
  BY DEF Json!Outside
<1> DEFINE o == "open"
<1>2. o \in {"open", "close"} /\ o = "open" /\ ~(o = "quote") /\ ~(o = "backslash")
  OBVIOUS
<1> HIDE DEF o
<1>3. Json!Scanned(Json!Outside, o).depth = 1
  BY <1>1, <1>2 DEF Json!Scanned
<1>4. ~Json!Scanned(Json!Outside, o).string /\ Json!Scanned(Json!Outside, o).string \in BOOLEAN
  BY <1>1, <1>2 DEF Json!Scanned
<1>5. ~Json!Scanned(Json!Outside, o).escape /\ Json!Scanned(Json!Outside, o).escape \in BOOLEAN
  BY <1>1, <1>2 DEF Json!Scanned
<1>6. Json!Scanned(Json!Outside, o) = [depth |-> Json!Scanned(Json!Outside, o).depth,
                             string |-> Json!Scanned(Json!Outside, o).string,
                             escape |-> Json!Scanned(Json!Outside, o).escape]
  BY DEF Json!Scanned
<1>7. Json!Scanned(Json!Outside, o).string = FALSE /\ Json!Scanned(Json!Outside, o).escape = FALSE
  BY <1>4, <1>5, Zenon
<1>8. Json!Scanned(Json!Outside, o) = [depth |-> 1, string |-> FALSE, escape |-> FALSE]
  BY <1>3, <1>6, <1>7
<1> QED BY <1>8 DEF o

LEMMA OpenScanned ==
  ASSUME NEW s \in Seq(Json!Chars), Json!Blank(s)
  PROVE  ScanFits(Append(s, "open"), [depth |-> 1, string |-> FALSE, escape |-> FALSE])
<1> DEFINE o == "open"
           text == Append(<<>>, o)
           state == [depth |-> 1, string |-> FALSE, escape |-> FALSE]
<1>1. o \in Json!Chars /\ o \notin Json!Space /\ <<>> \in Seq(Json!Chars) /\ Len(<<>>) = 0
  BY DEF Json!Chars, Json!Space
<1>2. Json!Scanned(Json!Outside, o) = state
  BY ScannedOpen
<1> HIDE DEF o, state
<1>3. ~Json!Blank(Append(s, o)) /\ Json!From(Append(s, o)) = text
  BY <1>1, FromOpened
<1>4. Json!Scan(text)[Len(<<>>) + 1] = Json!Scanned(Json!Scan(<<>>)[Len(<<>>)], o)
  BY <1>1, ScanGrows
<1>5. Json!Scan(<<>>)[0] = Json!Outside
  BY <1>1, ScanIs DEF IsScan
<1>6. Json!Scan(text)[1] = state
  BY <1>1, <1>2, <1>4, <1>5
<1>7. Len(text) = 1
  BY <1>1
<1>8. \A n \in 1..Len(text) : n = 1
  BY <1>7
<1>9. state.depth > 0
  BY DEF state
<1> HIDE DEF text
<1>10. ScanFits(Append(s, o), state)
  BY <1>3, <1>6, <1>7, <1>8, <1>9 DEF ScanFits
<1> QED BY <1>10 DEF o, state

LEMMA ObjectGrows ==
  ASSUME NEW s \in Seq(Json!Chars), NEW ch \in Json!Chars, NEW state, ScanFits(s, state),
         Json!Scanned(state, ch).depth > 0
  PROVE  ScanFits(Append(s, ch), Json!Scanned(state, ch))
<1> DEFINE text == Json!From(s)
           new == Json!From(Append(s, ch))
           n == Len(text)
<1>1. ~Json!Blank(s) /\ (\A i \in 1..n : Json!Scan(text)[i].depth > 0) /\ Json!Scan(text)[n] = state
  BY DEF ScanFits
<1>2. text \in Seq(Json!Chars) /\ n \in Nat /\ n > 0 /\ new = Append(text, ch)
  BY <1>1, FromGrows
<1>3. /\ \A i \in 0..n : Json!Scan(new)[i] = Json!Scan(text)[i]
      /\ Json!Scan(new)[n + 1] = Json!Scanned(Json!Scan(text)[n], ch)
  BY <1>2, ScanGrows
<1>4. Len(new) = n + 1
  BY <1>2
<1>5. ~Json!Blank(Append(s, ch))
  BY <1>1, FirstKept
<1> HIDE DEF text, new, n
<1>6. \A i \in 1..(n + 1) : Json!Scan(new)[i].depth > 0
  <2> TAKE i \in 1..(n + 1)
  <2>1. CASE i = n + 1
    BY <1>1, <1>3, <2>1
  <2>2. CASE i # n + 1
    <3>1. i \in 1..n /\ i \in 0..n
      BY <1>2, <2>2
    <3> QED BY <1>1, <1>3, <3>1
  <2> QED BY <2>1, <2>2
<1> QED BY <1>1, <1>3, <1>4, <1>5, <1>6 DEF ScanFits, new

\* The last brace completes one whole object.
Whole(text) ==
  /\ \A n \in 1..(Len(text) - 1) : Json!Scan(text)[n].depth > 0
  /\ Json!Scan(text)[Len(text)].depth = 0

LEMMA ObjectEnds ==
  ASSUME NEW s \in Seq(Json!Chars), NEW ch \in Json!Chars, NEW state, ScanFits(s, state),
         Json!Scanned(state, ch).depth = 0, ch \notin Json!Space
  PROVE  Whole(Json!Trim(Append(s, ch)))
<1> DEFINE text == Json!From(s)
           new == Json!Trim(Append(s, ch))
           n == Len(text)
<1>1. ~Json!Blank(s) /\ (\A i \in 1..n : Json!Scan(text)[i].depth > 0) /\ Json!Scan(text)[n] = state
  BY DEF ScanFits
<1>2. text \in Seq(Json!Chars) /\ n \in Nat /\ n > 0 /\ new = Append(text, ch)
  BY <1>1, FromGrows
<1>3. /\ \A i \in 0..n : Json!Scan(new)[i] = Json!Scan(text)[i]
      /\ Json!Scan(new)[n + 1] = Json!Scanned(Json!Scan(text)[n], ch)
  BY <1>2, ScanGrows
<1>4. Len(new) = n + 1 /\ n + 1 - 1 = n
  BY <1>2
<1> HIDE DEF text, new, n
<1>6. \A i \in 1..n : Json!Scan(new)[i].depth > 0
  <2> TAKE i \in 1..n
  <2>1. i \in 0..n
    BY <1>2
  <2> QED BY <1>1, <1>3, <2>1
<1>7. Whole(new)
  <2>1. Json!Scan(new)[Len(new)].depth = 0
    BY <1>1, <1>3, <1>4
  <2>2. Len(new) - 1 = n
    BY <1>2, <1>4
  <2> QED BY <1>6, <2>1, <2>2 DEF Whole
<1> QED BY <1>7 DEF new

LEMMA NestingScanned ==
  ASSUME Basis, NEW ch \in Json!Chars, Json!Nesting(ch), ~Json!Closes(ch), depth > 0
  PROVE  [depth |-> depth', string |-> inString', escape |-> escaped'] =
           Json!Scanned([depth |-> depth, string |-> inString, escape |-> escaped], ch)
<1>0. depth \in Nat /\ inString \in BOOLEAN /\ escaped \in BOOLEAN /\ (escaped => inString)
  BY DEF Basis, FlagTypes, Json!FlagsFit
<1>1. PICK s : s = [depth |-> depth, string |-> inString, escape |-> escaped]
  OBVIOUS
<1>2. s.depth = depth /\ s.string = inString /\ s.escape = escaped
  BY <1>1
<1>3. Json!Scanned(s, ch).depth = depth'
  <2>1. s.depth # 0
    BY <1>0, <1>2
  <2>2. Json!Scanned(s, ch).depth =
          IF s.string \/ ch \notin {"open", "close"} THEN s.depth
          ELSE IF ch = "open" THEN s.depth + 1 ELSE s.depth - 1
    BY <2>1 DEF Json!Scanned
  <2>3. CASE inString
    BY <1>2, <2>2, <2>3 DEF Json!Nesting
  <2>4. CASE ~inString
    BY <1>2, <2>2, <2>4 DEF Json!Nesting
  <2> QED BY <2>3, <2>4
<1>4. Json!Scanned(s, ch).string = inString'
  <2>1. Json!Scanned(s, ch).string = IF s.string THEN s.escape \/ ch # "quote" ELSE ch = "quote"
    BY DEF Json!Scanned
  <2> QED BY <1>2, <2>1, Zenon DEF Json!Nesting
<1>5. Json!Scanned(s, ch).escape = escaped'
  <2>1. Json!Scanned(s, ch).escape = (s.string /\ ~s.escape /\ ch = "backslash")
    BY DEF Json!Scanned
  <2>2. CASE inString
    <3>1. escaped' = (~escaped /\ ch = "backslash")
      BY <2>2, Zenon DEF Json!Nesting
    <3> QED BY <1>2, <2>1, <2>2, <3>1, Zenon
  <2>3. CASE ~inString
    <3>1. escaped' = escaped /\ escaped = FALSE
      BY <1>0, <2>3, Zenon DEF Json!Nesting
    <3>2. Json!Scanned(s, ch).escape = FALSE
      BY <1>2, <2>1, <2>3, Zenon
    <3> QED BY <3>1, <3>2, Zenon
  <2> QED BY <2>2, <2>3
<1>6. Json!Scanned(s, ch) = [depth |-> Json!Scanned(s, ch).depth, string |-> Json!Scanned(s, ch).string,
                        escape |-> Json!Scanned(s, ch).escape]
  BY DEF Json!Scanned
<1> QED BY <1>1, <1>3, <1>4, <1>5, <1>6

FramesWhole(fs) == \A i \in DOMAIN fs : fs[i].kind = "Json" => Whole(fs[i].text)

LEMMA FrameCases ==
  /\ FramesWhole(<<>>)
  /\ \A text : FramesWhole(<<Json!Frame("Text", text)>>)
  /\ \A text : Whole(text) => FramesWhole(<<Json!Frame("Json", text)>>)
<1>1. FramesWhole(<<>>)
  BY DEF FramesWhole
<1>2. ASSUME NEW text, NEW kind, kind = "Json" => Whole(text)
      PROVE  FramesWhole(<<Json!Frame(kind, text)>>)
  <2> DEFINE fs == <<Json!Frame(kind, text)>>
  <2>1. \A i \in DOMAIN fs : fs[i].kind = kind /\ fs[i].text = text
    BY DEF Json!Frame
  <2> HIDE DEF fs
  <2>2. FramesWhole(fs)
    BY <1>2, <2>1 DEF FramesWhole
  <2> QED BY <2>2 DEF fs
<1>3. "Text" # "Json"
  OBVIOUS
<1> QED BY <1>1, <1>2, <1>3

LEMMA WholeIs == /\ Json!JsonIsWhole <=> FramesWhole(frames)
                 /\ Json!JsonIsWhole' <=> FramesWhole(frames')
  BY Zenon DEF Json!JsonIsWhole, FramesWhole, Whole

LEMMA ScannedIsNext == Json!ObjectScanned' <=>
    (depth' > 0 /\ ~discarding' =>
       ScanFits(buffer', [depth |-> depth', string |-> inString', escape |-> escaped']))
  BY DEF Json!ObjectScanned, ScanFits

LEMMA CharScanned ==
  ASSUME Basis, Json!ObjectScanned, NEW ch \in Json!Chars, Json!PushChar(ch)
  PROVE  Json!ObjectScanned' /\ Json!JsonIsWhole'
<1>0. /\ depth \in Nat /\ buffer \in Seq(Json!Chars) /\ inString \in BOOLEAN /\ escaped \in BOOLEAN
      /\ (discardingText => depth = 0) /\ (discarding => depth > 0)
      /\ (depth = 0 => ~inString) /\ (escaped => inString)
  BY DEF Basis, FlagTypes, Json!FlagsFit, BufferKept
<1>1. CASE Json!SkipText(ch) \/ Json!EndText(ch) \/ Json!CollectText(ch)
  <2>1. depth' = 0
    BY <1>0, <1>1 DEF Json!SkipText, Json!EndText, Json!CollectText, Json!AtTop
  <2>2. frames' = <<>> \/ \E text : frames' = <<Json!Frame("Text", text)>>
    BY <1>1 DEF Json!SkipText, Json!EndText, Json!CollectText
  <2>3. Json!ObjectScanned'
    BY <2>1, ScannedIsNext
  <2>4. Json!JsonIsWhole'
    BY <2>2, FrameCases, WholeIs
  <2> QED BY <2>3, <2>4
<1>2. CASE Json!OpenObject(ch)
  <2>1. /\ depth = 0 /\ Json!Blank(buffer) /\ ch = "open" /\ buffer' = Append(buffer, ch)
        /\ depth' = 1 /\ frames' = <<>> /\ inString' = inString /\ escaped' = escaped
    BY <1>2 DEF Json!OpenObject, Json!AtTop
  <2>2. inString' = FALSE /\ escaped' = FALSE
    BY <1>0, <2>1, Zenon
  <2>3. ScanFits(buffer', [depth |-> 1, string |-> FALSE, escape |-> FALSE])
    BY <1>0, <2>1, OpenScanned
  <2>4. ScanFits(buffer', [depth |-> depth', string |-> inString', escape |-> escaped'])
    BY <2>1, <2>2, <2>3, Zenon
  <2>5. Json!JsonIsWhole'
    BY <2>1, FrameCases, WholeIs
  <2> QED BY <2>4, <2>5, ScannedIsNext
<1>3. CASE Json!EndObject(ch)
  <2>1. /\ depth' = 0 /\ ~discardingText /\ ~Json!AtTop
        /\ frames' = IF discarding THEN <<>> ELSE <<Json!Frame("Json", Json!Trim(Append(buffer, ch)))>>
        /\ ~discarding => Json!Closes(ch)
    BY <1>3 DEF Json!EndObject, Json!Reset, Json!DiscardBoundary
  <2>2. ASSUME ~discarding PROVE FramesWhole(frames')
    <3>1. ~inString /\ ch = "close" /\ depth = 1
      BY <2>1, <2>2 DEF Json!Closes
    <3>2. ch \notin Json!Space
      BY <3>1 DEF Json!Space
    <3>3. PICK s : s = [depth |-> depth, string |-> inString, escape |-> escaped]
      OBVIOUS
    <3>4. depth > 0
      BY <3>1
    <3>5. ScanFits(buffer, s)
      BY <2>2, <3>3, <3>4, ScannedIs
    <3>6. Json!Scanned(s, ch).depth = 0
      BY <3>1, <3>3 DEF Json!Scanned
    <3>7. Whole(Json!Trim(Append(buffer, ch)))
      BY <1>0, <3>2, <3>5, <3>6, ObjectEnds
    <3> QED BY <2>1, <2>2, <3>7, FrameCases
  <2>3. FramesWhole(frames')
    BY <2>1, <2>2, FrameCases
  <2> QED BY <2>1, <2>3, WholeIs, ScannedIsNext
<1>4. CASE Json!OverflowObject(ch) \/ Json!DiscardObject(ch)
  <2>1. frames' = <<>>
    BY <1>4 DEF Json!OverflowObject, Json!DiscardObject
  <2>2. CASE Json!OverflowObject(ch)
    <3>1. discarding'
      BY <2>2, Zenon DEF Json!OverflowObject
    <3> QED BY <2>1, <3>1, FrameCases, WholeIs, ScannedIsNext
  <2>3. CASE Json!DiscardObject(ch)
    <3>1. discarding'
      BY <2>3, Zenon DEF Json!DiscardObject
    <3> QED BY <2>1, <3>1, FrameCases, WholeIs, ScannedIsNext
  <2> QED BY <1>4, <2>2, <2>3
<1>5. CASE Json!CollectObject(ch)
  <2>1. /\ ~discardingText /\ ~Json!AtTop /\ ~discarding /\ ~Json!Closes(ch) /\ frames' = <<>>
        /\ buffer' = Append(buffer, ch) /\ Json!Nesting(ch)
    BY <1>5 DEF Json!CollectObject
  <2>2. depth > 0
    BY <2>1, InsideFacts
  <2>3. PICK s : s = [depth |-> depth, string |-> inString, escape |-> escaped]
    OBVIOUS
  <2>4. ScanFits(buffer, s)
    BY <2>1, <2>2, <2>3, ScannedIs
  <2>5. [depth |-> depth', string |-> inString', escape |-> escaped'] = Json!Scanned(s, ch)
    BY <2>1, <2>2, <2>3, NestingScanned
  <2>6. depth' > 0
    BY <2>1, <2>2, NestingKept
  <2>7. Json!Scanned(s, ch).depth = depth'
    BY <2>5
  <2>8. ScanFits(buffer', Json!Scanned(s, ch))
    BY <1>0, <2>1, <2>4, <2>6, <2>7, ObjectGrows
  <2> QED BY <2>1, <2>5, <2>8, FrameCases, WholeIs, ScannedIsNext
<1> QED BY <1>1, <1>2, <1>3, <1>4, <1>5 DEF Json!PushChar

\* The writer's part of WriterFollowed, of a writer that keeps to its rules.
Followed ==
  /\ record \in Seq(Json!Chars) /\ level \in 0..MaxLevel
  /\ level = depth /\ quoted = inString /\ escaping = escaped
  /\ Len(record) > MaxBuffer => discarding \/ discardingText
  /\ ~(Len(record) > MaxBuffer) => ~discarding /\ ~discardingText /\ buffer = record
  /\ ~discardClosingLine /\ (discardLineStart => column = "start")
  /\ level > 0 /\ column = "start" => ~quoted

LEMMA FollowedIs == (wellFormed => Followed) <=> Json!WriterFollowed
  BY DEF Json!WriterFollowed, Followed

LEMMA FollowedIsNext == (wellFormed' => Followed') <=> Json!WriterFollowed'
  BY DEF Json!WriterFollowed, Followed

\* The record and the frame that is due, of a character that does not end it.
LEMMA GoesOn ==
  ASSUME Basis, Followed, NEW ch \in Json!Chars, Json!Write(ch), ~Json!Ends(ch)
  PROVE  /\ due' = <<>> /\ Len(record) \in Nat /\ record' \in Seq(Json!Chars)
         /\ Len(record) > MaxBuffer => record' = record
         /\ ~(Len(record) > MaxBuffer) =>
              record' = Append(record, ch) /\ Len(record') = Len(record) + 1
<1>1. record \in Seq(Json!Chars) /\ Len(record) \in Nat
  BY DEF Followed
<1>2. due' = <<>> /\ record' = IF Len(record) > MaxBuffer THEN record ELSE Append(record, ch)
  BY DEF Json!Write
<1> QED BY <1>1, <1>2

LEMMA AtTopFollowed ==
  ASSUME Basis, Followed, NEW ch \in Json!Chars, Json!Write(ch), depth = 0
  PROVE  /\ level = 0 /\ ~quoted /\ ~inString /\ ~escaping /\ ~escaped
         /\ (Json!Ends(ch) <=> ch = "newline") /\ quoted' = FALSE /\ escaping' = FALSE
         /\ level' = IF Json!Opens(ch) THEN 1 ELSE 0
<1>1. level = 0 /\ quoted = inString /\ escaping = escaped /\ level = depth
  BY DEF Followed
<1>2. ~inString /\ ~escaped
  <2>1. depth = 0 => ~inString
    BY DEF Basis, Json!FlagsFit
  <2>2. escaped => inString
    BY DEF Basis, Json!FlagsFit
  <2> QED BY <2>1, <2>2
<1>3. ~quoted /\ ~escaping
  BY <1>1, <1>2, Zenon
<1>4. quoted' = FALSE
  BY <1>1 DEF Json!Write
<1>5. escaping' = FALSE
  <2>1. escaping' = (quoted /\ ~escaping /\ ch = "backslash")
    BY Zenon DEF Json!Write
  <2> QED BY <1>3, <2>1, Zenon
<1>6. level' = IF Json!Opens(ch) THEN 1 ELSE 0
  BY <1>1 DEF Json!Write
<1>7. Json!Ends(ch) <=> ch = "newline"
  BY <1>1 DEF Json!Ends
<1> QED BY <1>1, <1>2, <1>3, <1>4, <1>5, <1>6, <1>7

\* In an object, but for its last brace.
LEMMA InsideFollowed ==
  ASSUME Basis, Followed, NEW ch \in Json!Chars, Json!Legal(ch), Json!Write(ch), Json!Nesting(ch),
         ~Json!Closes(ch), depth > 0
  PROVE  /\ ~Json!Ends(ch) /\ level' \in 0..MaxLevel /\ level' = depth'
         /\ quoted' = inString' /\ escaping' = escaped'
         /\ (column' = "start" <=> ch = "newline")
         /\ (column' = "start" => ~quoted')
<1>1. /\ level \in 0..MaxLevel /\ level = depth /\ quoted = inString /\ escaping = escaped
      /\ depth \in Nat /\ level > 0 /\ level # 0
  BY DEF Followed, Basis
<1>2. escaped => inString
  BY DEF Basis, Json!FlagsFit
<1>3. inString \in BOOLEAN /\ escaped \in BOOLEAN
  BY DEF Basis, FlagTypes
<1>4. ~Json!Ends(ch)
  BY <1>1 DEF Json!Ends, Json!Closes
<1>5. column' = "start" <=> ch = "newline"
  BY DEF Json!Write
<1>6. ~Json!Opens(ch)
  BY <1>1 DEF Json!Opens
<1>7. quoted' = IF quoted THEN escaping \/ ch # "quote" ELSE ch = "quote"
  BY <1>1 DEF Json!Write
<1>8. escaping' = (quoted /\ ~escaping /\ ch = "backslash")
  BY Zenon DEF Json!Write
<1>9. level' = IF quoted THEN level
               ELSE IF ch = "open" THEN level + 1 ELSE IF ch = "close" THEN level - 1 ELSE level
  BY <1>1, <1>6 DEF Json!Write
<1>10. CASE quoted
  <2>1. inString
    BY <1>1, <1>10, Zenon
  <2>2. inString' = (escaped \/ ch # "quote") /\ escaped' = (~escaped /\ ch = "backslash")
    BY <2>1, Zenon DEF Json!Nesting
  <2>3. depth' = depth
    BY <2>1 DEF Json!Nesting
  <2>4. quoted' = inString' /\ escaping' = escaped'
    BY <1>1, <1>7, <1>8, <1>10, <2>2, Zenon
  <2>5. ch # "newline"
    BY <1>1, <1>10 DEF Json!Legal
  <2>6. level' = level
    BY <1>9, <1>10
  <2> QED BY <1>1, <1>4, <1>5, <2>3, <2>4, <2>5, <2>6
<1>11. CASE ~quoted
  <2>1. ~inString /\ ~escaped
    BY <1>1, <1>2, <1>11, Zenon
  <2>2. inString' = (ch = "quote") /\ escaped' = escaped
    BY <2>1, Zenon DEF Json!Nesting
  <2>3. depth' = IF ch = "open" THEN depth + 1 ELSE IF ch = "close" THEN depth - 1 ELSE depth
    BY <2>1 DEF Json!Nesting
  <2>4. quoted' = inString'
    BY <1>7, <1>11, <2>2, Zenon
  <2>5. escaping' = escaped'
    <3>1. escaping' = FALSE
      BY <1>8, <1>11, Zenon
    <3>2. escaped' = FALSE
      BY <1>3, <2>1, <2>2, Zenon
    <3> QED BY <3>1, <3>2
  <2>6. ch = "open" => level < MaxLevel
    BY <1>1, <1>11 DEF Json!Legal
  <2>7. level' = depth'
    BY <1>1, <1>9, <1>11, <2>3
  <2>8. level' \in 0..MaxLevel
    BY <1>1, <1>9, <1>11, <2>6, Limits
  <2>9. ch = "newline" => ~quoted'
    <3>1. "newline" # "quote"
      OBVIOUS
    <3> QED BY <1>7, <1>11, <3>1, Zenon
  <2> QED BY <1>4, <1>5, <2>4, <2>5, <2>7, <2>8, <2>9
<1> QED BY <1>10, <1>11

LEMMA LineFollowed ==
  ASSUME Followed, NEW ch, Json!Write(ch)
  PROVE  column' = "start" <=> ch = "newline"
  BY DEF Json!Write

Follows(ch) == Followed' /\ frames' = due'

LEMMA SkipTextFollowed ==
  ASSUME Basis, Followed, NEW ch \in Json!Chars, Json!Write(ch), Json!SkipText(ch)
  PROVE  Follows(ch)
<1>1. /\ discardingText /\ discardingText' = (ch # "newline") /\ frames' = <<>>
      /\ UNCHANGED <<buffer, depth, inString, escaped, discarding, discardLineStart,
                     discardClosingLine>>
  BY DEF Json!SkipText
<1>2. depth = 0 /\ ~discarding /\ buffer = <<>> /\ ~discardLineStart /\ ~discardClosingLine
  BY <1>1 DEF Basis, Json!FlagsFit, BufferKept
<1>3. Len(record) > MaxBuffer
  BY <1>1 DEF Followed
<1>4. /\ level = 0 /\ ~inString /\ ~escaped
      /\ (Json!Ends(ch) <=> ch = "newline") /\ quoted' = FALSE /\ escaping' = FALSE
      /\ level' = IF Json!Opens(ch) THEN 1 ELSE 0
  BY <1>2, AtTopFollowed
<1>5. ~Json!Opens(ch)
  <2>1. Len(record) \in Nat
    BY DEF Followed
  <2> QED BY <1>3, <2>1, Limits DEF Json!Opens
<1>6. due' = <<>> /\ record' = IF ch = "newline" THEN <<>> ELSE record
  BY <1>3, <1>4 DEF Json!Write
<1>7. inString' = FALSE /\ escaped' = FALSE /\ ~discarding' /\ ~discardLineStart' /\ ~discardClosingLine'
  <2>1. inString \in BOOLEAN /\ escaped \in BOOLEAN
    BY DEF Basis, FlagTypes
  <2> QED BY <1>1, <1>2, <1>4, <2>1, Zenon
<1>8. record' \in Seq(Json!Chars) /\ level' = 0 /\ depth' = 0 /\ buffer' = <<>> /\ 0 \in 0..MaxLevel
  BY <1>1, <1>2, <1>4, <1>5, <1>6, Limits DEF Followed
<1>9. CASE ch = "newline"
  <2>1. record' = <<>> /\ ~(Len(record') > MaxBuffer)
    BY <1>6, <1>9, EmptyFits, Limits
  <2>2. ~discardingText'
    BY <1>1, <1>9, Zenon
  <2>3. Followed'
    BY <1>4, <1>7, <1>8, <2>1, <2>2 DEF Followed
  <2> QED BY <1>1, <1>6, <2>3 DEF Follows
<1>10. CASE ch # "newline"
  <2>1. record' = record
    BY <1>6, <1>10
  <2>2. discardingText'
    BY <1>1, <1>10, Zenon
  <2>3. Followed'
    BY <1>3, <1>4, <1>7, <1>8, <2>1, <2>2 DEF Followed
  <2> QED BY <1>1, <1>6, <2>3 DEF Follows
<1> QED BY <1>9, <1>10

\* A writer at the top, whose record is what the framer has.
LEMMA TopFollowed ==
  ASSUME Basis, Followed, NEW ch \in Json!Chars, Json!Write(ch), Json!AtTop
  PROVE  /\ ~(Len(record) > MaxBuffer) /\ record = buffer /\ Len(record) \in Nat
         /\ ~discarding /\ ~discardingText /\ ~discardLineStart /\ ~discardClosingLine
         /\ inString = FALSE /\ escaped = FALSE
<1>1. ~discardingText /\ depth = 0 /\ ~discarding
  BY DEF Json!AtTop
<1>2. ~discardLineStart /\ ~discardClosingLine
  BY <1>1 DEF Basis, Json!FlagsFit
<1>3. ~(Len(record) > MaxBuffer) /\ record = buffer /\ Len(record) \in Nat
  BY <1>1 DEF Followed
<1>4. ~inString /\ ~escaped
  BY <1>1, AtTopFollowed
<1>5. inString = FALSE /\ escaped = FALSE
  BY <1>4, Zenon DEF Basis, FlagTypes
<1> QED BY <1>1, <1>2, <1>3, <1>5

LEMMA OpenObjectFollowed ==
  ASSUME Basis, Followed, NEW ch \in Json!Chars, Json!Legal(ch), Json!Write(ch), Json!OpenObject(ch)
  PROVE  Follows(ch)
<1>1. /\ Json!AtTop /\ depth = 0 /\ ch = "open" /\ Json!Blank(buffer) /\ frames' = <<>>
      /\ buffer' = Append(buffer, ch) /\ depth' = 1
      /\ UNCHANGED <<inString, escaped, discardingText, discarding, discardLineStart,
                     discardClosingLine>>
  BY DEF Json!OpenObject, Json!AtTop, Json!flags
<1>2. /\ ~(Len(record) > MaxBuffer) /\ record = buffer /\ Len(record) \in Nat
      /\ ~discarding /\ ~discardingText /\ ~discardLineStart /\ ~discardClosingLine
      /\ inString = FALSE /\ escaped = FALSE
  BY <1>1, TopFollowed
<1>3. /\ level = 0 /\ (Json!Ends(ch) <=> ch = "newline") /\ quoted' = FALSE /\ escaping' = FALSE
      /\ level' = IF Json!Opens(ch) THEN 1 ELSE 0
  BY <1>1, AtTopFollowed
<1>4. ~Json!Ends(ch)
  BY <1>1, <1>3
<1>5. Json!Opens(ch)
  BY <1>1, <1>2, <1>3, Limits DEF Json!Opens
<1>6. Len(record) < MaxBuffer
  BY <1>1, <1>2, <1>3 DEF Json!Legal
<1>7. due' = <<>> /\ record' \in Seq(Json!Chars) /\ record' = Append(record, ch) /\ Len(record') = Len(record) + 1
  BY <1>2, <1>4, GoesOn
<1>8. ~(Len(record') > MaxBuffer)
  BY <1>2, <1>6, <1>7, Limits
<1>9. column' # "start"
  BY <1>1, LineFollowed
<1>10. level' = 1 /\ 1 \in 0..MaxLevel
  BY <1>3, <1>5, Limits
<1>11. /\ ~discarding' /\ ~discardingText' /\ ~discardLineStart' /\ ~discardClosingLine'
       /\ inString' = FALSE /\ escaped' = FALSE
  BY <1>1, <1>2, Zenon
<1>12. Followed'
  BY <1>1, <1>2, <1>3, <1>7, <1>8, <1>9, <1>10, <1>11 DEF Followed
<1> QED BY <1>1, <1>7, <1>12 DEF Follows

LEMMA EndTextFollowed ==
  ASSUME Basis, Followed, NEW ch \in Json!Chars, Json!Write(ch), Json!EndText(ch)
  PROVE  Follows(ch)
<1>1. /\ Json!AtTop /\ depth = 0 /\ ch = "newline" /\ buffer' = <<>>
      /\ frames' = IF Json!Blank(buffer) THEN <<>> ELSE <<Json!Frame("Text", Json!Trim(buffer))>>
      /\ UNCHANGED <<depth, inString, escaped, discardingText, discarding, discardLineStart,
                     discardClosingLine>>
  BY DEF Json!EndText, Json!AtTop, Json!flags
<1>2. /\ ~(Len(record) > MaxBuffer) /\ record = buffer /\ Len(record) \in Nat
      /\ ~discarding /\ ~discardingText /\ ~discardLineStart /\ ~discardClosingLine
      /\ inString = FALSE /\ escaped = FALSE
  BY <1>1, TopFollowed
<1>3. /\ level = 0 /\ (Json!Ends(ch) <=> ch = "newline") /\ quoted' = FALSE /\ escaping' = FALSE
      /\ level' = IF Json!Opens(ch) THEN 1 ELSE 0
  BY <1>1, AtTopFollowed
<1>4. Json!Ends(ch) /\ ~Json!Opens(ch)
  BY <1>1, <1>3 DEF Json!Opens
<1>5. record' = <<>>
  BY <1>4 DEF Json!Write
<1>6. due' = IF Json!Blank(record) THEN <<>> ELSE <<Json!Frame("Text", Json!Trim(record))>>
  BY <1>2, <1>3, <1>4 DEF Json!Write
<1>8. ~(Len(record') > MaxBuffer)
  BY <1>5, EmptyFits, Limits
<1>10. level' = 0 /\ 0 \in 0..MaxLevel /\ depth' = 0 /\ record' \in Seq(Json!Chars)
  BY <1>1, <1>3, <1>4, <1>5, Limits
<1>11. /\ ~discarding' /\ ~discardingText' /\ ~discardLineStart' /\ ~discardClosingLine'
       /\ inString' = FALSE /\ escaped' = FALSE
  BY <1>1, <1>2, Zenon
<1>12. Followed'
  BY <1>1, <1>3, <1>5, <1>8, <1>10, <1>11 DEF Followed
<1> QED BY <1>1, <1>2, <1>6, <1>12 DEF Follows

LEMMA CollectTextFollowed ==
  ASSUME Basis, Followed, NEW ch \in Json!Chars, Json!Write(ch), Json!CollectText(ch)
  PROVE  Follows(ch)
<1>1. /\ Json!AtTop /\ depth = 0 /\ ch # "newline" /\ ~(ch = "open" /\ Json!Blank(buffer))
      /\ frames' = <<>>
      /\ IF Len(buffer) < MaxBuffer
         THEN buffer' = Append(buffer, ch) /\ discardingText' = discardingText
         ELSE buffer' = <<>> /\ discardingText' = TRUE
      /\ UNCHANGED <<depth, inString, escaped, discarding, discardLineStart,
                     discardClosingLine>>
  BY DEF Json!CollectText, Json!AtTop, Json!flags
<1>2. /\ ~(Len(record) > MaxBuffer) /\ record = buffer /\ Len(record) \in Nat
      /\ ~discarding /\ ~discardingText /\ ~discardLineStart /\ ~discardClosingLine
      /\ inString = FALSE /\ escaped = FALSE
  BY <1>1, TopFollowed
<1>3. /\ level = 0 /\ (Json!Ends(ch) <=> ch = "newline") /\ quoted' = FALSE /\ escaping' = FALSE
      /\ level' = IF Json!Opens(ch) THEN 1 ELSE 0
  BY <1>1, AtTopFollowed
<1>4. ~Json!Ends(ch) /\ ~Json!Opens(ch)
  BY <1>1, <1>2, <1>3 DEF Json!Opens
<1>7. due' = <<>> /\ record' \in Seq(Json!Chars) /\ record' = Append(record, ch) /\ Len(record') = Len(record) + 1
  BY <1>2, <1>4, GoesOn
<1>9. column' # "start"
  BY <1>1, LineFollowed
<1>10. level' = 0 /\ 0 \in 0..MaxLevel /\ depth' = 0
  BY <1>1, <1>3, <1>4, Limits
<1>11. /\ ~discarding' /\ ~discardLineStart' /\ ~discardClosingLine'
       /\ inString' = FALSE /\ escaped' = FALSE
  BY <1>1, <1>2, Zenon
<1>12. CASE Len(buffer) < MaxBuffer
  <2>1. ~(Len(record') > MaxBuffer)
    BY <1>2, <1>7, <1>12, Limits
  <2>2. ~discardingText'
    BY <1>1, <1>2, <1>12, Zenon
  <2>3. buffer' = record'
    BY <1>1, <1>2, <1>7, <1>12
  <2>4. Followed'
    BY <1>3, <1>7, <1>9, <1>10, <1>11, <2>1, <2>2, <2>3 DEF Followed
  <2> QED BY <1>1, <1>7, <2>4 DEF Follows
<1>13. CASE ~(Len(buffer) < MaxBuffer)
  <2>1. Len(record') > MaxBuffer
    BY <1>2, <1>7, <1>13, Limits
  <2>2. discardingText'
    BY <1>1, <1>13, Zenon
  <2>4. Followed'
    BY <1>3, <1>7, <1>9, <1>10, <1>11, <2>1, <2>2 DEF Followed
  <2> QED BY <1>1, <1>7, <2>4 DEF Follows
<1> QED BY <1>12, <1>13

LEMMA EndObjectFollowed ==
  ASSUME Basis, Followed, NEW ch \in Json!Chars, Json!Write(ch), Json!EndObject(ch)
  PROVE  Follows(ch)
<1>1. /\ ~discardingText /\ (Json!Closes(ch) \/ Json!DiscardBoundary(ch))
      /\ frames' = IF discarding THEN <<>> ELSE <<Json!Frame("Json", Json!Trim(Append(buffer, ch)))>>
      /\ buffer' = <<>> /\ depth' = 0 /\ inString' = FALSE /\ escaped' = FALSE
      /\ discardingText' = FALSE /\ discarding' = FALSE
      /\ discardLineStart' = FALSE /\ discardClosingLine' = FALSE
  BY DEF Json!EndObject, Json!Reset
<1>2. ~discardClosingLine /\ level = depth /\ quoted = inString /\ Len(record) \in Nat
  BY DEF Followed
<1>3. ~inString /\ ch = "close" /\ depth = 1
  BY <1>1, <1>2 DEF Json!Closes, Json!DiscardBoundary
<1>4. ~quoted
  BY <1>2, <1>3, Zenon
<1>5. Json!Ends(ch) /\ ~Json!Opens(ch) /\ level = 1
  BY <1>2, <1>3, <1>4 DEF Json!Ends, Json!Opens
<1>6. record' = <<>>
  BY <1>5 DEF Json!Write
<1>7. level' = 0
  BY <1>3, <1>4, <1>5 DEF Json!Write
<1>8. quoted' = FALSE
  BY <1>3, <1>4, <1>5 DEF Json!Write
<1>9. escaping' = FALSE
  <2>1. escaping' = (quoted /\ ~escaping /\ ch = "backslash")
    BY Zenon DEF Json!Write
  <2> QED BY <1>4, <2>1, Zenon
<1>10. column' # "start"
  BY <1>3, LineFollowed
<1>11. Followed'
  <2>1. record' \in Seq(Json!Chars) /\ level' \in 0..MaxLevel /\ ~(Len(record') > MaxBuffer)
    BY <1>6, <1>7, EmptyFits, Limits
  <2>2. ~discarding' /\ ~discardingText' /\ ~discardLineStart' /\ ~discardClosingLine'
    BY <1>1
  <2> QED BY <1>1, <1>6, <1>7, <1>8, <1>9, <1>10, <2>1, <2>2 DEF Followed
<1>12. due' = IF Len(record) > MaxBuffer THEN <<>> ELSE <<Json!Frame("Json", Json!Trim(Append(record, ch)))>>
  BY <1>5 DEF Json!Write
<1>13. frames' = due'
  <2>1. CASE Len(record) > MaxBuffer
    <3>1. discarding
      BY <1>1, <2>1 DEF Followed
    <3> QED BY <1>1, <1>12, <2>1, <3>1
  <2>2. CASE ~(Len(record) > MaxBuffer)
    <3>1. ~discarding /\ buffer = record
      BY <2>2 DEF Followed
    <3> QED BY <1>1, <1>12, <2>2, <3>1
  <2> QED BY <2>1, <2>2
<1> QED BY <1>11, <1>13 DEF Follows

\* A character inside an object, once the record and the flags are known.
LEMMA InsideIntro ==
  ASSUME Basis, Followed, NEW ch \in Json!Chars, Json!Legal(ch), Json!Write(ch),
         Json!Nesting(ch), ~Json!Closes(ch),
         depth > 0, frames' = <<>>, ~discardClosingLine', discardLineStart' => ch = "newline",
         Len(record') > MaxBuffer => discarding' \/ discardingText',
         ~(Len(record') > MaxBuffer) => ~discarding' /\ ~discardingText' /\ buffer' = record'
  PROVE  Follows(ch)
<1>1. /\ ~Json!Ends(ch) /\ level' \in 0..MaxLevel /\ level' = depth'
      /\ quoted' = inString' /\ escaping' = escaped'
      /\ (column' = "start" <=> ch = "newline") /\ (column' = "start" => ~quoted')
  BY InsideFollowed
<1>2. due' = <<>> /\ record' \in Seq(Json!Chars)
  BY <1>1, GoesOn
<1>3. Followed'
  BY <1>1, <1>2 DEF Followed
<1> QED BY <1>2, <1>3 DEF Follows

LEMMA OverflowObjectFollowed ==
  ASSUME Basis, Followed, NEW ch \in Json!Chars, Json!Legal(ch), Json!Write(ch),
         Json!OverflowObject(ch)
  PROVE  Follows(ch)
<1>1. /\ ~discardingText /\ ~discarding /\ ~Json!Closes(ch) /\ Len(buffer) >= MaxBuffer
      /\ discarding' = TRUE /\ discardLineStart' = (ch = "newline") /\ discardClosingLine' = FALSE
      /\ frames' = <<>> /\ Json!Nesting(ch)
  BY DEF Json!OverflowObject
<1>2. depth > 0
  BY InsideFacts DEF Json!OverflowObject
<1>3. ~Json!Ends(ch)
  BY <1>1, <1>2, InsideFollowed
<1>4. ~(Len(record) > MaxBuffer) /\ buffer = record /\ Len(record) \in Nat
  BY <1>1 DEF Followed
<1>5. Len(record') = Len(record) + 1
  BY <1>3, <1>4, GoesOn
<1>6. Len(record') > MaxBuffer
  BY <1>1, <1>4, <1>5, Limits
<1>7. discarding' /\ ~discardClosingLine' /\ (discardLineStart' => ch = "newline")
  BY <1>1, Zenon
<1> QED BY <1>1, <1>2, <1>6, <1>7, InsideIntro

LEMMA CollectObjectFollowed ==
  ASSUME Basis, Followed, NEW ch \in Json!Chars, Json!Legal(ch), Json!Write(ch),
         Json!CollectObject(ch)
  PROVE  Follows(ch)
<1>1. /\ ~discardingText /\ ~discarding /\ ~Json!Closes(ch) /\ Len(buffer) < MaxBuffer
      /\ buffer' = Append(buffer, ch) /\ frames' = <<>> /\ Json!Nesting(ch)
      /\ UNCHANGED <<discardingText, discarding, discardLineStart, discardClosingLine>>
  BY DEF Json!CollectObject, Json!flags
<1>2. depth > 0
  BY InsideFacts DEF Json!CollectObject
<1>3. ~Json!Ends(ch)
  BY <1>1, <1>2, InsideFollowed
<1>4. ~(Len(record) > MaxBuffer) /\ buffer = record /\ Len(record) \in Nat
  BY <1>1 DEF Followed
<1>5. record' = Append(record, ch) /\ Len(record') = Len(record) + 1
  BY <1>3, <1>4, GoesOn
<1>6. ~(Len(record') > MaxBuffer) /\ buffer' = record'
  BY <1>1, <1>4, <1>5, Limits
<1>7. ~discarding' /\ ~discardingText' /\ ~discardClosingLine' /\ ~discardLineStart'
  <2>1. ~discardLineStart /\ ~discardClosingLine
    BY <1>1 DEF Basis, Json!FlagsFit
  <2> QED BY <1>1, <2>1, Zenon
<1> QED BY <1>1, <1>2, <1>6, <1>7, InsideIntro

\* A writer that keeps to its layout has a brace at the start of a line only
\* where it closes the object.
LEMMA DiscardObjectFollowed ==
  ASSUME Basis, Followed, NEW ch \in Json!Chars, Json!Legal(ch), Json!Write(ch),
         Json!DiscardObject(ch)
  PROVE  Follows(ch)
<1>1. /\ discarding /\ ~Json!Closes(ch) /\ frames' = <<>> /\ Json!Nesting(ch)
      /\ discardLineStart' = (ch = "newline" \/ (discardClosingLine /\ ch = "blank" /\ discardLineStart))
      /\ discardClosingLine' = ((ch = "close" /\ discardLineStart) \/ (ch = "blank" /\ discardClosingLine))
      /\ UNCHANGED <<discardingText, discarding>>
  BY DEF Json!DiscardObject
<1>2. depth > 0 /\ depth # 0 /\ depth \in Nat
  BY <1>1 DEF Basis, Json!FlagsFit
<1>3. ~Json!Ends(ch)
  BY <1>1, <1>2, InsideFollowed
<1>4. Len(record) > MaxBuffer /\ Len(record) \in Nat
  BY <1>1 DEF Followed
<1>5. record' = record
  BY <1>3, <1>4, GoesOn
<1>6. Len(record') > MaxBuffer /\ discarding'
  BY <1>1, <1>4, <1>5
<1>7. ~(ch = "close" /\ discardLineStart)
  <2>1. SUFFICES ASSUME ch = "close", discardLineStart PROVE FALSE
    OBVIOUS
  <2>2. level = depth /\ quoted = inString /\ column = "start" /\ ~quoted
    BY <1>2, <2>1 DEF Followed
  <2>3. level = 1
    BY <1>2, <2>1, <2>2 DEF Json!Legal
  <2>4. ~inString
    BY <2>2, Zenon
  <2> QED BY <1>1, <2>1, <2>2, <2>3, <2>4 DEF Json!Closes
<1>8. ~discardClosingLine
  BY DEF Followed
<1>9. ~discardClosingLine' /\ (discardLineStart' => ch = "newline")
  BY <1>1, <1>7, <1>8, Zenon
<1> QED BY <1>1, <1>2, <1>6, <1>9, InsideIntro

LEMMA CharFollowed ==
  ASSUME Basis, Followed, NEW ch \in Json!Chars, Json!Legal(ch), Json!Write(ch), Json!PushChar(ch)
  PROVE  Follows(ch)
  BY SkipTextFollowed, OpenObjectFollowed, EndTextFollowed, CollectTextFollowed,
     EndObjectFollowed, OverflowObjectFollowed, CollectObjectFollowed, DiscardObjectFollowed
     DEF Json!PushChar

-----------------------------------------------------------------------------
(* Every step                                                              *)

LEMMA BasisIs ==
  (Json!TypeOK /\ Json!FlagsFit) <=>
    (Basis /\ depth \in 0..(MaxBuffer + MaxLevel) /\ wellFormed \in BOOLEAN)
<1>1. (Json!TypeOK /\ Json!FlagsFit) =>
        Basis /\ depth \in 0..(MaxBuffer + MaxLevel) /\ wellFormed \in BOOLEAN
  BY Limits DEF Json!TypeOK, Basis, FlagTypes, BufferKept
<1>2. (Basis /\ depth \in 0..(MaxBuffer + MaxLevel) /\ wellFormed \in BOOLEAN) =>
        (Json!TypeOK /\ Json!FlagsFit)
  BY DEF Json!TypeOK, Basis, FlagTypes, BufferKept
<1> QED BY <1>1, <1>2

LEMMA BasisIsNext ==
  Basis' /\ depth' \in 0..(MaxBuffer + MaxLevel) /\ wellFormed' \in BOOLEAN =>
    Json!TypeOK' /\ Json!FlagsFit'
  BY DEF Json!TypeOK, Basis, FlagTypes, BufferKept

LEMMA StepFollowed ==
  ASSUME Json!FramerInv, NEW ch \in Json!Chars, Json!PushChar(ch), UNCHANGED wellFormed,
         \/ wellFormed /\ Json!Legal(ch) /\ Json!Write(ch)
         \/ ~wellFormed /\ (ch = "open" => depth < MaxBuffer + MaxLevel) /\ Json!Scribble(ch)
  PROVE  Json!FramerInv' /\ Json!FramesExact'
<1>1. /\ Basis /\ Json!ObjectScanned /\ Json!WriterFollowed
      /\ depth \in 0..(MaxBuffer + MaxLevel) /\ wellFormed \in BOOLEAN
  BY BasisIs DEF Json!FramerInv
<1>2. LineGoesOn(ch)
  BY DEF LineGoesOn, Json!Write, Json!Scribble
<1>3. Basis' /\ depth' <= depth + 1 /\ (depth' > depth => ch = "open")
  BY <1>1, <1>2, CharFits DEF Fits
<1>4. Json!ObjectScanned' /\ Json!JsonIsWhole'
  BY <1>1, CharScanned
<1>5. CASE wellFormed
  <2>1. Followed
    BY <1>1, <1>5, FollowedIs
  <2>2. Json!Legal(ch) /\ Json!Write(ch)
    BY <1>5
  <2>3. Followed' /\ frames' = due'
    BY <1>1, <2>1, <2>2, CharFollowed DEF Follows
  <2>4. depth' \in 0..(MaxBuffer + MaxLevel)
    <3>1. depth' = level' /\ level' \in 0..MaxLevel
      BY <2>3 DEF Followed
    <3> QED BY <3>1, Limits
  <2>5. Json!WriterFollowed'
    BY <2>3, FollowedIsNext
  <2>6. Json!TypeOK' /\ Json!FlagsFit'
    BY <1>1, <1>3, <2>4, BasisIsNext
  <2>7. Json!FramesExact'
    BY <1>4, <2>3 DEF Json!FramesExact
  <2> QED BY <1>4, <2>5, <2>6, <2>7 DEF Json!FramerInv
<1>6. CASE ~wellFormed
  <2>1. ch = "open" => depth < MaxBuffer + MaxLevel
    BY <1>6
  <2>2. depth' \in Nat
    BY <1>3 DEF Basis
  <2>3. depth' \in 0..(MaxBuffer + MaxLevel)
    <3>1. depth \in Nat /\ depth <= MaxBuffer + MaxLevel
      BY <1>1
    <3> QED BY <1>3, <2>1, <2>2, <3>1, Limits
  <2>4. ~wellFormed'
    BY <1>6
  <2>5. Json!WriterFollowed' /\ (wellFormed' => frames' = due')
    BY <2>4 DEF Json!WriterFollowed
  <2>6. Json!TypeOK' /\ Json!FlagsFit'
    BY <1>1, <1>3, <2>3, BasisIsNext
  <2>7. Json!FramesExact'
    BY <1>4, <2>5 DEF Json!FramesExact
  <2> QED BY <1>4, <2>5, <2>6, <2>7 DEF Json!FramerInv
<1> QED BY <1>5, <1>6

FramesInv == Json!FramerInv /\ Json!FramesExact

LEMMA FramesStart == Init => FramesInv
<1> SUFFICES ASSUME Init PROVE FramesInv
  OBVIOUS
<1>1. /\ buffer = <<>> /\ depth = 0 /\ inString = FALSE /\ escaped = FALSE
      /\ discardingText = FALSE /\ discarding = FALSE
      /\ discardLineStart = FALSE /\ discardClosingLine = FALSE /\ frames = <<>>
      /\ record = <<>> /\ level = 0 /\ quoted = FALSE /\ escaping = FALSE
      /\ column = "start" /\ brace = FALSE /\ due = <<>> /\ wellFormed \in BOOLEAN
  BY DEF Init, Json!Init
<1>2. FlagTypes
  BY <1>1 DEF FlagTypes
<1>3. BufferKept
  BY <1>1, EmptyFits DEF BufferKept
<1>4. Json!FlagsFit
  BY <1>1 DEF Json!FlagsFit
<1>5. Basis
  BY <1>1, <1>2, <1>3, <1>4, EmptyFits DEF Basis
<1>6. Json!TypeOK /\ Json!FlagsFit
  BY <1>1, <1>5, BasisIs, Limits
<1>7. Json!ObjectScanned
  BY <1>1 DEF Json!ObjectScanned
<1>8. Json!WriterFollowed
  <2>1. record \in Seq(Json!Chars) /\ 0 \in 0..MaxLevel /\ ~(Len(record) > MaxBuffer)
    BY <1>1, EmptyFits, Limits
  <2>2. Followed
    BY <1>1, <2>1 DEF Followed
  <2> QED BY <2>2, FollowedIs
<1>9. Json!FramesExact
  <2>1. Json!JsonIsWhole
    BY <1>1, FrameCases, WholeIs
  <2> QED BY <1>1, <2>1 DEF Json!FramesExact
<1> QED BY <1>6, <1>7, <1>8, <1>9 DEF FramesInv, Json!FramerInv

LEMMA FramesStutter ==
  ASSUME FramesInv, UNCHANGED jsonVars
  PROVE  FramesInv'
<1>1. /\ UNCHANGED <<buffer, depth, inString, escaped, frames, wellFormed>>
      /\ UNCHANGED <<discardingText, discarding, discardLineStart, discardClosingLine>>
      /\ UNCHANGED <<record, level, quoted, escaping, column, brace, due>>
  BY DEF jsonVars
<1>2. Json!TypeOK'
  BY <1>1 DEF FramesInv, Json!FramerInv, Json!TypeOK
<1>3. Json!FlagsFit'
  BY <1>1 DEF FramesInv, Json!FramerInv, Json!FlagsFit
<1>4. Json!ObjectScanned'
  BY <1>1 DEF FramesInv, Json!FramerInv, Json!ObjectScanned
<1>5. Json!WriterFollowed'
  BY <1>1 DEF FramesInv, Json!FramerInv, Json!WriterFollowed
<1>6. Json!JsonIsWhole'
  BY <1>1 DEF FramesInv, Json!FramesExact, Json!JsonIsWhole
<1>7. Json!FramesExact'
  BY <1>1, <1>6 DEF FramesInv, Json!FramesExact
<1> QED BY <1>2, <1>3, <1>4, <1>5, <1>7 DEF FramesInv, Json!FramerInv

\* The step formula of JsonFramer!Recovers.
Recovering == discarding /\ brace /\ column' = "start" => ~discarding' /\ depth' = 0

LEMMA BoundaryEnds ==
  ASSUME Basis, NEW ch \in Json!Chars, Json!PushChar(ch), LineGoesOn(ch),
         discarding, brace, column' = "start"
  PROVE  ~discarding' /\ depth' = 0
<1>1. ch = "newline"
  BY LineFacts
<1>2. discardClosingLine /\ depth # 0 /\ ~discardingText
  BY DEF Basis, Json!FlagsFit
<1>3. Json!DiscardBoundary(ch)
  BY <1>1, <1>2 DEF Json!DiscardBoundary
<1>4. Json!EndObject(ch)
  BY <1>2, <1>3
     DEF Json!PushChar, Json!SkipText, Json!OpenObject, Json!EndText, Json!CollectText, 
     Json!OverflowObject, Json!CollectObject, Json!DiscardObject, Json!AtTop
<1> QED BY <1>4 DEF Json!EndObject, Json!Reset

LEMMA FramesNext ==
  ASSUME FramesInv, Json!Next
  PROVE  FramesInv' /\ Recovering
<1>1. Basis
  BY BasisIs DEF FramesInv, Json!FramerInv
<1>2. PICK ch \in Json!Chars :
        /\ Json!PushChar(ch) /\ UNCHANGED wellFormed
        /\ \/ wellFormed /\ Json!Legal(ch) /\ Json!Write(ch)
           \/ /\ ~wellFormed /\ (ch = "open" => depth < MaxBuffer + MaxLevel)
              /\ Json!Scribble(ch)
  BY DEF Json!Next
<1>3. FramesInv'
  BY <1>2, StepFollowed DEF FramesInv
<1>4. LineGoesOn(ch)
  BY <1>2 DEF LineGoesOn, Json!Write, Json!Scribble
<1>5. Recovering
  BY <1>1, <1>2, <1>4, BoundaryEnds DEF Recovering
<1> QED BY <1>3, <1>5

LEMMA FramesKeeps ==
  ASSUME FramesInv, [Next]_vars
  PROVE  FramesInv' /\ [Recovering]_(Json!vars)
<1>1. CASE JsonStep
  BY <1>1, FramesNext DEF JsonStep
<1>2. CASE UNCHANGED jsonVars
  BY <1>2, FramesStutter DEF jsonVars, Json!vars, Json!framer, Json!flags, Json!writer
<1>3. JsonStep \/ UNCHANGED jsonVars
  BY DEF Next, vars
<1> QED BY <1>1, <1>2, <1>3

\* framer.rs:6-12: whatever the limit, how deep a CLI nests its objects and
\* what their strings hold, each object and each line that ends within the
\* limit is handed on, a longer one is dropped whole, and nothing handed on
\* as JSON is part of an object or more than one.
THEOREM ObjectsFramed == Spec => []FramesExact
<1>1. FramesInv => FramesExact
  BY DEF FramesInv, FramesExact
<1> QED BY <1>1, FramesStart, FramesKeeps, PTL DEF Spec

\* framer.rs:92-96: however broken an oversized object was, and whatever its
\* nesting and strings are taken for, the line of its last brace ends it.
THEOREM FramerRecovers == Spec => Recovers
<1>1. [][Recovering]_(Json!vars) <=> Recovers
  BY PTL DEF Recovering, Recovers, Json!Recovers
<1> QED BY <1>1, FramesStart, FramesKeeps, PTL DEF Spec

-----------------------------------------------------------------------------
(* LoginDialogue: what a read keeps                                        *)

LEMMA ReadLimits ==
  /\ MaxChunk \in Nat /\ BufferLimit \in Nat /\ MaxNoise \in Nat
  /\ 0 < MaxChunk /\ MaxChunk < BufferLimit
  BY InterfaceAssumption DEF Dialogue!LimitAssumption

\* What is kept of a buffer and what was read behind it.
IsTrimmed(kept, chunk, out) ==
  /\ out \in Seq(Dialogue!Token) /\ Len(out) \in Nat /\ Len(out) <= BufferLimit
  /\ Len(chunk) <= Len(out)
  /\ \A i \in 1..Len(chunk) : out[Len(out) - Len(chunk) + i] = chunk[i]
  /\ kept # <<>> => Len(chunk) < Len(out) /\ out[Len(out) - Len(chunk)] = kept[Len(kept)]
  /\ \A j \in 1..Len(out) : \/ \E i \in 1..Len(kept) : out[j] = kept[i]
                            \/ \E i \in 1..Len(chunk) : out[j] = chunk[i]

LEMMA TrimmedIs ==
  ASSUME NEW kept \in Seq(Dialogue!Token), NEW chunk \in Seq(Dialogue!Token),
         Len(chunk) \in 1..MaxChunk
  PROVE  IsTrimmed(kept, chunk, Dialogue!Trimmed(kept, chunk))
<1> SUFFICES ASSUME NEW out, out = Dialogue!Trimmed(kept, chunk) PROVE IsTrimmed(kept, chunk, out)
  OBVIOUS
<1> DEFINE all == kept \o chunk
           b == Len(kept)
           n == Len(chunk)
           k == IF b + n > BufferLimit THEN b + n - BufferLimit ELSE 0
<1>1. /\ b \in Nat /\ n \in Nat /\ 0 < n /\ n < BufferLimit /\ BufferLimit \in Nat
      /\ all \in Seq(Dialogue!Token) /\ Len(all) = b + n
  BY ReadLimits
<1>2. /\ \A i \in 1..b : all[i] = kept[i]
      /\ \A i \in 1..n : all[b + i] = chunk[i]
  BY <1>1
<1>3. kept # <<>> => b > 0
  BY <1>1
<1>4. out = SubSeq(all, k + 1, b + n)
  <2>1. out = SubSeq(all, IF Len(all) > BufferLimit THEN Len(all) - BufferLimit + 1
            ELSE 1, Len(all))
    BY DEF Dialogue!Trimmed
  <2> HIDE DEF all, b, n
  <2> QED BY <1>1, <2>1
<1> HIDE DEF all, b, n
<1>5. k \in Nat /\ k <= b /\ (b > 0 => k < b)
  BY <1>1
<1>6. b + n - k <= BufferLimit
  BY <1>1
<1> HIDE DEF k
<1>7. /\ out \in Seq(Dialogue!Token) /\ Len(out) = b + n - k
      /\ \A j \in 1..(b + n - k) : out[j] = all[k + j]
  BY <1>1, <1>4, <1>5
<1> DEFINE m == b + n - k
<1>8. m \in Nat /\ n <= m /\ (b > 0 => n < m)
  BY <1>1, <1>5
<1>9. \A i \in 1..n : out[m - n + i] = chunk[i]
  <2> TAKE i \in 1..n
  <2>1. m - n + i \in 1..m /\ k + (m - n + i) = b + i
    BY <1>1, <1>5
  <2> QED BY <1>2, <1>7, <2>1
<1>10. b > 0 => out[m - n] = kept[b]
  <2>1. b > 0 => m - n \in 1..m /\ k + (m - n) = b /\ b \in 1..b
    BY <1>1, <1>5
  <2> QED BY <1>2, <1>7, <2>1
<1>11. \A j \in 1..m : (\E i \in 1..b : out[j] = kept[i]) \/ (\E i \in 1..n : out[j] = chunk[i])
  <2> TAKE j \in 1..m
  <2>1. k + j \in 1..b \/ (k + j - b \in 1..n /\ b + (k + j - b) = k + j)
    BY <1>1, <1>5
  <2> QED BY <1>2, <1>7, <2>1
<1>12. Len(out) = m
  BY <1>7
<1> HIDE DEF m
<1> QED BY <1>3, <1>6, <1>7, <1>8, <1>9, <1>10, <1>11, <1>12 DEF b, n, m, IsTrimmed

-----------------------------------------------------------------------------
(* The texts and their order                                               *)

LEMMA TextsAre ==
  /\ DOMAIN Dialogue!RightAnswer = {"email", "password", "code", "remember", "keychain", "saved"}
  /\ Dialogue!Questions = {"email", "password", "code", "remember", "keychain", "saved", "again"}
  /\ Dialogue!Verdicts = {"badCode", "badLogin", "keychain", "saved"}
  /\ Dialogue!Texts = {"email", "password", "code", "remember", "keychain", "saved", "badCode",
       "badLogin"}
  BY DEF Dialogue!RightAnswer, Dialogue!Questions, Dialogue!Verdicts, Dialogue!Texts

LEMMA StagesAre ==
  /\ Dialogue!Stage["start"] = 0 /\ Dialogue!Stage["email"] = 1
  /\ Dialogue!Stage["password"] = 2 /\ Dialogue!Stage["code"] = 3
  /\ Dialogue!Stage["remember"] = 4 /\ Dialogue!Stage["badCode"] = 5
  /\ Dialogue!Stage["badLogin"] = 5
  /\ Dialogue!Stage["keychain"] = 5 /\ Dialogue!Stage["saved"] = 5 /\ Dialogue!Stage["again"] = 6
  BY DEF Dialogue!Stage

LEMMA PlacesAre == \A text \in Dialogue!Texts : Dialogue!Place[text] \in Nat
  BY TextsAre DEF Dialogue!Place

LEMMA FollowsIs ==
  ASSUME NEW asked \in DOMAIN Dialogue!Follows, NEW next \in Dialogue!Follows[asked]
  PROVE  \/ asked = "start" /\ next = "email"
         \/ asked = "email" /\ next = "password"
         \/ asked = "password" /\ next \in {"badLogin", "code", "remember"}
         \/ asked = "code" /\ next \in {"badCode", "remember"}
         \/ asked = "remember" /\ next \in {"saved", "keychain"}
         \/ asked \in {"badLogin", "badCode"} /\ next = "again"
<1>1. asked \in {"start", "email", "password", "code", "remember", "badLogin", "badCode"}
  BY DEF Dialogue!Follows
<1>2. /\ Dialogue!Follows["start"] = {"email"} /\ Dialogue!Follows["email"] = {"password"}
      /\ Dialogue!Follows["password"] = {"badLogin", "code", "remember"}
      /\ Dialogue!Follows["code"] = {"badCode", "remember"}
      /\ Dialogue!Follows["remember"] = {"saved", "keychain"}
      /\ Dialogue!Follows["badLogin"] = {"again"} /\ Dialogue!Follows["badCode"] = {"again"}
  BY DEF Dialogue!Follows
<1> QED BY <1>1, <1>2

LEMMA CutIs ==
  ASSUME NEW s \in Seq(Dialogue!Token), NEW n \in 1..MaxChunk, n <= Len(s)
  PROVE  /\ SubSeq(s, 1, n) \in Seq(Dialogue!Token) /\ Len(SubSeq(s, 1, n)) = n /\ Len(s) \in Nat
         /\ \A i \in 1..n : SubSeq(s, 1, n)[i] = s[i]
         /\ SubSeq(s, n + 1, Len(s)) \in Seq(Dialogue!Token)
         /\ Len(SubSeq(s, n + 1, Len(s))) = Len(s) - n
         /\ \A i \in 1..(Len(s) - n) : SubSeq(s, n + 1, Len(s))[i] = s[n + i]
<1>1. n \in Nat /\ Len(s) \in Nat
  BY ReadLimits
<1> QED BY <1>1

\* A sequence of tokens and what comes behind it.
IsJoined(s, t, u) ==
  /\ u \in Seq(Dialogue!Token) /\ Len(u) = Len(s) + Len(t) /\ Len(s) \in Nat /\ Len(t) \in Nat
  /\ \A i \in 1..Len(s) : u[i] = s[i]
  /\ \A i \in 1..Len(t) : u[Len(s) + i] = t[i]

LEMMA JoinedIs ==
  ASSUME NEW s \in Seq(Dialogue!Token), NEW t \in Seq(Dialogue!Token)
  PROVE  IsJoined(s, t, s \o t)
  BY DEF IsJoined

\* What a read of n tokens does to what was seen and to what is coming.
IsRead(coming, seen, n, out, left) ==
  /\ Len(out) \in Nat /\ n <= Len(out) /\ Len(out) <= BufferLimit
  /\ \A i \in 1..n : out[Len(out) - n + i] = coming[i]
  /\ seen # <<>> => n < Len(out) /\ out[Len(out) - n] = seen[Len(seen)]
  /\ \A j \in 1..Len(out) : \/ \E i \in 1..Len(seen) : out[j] = seen[i]
                            \/ \E i \in 1..n : out[j] = coming[i]
  /\ Len(left) \in Nat /\ Len(coming) = n + Len(left)
  /\ \A i \in 1..Len(left) : left[i] = coming[n + i]

AheadIn(seen, coming, text) ==
  \/ \E i \in 1..(Len(coming) - 1) : coming[i] = <<text, 1>> /\ coming[i + 1] = <<text, 2>>
  \/ /\ seen # <<>> /\ coming # <<>>
     /\ seen[Len(seen)] = <<text, 1>> /\ coming[1] = <<text, 2>>

LEMMA AheadIs == \A text : /\ Dialogue!Ahead(text) <=> AheadIn(output, terminal, text)
                           /\ Dialogue!Ahead(text)' <=> AheadIn(output', terminal', text)
  BY DEF Dialogue!Ahead, AheadIn

LEMMA ReadIs ==
  ASSUME NEW coming \in Seq(Dialogue!Token), NEW seen \in Seq(Dialogue!Token),
         NEW n \in 1..MaxChunk, n <= Len(coming),
         NEW out, out = Dialogue!Trimmed(seen, SubSeq(coming, 1, n)),
         NEW left, left = SubSeq(coming, n + 1, Len(coming))
  PROVE  IsRead(coming, seen, n, out, left) /\ out \in Seq(Dialogue!Token)
         /\ left \in Seq(Dialogue!Token)
<1>1. PICK chunk : chunk = SubSeq(coming, 1, n)
  OBVIOUS
<1>2. /\ chunk \in Seq(Dialogue!Token) /\ Len(chunk) = n /\ Len(coming) \in Nat /\ n \in Nat
      /\ \A i \in 1..n : chunk[i] = coming[i]
      /\ left \in Seq(Dialogue!Token) /\ Len(left) = Len(coming) - n
      /\ \A i \in 1..(Len(coming) - n) : left[i] = coming[n + i]
  BY <1>1, CutIs, ReadLimits
<1>3. out = Dialogue!Trimmed(seen, chunk) /\ Len(chunk) \in 1..MaxChunk
  BY <1>1, <1>2
<1>4. IsTrimmed(seen, chunk, out)
  BY <1>2, <1>3, TrimmedIs
<1>5. /\ out \in Seq(Dialogue!Token) /\ Len(out) \in Nat /\ Len(out) <= BufferLimit
      /\ n <= Len(out)
      /\ \A i \in 1..n : out[Len(out) - n + i] = chunk[i]
      /\ seen # <<>> => n < Len(out) /\ out[Len(out) - n] = seen[Len(seen)]
      /\ \A j \in 1..Len(out) : \/ \E i \in 1..Len(seen) : out[j] = seen[i]
                                \/ \E i \in 1..n : out[j] = chunk[i]
  BY <1>2, <1>4 DEF IsTrimmed
<1>6. \A i \in 1..n : out[Len(out) - n + i] = coming[i]
  BY <1>2, <1>5
<1>7. \A j \in 1..Len(out) : \/ \E i \in 1..Len(seen) : out[j] = seen[i]
                             \/ \E i \in 1..n : out[j] = coming[i]
  <2> TAKE j \in 1..Len(out)
  <2>1. CASE \E i \in 1..Len(seen) : out[j] = seen[i]
    BY <2>1
  <2>2. CASE \E i \in 1..n : out[j] = chunk[i]
    <3>1. PICK i \in 1..n : out[j] = chunk[i]
      BY <2>2
    <3>2. out[j] = coming[i]
      BY <1>2, <3>1
    <3> QED BY <3>2
  <2> QED BY <1>5, <2>1, <2>2
<1>8. Len(left) \in Nat /\ Len(coming) = n + Len(left)
  <2>1. Len(left) = Len(coming) - n /\ Len(coming) \in Nat /\ n \in Nat
    BY <1>2
  <2>2. PICK a, b : a = Len(coming) /\ b = Len(left)
    OBVIOUS
  <2>3. a \in Nat /\ n \in Nat /\ n <= a /\ b = a - n
    BY <2>1, <2>2
  <2>4. b \in Nat /\ a = n + b
    BY <2>3
  <2> QED BY <2>2, <2>4
<1> QED BY <1>2, <1>5, <1>8, <1>6, <1>7 DEF IsRead

\* What a read leaves to be found.
LEMMA ReadFinds ==
  ASSUME NEW coming \in Seq(Dialogue!Token), NEW seen \in Seq(Dialogue!Token),
         NEW out \in Seq(Dialogue!Token),
         NEW left \in Seq(Dialogue!Token), NEW n \in 1..MaxChunk,
         IsRead(coming, seen, n, out, left),
         NEW text, AheadIn(seen, coming, text)
  PROVE  Dialogue!Shows(out, text) \/ AheadIn(out, left, text)
<1> DEFINE m == Len(out)
           rest == Len(left)
<1>1. /\ Len(coming) \in Nat /\ n \in Nat /\ n > 0 /\ rest \in Nat
      /\ \A i \in 1..rest : left[i] = coming[n + i]
  BY ReadLimits DEF IsRead
<1>2. /\ m \in Nat /\ n <= m
      /\ \A i \in 1..n : out[m - n + i] = coming[i]
      /\ seen # <<>> => n < m /\ out[m - n] = seen[Len(seen)]
  BY DEF IsRead
<1>3. rest \in Nat /\ Len(coming) = n + rest
  BY DEF IsRead
<1> HIDE DEF m, rest
<1>4. ASSUME NEW i \in 1..(Len(coming) - 1),
             coming[i] = <<text, 1>>, coming[i + 1] = <<text, 2>>
      PROVE  Dialogue!Shows(out, text) \/ AheadIn(out, left, text)
  <2>0. i \in Nat /\ i > 0 /\ i + 1 <= n + rest
    BY <1>1, <1>3
  <2>1. CASE i + 1 <= n
    <3>0. m \in Nat /\ n \in Nat /\ n <= m
      BY <1>1, <1>2
    <3>1. /\ i \in 1..n /\ i + 1 \in 1..n /\ m - n + i \in 1..(m - 1)
          /\ m - n + (i + 1) = (m - n + i) + 1
      BY <2>0, <2>1, <3>0
    <3>2. out[m - n + i] = <<text, 1>> /\ out[(m - n + i) + 1] = <<text, 2>>
      BY <1>2, <1>4, <3>1
    <3> QED BY <3>1, <3>2 DEF Dialogue!Shows, m
  <2>2. CASE i = n
    <3>1. n \in 1..n /\ m - n + n = m /\ 1 \in 1..rest /\ m > 0
      BY <1>1, <1>2, <1>3, <2>0, <2>2
    <3>2. out[m] = <<text, 1>> /\ left[1] = <<text, 2>>
      BY <1>1, <1>2, <1>4, <2>2, <3>1
    <3>3. out # <<>> /\ left # <<>>
      <4>1. Len(out) > 0 /\ Len(left) > 0
        BY <1>1, <1>3, <3>1 DEF m, rest
      <4>2. Len(<<>>) = 0
        OBVIOUS
      <4> QED BY <4>1, <4>2
    <3> QED BY <3>2, <3>3 DEF AheadIn, m
  <2>3. CASE i > n
    <3>1. i - n \in 1..(rest - 1) /\ i - n \in 1..rest /\ (i - n) + 1 \in 1..rest
          /\ n + (i - n) = i /\ n + ((i - n) + 1) = i + 1
      BY <1>1, <1>3, <2>0, <2>3
    <3>2. left[i - n] = <<text, 1>> /\ left[(i - n) + 1] = <<text, 2>>
      BY <1>1, <1>4, <3>1
    <3>3. i - n \in 1..(Len(left) - 1)
      BY <3>1 DEF rest
    <3> QED BY <3>2, <3>3 DEF AheadIn
  <2> QED BY <1>1, <2>0, <2>1, <2>2, <2>3
<1>5. ASSUME seen # <<>>, coming # <<>>,
             seen[Len(seen)] = <<text, 1>>, coming[1] = <<text, 2>>
      PROVE  Dialogue!Shows(out, text)
  <2>1. m - n \in 1..(m - 1) /\ 1 \in 1..n /\ (m - n) + 1 = m - n + 1
    BY <1>1, <1>2, <1>5
  <2>2. out[m - n] = <<text, 1>> /\ out[(m - n) + 1] = <<text, 2>>
    BY <1>2, <1>5, <2>1
  <2> QED BY <2>1, <2>2 DEF Dialogue!Shows, m
<1> QED BY <1>4, <1>5 DEF AheadIn

\* Every token of a sequence is of these texts.
Named(s, names) == \A i \in DOMAIN s : s[i][1] \in names

LEMMA ReadKeeps ==
  ASSUME NEW coming \in Seq(Dialogue!Token), NEW seen \in Seq(Dialogue!Token),
         NEW out \in Seq(Dialogue!Token),
         NEW left \in Seq(Dialogue!Token), NEW n \in 1..MaxChunk,
         IsRead(coming, seen, n, out, left),
         NEW names, Named(coming, names), Named(seen, names)
  PROVE  Named(left, names) /\ Named(out, names)
<1>1. /\ Len(coming) \in Nat /\ n \in Nat /\ Len(coming) = n + Len(left) /\ Len(left) \in Nat
      /\ \A i \in 1..Len(left) : left[i] = coming[n + i]
      /\ \A j \in 1..Len(out) : \/ \E i \in 1..Len(seen) : out[j] = seen[i]
                                \/ \E i \in 1..n : out[j] = coming[i]
  BY DEF IsRead
<1>2. DOMAIN coming = 1..Len(coming) /\ DOMAIN left = 1..Len(left)
      /\ DOMAIN out = 1..Len(out) /\ DOMAIN seen = 1..Len(seen)
  OBVIOUS
<1>3. \A i \in 1..Len(left) : left[i][1] \in names
  <2> TAKE i \in 1..Len(left)
  <2>1. n + i \in 1..Len(coming)
    BY <1>1
  <2> QED BY <1>1, <1>2, <2>1 DEF Named
<1>4. \A j \in 1..Len(out) : out[j][1] \in names
  <2> TAKE j \in 1..Len(out)
  <2>2. CASE \E i \in 1..Len(seen) : out[j] = seen[i]
    BY <1>2, <2>2 DEF Named
  <2>3. CASE \E i \in 1..n : out[j] = coming[i]
    <3>1. PICK i \in 1..n : out[j] = coming[i]
      BY <2>3
    <3>2. i \in 1..Len(coming)
      BY <1>1
    <3> QED BY <1>2, <3>1, <3>2 DEF Named
  <2> QED BY <1>1, <2>2, <2>3
<1> QED BY <1>2, <1>3, <1>4 DEF Named

\* What the CLI prints comes after what it printed before.
LEMMA SaidIs ==
  ASSUME NEW n \in 0..MaxNoise, NEW text \in Dialogue!Texts
  PROVE  /\ Dialogue!Said(text, n) \in Seq(Dialogue!Token) /\ Len(Dialogue!Said(text, n)) = n + 2
         /\ \A i \in 1..n : Dialogue!Said(text, n)[i] = <<"noise", 1>>
         /\ Dialogue!Said(text, n)[n + 1] = <<text, 1>>
         /\ Dialogue!Said(text, n)[n + 2] = <<text, 2>>
<1> DEFINE a == <<text, 1>>
           b == <<text, 2>>
           x == <<"noise", 1>>
           blank == [i \in 1..n |-> x]
           end == <<a, b>>
<1>1. a \in Dialogue!Token /\ b \in Dialogue!Token /\ x \in Dialogue!Token /\ n \in Nat
  BY ReadLimits DEF Dialogue!Token
<1>2. Dialogue!Said(text, n) = blank \o end
  BY DEF Dialogue!Said
<1> HIDE DEF a, b, x
<1>3. blank \in Seq(Dialogue!Token) /\ Len(blank) = n /\ \A i \in 1..n : blank[i] = x
  BY <1>1
<1>4. end \in Seq(Dialogue!Token) /\ Len(end) = 2 /\ end[1] = a /\ end[2] = b
  BY <1>1
<1> HIDE DEF blank, end
<1>5. PICK said : said = blank \o end
  OBVIOUS
<1>6. /\ said \in Seq(Dialogue!Token) /\ Len(said) = Len(blank) + Len(end)
      /\ \A i \in 1..Len(blank) : said[i] = blank[i]
      /\ \A i \in 1..Len(end) : said[Len(blank) + i] = end[i]
  <2>1. IsJoined(blank, end, blank \o end)
    BY <1>3, <1>4, JoinedIs
  <2>2. IsJoined(blank, end, said)
    BY <1>5, <2>1, Zenon
  <2> QED BY <2>2 DEF IsJoined
<1>7. 1 \in 1..2 /\ 2 \in 1..2
  OBVIOUS
<1>8. said[n + 1] = a /\ said[n + 2] = b
  BY <1>3, <1>4, <1>6, <1>7
<1>9. \A i \in 1..n : said[i] = x
  BY <1>3, <1>6
<1>10. Len(said) = n + 2
  BY <1>3, <1>4, <1>6
<1> QED BY <1>2, <1>5, <1>6, <1>8, <1>9, <1>10 DEF a, b, x

LEMMA Says ==
  ASSUME NEW coming \in Seq(Dialogue!Token), NEW seen, NEW n \in 0..MaxNoise,
         NEW text \in Dialogue!Texts,
         NEW new, new = coming \o Dialogue!Said(text, n)
  PROVE  /\ new \in Seq(Dialogue!Token)
         /\ \A other : AheadIn(seen, coming, other) => AheadIn(seen, new, other)
         /\ AheadIn(seen, new, text)
         /\ \A i \in DOMAIN new : \/ i \in DOMAIN coming /\ new[i] = coming[i]
                                  \/ new[i][1] \in {"noise", text}
<1> DEFINE t == Len(coming)
           said == Dialogue!Said(text, n)
<1>1. /\ said \in Seq(Dialogue!Token) /\ Len(said) = n + 2 /\ n \in Nat /\ t \in Nat
      /\ \A i \in 1..n : said[i] = <<"noise", 1>>
      /\ said[n + 1] = <<text, 1>> /\ said[n + 2] = <<text, 2>>
  BY SaidIs, ReadLimits
<1>2. new = coming \o said
  OBVIOUS
<1> HIDE DEF said
<1>3. /\ new \in Seq(Dialogue!Token) /\ Len(new) = t + Len(said)
      /\ \A i \in 1..t : new[i] = coming[i]
      /\ \A i \in 1..Len(said) : new[t + i] = said[i]
  <2>1. IsJoined(coming, said, coming \o said)
    BY <1>1, JoinedIs
  <2>2. IsJoined(coming, said, new)
    BY <1>2, <2>1, Zenon
  <2> QED BY <2>2 DEF IsJoined
<1>4. new \in Seq(Dialogue!Token) /\ Len(new) = t + n + 2
  BY <1>3, <1>1
<1>5. \A i \in 1..t : new[i] = coming[i]
  BY <1>3
<1>6. \A i \in 1..(n + 2) : new[t + i] = said[i]
  BY <1>3, <1>1
<1>7. DOMAIN coming = 1..t /\ DOMAIN new = 1..(t + n + 2)
  BY <1>4
<1>8. AheadIn(seen, new, text)
  <2>1. /\ t + (n + 1) \in 1..(Len(new) - 1) /\ (t + (n + 1)) + 1 = t + (n + 2)
        /\ n + 1 \in 1..(n + 2) /\ n + 2 \in 1..(n + 2)
    BY <1>1, <1>4
  <2>2. new[t + (n + 1)] = <<text, 1>> /\ new[(t + (n + 1)) + 1] = <<text, 2>>
    BY <1>1, <1>6, <2>1
  <2> QED BY <2>1, <2>2 DEF AheadIn
<1>9. ASSUME NEW other, AheadIn(seen, coming, other) PROVE AheadIn(seen, new, other)
  <2>1. ASSUME NEW i \in 1..(Len(coming) - 1),
               coming[i] = <<other, 1>>, coming[i + 1] = <<other, 2>>
        PROVE  AheadIn(seen, new, other)
    <3>1. i \in 1..t /\ i + 1 \in 1..t /\ i \in 1..(Len(new) - 1)
      BY <1>1, <1>4
    <3>2. new[i] = <<other, 1>> /\ new[i + 1] = <<other, 2>>
      BY <1>5, <2>1, <3>1
    <3> QED BY <3>1, <3>2 DEF AheadIn
  <2>2. ASSUME seen # <<>>, coming # <<>>,
               seen[Len(seen)] = <<other, 1>>, coming[1] = <<other, 2>>
        PROVE  AheadIn(seen, new, other)
    <3>1. 1 \in 1..t
      BY <1>1, <2>2
    <3>2. new[1] = <<other, 2>>
      BY <1>5, <2>2, <3>1
    <3>3. new # <<>>
      <4>1. Len(new) # 0 /\ Len(<<>>) = 0
        BY <1>1, <1>4
      <4> QED BY <4>1
    <3> QED BY <2>2, <3>2, <3>3 DEF AheadIn
  <2> QED BY <1>9, <2>1, <2>2 DEF AheadIn
<1>10. ASSUME NEW i \in DOMAIN new
      PROVE  \/ i \in DOMAIN coming /\ new[i] = coming[i]
             \/ new[i][1] \in {"noise", text}
  <2>0. i \in 1..(t + n + 2) /\ i \in Nat
    BY <1>7
  <2>1. CASE i \in 1..t
    BY <1>5, <1>7, <2>1
  <2>2. CASE i \notin 1..t
    <3>1. i - t \in 1..(n + 2) /\ t + (i - t) = i
      BY <1>1, <2>0, <2>2
    <3>2. new[i] = said[i - t]
      BY <1>6, <3>1
    <3>3. i - t \in 1..n \/ i - t = n + 1 \/ i - t = n + 2
      BY <1>1, <3>1
    <3>4. said[i - t] \in {<<"noise", 1>>, <<text, 1>>, <<text, 2>>}
      BY <1>1, <3>3
    <3> QED BY <3>2, <3>4
  <2> QED BY <2>1, <2>2
<1> QED BY <1>4, <1>8, <1>9, <1>10

\* What is shown was printed.
LEMMA ShownPrinted ==
  ASSUME NEW kept \in Seq(Dialogue!Token), NEW names,
         \A i \in DOMAIN kept : kept[i][1] \in names \cup {"noise"},
         NEW text \in Dialogue!Texts, Dialogue!Shows(kept, text)
  PROVE  text \in names
<1>1. PICK i \in 1..(Len(kept) - 1) : kept[i] = <<text, 1>>
  BY DEF Dialogue!Shows
<1>2. i \in DOMAIN kept
  OBVIOUS
<1>3. kept[i][1] = text
  BY <1>1
<1>4. text # "noise"
  BY TextsAre
<1> QED BY <1>2, <1>3, <1>4

LEMMA RightAnswers ==
  /\ Dialogue!RightAnswer["email"] = "email" /\ Dialogue!RightAnswer["password"] = "password"
  /\ Dialogue!RightAnswer["code"] = "code" /\ Dialogue!RightAnswer["remember"] = "y"
  /\ Dialogue!RightAnswer["keychain"] = "n" /\ Dialogue!RightAnswer["saved"] = "exit"
  /\ \A q \in DOMAIN Dialogue!RightAnswer : Dialogue!RightAnswer[q] \in Dialogue!Answers
       /\ Dialogue!RightAnswer[q] # "none"
<1>1. /\ Dialogue!RightAnswer["email"] = "email" /\ Dialogue!RightAnswer["password"] = "password"
      /\ Dialogue!RightAnswer["code"] = "code" /\ Dialogue!RightAnswer["remember"] = "y"
      /\ Dialogue!RightAnswer["keychain"] = "n" /\ Dialogue!RightAnswer["saved"] = "exit"
  BY DEF Dialogue!RightAnswer
<1>2. \A q \in DOMAIN Dialogue!RightAnswer : Dialogue!RightAnswer[q] \in Dialogue!Answers
  BY DEF Dialogue!Answers
<1>3. \A q \in DOMAIN Dialogue!RightAnswer : Dialogue!RightAnswer[q] # "none"
  BY <1>1, TextsAre
<1> QED BY <1>1, <1>2, <1>3

LEMMA TypesAre == Dialogue!TypeOK <=>
  /\ alive \in BOOLEAN /\ waiting \in BOOLEAN /\ cancelled \in BOOLEAN
  /\ asks \in Dialogue!Questions \cup Dialogue!Texts \cup {"start"}
  /\ told \in Dialogue!Verdicts \cup {"none"}
  /\ given \in [Dialogue!Questions -> Dialogue!Answers \cup {"none"}]
  /\ terminal \in Seq(Dialogue!Token) /\ input \in Seq(Dialogue!Answers)
  /\ output \in Seq(Dialogue!Token) /\ Len(output) <= BufferLimit
  /\ sent \subseteq Dialogue!Texts /\ fields \subseteq {"email", "password"}
  /\ todo \subseteq Dialogue!Texts /\ verdict \in Dialogue!Outcomes
  /\ outcome \in Dialogue!Outcomes
  BY DEF Dialogue!TypeOK

LEMMA TypesAreNext == Dialogue!TypeOK' <=>
  /\ alive' \in BOOLEAN /\ waiting' \in BOOLEAN /\ cancelled' \in BOOLEAN
  /\ asks' \in Dialogue!Questions \cup Dialogue!Texts \cup {"start"}
  /\ told' \in Dialogue!Verdicts \cup {"none"}
  /\ given' \in [Dialogue!Questions -> Dialogue!Answers \cup {"none"}]
  /\ terminal' \in Seq(Dialogue!Token) /\ input' \in Seq(Dialogue!Answers)
  /\ output' \in Seq(Dialogue!Token) /\ Len(output') <= BufferLimit
  /\ sent' \subseteq Dialogue!Texts /\ fields' \subseteq {"email", "password"}
  /\ todo' \subseteq Dialogue!Texts /\ verdict' \in Dialogue!Outcomes
  /\ outcome' \in Dialogue!Outcomes
  BY DEF Dialogue!TypeOK

\* The last text and the verdict go together.
LEMMA ToldIs ==
  ASSUME Dialogue!TypeOK, Dialogue!CliOnItsWay
  PROVE  /\ asks \in Dialogue!Verdicts => told = asks
         /\ asks = "again" => told \in {"badCode", "badLogin"}
         /\ asks \in {"start", "email", "password", "code", "remember"} => told = "none"
         /\ told \in {"keychain", "saved"} => asks = told
<1>1. asks \in Dialogue!Verdicts => told = asks
  BY DEF Dialogue!CliOnItsWay
<1>2. asks = "again" => told \in {"badCode", "badLogin"}
  BY DEF Dialogue!CliOnItsWay
<1>3. asks \in {"start", "email", "password", "code", "remember"} => told = "none"
  BY TextsAre DEF Dialogue!CliOnItsWay
<1>4. asks \in {"start", "email", "password", "code", "remember", "again"} \cup Dialogue!Verdicts
  BY TextsAre DEF Dialogue!TypeOK
<1>5. told \in {"keychain", "saved"} => asks = told
  BY <1>1, <1>2, <1>3, <1>4
<1> QED BY <1>1, <1>2, <1>3, <1>5

\* What is printed and not dealt with is the last question or the verdict.
Current(text) ==
  IF text \in DOMAIN Dialogue!RightAnswer THEN asks = text ELSE told = text

LEMMA OneCurrent ==
  ASSUME Dialogue!TypeOK, Dialogue!CliOnItsWay, NEW t \in Dialogue!Texts,
         NEW u \in Dialogue!Texts, Current(t), Current(u)
  PROVE  t = u
<1>1. CASE t \in DOMAIN Dialogue!RightAnswer /\ u \in DOMAIN Dialogue!RightAnswer
  BY <1>1 DEF Current
<1>2. CASE t \notin DOMAIN Dialogue!RightAnswer /\ u \notin DOMAIN Dialogue!RightAnswer
  BY <1>2 DEF Current
<1>3. ASSUME NEW a \in Dialogue!Texts, NEW b \in Dialogue!Texts,
          a \in DOMAIN Dialogue!RightAnswer, b \notin DOMAIN Dialogue!RightAnswer,
             Current(a), Current(b)
      PROVE  FALSE
  <2>1. asks = a /\ told = b
    BY <1>3 DEF Current
  <2>2. b \in {"badCode", "badLogin"}
    BY <1>3, TextsAre
  <2>3. a \in {"email", "password", "code", "remember", "keychain", "saved"}
    BY <1>3, TextsAre
  <2> QED BY <2>1, <2>2, <2>3, ToldIs, TextsAre
<1> QED BY <1>1, <1>2, <1>3

LEMMA TodoCurrent ==
  ASSUME Dialogue!TypeOK, Dialogue!CliOnItsWay, Dialogue!AnswerInOrder
  PROVE  /\ \A t \in todo : t \in Dialogue!Texts /\ t \in sent /\ Current(t)
         /\ \A t \in todo : todo \ {t} = {}
<1>1. \A t \in todo : t \in Dialogue!Texts /\ t \in sent
  BY DEF Dialogue!TypeOK, Dialogue!AnswerInOrder
<1>2. \A t \in todo : Current(t)
  BY DEF Dialogue!AnswerInOrder, Current, Dialogue!Unanswered
<1>3. \A t, u \in todo : t = u
  BY <1>1, <1>2, OneCurrent
<1> QED BY <1>1, <1>2, <1>3

PrintedIn(a, t, g) ==
  {text \in Dialogue!Texts : text \in {a, t}
      \/ (text \in DOMAIN Dialogue!RightAnswer /\ g[text] # "none")}

LEMMA PrintedIs == Dialogue!Printed = PrintedIn(asks, told, given)
    /\ Dialogue!Printed' = PrintedIn(asks', told', given')
  BY DEF Dialogue!Printed, PrintedIn

LEMMA SamePrinted == UNCHANGED <<asks, told, given>> => Dialogue!Printed' = Dialogue!Printed
  BY PrintedIs

LEMMA SameWay == Dialogue!CliOnItsWay /\ UNCHANGED <<asks, told, given>> => Dialogue!CliOnItsWay'
  BY DEF Dialogue!CliOnItsWay

LEMMA SameAhead == UNCHANGED <<terminal, output>>
    => \A text : Dialogue!Ahead(text)' <=> Dialogue!Ahead(text)
  BY DEF Dialogue!Ahead

LEMMA SameOverlooked ==
  ASSUME Dialogue!NothingOverlooked, UNCHANGED <<terminal, output, sent>>,
         Dialogue!Printed' = Dialogue!Printed
  PROVE  Dialogue!NothingOverlooked'
<1>1. \A text : Dialogue!Ahead(text)' <=> Dialogue!Ahead(text)
  BY SameAhead
<1> QED BY <1>1 DEF Dialogue!NothingOverlooked

LEMMA SameAnswers == Dialogue!OwnAnswers /\ UNCHANGED given => Dialogue!OwnAnswers'
  BY DEF Dialogue!OwnAnswers

LEMMA SameOrder ==
  ASSUME Dialogue!AnswerInOrder, UNCHANGED <<asks, told, given, input, sent, todo, waiting>>
  PROVE  Dialogue!AnswerInOrder'
<1>1. Dialogue!Printed' = Dialogue!Printed
  BY SamePrinted
<1> QED BY <1>1 DEF Dialogue!AnswerInOrder, Dialogue!Unanswered

-----------------------------------------------------------------------------
(* The child ends                                                          *)

LEMMA EndsKept ==
  ASSUME Dialogue!DriverInv, Dialogue!CliEnd \/ Dialogue!Cancel \/ Dialogue!Finish
  PROVE  Dialogue!DriverInv'
<1>1. Dialogue!TypeOK /\ Dialogue!CliOnItsWay /\ Dialogue!AnswerInOrder
          /\ Dialogue!NothingOverlooked /\ Dialogue!VerdictKnown /\ Dialogue!OwnAnswers
  BY DEF Dialogue!DriverInv
<1>2. /\ UNCHANGED <<asks, told, given>> /\ UNCHANGED <<terminal, input, output, sent>>
      /\ UNCHANGED <<fields, todo, waiting, verdict>> /\ alive' = FALSE
      /\ \/ UNCHANGED <<outcome, cancelled>>
         \/ cancelled' = TRUE /\ UNCHANGED outcome
         \/ outcome' = verdict /\ UNCHANGED cancelled
  BY DEF Dialogue!CliEnd, Dialogue!Cancel, Dialogue!Finish, Dialogue!driverVars
<1>3. Dialogue!Printed' = Dialogue!Printed
  BY <1>2, SamePrinted
<1>4. Dialogue!TypeOK'
  BY <1>1, <1>2, TypesAre, TypesAreNext
<1>5. Dialogue!CliOnItsWay' /\ Dialogue!OwnAnswers'
  BY <1>1, <1>2, SameWay, SameAnswers
<1>6. Dialogue!AnswerInOrder'
  BY <1>1, <1>2, SameOrder
<1>7. Dialogue!NothingOverlooked'
  BY <1>1, <1>2, <1>3, SameOverlooked
<1>8. Dialogue!VerdictKnown'
  <2>1. outcome' # "none" => outcome' = verdict'
    BY <1>1, <1>2 DEF Dialogue!VerdictKnown
  <2>2. verdict' = "cancelled" => cancelled'
    BY <1>1, <1>2 DEF Dialogue!VerdictKnown
  <2>3. told' \in sent' => told' \in todo' \/ verdict' # "none"
    BY <1>1, <1>2 DEF Dialogue!VerdictKnown
  <2>4. verdict' \in Dialogue!Verdicts => verdict' = told'
    BY <1>1, <1>2 DEF Dialogue!VerdictKnown
  <2>5. verdict' \in {"failed", "cancelled"} => told' = "none"
    BY <1>1, <1>2 DEF Dialogue!VerdictKnown
  <2>6. waiting' => verdict' = "none"
    BY <1>1, <1>2 DEF Dialogue!VerdictKnown
  <2> QED BY <1>2, <2>1, <2>2, <2>3, <2>4, <2>5, <2>6 DEF Dialogue!VerdictKnown
<1> QED BY <1>4, <1>5, <1>6, <1>7, <1>8 DEF Dialogue!DriverInv

-----------------------------------------------------------------------------
(* The CLI reads                                                           *)

LEMMA TakeKept ==
  ASSUME Dialogue!DriverInv, Dialogue!CliTake
  PROVE  Dialogue!DriverInv'
<1>1. Dialogue!TypeOK /\ Dialogue!CliOnItsWay /\ Dialogue!AnswerInOrder
          /\ Dialogue!NothingOverlooked /\ Dialogue!VerdictKnown /\ Dialogue!OwnAnswers
  BY DEF Dialogue!DriverInv
<1>2. /\ alive /\ input # <<>> /\ asks \in Dialogue!Questions /\ given[asks] = "none"
      /\ given' = [given EXCEPT ![asks] = Head(input)] /\ input' = Tail(input)
      /\ UNCHANGED <<alive, asks, told, terminal, output, sent>>
      /\ UNCHANGED <<fields, todo, waiting, verdict, outcome, cancelled>>
  BY DEF Dialogue!CliTake, Dialogue!driverVars
<1>3. asks \in DOMAIN Dialogue!RightAnswer /\ input = <<Dialogue!RightAnswer[asks]>>
          /\ asks \in sent
  BY <1>1, <1>2 DEF Dialogue!AnswerInOrder
<1>4. Head(input) = Dialogue!RightAnswer[asks] /\ input' = <<>>
  BY <1>2, <1>3
<1>5. given \in [Dialogue!Questions -> Dialogue!Answers \cup {"none"}]
  BY <1>1 DEF Dialogue!TypeOK
<1>6. Dialogue!RightAnswer[asks] \in Dialogue!Answers /\ Dialogue!RightAnswer[asks] # "none"
  BY <1>3, RightAnswers
<1>7. /\ given' \in [Dialogue!Questions -> Dialogue!Answers \cup {"none"}]
      /\ given'[asks] = Dialogue!RightAnswer[asks]
      /\ \A q \in Dialogue!Questions : q # asks => given'[q] = given[q]
  BY <1>2, <1>4, <1>5, <1>6
<1>8. DOMAIN Dialogue!RightAnswer \subseteq Dialogue!Questions
  BY DEF Dialogue!Questions
<1>9. \A q \in DOMAIN Dialogue!RightAnswer :
          given'[q] # "none" <=> (given[q] # "none" \/ q = asks)
  BY <1>6, <1>7, <1>8
<1>10. asks \in Dialogue!Texts
  BY <1>3, TextsAre
<1>11. Dialogue!Printed' = Dialogue!Printed
  BY <1>2, <1>9, <1>10 DEF Dialogue!Printed
<1>12. Dialogue!TypeOK'
  <2>1. input' \in Seq(Dialogue!Answers)
    BY <1>4
  <2> QED BY <1>1, <1>2, <1>7, <2>1, TypesAre, TypesAreNext
<1>13. Dialogue!CliOnItsWay'
  <2>1. \A q \in Dialogue!Questions : given'[q] # "none"
            => Dialogue!Stage[q] <= Dialogue!Stage[asks']
    <3> TAKE q \in Dialogue!Questions
    <3>1. CASE q = asks
      <4>1. Dialogue!Stage[asks] <= Dialogue!Stage[asks]
        BY <1>3, TextsAre, StagesAre
      <4> QED BY <1>2, <3>1, <4>1
    <3>2. CASE q # asks
      BY <1>1, <1>2, <1>7, <3>2 DEF Dialogue!CliOnItsWay
    <3> QED BY <3>1, <3>2
  <2>2. asks' \notin {"start", "email"} => given'["email"] # "none"
    BY <1>1, <1>2, <1>9, TextsAre DEF Dialogue!CliOnItsWay
  <2> QED BY <1>1, <1>2, <2>1, <2>2 DEF Dialogue!CliOnItsWay
<1>14. Dialogue!OwnAnswers'
  <2>1. \A q \in Dialogue!Questions : given'[q] # "none"
            => q \in DOMAIN Dialogue!RightAnswer /\ given'[q] = Dialogue!RightAnswer[q]
    BY <1>1, <1>3, <1>7 DEF Dialogue!OwnAnswers
  <2> QED BY <2>1 DEF Dialogue!OwnAnswers
<1>15. Dialogue!AnswerInOrder'
  <2>1. \A text \in todo : text \notin DOMAIN Dialogue!RightAnswer /\ told = text
    BY <1>1, <1>2 DEF Dialogue!AnswerInOrder, Dialogue!Unanswered
  <2>2. ~waiting'
    BY <1>1, <1>2 DEF Dialogue!AnswerInOrder, Dialogue!Unanswered
  <2>3. todo' \subseteq sent' /\ sent' \subseteq Dialogue!Printed'
    BY <1>1, <1>2, <1>11 DEF Dialogue!AnswerInOrder
  <2>4. \A q \in DOMAIN Dialogue!RightAnswer : given'[q] # "none" => q \in sent'
    BY <1>1, <1>2, <1>3, <1>9 DEF Dialogue!AnswerInOrder
  <2>5. input' = <<>>
    BY <1>4
  <2> QED BY <1>2, <2>1, <2>2, <2>3, <2>4, <2>5 DEF Dialogue!AnswerInOrder
<1>16. Dialogue!NothingOverlooked'
  BY <1>1, <1>2, <1>11, SameOverlooked
<1>17. Dialogue!VerdictKnown'
  <2>1. verdict \in {"failed", "cancelled"} => FALSE
    BY <1>1, <1>2 DEF Dialogue!VerdictKnown, Dialogue!Unanswered
  <2> QED BY <1>1, <1>2, <2>1 DEF Dialogue!VerdictKnown
<1> QED BY <1>12, <1>13, <1>14, <1>15, <1>16, <1>17 DEF Dialogue!DriverInv

-----------------------------------------------------------------------------
(* The CLI prints                                                          *)

LEMMA SayFacts ==
  ASSUME Dialogue!TypeOK, Dialogue!CliOnItsWay, NEW next, asks \in DOMAIN Dialogue!Follows,
         next \in Dialogue!Follows[asks],
         asks \in Dialogue!Questions => given[asks] # "none"
  PROVE  /\ next \in Dialogue!Texts \cup {"again"}
         /\ next \in Dialogue!Questions \cup Dialogue!Verdicts
         /\ next = "again" => asks \in {"badLogin", "badCode"} /\ told = asks
         /\ next # "again" => told = "none" /\ asks \notin Dialogue!Verdicts
         /\ Dialogue!Stage[asks] < Dialogue!Stage[next] /\ Dialogue!Stage[next] \in Nat
         /\ next # "start"
         /\ next # "email" => given["email"] # "none"
         /\ asks \in Dialogue!Texts => asks \in Dialogue!Verdicts
              \/ (asks \in DOMAIN Dialogue!RightAnswer /\ given[asks] # "none")
         /\ \A q \in Dialogue!Questions : given[q] # "none" => q # next
<1>1. \/ asks = "start" /\ next = "email"
      \/ asks = "email" /\ next = "password"
      \/ asks = "password" /\ next \in {"badLogin", "code", "remember"}
      \/ asks = "code" /\ next \in {"badCode", "remember"}
      \/ asks = "remember" /\ next \in {"saved", "keychain"}
      \/ asks \in {"badLogin", "badCode"} /\ next = "again"
  BY FollowsIs
<1>2. Dialogue!Stage[asks] < Dialogue!Stage[next] /\ Dialogue!Stage[next] \in Nat
          /\ Dialogue!Stage[asks] \in Nat
  BY <1>1, StagesAre
<1>3. \A q \in Dialogue!Questions : given[q] # "none" => q # next
  <2> SUFFICES ASSUME next \in Dialogue!Questions, given[next] # "none" PROVE FALSE
    OBVIOUS
  <2>1. Dialogue!Stage[next] <= Dialogue!Stage[asks]
    BY DEF Dialogue!CliOnItsWay
  <2> QED BY <1>2, <2>1
<1>4. next # "email" => given["email"] # "none"
  <2>1. asks = "email" => given["email"] # "none"
    BY TextsAre
  <2>2. asks \notin {"start", "email"} => given["email"] # "none"
    BY DEF Dialogue!CliOnItsWay
  <2> QED BY <1>1, <2>1, <2>2
<1>5. next = "again" => asks \in {"badLogin", "badCode"} /\ told = asks
  BY <1>1, ToldIs, TextsAre
<1>6. next # "again" => told = "none" /\ asks \notin Dialogue!Verdicts
  BY <1>1, ToldIs, TextsAre
<1>7. asks \in Dialogue!Texts => asks \in Dialogue!Verdicts
          \/ (asks \in DOMAIN Dialogue!RightAnswer /\ given[asks] # "none")
  BY TextsAre
<1>8. next \in Dialogue!Texts \cup {"again"}
          /\ next \in Dialogue!Questions \cup Dialogue!Verdicts /\ next # "start"
  BY <1>1, TextsAre
<1> QED BY <1>2, <1>3, <1>4, <1>5, <1>6, <1>7, <1>8

LEMMA SayKept ==
  ASSUME Dialogue!DriverInv, Dialogue!CliSay
  PROVE  Dialogue!DriverInv'
<1>1. Dialogue!TypeOK /\ Dialogue!CliOnItsWay /\ Dialogue!AnswerInOrder
          /\ Dialogue!NothingOverlooked /\ Dialogue!VerdictKnown /\ Dialogue!OwnAnswers
  BY DEF Dialogue!DriverInv
<1>2. PICK next \in Dialogue!Follows[asks], n \in 0..MaxNoise :
        LET text == IF next = "again" THEN "email" ELSE next
        IN /\ asks' = next
           /\ told' = IF next \in Dialogue!Verdicts THEN next ELSE told
           /\ terminal' = terminal \o Dialogue!Said(text, n)
  BY Zenon DEF Dialogue!CliSay
<1>3. /\ asks \in DOMAIN Dialogue!Follows /\ next \in Dialogue!Follows[asks]
      /\ asks' = next /\ told' = IF next \in Dialogue!Verdicts THEN next ELSE told
  BY <1>2 DEF Dialogue!CliSay
<1>4. /\ alive /\ (asks \in Dialogue!Questions => given[asks] # "none")
      /\ UNCHANGED <<alive, given, input, output, sent>>
      /\ UNCHANGED <<fields, todo, waiting, verdict, outcome, cancelled>>
  BY DEF Dialogue!CliSay, Dialogue!driverVars
<1>5. /\ next \in Dialogue!Texts \cup {"again"}
      /\ next \in Dialogue!Questions \cup Dialogue!Verdicts
      /\ next = "again" => asks \in {"badLogin", "badCode"} /\ told = asks
      /\ next # "again" => told = "none" /\ asks \notin Dialogue!Verdicts
      /\ Dialogue!Stage[asks] < Dialogue!Stage[next] /\ Dialogue!Stage[next] \in Nat
      /\ next # "start"
      /\ next # "email" => given["email"] # "none"
      /\ asks \in Dialogue!Texts => asks \in Dialogue!Verdicts
           \/ (asks \in DOMAIN Dialogue!RightAnswer /\ given[asks] # "none")
      /\ \A q \in Dialogue!Questions : given[q] # "none" => q # next
  BY <1>1, <1>3, <1>4, SayFacts
<1>6. PICK text : /\ text = IF next = "again" THEN "email" ELSE next
                  /\ terminal' = terminal \o Dialogue!Said(text, n)
  BY <1>2, Zenon
<1>7. text \in Dialogue!Texts
  BY <1>5, <1>6, TextsAre
<1>8. terminal \in Seq(Dialogue!Token) /\ terminal' = terminal \o Dialogue!Said(text, n)
  BY <1>1, <1>6 DEF Dialogue!TypeOK
<1>9. /\ terminal' \in Seq(Dialogue!Token)
      /\ \A other : AheadIn(output, terminal, other) => AheadIn(output, terminal', other)
      /\ AheadIn(output, terminal', text)
      /\ \A i \in DOMAIN terminal' : \/ i \in DOMAIN terminal /\ terminal'[i] = terminal[i]
                                     \/ terminal'[i][1] \in {"noise", text}
  BY <1>7, <1>8, Says
<1>10. given["email"] # "none" \/ text = next
  BY <1>5, <1>6
\* What was printed is what was, and the text.
<1>11. Dialogue!Printed' = Dialogue!Printed \cup {text}
  <2>1. Dialogue!Printed' = {t \in Dialogue!Texts : \/ t \in {next, told'}
                                                    \/ t \in DOMAIN Dialogue!RightAnswer
                                                         /\ given[t] # "none"}
    BY <1>3, <1>4 DEF Dialogue!Printed
  <2>2. CASE next = "again"
    <3>1. told' = told /\ next \notin Dialogue!Texts /\ told = asks /\ text = "email"
      BY <1>3, <1>5, <1>6, <2>2, TextsAre
    <3>2. "email" \in Dialogue!Printed
      BY <1>5, <2>2, TextsAre DEF Dialogue!Printed
    <3> QED BY <2>1, <3>1, <3>2 DEF Dialogue!Printed
  <2>3. CASE next # "again"
    <3>1. text = next /\ told = "none" /\ asks \notin Dialogue!Verdicts
              /\ told' \in {next, "none"}
      BY <1>3, <1>5, <1>6, <2>3
    <3>2. asks \in Dialogue!Texts => asks \in DOMAIN Dialogue!RightAnswer /\ given[asks] # "none"
      BY <1>5, <3>1
    <3>3. "none" \notin Dialogue!Texts
      BY TextsAre
    <3> QED BY <1>7, <2>1, <3>1, <3>2, <3>3 DEF Dialogue!Printed
  <2> QED BY <2>2, <2>3
<1>12. next # "again" => next \notin Dialogue!Printed
  <2> SUFFICES ASSUME next # "again", next \in Dialogue!Printed PROVE FALSE
    OBVIOUS
  <2>1. next \in Dialogue!Texts /\ "none" \notin Dialogue!Texts
    BY <1>5, TextsAre
  <2>2. next # told
    BY <1>5, <2>1
  <2>3. next # asks
    BY <1>5
  <2>4. next \in DOMAIN Dialogue!RightAnswer /\ given[next] # "none"
    BY <2>2, <2>3 DEF Dialogue!Printed
  <2>5. next \in Dialogue!Questions
    BY <2>4 DEF Dialogue!Questions
  <2> QED BY <1>5, <2>4, <2>5
\* Nothing is on its way or to be done: the CLI had its answer.
<1>13. input = <<>> /\ \A text2 \in todo : text2 \notin DOMAIN Dialogue!RightAnswer
  <2>1. asks \in DOMAIN Dialogue!RightAnswer => given[asks] # "none"
    BY <1>4 DEF Dialogue!Questions
  <2> QED BY <1>1, <2>1 DEF Dialogue!AnswerInOrder, Dialogue!Unanswered
<1>14. ~waiting
  <2>1. waiting => asks = "code" /\ given["code"] = "none"
    BY <1>1 DEF Dialogue!AnswerInOrder, Dialogue!Unanswered
  <2> QED BY <1>4, <2>1, TextsAre
<1>15. Dialogue!CliOnItsWay'
  <2>1. \A q \in Dialogue!Questions : given[q] # "none"
            => Dialogue!Stage[q] <= Dialogue!Stage[next]
    <3> TAKE q \in Dialogue!Questions
    <3> SUFFICES ASSUME given[q] # "none" PROVE Dialogue!Stage[q] <= Dialogue!Stage[next]
      OBVIOUS
    <3>1. Dialogue!Stage[q] <= Dialogue!Stage[asks]
      BY <1>1 DEF Dialogue!CliOnItsWay
    <3>2. Dialogue!Stage[q] \in Nat /\ Dialogue!Stage[asks] \in Nat
      <4>1. q \in {"email", "password", "code", "remember", "keychain", "saved", "again"}
        BY TextsAre
      <4>2. asks \in {"email", "password", "code", "remember", "keychain", "saved", "again",
                      "badCode", "badLogin", "start"}
        BY <1>1, TextsAre DEF Dialogue!TypeOK
      <4> QED BY <4>1, <4>2, StagesAre
    <3> QED BY <1>5, <3>1, <3>2
  <2>2. asks' \notin {"start", "email"} => given'["email"] # "none"
    BY <1>3, <1>4, <1>5
  <2>3. told' = IF asks' \in Dialogue!Verdicts THEN asks' ELSE IF asks' = "again" THEN told'
            ELSE "none"
    BY <1>3, <1>5
  <2>4. asks' = "again" => told' \in {"badCode", "badLogin"}
    BY <1>3, <1>5, TextsAre
  <2> QED BY <1>3, <1>4, <2>1, <2>2, <2>3, <2>4 DEF Dialogue!CliOnItsWay
<1>16. Dialogue!TypeOK'
  <2>1. told' \in Dialogue!Verdicts \cup {"none"}
    BY <1>1, <1>3 DEF Dialogue!TypeOK
  <2>2. asks' \in Dialogue!Questions \cup Dialogue!Texts \cup {"start"}
    BY <1>3, <1>5 DEF Dialogue!Questions
  <2> QED BY <1>1, <1>4, <1>9, <2>1, <2>2, TypesAre, TypesAreNext
<1>17. Dialogue!NothingOverlooked'
  <2>1. \A i \in DOMAIN terminal' : terminal'[i][1] \in Dialogue!Printed' \cup {"noise"}
    BY <1>1, <1>9, <1>11 DEF Dialogue!NothingOverlooked
  <2>2. \A i \in DOMAIN output' : output'[i][1] \in Dialogue!Printed' \cup {"noise"}
    BY <1>1, <1>4, <1>11 DEF Dialogue!NothingOverlooked
  <2>3. \A t \in Dialogue!Printed' \ sent' : Dialogue!Ahead(t)'
    <3> TAKE t \in Dialogue!Printed' \ sent'
    <3>1. CASE t = text
      BY <1>4, <1>9, <3>1, AheadIs
    <3>2. CASE t # text
      <4>1. Dialogue!Ahead(t)
        BY <1>1, <1>4, <1>11, <3>2 DEF Dialogue!NothingOverlooked
      <4> QED BY <1>4, <1>9, <4>1, AheadIs
    <3> QED BY <3>1, <3>2
  <2> QED BY <2>1, <2>2, <2>3 DEF Dialogue!NothingOverlooked
<1>18. Dialogue!AnswerInOrder'
  <2>1. todo' \subseteq sent' /\ sent' \subseteq Dialogue!Printed'
    BY <1>1, <1>4, <1>11 DEF Dialogue!AnswerInOrder
  <2>2. \A t \in todo' : t \notin DOMAIN Dialogue!RightAnswer /\ told' = t
    <3> TAKE t \in todo'
    <3>1. t \notin DOMAIN Dialogue!RightAnswer /\ told = t
      BY <1>1, <1>4, <1>13 DEF Dialogue!AnswerInOrder
    <3>2. t \in Dialogue!Texts /\ "none" \notin Dialogue!Texts
      BY <1>1, <1>4, TextsAre DEF Dialogue!TypeOK
    <3>3. next = "again"
      BY <1>5, <3>1, <3>2
    <3> QED BY <1>3, <3>1, <3>3, TextsAre
  <2>3. \A q \in DOMAIN Dialogue!RightAnswer : given'[q] # "none" => q \in sent'
    BY <1>1, <1>4 DEF Dialogue!AnswerInOrder
  <2> QED BY <1>4, <1>13, <1>14, <2>1, <2>2, <2>3 DEF Dialogue!AnswerInOrder
<1>19. Dialogue!VerdictKnown'
  <2>1. next \in Dialogue!Verdicts => next \notin sent
    BY <1>1, <1>12, TextsAre DEF Dialogue!AnswerInOrder
  <2>2. told' \in sent' => told' \in todo' \/ verdict' # "none"
    BY <1>1, <1>3, <1>4, <2>1 DEF Dialogue!VerdictKnown
  <2>3. verdict \notin {"failed", "cancelled"}
    <3>1. \A q \in DOMAIN Dialogue!RightAnswer : ~Dialogue!Unanswered(q)
      BY <1>4 DEF Dialogue!Unanswered, Dialogue!Questions
    <3> QED BY <1>1, <1>4, <3>1 DEF Dialogue!VerdictKnown
  <2>4. verdict' \in Dialogue!Verdicts => verdict' = told'
    <3> SUFFICES ASSUME verdict \in Dialogue!Verdicts PROVE verdict = told'
      BY <1>4
    <3>1. verdict = told /\ "none" \notin Dialogue!Verdicts
      BY <1>1, TextsAre DEF Dialogue!VerdictKnown
    <3>2. next = "again"
      BY <1>5, <3>1
    <3> QED BY <1>3, <3>1, <3>2, TextsAre
  <2> QED BY <1>1, <1>4, <1>14, <2>2, <2>3, <2>4 DEF Dialogue!VerdictKnown
<1>20. Dialogue!OwnAnswers'
  BY <1>1, <1>4, SameAnswers
<1> QED BY <1>15, <1>16, <1>17, <1>18, <1>19, <1>20 DEF Dialogue!DriverInv

-----------------------------------------------------------------------------
(* The driver reads                                                        *)

\* What was printed and is not yet dealt with.
LEMMA FreshIs ==
  ASSUME Dialogue!TypeOK, Dialogue!CliOnItsWay, Dialogue!AnswerInOrder,
         NEW t \in Dialogue!Printed, t \notin sent
  PROVE  /\ IF t \in DOMAIN Dialogue!RightAnswer THEN Dialogue!Unanswered(t) ELSE told = t
         /\ t \in Dialogue!Texts /\ Current(t)
<1>1. t \in Dialogue!Texts /\ "none" \notin Dialogue!Texts
  BY TextsAre DEF Dialogue!Printed
<1>2. CASE t \in DOMAIN Dialogue!RightAnswer
  <2>1. given[t] = "none" /\ ~(asks = t /\ input # <<>>)
    BY <1>2 DEF Dialogue!AnswerInOrder
  <2>2. t \in {asks, told}
    BY <2>1 DEF Dialogue!Printed
  <2>3. t \notin {"badCode", "badLogin"}
    BY <1>2, TextsAre
  <2>4. told = t => t \in {"keychain", "saved"}
    BY <1>1, <2>3, TextsAre DEF Dialogue!TypeOK
  <2>5. asks = t
    BY <2>2, <2>4, ToldIs
  <2> QED BY <1>1, <1>2, <2>1, <2>5 DEF Dialogue!Unanswered, Current
<1>3. CASE t \notin DOMAIN Dialogue!RightAnswer
  <2>1. t \in {asks, told}
    BY <1>3 DEF Dialogue!Printed
  <2>2. t \in Dialogue!Verdicts
    BY <1>1, <1>3, TextsAre
  <2>3. told = t
    BY <2>1, <2>2, ToldIs
  <2> QED BY <1>1, <1>3, <2>3 DEF Current
<1> QED BY <1>2, <1>3

LEMMA ActionsAre ==
  ASSUME NEW kept, \A t, u \in {text \in Dialogue!Texts : Dialogue!Shows(kept, text)
         /\ text \notin sent} : t = u
  PROVE  Dialogue!Actions(kept) = {text \in Dialogue!Texts : Dialogue!Shows(kept, text)
         /\ text \notin sent}
<1> DEFINE found == {text \in Dialogue!Texts : Dialogue!Shows(kept, text) /\ text \notin sent}
<1>1. Dialogue!Actions(kept) = {text \in found : \A last \in found \cap Dialogue!Verdicts :
          Dialogue!Place[text] <= Dialogue!Place[last]}
  BY DEF Dialogue!Actions
<1>2. found \subseteq Dialogue!Texts /\ \A t, u \in found : t = u
  OBVIOUS
<1> HIDE DEF found
<1>3. \A t, u \in found : Dialogue!Place[t] <= Dialogue!Place[u]
  <2> TAKE t, u \in found
  <2>1. Dialogue!Place[t] \in Nat /\ t = u
    BY <1>2, PlacesAre
  <2>2. Dialogue!Place[t] <= Dialogue!Place[t]
    BY <2>1
  <2> QED BY <2>1, <2>2
<1> QED BY <1>1, <1>3 DEF found

LEMMA ReadKept ==
  ASSUME Dialogue!DriverInv, Dialogue!Read
  PROVE  Dialogue!DriverInv'
<1>1. Dialogue!TypeOK /\ Dialogue!CliOnItsWay /\ Dialogue!AnswerInOrder
          /\ Dialogue!NothingOverlooked /\ Dialogue!VerdictKnown /\ Dialogue!OwnAnswers
  BY DEF Dialogue!DriverInv
<1>2. PICK n \in 1..MaxChunk :
        /\ n <= Len(terminal)
        /\ output' = Dialogue!Trimmed(output, SubSeq(terminal, 1, n))
        /\ terminal' = SubSeq(terminal, n + 1, Len(terminal))
        /\ todo' = Dialogue!Actions(output') /\ sent' = sent \cup todo'
  BY DEF Dialogue!Read
<1>3. /\ verdict = "none" /\ todo = {} /\ ~waiting
      /\ UNCHANGED <<alive, asks, told, given, input>>
      /\ UNCHANGED <<fields, waiting, verdict, outcome, cancelled>>
  BY DEF Dialogue!Read, Dialogue!Reading, Dialogue!cliVars
<1>4. terminal \in Seq(Dialogue!Token) /\ output \in Seq(Dialogue!Token)
  BY <1>1 DEF Dialogue!TypeOK
<1>5. PICK coming, seen, out, left, names :
        /\ coming = terminal /\ seen = output /\ out = output' /\ left = terminal'
        /\ names = Dialogue!Printed \cup {"noise"}
  OBVIOUS
<1>6. IsRead(coming, seen, n, out, left)
  <2>1. /\ coming \in Seq(Dialogue!Token) /\ seen \in Seq(Dialogue!Token) /\ n <= Len(coming)
        /\ out = Dialogue!Trimmed(seen, SubSeq(coming, 1, n))
        /\ left = SubSeq(coming, n + 1, Len(coming))
    BY <1>5, <1>2, <1>4
  <2> QED BY <2>1, ReadIs
<1>7. coming \in Seq(Dialogue!Token) /\ seen \in Seq(Dialogue!Token)
          /\ out \in Seq(Dialogue!Token) /\ left \in Seq(Dialogue!Token)
  <2>1. /\ coming \in Seq(Dialogue!Token) /\ seen \in Seq(Dialogue!Token) /\ n <= Len(coming)
        /\ out = Dialogue!Trimmed(seen, SubSeq(coming, 1, n))
        /\ left = SubSeq(coming, n + 1, Len(coming))
    BY <1>5, <1>2, <1>4
  <2>2. out \in Seq(Dialogue!Token) /\ left \in Seq(Dialogue!Token)
    BY <2>1, ReadIs
  <2> QED BY <2>1, <2>2
<1>8. Len(output') <= BufferLimit /\ output' \in Seq(Dialogue!Token)
          /\ terminal' \in Seq(Dialogue!Token)
  BY <1>5, <1>6, <1>7 DEF IsRead
<1>9. /\ \A i \in DOMAIN left : left[i][1] \in names
      /\ \A i \in DOMAIN out : out[i][1] \in names
  <2>1. /\ \A i \in DOMAIN terminal : terminal[i][1] \in Dialogue!Printed \cup {"noise"}
        /\ \A i \in DOMAIN output : output[i][1] \in Dialogue!Printed \cup {"noise"}
    BY <1>1, Zenon DEF Dialogue!NothingOverlooked
  <2>2. Named(coming, names) /\ Named(seen, names)
    BY <1>5, <2>1 DEF Named
  <2>3. Named(left, names) /\ Named(out, names)
    BY <1>6, <1>7, <2>2, ReadKeeps
  <2> QED BY <2>3 DEF Named
<1> DEFINE found == {text \in Dialogue!Texts : Dialogue!Shows(output', text) /\ text \notin sent}
<1>10. \A t \in found : t \in Dialogue!Printed /\ t \notin sent /\ t \in Dialogue!Texts
  <2> TAKE t \in found
  <2>1. t \in Dialogue!Texts /\ Dialogue!Shows(output', t) /\ t \notin sent
    OBVIOUS
  <2>2. t \in Dialogue!Printed
    <3>1. Dialogue!Shows(out, t) /\ \A i \in DOMAIN out :
              out[i][1] \in Dialogue!Printed \cup {"noise"}
      BY <1>5, <1>9, <2>1
    <3> QED BY <1>7, <2>1, <3>1, ShownPrinted
  <2> QED BY <2>1, <2>2
<1>11. \A t \in found : /\ IF t \in DOMAIN Dialogue!RightAnswer THEN Dialogue!Unanswered(t)
                             ELSE told = t
                       /\ Current(t)
  BY <1>1, <1>10, FreshIs
<1>12. \A t, u \in found : t = u
  BY <1>1, <1>10, <1>11, OneCurrent
<1>13. todo' = found
  BY <1>2, <1>12, ActionsAre
<1>14. Dialogue!Printed' = Dialogue!Printed
  BY <1>3, SamePrinted
<1>15. sent' = sent \cup found
  BY <1>2, <1>13
<1>16. Dialogue!TypeOK'
  <2>1. sent' \subseteq Dialogue!Texts /\ todo' \subseteq Dialogue!Texts
    BY <1>1, <1>10, <1>13, <1>15 DEF Dialogue!TypeOK
  <2> QED BY <1>1, <1>3, <1>8, <2>1, TypesAre, TypesAreNext
<1>17. Dialogue!NothingOverlooked'
  <2>1. \A t \in Dialogue!Printed' \ sent' : Dialogue!Ahead(t)'
    <3> TAKE t \in Dialogue!Printed' \ sent'
    <3>1. t \in Dialogue!Printed \ sent /\ t \notin found
      BY <1>14, <1>15
    <3>2. t \in Dialogue!Texts
      BY <3>1 DEF Dialogue!Printed
    <3>3. ~Dialogue!Shows(output', t)
      BY <3>1, <3>2
    <3>4. Dialogue!Ahead(t)
      BY <1>1, <3>1 DEF Dialogue!NothingOverlooked
    <3>5. AheadIn(seen, coming, t) /\ ~Dialogue!Shows(out, t)
      BY <1>5, <3>3, <3>4, AheadIs
    <3>6. AheadIn(out, left, t)
      BY <1>6, <1>7, <3>5, ReadFinds
    <3> QED BY <1>5, <3>6, AheadIs
  <2>2. \A i \in DOMAIN terminal' : terminal'[i][1] \in Dialogue!Printed' \cup {"noise"}
    BY <1>5, <1>9, <1>14
  <2>3. \A i \in DOMAIN output' : output'[i][1] \in Dialogue!Printed' \cup {"noise"}
    BY <1>5, <1>9, <1>14
  <2> QED BY <2>1, <2>2, <2>3 DEF Dialogue!NothingOverlooked
<1> HIDE DEF found
<1>18. Dialogue!AnswerInOrder'
  <2>1. todo' \subseteq sent' /\ sent' \subseteq Dialogue!Printed'
    BY <1>1, <1>10, <1>13, <1>14, <1>15 DEF Dialogue!AnswerInOrder
  <2>2. \A t \in todo' : IF t \in DOMAIN Dialogue!RightAnswer THEN Dialogue!Unanswered(t)'
            ELSE told' = t
    BY <1>3, <1>11, <1>13 DEF Dialogue!Unanswered
  <2>3. \A q \in DOMAIN Dialogue!RightAnswer : given'[q] # "none"
            \/ (asks' = q /\ input' # <<>>) => q \in sent'
    BY <1>1, <1>3, <1>15 DEF Dialogue!AnswerInOrder
  <2>4. input' # <<>> => asks' \in DOMAIN Dialogue!RightAnswer /\ given'[asks'] = "none"
                         /\ input' = <<Dialogue!RightAnswer[asks']>>
    BY <1>1, <1>3 DEF Dialogue!AnswerInOrder
  <2>5. ~waiting'
    BY <1>3
  <2> QED BY <2>1, <2>2, <2>3, <2>4, <2>5 DEF Dialogue!AnswerInOrder
<1>19. Dialogue!VerdictKnown'
  <2>1. told' \in sent' => told' \in todo'
    BY <1>1, <1>3, <1>13, <1>15 DEF Dialogue!VerdictKnown
  <2>2. "none" \notin Dialogue!Verdicts
    BY TextsAre
  <2>3. outcome' # "none" => outcome' = verdict' /\ ~alive'
    BY <1>1, <1>3 DEF Dialogue!VerdictKnown
  <2> QED BY <1>3, <2>1, <2>2, <2>3 DEF Dialogue!VerdictKnown
<1>20. Dialogue!CliOnItsWay' /\ Dialogue!OwnAnswers'
  BY <1>1, <1>3, SameWay, SameAnswers
<1> QED BY <1>16, <1>17, <1>18, <1>19, <1>20 DEF Dialogue!DriverInv

LEMMA ReadEndKept ==
  ASSUME Dialogue!DriverInv, Dialogue!ReadEnd
  PROVE  Dialogue!DriverInv'
<1>1. Dialogue!TypeOK /\ Dialogue!CliOnItsWay /\ Dialogue!AnswerInOrder
          /\ Dialogue!NothingOverlooked /\ Dialogue!VerdictKnown /\ Dialogue!OwnAnswers
  BY DEF Dialogue!DriverInv
<1>2. /\ outcome = "none" /\ verdict = "none" /\ todo = {} /\ ~waiting
      /\ ~alive /\ terminal = <<>>
      /\ verdict' = IF cancelled THEN "cancelled" ELSE "failed"
      /\ UNCHANGED <<asks, told, given>> /\ UNCHANGED <<terminal, input, output, sent>>
      /\ UNCHANGED <<alive, fields, todo, waiting, outcome, cancelled>>
  BY DEF Dialogue!ReadEnd, Dialogue!Reading, Dialogue!cliVars, Dialogue!driverVars
\* A verdict was found, or it would be read.
<1>3. told = "none"
  <2> SUFFICES ASSUME told # "none" PROVE FALSE
    OBVIOUS
  <2>1. told \in Dialogue!Texts /\ told \in Dialogue!Printed
    BY <1>1, TextsAre DEF Dialogue!TypeOK, Dialogue!Printed
  <2>2. told \notin sent
    BY <1>1, <1>2 DEF Dialogue!VerdictKnown
  <2>3. Dialogue!Ahead(told)
    BY <1>1, <2>1, <2>2 DEF Dialogue!NothingOverlooked
  <2>4. Len(terminal) = 0
    BY <1>2
  <2> QED BY <1>2, <2>3, <2>4 DEF Dialogue!Ahead
<1>4. Dialogue!Printed' = Dialogue!Printed
  BY <1>2, SamePrinted
<1>5. verdict' \in {"failed", "cancelled"} /\ (verdict' = "cancelled" => cancelled)
  BY <1>2
<1>6. Dialogue!TypeOK'
  <2>1. verdict' \in Dialogue!Outcomes
    BY <1>5 DEF Dialogue!Outcomes
  <2> QED BY <1>1, <1>2, <2>1, TypesAre, TypesAreNext
<1>7. Dialogue!VerdictKnown'
  <2>1. verdict' \notin Dialogue!Verdicts /\ verdict' # "none"
    BY <1>5, TextsAre
  <2>2. ~waiting'
    BY <1>2
  <2> QED BY <1>2, <1>3, <1>5, <2>1, <2>2 DEF Dialogue!VerdictKnown
<1>8. Dialogue!CliOnItsWay' /\ Dialogue!OwnAnswers'
  BY <1>1, <1>2, SameWay, SameAnswers
<1>9. Dialogue!AnswerInOrder'
  BY <1>1, <1>2, SameOrder
<1>10. Dialogue!NothingOverlooked'
  BY <1>1, <1>2, <1>4, SameOverlooked
<1> QED BY <1>6, <1>7, <1>8, <1>9, <1>10 DEF Dialogue!DriverInv

-----------------------------------------------------------------------------
(* The worker answers                                                      *)

\* An answer is written to the question that waits for it, or the login ends.
LEMMA AnswerKept ==
  ASSUME Dialogue!DriverInv, NEW q \in {"email", "password", "code", "remember"},
         Dialogue!Unanswered(q), q \in sent, verdict = "none", todo' = {}, waiting' = FALSE,
         fields' \subseteq {"email", "password"}, cancelled' \in BOOLEAN,
         UNCHANGED <<alive, asks, told, given, terminal, output, sent, outcome>>,
         \/ input' = <<Dialogue!RightAnswer[q]>> /\ verdict' = "none"
         \/ UNCHANGED input /\ verdict' \in {"failed", "cancelled"}
            /\ (verdict' = "cancelled" => cancelled')
  PROVE  Dialogue!DriverInv'
<1>1. Dialogue!TypeOK /\ Dialogue!CliOnItsWay /\ Dialogue!AnswerInOrder
          /\ Dialogue!NothingOverlooked /\ Dialogue!VerdictKnown /\ Dialogue!OwnAnswers
  BY DEF Dialogue!DriverInv
<1>2. asks = q /\ given[q] = "none" /\ input = <<>>
  BY DEF Dialogue!Unanswered
<1>3. q \in DOMAIN Dialogue!RightAnswer /\ Dialogue!RightAnswer[q] \in Dialogue!Answers
          /\ Dialogue!RightAnswer[q] # "none"
  BY TextsAre, RightAnswers
<1>4. told = "none" /\ told \notin sent
  <2>1. told = "none"
    BY <1>1, <1>2, ToldIs
  <2> QED BY <1>1, <2>1, TextsAre DEF Dialogue!TypeOK
<1>5. Dialogue!Printed' = Dialogue!Printed
  BY SamePrinted
<1>6. outcome = "none"
  BY <1>1 DEF Dialogue!VerdictKnown
<1>7. Dialogue!TypeOK'
  <2>1. input' \in Seq(Dialogue!Answers)
    <3>1. <<>> \in Seq(Dialogue!Answers) /\ <<Dialogue!RightAnswer[q]>> \in Seq(Dialogue!Answers)
      BY <1>3
    <3>2. input' = <<>> \/ input' = <<Dialogue!RightAnswer[q]>>
      BY <1>2
    <3> QED BY <3>1, <3>2
  <2>2. verdict' \in Dialogue!Outcomes
    BY DEF Dialogue!Outcomes
  <2>3. todo' \subseteq Dialogue!Texts /\ waiting' \in BOOLEAN
    OBVIOUS
  <2> QED BY <1>1, <2>1, <2>2, <2>3, TypesAre, TypesAreNext
<1>8. Dialogue!VerdictKnown'
  <2>1. CASE verdict' = "none"
    BY <1>4, <1>6, <2>1, TextsAre DEF Dialogue!VerdictKnown
  <2>2. CASE verdict' # "none"
    <3>1. UNCHANGED input /\ verdict' \in {"failed", "cancelled"}
              /\ (verdict' = "cancelled" => cancelled')
      BY <2>2
    <3>2. Dialogue!Unanswered(q)'
      BY <1>2, <3>1 DEF Dialogue!Unanswered
    <3>3. verdict' \notin Dialogue!Verdicts
      BY <3>1, TextsAre
    <3> QED BY <1>3, <1>4, <1>6, <3>1, <3>2, <3>3 DEF Dialogue!VerdictKnown
  <2> QED BY <2>1, <2>2
<1>9. Dialogue!CliOnItsWay' /\ Dialogue!OwnAnswers'
  BY <1>1, SameWay, SameAnswers
<1>10. Dialogue!NothingOverlooked'
  BY <1>1, <1>5, SameOverlooked
<1>11. Dialogue!AnswerInOrder'
  <2>1. input' # <<>> => asks' \in DOMAIN Dialogue!RightAnswer /\ given'[asks'] = "none"
                         /\ input' = <<Dialogue!RightAnswer[asks']>>
    BY <1>2, <1>3
  <2>2. \A t \in DOMAIN Dialogue!RightAnswer : given'[t] # "none"
            \/ (asks' = t /\ input' # <<>>) => t \in sent'
    BY <1>1, <1>2 DEF Dialogue!AnswerInOrder
  <2>3. sent' \subseteq Dialogue!Printed'
    BY <1>1, <1>5 DEF Dialogue!AnswerInOrder
  <2> QED BY <2>1, <2>2, <2>3 DEF Dialogue!AnswerInOrder
<1> QED BY <1>7, <1>8, <1>9, <1>10, <1>11 DEF Dialogue!DriverInv

\* What the worker is to do is all there is to do.
LEMMA DoingIs ==
  ASSUME Dialogue!DriverInv, NEW text, Dialogue!Doing(text)
  PROVE  /\ text \in Dialogue!Texts /\ text \in sent /\ todo \ {text} = {}
         /\ verdict = "none" /\ ~waiting
         /\ IF text \in DOMAIN Dialogue!RightAnswer THEN Dialogue!Unanswered(text)
              ELSE told = text
<1>1. Dialogue!TypeOK /\ Dialogue!CliOnItsWay /\ Dialogue!AnswerInOrder
  BY DEF Dialogue!DriverInv
<1>2. text \in todo /\ verdict = "none" /\ ~waiting
  BY DEF Dialogue!Doing
<1>3. IF text \in DOMAIN Dialogue!RightAnswer THEN Dialogue!Unanswered(text) ELSE told = text
  BY <1>1, <1>2 DEF Dialogue!AnswerInOrder
<1> QED BY <1>1, <1>2, <1>3, TodoCurrent

LEMMA WriteIs ==
  ASSUME NEW value, Dialogue!WriteInput(value), input = <<>>, verdict = "none"
  PROVE  \/ input' = <<value>> /\ verdict' = "none"
         \/ UNCHANGED input /\ verdict' = "failed"
<1>1. CASE input' = Append(input, value) /\ UNCHANGED verdict
  <2>1. Append(<<>>, value) = <<value>>
    OBVIOUS
  <2> QED BY <1>1, <2>1
<1> QED BY <1>1 DEF Dialogue!WriteInput

LEMMA SendFieldKept ==
  ASSUME Dialogue!DriverInv, Dialogue!SendField
  PROVE  Dialogue!DriverInv'
<1>1. PICK field \in {"email", "password"} :
        /\ Dialogue!Doing(field) /\ fields' = fields \ {field} /\ todo' = todo \ {field}
        /\ IF field \in fields THEN Dialogue!WriteInput(field)
             ELSE verdict' = "failed" /\ UNCHANGED input
  BY DEF Dialogue!SendField
<1>2. /\ UNCHANGED <<alive, asks, told, given, terminal, output, sent, outcome>>
      /\ UNCHANGED <<waiting, cancelled>>
  BY DEF Dialogue!SendField, Dialogue!cliVars, Dialogue!driverVars
<1>3. /\ Dialogue!Unanswered(field) /\ field \in sent /\ verdict = "none" /\ todo' = {}
      /\ ~waiting
      /\ Dialogue!RightAnswer[field] = field
  BY <1>1, DoingIs, TextsAre, RightAnswers
<1>4. input = <<>>
  BY <1>3 DEF Dialogue!Unanswered
<1>5. \/ input' = <<Dialogue!RightAnswer[field]>> /\ verdict' = "none"
      \/ UNCHANGED input /\ verdict' = "failed"
  BY <1>1, <1>3, <1>4, WriteIs
<1>6. /\ fields' \subseteq {"email", "password"} /\ cancelled' \in BOOLEAN /\ waiting' = FALSE
  <2>1. fields \subseteq {"email", "password"} /\ cancelled \in BOOLEAN /\ waiting \in BOOLEAN
    BY TypesAre DEF Dialogue!DriverInv
  <2>2. waiting' = FALSE
    BY <1>2, <1>3, <2>1
  <2> QED BY <1>1, <1>2, <2>1, <2>2
<1> QED BY <1>2, <1>3, <1>5, <1>6, AnswerKept

LEMMA SendRememberKept ==
  ASSUME Dialogue!DriverInv, Dialogue!SendRemember
  PROVE  Dialogue!DriverInv'
<1>1. /\ Dialogue!Doing("remember") /\ Dialogue!WriteInput("y") /\ todo' = todo \ {"remember"}
      /\ UNCHANGED <<alive, asks, told, given, terminal, output, sent, outcome>>
      /\ UNCHANGED <<fields, waiting, cancelled>>
  BY DEF Dialogue!SendRemember, Dialogue!cliVars, Dialogue!driverVars
<1>2. /\ Dialogue!Unanswered("remember") /\ "remember" \in sent /\ verdict = "none"
      /\ todo' = {} /\ ~waiting
      /\ Dialogue!RightAnswer["remember"] = "y"
  BY <1>1, DoingIs, TextsAre, RightAnswers
<1>3. input = <<>>
  BY <1>2 DEF Dialogue!Unanswered
<1>4. \/ input' = <<Dialogue!RightAnswer["remember"]>> /\ verdict' = "none"
      \/ UNCHANGED input /\ verdict' = "failed"
  BY <1>1, <1>2, <1>3, WriteIs
<1>5. /\ fields' \subseteq {"email", "password"} /\ cancelled' \in BOOLEAN /\ waiting' = FALSE
  <2>1. fields \subseteq {"email", "password"} /\ cancelled \in BOOLEAN /\ waiting \in BOOLEAN
    BY TypesAre DEF Dialogue!DriverInv
  <2>2. waiting' = FALSE
    BY <1>1, <1>2, <2>1
  <2> QED BY <1>1, <2>1, <2>2
<1> QED BY <1>1, <1>2, <1>4, <1>5, AnswerKept

LEMMA TwoFactorKept ==
  ASSUME Dialogue!DriverInv, Dialogue!TwoFactor
  PROVE  Dialogue!DriverInv'
<1>1. /\ waiting /\ waiting' = FALSE
      /\ \/ Dialogue!WriteInput("code") /\ UNCHANGED cancelled
         \/ verdict' = "cancelled" /\ cancelled' = TRUE /\ UNCHANGED input
      /\ UNCHANGED <<alive, asks, told, given, terminal, output, sent, outcome>>
      /\ UNCHANGED <<fields, todo>>
  BY DEF Dialogue!TwoFactor, Dialogue!cliVars, Dialogue!driverVars
<1>2. /\ Dialogue!Unanswered("code") /\ "code" \in sent /\ todo = {}
      /\ Dialogue!RightAnswer["code"] = "code"
  BY <1>1, RightAnswers DEF Dialogue!DriverInv, Dialogue!AnswerInOrder
<1>3. input = <<>>
  BY <1>2 DEF Dialogue!Unanswered
<1>4. fields \subseteq {"email", "password"} /\ cancelled \in BOOLEAN
  BY TypesAre DEF Dialogue!DriverInv
<1>5. verdict = "none"
  BY <1>1 DEF Dialogue!DriverInv, Dialogue!VerdictKnown
<1>6. \/ input' = <<Dialogue!RightAnswer["code"]>> /\ verdict' = "none"
      \/ UNCHANGED input /\ verdict' \in {"failed", "cancelled"}
           /\ (verdict' = "cancelled" => cancelled')
  <2>1. CASE Dialogue!WriteInput("code")
    BY <1>2, <1>3, <1>5, <2>1, WriteIs
  <2> QED BY <1>1, <2>1
<1>7. cancelled' \in BOOLEAN
  BY <1>1, <1>4
<1> QED BY <1>1, <1>2, <1>4, <1>5, <1>6, <1>7, AnswerKept

LEMMA NeedsTwoFactorKept ==
  ASSUME Dialogue!DriverInv, Dialogue!NeedsTwoFactor
  PROVE  Dialogue!DriverInv'
<1>1. /\ Dialogue!Doing("code") /\ waiting' = TRUE /\ todo' = todo \ {"code"}
      /\ UNCHANGED <<alive, asks, told, given, terminal, output, sent, outcome>>
      /\ UNCHANGED <<input, fields, verdict, cancelled>>
  BY DEF Dialogue!NeedsTwoFactor, Dialogue!cliVars, Dialogue!driverVars
<1>2. Dialogue!Unanswered("code") /\ "code" \in sent /\ verdict = "none" /\ todo' = {}
  BY <1>1, DoingIs, TextsAre
<1>3. Dialogue!TypeOK /\ Dialogue!CliOnItsWay /\ Dialogue!AnswerInOrder
          /\ Dialogue!NothingOverlooked /\ Dialogue!VerdictKnown /\ Dialogue!OwnAnswers
  BY DEF Dialogue!DriverInv
<1>4. Dialogue!Printed' = Dialogue!Printed
  BY <1>1, SamePrinted
<1>5. Dialogue!TypeOK'
  BY <1>1, <1>2, <1>3, TypesAre, TypesAreNext
<1>6. Dialogue!CliOnItsWay' /\ Dialogue!OwnAnswers' /\ Dialogue!NothingOverlooked'
  BY <1>1, <1>3, <1>4, SameWay, SameAnswers, SameOverlooked
<1>7. Dialogue!AnswerInOrder'
  <2>1. Dialogue!Unanswered("code")'
    BY <1>1, <1>2 DEF Dialogue!Unanswered
  <2>2. input' = <<>>
    BY <1>1, <1>2 DEF Dialogue!Unanswered
  <2>3. \A t \in DOMAIN Dialogue!RightAnswer : given'[t] # "none" => t \in sent'
    BY <1>1, <1>3 DEF Dialogue!AnswerInOrder
  <2>4. sent' \subseteq Dialogue!Printed'
    BY <1>1, <1>3, <1>4 DEF Dialogue!AnswerInOrder
  <2> QED BY <1>1, <1>2, <2>1, <2>2, <2>3, <2>4 DEF Dialogue!AnswerInOrder
<1>8. Dialogue!VerdictKnown'
  <2>1. told = "none" /\ told \notin Dialogue!Texts
    BY <1>2, <1>3, ToldIs, TextsAre DEF Dialogue!Unanswered
  <2>2. told \notin sent
    BY <1>3, <2>1 DEF Dialogue!TypeOK
  <2>3. outcome = "none" /\ verdict' \notin Dialogue!Verdicts
    BY <1>1, <1>2, <1>3, TextsAre DEF Dialogue!VerdictKnown
  <2> QED BY <1>1, <1>2, <2>2, <2>3 DEF Dialogue!VerdictKnown
<1> QED BY <1>5, <1>6, <1>7, <1>8 DEF Dialogue!DriverInv

LEMMA PartingIs ==
  ASSUME NEW text \in Dialogue!Verdicts
  PROVE  /\ text \in DOMAIN Dialogue!RightAnswer
              => Dialogue!Parting(text) = <<Dialogue!RightAnswer[text]>>
         /\ text \notin DOMAIN Dialogue!RightAnswer => Dialogue!Parting(text) = <<>>
<1>1. text \in {"badCode", "badLogin", "keychain", "saved"}
  BY TextsAre
<1> QED BY <1>1, TextsAre, RightAnswers DEF Dialogue!Parting

LEMMA TerminalKept ==
  ASSUME Dialogue!DriverInv, Dialogue!Terminal
  PROVE  Dialogue!DriverInv'
<1>1. PICK text \in Dialogue!Verdicts :
        /\ Dialogue!Doing(text) /\ verdict' = text
        /\ input' = input \o Dialogue!Parting(text) /\ todo' = todo \ {text}
  BY DEF Dialogue!Terminal
<1>2. /\ UNCHANGED <<alive, asks, told, given, terminal, output, sent, outcome>>
      /\ UNCHANGED <<fields, waiting, cancelled>>
  BY DEF Dialogue!Terminal, Dialogue!cliVars, Dialogue!driverVars
<1>3. /\ text \in sent /\ verdict = "none" /\ todo' = {} /\ ~waiting
      /\ IF text \in DOMAIN Dialogue!RightAnswer THEN Dialogue!Unanswered(text) ELSE told = text
  BY <1>1, DoingIs
<1>4. Dialogue!TypeOK /\ Dialogue!CliOnItsWay /\ Dialogue!AnswerInOrder
          /\ Dialogue!NothingOverlooked /\ Dialogue!VerdictKnown /\ Dialogue!OwnAnswers
  BY DEF Dialogue!DriverInv
<1>5. told = text
  BY <1>3, <1>4, ToldIs DEF Dialogue!Unanswered
<1>6. Dialogue!Printed' = Dialogue!Printed
  BY <1>2, SamePrinted
<1>7. IF text \in DOMAIN Dialogue!RightAnswer THEN input' = <<Dialogue!RightAnswer[text]>>
          ELSE input' = input
  <2>1. CASE text \in DOMAIN Dialogue!RightAnswer
    <3>1. input = <<>> /\ Dialogue!Parting(text) = <<Dialogue!RightAnswer[text]>>
      BY <1>3, <2>1, PartingIs DEF Dialogue!Unanswered
    <3>2. <<>> \o <<Dialogue!RightAnswer[text]>> = <<Dialogue!RightAnswer[text]>>
      OBVIOUS
    <3> QED BY <1>1, <2>1, <3>1, <3>2
  <2>2. CASE text \notin DOMAIN Dialogue!RightAnswer
    <3>1. Dialogue!Parting(text) = <<>> /\ input \in Seq(Dialogue!Answers)
      BY <1>4, <2>2, PartingIs DEF Dialogue!TypeOK
    <3>2. input \o <<>> = input
      BY <3>1
    <3> QED BY <1>1, <2>2, <3>1, <3>2
  <2> QED BY <2>1, <2>2
<1>8. Dialogue!TypeOK'
  <2>1. input' \in Seq(Dialogue!Answers)
    <3>1. input \in Seq(Dialogue!Answers)
      BY <1>4 DEF Dialogue!TypeOK
    <3>2. text \in DOMAIN Dialogue!RightAnswer
              => <<Dialogue!RightAnswer[text]>> \in Seq(Dialogue!Answers)
      <4>1. text \in DOMAIN Dialogue!RightAnswer
                => Dialogue!RightAnswer[text] \in Dialogue!Answers
        BY RightAnswers
      <4> QED BY <4>1
    <3> QED BY <1>7, <3>1, <3>2
  <2>2. verdict' \in Dialogue!Outcomes
    BY <1>1 DEF Dialogue!Outcomes
  <2> QED BY <1>2, <1>3, <1>4, <2>1, <2>2, TypesAre, TypesAreNext
<1>9. Dialogue!CliOnItsWay' /\ Dialogue!OwnAnswers' /\ Dialogue!NothingOverlooked'
  BY <1>2, <1>4, <1>6, SameWay, SameAnswers, SameOverlooked
<1>10. Dialogue!VerdictKnown'
  <2>1. verdict' = told' /\ verdict' \in Dialogue!Verdicts
    BY <1>1, <1>2, <1>5
  <2>2. verdict' \notin {"none", "failed", "cancelled"}
    BY <2>1, TextsAre
  <2>3. outcome = "none"
    BY <1>3, <1>4 DEF Dialogue!VerdictKnown
  <2>4. ~waiting'
    BY <1>2, <1>3
  <2> QED BY <1>2, <2>1, <2>2, <2>3, <2>4 DEF Dialogue!VerdictKnown
<1>11. Dialogue!AnswerInOrder'
  <2>1. sent' \subseteq Dialogue!Printed'
    BY <1>2, <1>4, <1>6 DEF Dialogue!AnswerInOrder
  <2>2. ~waiting'
    BY <1>2, <1>3
  <2>3. input' # <<>> => asks' \in DOMAIN Dialogue!RightAnswer /\ given'[asks'] = "none"
                         /\ input' = <<Dialogue!RightAnswer[asks']>>
    BY <1>2, <1>3, <1>4, <1>7 DEF Dialogue!AnswerInOrder, Dialogue!Unanswered
  <2>4. \A t \in DOMAIN Dialogue!RightAnswer : given'[t] # "none"
            \/ (asks' = t /\ input' # <<>>) => t \in sent'
    <3> TAKE t \in DOMAIN Dialogue!RightAnswer
    <3>1. CASE text \in DOMAIN Dialogue!RightAnswer
      <4>1. asks = text
        BY <1>3, <3>1 DEF Dialogue!Unanswered
      <4> QED BY <1>2, <1>3, <1>4, <4>1 DEF Dialogue!AnswerInOrder
    <3>2. CASE text \notin DOMAIN Dialogue!RightAnswer
      BY <1>2, <1>4, <1>7, <3>2 DEF Dialogue!AnswerInOrder
    <3> QED BY <3>1, <3>2
  <2> QED BY <1>3, <2>1, <2>2, <2>3, <2>4 DEF Dialogue!AnswerInOrder
<1> QED BY <1>8, <1>9, <1>10, <1>11 DEF Dialogue!DriverInv

-----------------------------------------------------------------------------
(* LoginDialogue: its invariant                                            *)

LEMMA DialogueStart == Dialogue!Init => Dialogue!DriverInv
<1> SUFFICES ASSUME Dialogue!Init PROVE Dialogue!DriverInv
  OBVIOUS
<1>1. /\ alive = TRUE /\ asks = "start" /\ told = "none"
      /\ given = [q \in Dialogue!Questions |-> "none"]
      /\ terminal = <<>> /\ input = <<>> /\ output = <<>> /\ sent = {}
      /\ fields = {"email", "password"} /\ todo = {} /\ waiting = FALSE
      /\ verdict = "none" /\ outcome = "none" /\ cancelled = FALSE
  BY DEF Dialogue!Init
<1>2. \A q \in Dialogue!Questions : given[q] = "none"
  BY <1>1
<1>3. \A q \in DOMAIN Dialogue!RightAnswer : given[q] = "none"
  BY <1>2 DEF Dialogue!Questions
<1>4. Dialogue!TypeOK
  <2>1. <<>> \in Seq(Dialogue!Token) /\ <<>> \in Seq(Dialogue!Answers) /\ Len(<<>>) <= BufferLimit
    BY ReadLimits
  <2>2. "none" \in Dialogue!Outcomes /\ given
            \in [Dialogue!Questions -> Dialogue!Answers \cup {"none"}]
    BY <1>1 DEF Dialogue!Outcomes
  <2> QED BY <1>1, <2>1, <2>2, TypesAre
<1>5. Dialogue!CliOnItsWay
  BY <1>1, <1>2, TextsAre DEF Dialogue!CliOnItsWay
<1>6. Dialogue!Printed = {}
  BY <1>1, <1>3, TextsAre DEF Dialogue!Printed
<1>7. Dialogue!AnswerInOrder
  BY <1>1, <1>3 DEF Dialogue!AnswerInOrder
<1>8. Dialogue!NothingOverlooked
  BY <1>1, <1>6 DEF Dialogue!NothingOverlooked
<1>9. Dialogue!VerdictKnown
  BY <1>1, TextsAre DEF Dialogue!VerdictKnown
<1>10. Dialogue!OwnAnswers
  BY <1>2 DEF Dialogue!OwnAnswers
<1> QED BY <1>4, <1>5, <1>7, <1>8, <1>9, <1>10 DEF Dialogue!DriverInv

LEMMA DialogueNext ==
  ASSUME Dialogue!DriverInv, Dialogue!Next
  PROVE  Dialogue!DriverInv'
<1>1. \/ Dialogue!CliSay \/ Dialogue!CliTake \/ Dialogue!CliEnd \/ Dialogue!Cancel
           \/ Dialogue!TwoFactor \/ Dialogue!Read \/ Dialogue!ReadEnd
      \/ Dialogue!SendField \/ Dialogue!SendRemember \/ Dialogue!NeedsTwoFactor
           \/ Dialogue!Terminal \/ Dialogue!Finish
  BY DEF Dialogue!Next, Dialogue!Worker
<1> QED BY <1>1, SayKept, TakeKept, EndsKept, TwoFactorKept, ReadKept, ReadEndKept,
           SendFieldKept, SendRememberKept, NeedsTwoFactorKept, TerminalKept

LEMMA DialogueStutter ==
  ASSUME Dialogue!DriverInv,
         UNCHANGED <<alive, asks, told, given, terminal, input, output, sent, fields, todo,
                     waiting, verdict, outcome, cancelled>>
  PROVE  Dialogue!DriverInv'
<1>1. Dialogue!TypeOK /\ Dialogue!CliOnItsWay /\ Dialogue!AnswerInOrder
          /\ Dialogue!NothingOverlooked /\ Dialogue!VerdictKnown /\ Dialogue!OwnAnswers
  BY DEF Dialogue!DriverInv
<1>2. Dialogue!Printed' = Dialogue!Printed
  BY SamePrinted
<1>3. Dialogue!TypeOK'
  BY <1>1, TypesAre, TypesAreNext
<1>4. Dialogue!CliOnItsWay' /\ Dialogue!AnswerInOrder' /\ Dialogue!OwnAnswers'
  BY <1>1, SameWay, SameOrder, SameAnswers
<1>5. Dialogue!NothingOverlooked'
  BY <1>1, <1>2, SameOverlooked
<1>6. Dialogue!VerdictKnown'
  BY <1>1 DEF Dialogue!VerdictKnown, Dialogue!Unanswered
<1> QED BY <1>3, <1>4, <1>5, <1>6 DEF Dialogue!DriverInv

LEMMA DriverSays == Dialogue!DriverInv => Dialogue!DialogueInv
<1> SUFFICES ASSUME Dialogue!DriverInv, outcome # "none"
             PROVE  \/ outcome = told
                    \/ outcome = "failed" /\ told = "none"
                    \/ outcome = "cancelled" /\ cancelled /\ told = "none"
  BY DEF Dialogue!DialogueInv, Dialogue!DriverInv, Dialogue!OutcomeIsVerdict
<1>1. Dialogue!VerdictKnown /\ Dialogue!TypeOK
  BY DEF Dialogue!DriverInv
<1>2. outcome = verdict
  BY <1>1 DEF Dialogue!VerdictKnown
<1>3. verdict \in Dialogue!Verdicts \cup {"failed", "cancelled"}
  BY <1>1, <1>2, TypesAre DEF Dialogue!Outcomes
<1> QED BY <1>1, <1>2, <1>3 DEF Dialogue!VerdictKnown

LEMMA DialogueKeeps ==
  ASSUME Dialogue!DriverInv, [Next]_vars
  PROVE  Dialogue!DriverInv'
<1>1. CASE DialogueStep
  BY <1>1, DialogueNext DEF DialogueStep
<1>2. CASE UNCHANGED dialogueVars
  BY <1>2, DialogueStutter DEF dialogueVars
<1>3. DialogueStep \/ UNCHANGED dialogueVars
  BY DEF Next, vars
<1> QED BY <1>1, <1>2, <1>3

\* login.rs:446-524, 640-727: wherever the reads end, whatever the CLI prints
\* between its texts and whenever it dies or is cancelled, a question reads
\* its own answer only, and the outcome of the login is the CLI's verdict
\* where it gave one.
THEOREM QuestionsOwnAnswers == Spec => []DialogueInv
<1>1. Init => Dialogue!DriverInv
  BY DialogueStart DEF Init
<1>2. Dialogue!DriverInv => DialogueInv
  BY DriverSays DEF DialogueInv
<1> QED BY <1>1, <1>2, DialogueKeeps, PTL DEF Spec

-----------------------------------------------------------------------------
(* Utf8Chunks: the characters of a stream                                  *)

LEMMA Largest ==
  ASSUME NEW n \in Nat, NEW S, \A x \in S : x \in Nat /\ x <= n, S # {}
  PROVE  \E x \in S : \A y \in S : ~(x < y)
<1> DEFINE T == {k \in Nat : k <= n /\ n - k \in S}
<1>1. PICK x \in S : TRUE
  OBVIOUS
<1>2. n - x \in Nat /\ n - x <= n /\ n - (n - x) = x
  <2>1. x \in Nat /\ x <= n
    BY <1>1
  <2> QED BY <2>1
<1>3. T # {} /\ T \in SUBSET Nat
  BY <1>1, <1>2
<1>4. PICK k \in T : \A m \in T : ~(m < k)
  <2> HIDE DEF T
  <2> QED BY <1>3, Smallest
<1>5. k \in Nat /\ k <= n /\ n - k \in S
  OBVIOUS
<1>6. \A y \in S : ~(n - k < y)
  <2> TAKE y \in S
  <2>1. y \in Nat /\ y <= n
    OBVIOUS
  <2>2. n - y \in Nat /\ n - y <= n /\ n - (n - y) = y
    BY <2>1
  <2>3. ~(n - y < k)
    BY <1>4, <2>2
  <2> QED BY <1>5, <2>1, <2>2, <2>3
<1> QED BY <1>5, <1>6

LEMMA Widths ==
  /\ \A byte \in Kinds : Utf8!Width[byte] \in Nat /\ Utf8!Width[byte] <= 3
  /\ \A byte \in Kinds : byte = "continuation" => Utf8!Width[byte] = 0
<1>1. DOMAIN Utf8!Width = {"ascii", "two", "three", "continuation", "invalid"}
  BY DEF Utf8!Width
<1>2. Kinds \subseteq DOMAIN Utf8!Width
  BY InterfaceAssumption DEF Utf8!ChunksAssumption
<1>3. /\ Utf8!Width["ascii"] = 1 /\ Utf8!Width["two"] = 2 /\ Utf8!Width["three"] = 3
      /\ Utf8!Width["continuation"] = 0 /\ Utf8!Width["invalid"] = 0
  BY DEF Utf8!Width
<1> QED BY <1>1, <1>2, <1>3

\* What is taken for one character at i, and where the next one begins.
CharAt(s, i) ==
  IF Utf8!WholeAt(s, i) THEN SubSeq(s, i, i + Utf8!Width[s[i]] - 1) ELSE Utf8!Replacement

After(s, i) == i + (IF Utf8!WholeAt(s, i) THEN Utf8!Width[s[i]] ELSE Utf8!BadBytes(s, i))

LEMMA BadBytesIs ==
  ASSUME NEW s \in Seq(Kinds), NEW i \in 1..Len(s), ~Utf8!WholeAt(s, i)
  PROVE  Utf8!BadBytes(s, i) \in 1..(Len(s) - i + 1)
<1> DEFINE w == Utf8!Width[s[i]]
           N == Len(s)
           Fit == {n \in 1..(N - i + 1) : n < w /\ Utf8!Continued(s, i, i + n - 1)}
<1>1. w \in Nat /\ w <= 3 /\ N \in Nat /\ i \in Nat
  <2>1. s[i] \in Kinds
    OBVIOUS
  <2> QED BY <2>1, Widths
<1> HIDE DEF w, N
<1>2. CASE w = 0
  <2>1. Utf8!BadBytes(s, i) = 1
    BY <1>2 DEF Utf8!BadBytes, w
  <2>2. 1 \in 1..(N - i + 1)
    BY <1>1 DEF N
  <2> QED BY <2>1, <2>2 DEF N
<1>3. CASE w # 0
  <2>1. Utf8!BadBytes(s, i) = Utf8!Max(Fit)
    BY <1>3 DEF Utf8!BadBytes, w, N
  <2>2. i <= N
    BY DEF N
  <2>3. w # 1
    <3> SUFFICES ASSUME w = 1 PROVE Utf8!WholeAt(s, i)
      OBVIOUS
    <3>1. Utf8!Continued(s, i, i + w - 1)
      BY <1>1 DEF Utf8!Continued
    <3>2. i + w - 1 <= N /\ w > 0
      BY <1>1, <2>2
    <3> QED BY <3>1, <3>2 DEF Utf8!WholeAt, w, N
  <2>4. 1 \in Fit
    <3>1. Utf8!Continued(s, i, i + 1 - 1)
      BY <1>1 DEF Utf8!Continued
    <3>2. 1 \in 1..(N - i + 1) /\ 1 < w
      BY <1>1, <1>3, <2>2, <2>3
    <3> QED BY <3>1, <3>2
  <2>5. \A x \in Fit : x \in Nat /\ x <= N - i + 1
    BY <1>1, <2>2
  <2>6. PICK x \in Fit : \A y \in Fit : ~(x < y)
    <3>1. N - i + 1 \in Nat
      BY <1>1, <2>2
    <3> HIDE DEF Fit
    <3>2. Fit # {}
      BY <2>4
    <3> QED BY <2>5, <3>1, <3>2, Largest
  <2>7. \A y \in Fit : x >= y
    <3> HIDE DEF Fit
    <3> QED BY <2>5, <2>6
  <2>8. Utf8!Max(Fit) \in Fit
    <3> HIDE DEF Fit
    <3> QED BY <2>7 DEF Utf8!Max
  <2>9. Utf8!Max(Fit) \in 1..(N - i + 1)
    BY <2>8
  <2> QED BY <2>1, <2>9 DEF N
<1> QED BY <1>2, <1>3

LEMMA AfterIs ==
  ASSUME NEW s \in Seq(Kinds), NEW i \in 1..Len(s)
  PROVE  /\ After(s, i) \in 1..(Len(s) + 1) /\ After(s, i) > i
         /\ CharAt(s, i) \in Seq(Kinds) \cup {Utf8!Replacement}
<1> DEFINE w == Utf8!Width[s[i]]
           N == Len(s)
<1>1. w \in Nat /\ w <= 3 /\ N \in Nat /\ i \in Nat /\ i <= N /\ i > 0
  <2>1. s[i] \in Kinds
    OBVIOUS
  <2> QED BY <2>1, Widths
<1>2. CASE Utf8!WholeAt(s, i)
  <2>1. w > 0 /\ i + w - 1 <= N
    BY <1>2 DEF Utf8!WholeAt
  <2>2. After(s, i) = i + w
    BY <1>2 DEF After
  <2>3. CharAt(s, i) = SubSeq(s, i, i + w - 1)
    BY <1>2 DEF CharAt
  <2> HIDE DEF w
  <2>4. SubSeq(s, i, i + w - 1) \in Seq(Kinds)
    BY <1>1, <2>1
  <2> QED BY <1>1, <2>1, <2>2, <2>3, <2>4
<1>3. CASE ~Utf8!WholeAt(s, i)
  <2>1. After(s, i) = i + Utf8!BadBytes(s, i) /\ CharAt(s, i) = Utf8!Replacement
    BY <1>3 DEF After, CharAt
  <2>2. Utf8!BadBytes(s, i) \in 1..(N - i + 1)
    BY <1>3, BadBytesIs
  <2> HIDE DEF w, N
  <2>3. i + Utf8!BadBytes(s, i) \in 1..(N + 1) /\ i + Utf8!BadBytes(s, i) > i
    BY <1>1, <2>2
  <2> QED BY <2>1, <2>3 DEF N
<1> QED BY <1>2, <1>3

\* From a position on: where the first error is, and what is decoded.
IsTrace(h, s, first) ==
  /\ h = [i \in first..(Len(s) + 1) |-> h[i]]
  /\ h[Len(s) + 1] = <<Len(s) + 1, <<>>>>
  /\ \A i \in first..Len(s) :
       h[i] = <<IF Utf8!WholeAt(s, i) THEN h[After(s, i)][1] ELSE i,
                <<CharAt(s, i)>> \o h[After(s, i)][2]>>

LEMMA TraceGoesOn ==
  ASSUME NEW s \in Seq(Kinds), NEW first \in 1..Len(s), NEW h, IsTrace(h, s, first + 1)
  PROVE  \E g : IsTrace(g, s, first)
<1> DEFINE N == Len(s)
           v == <<IF Utf8!WholeAt(s, first) THEN h[After(s, first)][1] ELSE first,
                  <<CharAt(s, first)>> \o h[After(s, first)][2]>>
           g == [i \in first..(N + 1) |-> IF i = first THEN v ELSE h[i]]
<1>1. N \in Nat /\ first \in Nat /\ first <= N
  OBVIOUS
<1>2. /\ h[N + 1] = <<N + 1, <<>>>>
      /\ \A i \in (first + 1)..N :
           h[i] = <<IF Utf8!WholeAt(s, i) THEN h[After(s, i)][1] ELSE i,
                    <<CharAt(s, i)>> \o h[After(s, i)][2]>>
  BY DEF IsTrace
<1>3. \A i \in 1..N : After(s, i) \in 1..(N + 1) /\ After(s, i) > i
  BY AfterIs
<1> HIDE DEF v, N
<1>4. g = [i \in first..(N + 1) |-> g[i]]
  OBVIOUS
<1>5. g[first] = v /\ \A i \in (first + 1)..(N + 1) : g[i] = h[i]
  BY <1>1
<1> HIDE DEF g
<1>6. g[N + 1] = <<N + 1, <<>>>>
  <2>1. N + 1 \in (first + 1)..(N + 1)
    BY <1>1
  <2> QED BY <1>2, <1>5, <2>1
<1>7. \A i \in first..N : g[After(s, i)] = h[After(s, i)]
  <2> TAKE i \in first..N
  <2>1. i \in 1..N
    BY <1>1
  <2>2. PICK a : a = After(s, i)
    OBVIOUS
  <2>3. a \in 1..(N + 1) /\ a > i
    BY <1>3, <2>1, <2>2
  <2>4. a \in (first + 1)..(N + 1)
    BY <1>1, <2>3
  <2> QED BY <1>5, <2>2, <2>4
<1>8. \A i \in first..N : g[i] = <<IF Utf8!WholeAt(s, i) THEN g[After(s, i)][1] ELSE i,
                                  <<CharAt(s, i)>> \o g[After(s, i)][2]>>
  <2> TAKE i \in first..N
  <2>1. CASE i = first
    <3>1. g[After(s, first)] = h[After(s, first)]
      BY <1>7, <2>1
    <3>2. g[i] = v
      BY <1>5, <2>1
    <3> QED BY <2>1, <3>1, <3>2, Zenon DEF v
  <2>2. CASE i # first
    <3>1. i \in (first + 1)..N /\ i \in (first + 1)..(N + 1)
      BY <1>1, <2>2
    <3>2. g[i] = h[i]
      BY <1>5, <3>1
    <3>3. h[i] = <<IF Utf8!WholeAt(s, i) THEN h[After(s, i)][1] ELSE i,
                   <<CharAt(s, i)>> \o h[After(s, i)][2]>>
      BY <1>2, <3>1, Zenon
    <3>4. g[After(s, i)] = h[After(s, i)]
      BY <1>7
    <3> QED BY <3>2, <3>3, <3>4, Zenon
  <2> QED BY <2>1, <2>2
<1>9. IsTrace(g, s, first)
  BY <1>4, <1>6, <1>8, Zenon DEF IsTrace, N
<1> QED BY <1>9

LEMMA TraceExists ==
  ASSUME NEW s \in Seq(Kinds)
  PROVE  \E h : IsTrace(h, s, 1)
<1> DEFINE N == Len(s)
           Without == {i \in 1..(N + 1) : ~ \E h : IsTrace(h, s, i)}
<1>1. N \in Nat /\ N + 1 \in Nat
  OBVIOUS
<1>2. SUFFICES ASSUME Without # {} PROVE FALSE
  <2>1. 1 \in 1..(N + 1)
    BY <1>1
  <2> QED BY <2>1
<1>3. PICK i \in Without : \A m \in Without : ~(i < m)
  <2>1. \A x \in Without : x \in Nat /\ x <= N + 1
    BY <1>1
  <2> HIDE DEF Without, N
  <2> QED BY <1>1, <1>2, <2>1, Largest
<1>4. i \in 1..(N + 1) /\ ~ \E h : IsTrace(h, s, i)
  OBVIOUS
<1>5. i # N + 1
  <2> SUFFICES ASSUME i = N + 1 PROVE FALSE
    OBVIOUS
  <2> DEFINE h == [j \in (N + 1)..(N + 1) |-> <<N + 1, <<>>>>]
  <2>1. h[N + 1] = <<N + 1, <<>>>>
    BY <1>1
  <2>2. h = [j \in (N + 1)..(N + 1) |-> h[j]]
    OBVIOUS
  <2> HIDE DEF h
  <2>3. \A j \in (N + 1)..N : FALSE
    BY <1>1
  <2>4. IsTrace(h, s, N + 1)
    BY <2>1, <2>2, <2>3, Zenon DEF IsTrace, N
  <2> QED BY <1>4, <2>4
<1>6. i \in 1..N /\ i + 1 \in 1..(N + 1) /\ i < i + 1
  BY <1>1, <1>4, <1>5
<1>7. i + 1 \notin Without
  BY <1>3, <1>6
<1>8. PICK h : IsTrace(h, s, i + 1)
  BY <1>6, <1>7
<1> QED BY <1>4, <1>6, <1>8, TraceGoesOn

\* The same as two functions.
IsError(f, s) ==
  /\ f[Len(s) + 1] = Len(s) + 1
  /\ \A i \in 1..Len(s) : f[i] = IF Utf8!WholeAt(s, i) THEN f[After(s, i)] ELSE i

IsLossy(g, s) ==
  /\ g[Len(s) + 1] = <<>>
  /\ \A i \in 1..Len(s) : g[i] = <<CharAt(s, i)>> \o g[After(s, i)]

LEMMA ErrorIs ==
  ASSUME NEW s \in Seq(Kinds)
  PROVE  \E f : IsError(f, s) /\ Utf8!ErrorAt(s) = f[1]
<1> DEFINE N == Len(s)
           Equation(f) == f = [i \in 1..(N + 1) |-> IF i <= N /\ Utf8!WholeAt(s, i)
                                                    THEN f[i + Utf8!Width[s[i]]] ELSE i]
<1>1. N \in Nat
  OBVIOUS
<1>2. PICK h : IsTrace(h, s, 1)
  BY TraceExists
<1>3. /\ h[N + 1] = <<N + 1, <<>>>>
      /\ \A i \in 1..N : h[i] = <<IF Utf8!WholeAt(s, i) THEN h[After(s, i)][1] ELSE i,
                                  <<CharAt(s, i)>> \o h[After(s, i)][2]>>
  BY <1>2 DEF IsTrace
<1>4. \A i \in 1..N : Utf8!WholeAt(s, i) => After(s, i) = i + Utf8!Width[s[i]]
  BY Zenon DEF After
<1>5. \A i \in 1..N : After(s, i) \in 1..(N + 1)
  BY AfterIs
<1> DEFINE f == [i \in 1..(N + 1) |-> h[i][1]]
<1> HIDE DEF N
<1>6. \A i \in 1..N : f[i] = h[i][1] /\ (Utf8!WholeAt(s, i) => f[After(s, i)] = h[After(s, i)][1])
  BY <1>1, <1>5
<1>7. f[N + 1] = N + 1
  <2>1. N + 1 \in 1..(N + 1)
    BY <1>1
  <2>2. h[N + 1][1] = N + 1
    BY <1>3
  <2> QED BY <2>1, <2>2
<1>8. f = [i \in 1..(N + 1) |-> f[i]]
  OBVIOUS
<1> HIDE DEF f
<1>9. \A i \in 1..N : h[i][1] = IF Utf8!WholeAt(s, i) THEN h[After(s, i)][1] ELSE i
  <2> TAKE i \in 1..N
  <2>1. PICK x, y : /\ x = IF Utf8!WholeAt(s, i) THEN h[After(s, i)][1] ELSE i
                    /\ y = <<CharAt(s, i)>> \o h[After(s, i)][2]
    OBVIOUS
  <2>2. h[i] = <<x, y>>
    BY <1>3, <2>1, Zenon
  <2>3. h[i][1] = x
    BY <2>2
  <2> QED BY <2>1, <2>3, Zenon
<1>10. \A i \in 1..(N + 1) : f[i] = IF i <= N
           /\ Utf8!WholeAt(s, i) THEN f[i + Utf8!Width[s[i]]] ELSE i
  <2> TAKE i \in 1..(N + 1)
  <2>1. CASE i = N + 1
    <3>1. ~(i <= N)
      BY <1>1, <2>1
    <3> QED BY <1>7, <2>1, <3>1
  <2>2. CASE i # N + 1
    <3>1. i \in 1..N /\ i <= N
      BY <1>1, <2>2
    <3>2. CASE Utf8!WholeAt(s, i)
      <4>1. f[i] = h[After(s, i)][1]
        BY <1>6, <1>9, <3>1, <3>2
      <4>2. f[After(s, i)] = h[After(s, i)][1] /\ After(s, i) = i + Utf8!Width[s[i]]
        BY <1>4, <1>6, <3>1, <3>2
      <4>3. f[i] = f[i + Utf8!Width[s[i]]]
        BY <4>1, <4>2
      <4> QED BY <3>1, <3>2, <4>3, Zenon
    <3>3. CASE ~Utf8!WholeAt(s, i)
      <4>1. f[i] = i
        BY <1>6, <1>9, <3>1, <3>3
      <4> QED BY <3>3, <4>1, Zenon
    <3> QED BY <3>2, <3>3
  <2> QED BY <2>1, <2>2
<1>11. Equation(f)
  BY <1>8, <1>10, Zenon
<1>12. Utf8!ErrorAt(s) = (CHOOSE g : Equation(g))[1]
  BY Zenon DEF Utf8!ErrorAt, N
<1>13. PICK e : e = CHOOSE g : Equation(g)
  OBVIOUS
<1>14. Equation(e)
  <2> HIDE DEF Equation
  <2> QED BY <1>11, <1>13, Zenon
<1>15. e[N + 1] = N + 1 /\ \A i \in 1..N : e[i]
           = IF Utf8!WholeAt(s, i) THEN e[i + Utf8!Width[s[i]]] ELSE i
  <2>1. \A i \in 1..(N + 1) : e[i] = IF i <= N
            /\ Utf8!WholeAt(s, i) THEN e[i + Utf8!Width[s[i]]] ELSE i
    BY <1>14
  <2>2. N + 1 \in 1..(N + 1) /\ ~(N + 1 <= N) /\ \A i \in 1..N : i \in 1..(N + 1) /\ i <= N
    BY <1>1
  <2> QED BY <2>1, <2>2, Zenon
<1>16. \A i \in 1..N : e[i] = IF Utf8!WholeAt(s, i) THEN e[After(s, i)] ELSE i
  BY <1>4, <1>15, Zenon
<1>17. IsError(e, s)
  BY <1>15, <1>16, Zenon DEF IsError, N
<1>18. Utf8!ErrorAt(s) = e[1]
  BY <1>12, <1>13, Zenon
<1> HIDE DEF Equation
<1> QED BY <1>17, <1>18

LEMMA LossyIs ==
  ASSUME NEW s \in Seq(Kinds)
  PROVE  \E g : IsLossy(g, s) /\ Utf8!Lossy(s) = g[1]
<1> DEFINE N == Len(s)
           Equation(g) == g = [i \in 1..(N + 1) |->
                                 IF i > N THEN <<>>
                                 ELSE IF Utf8!WholeAt(s, i)
                                 THEN <<SubSeq(s, i, i + Utf8!Width[s[i]] - 1)>>
                                        \o g[i + Utf8!Width[s[i]]]
                                 ELSE <<Utf8!Replacement>> \o g[i + Utf8!BadBytes(s, i)]]
<1>1. N \in Nat
  OBVIOUS
<1>2. PICK h : IsTrace(h, s, 1)
  BY TraceExists
<1>3. /\ h[N + 1] = <<N + 1, <<>>>>
      /\ \A i \in 1..N : h[i] = <<IF Utf8!WholeAt(s, i) THEN h[After(s, i)][1] ELSE i,
                                  <<CharAt(s, i)>> \o h[After(s, i)][2]>>
  BY <1>2 DEF IsTrace
<1>4. \A i \in 1..N :
        /\ Utf8!WholeAt(s, i) => /\ After(s, i) = i + Utf8!Width[s[i]]
                                 /\ CharAt(s, i) = SubSeq(s, i, i + Utf8!Width[s[i]] - 1)
        /\ ~Utf8!WholeAt(s, i) => /\ After(s, i) = i + Utf8!BadBytes(s, i)
                                  /\ CharAt(s, i) = Utf8!Replacement
  BY Zenon DEF After, CharAt
<1>5. \A i \in 1..N : After(s, i) \in 1..(N + 1)
  BY AfterIs
<1> DEFINE f == [i \in 1..(N + 1) |-> h[i][2]]
<1> HIDE DEF N
<1>6. \A i \in 1..N : f[i] = h[i][2] /\ f[After(s, i)] = h[After(s, i)][2]
  BY <1>1, <1>5
<1>7. f[N + 1] = <<>>
  <2>1. N + 1 \in 1..(N + 1)
    BY <1>1
  <2>2. h[N + 1][2] = <<>>
    BY <1>3
  <2> QED BY <2>1, <2>2
<1>8. f = [i \in 1..(N + 1) |-> f[i]]
  OBVIOUS
<1> HIDE DEF f
<1>9. \A i \in 1..N : f[i] = <<CharAt(s, i)>> \o f[After(s, i)]
  <2> TAKE i \in 1..N
  <2>1. PICK x, y : /\ x = IF Utf8!WholeAt(s, i) THEN h[After(s, i)][1] ELSE i
                    /\ y = <<CharAt(s, i)>> \o h[After(s, i)][2]
    OBVIOUS
  <2>2. h[i] = <<x, y>>
    BY <1>3, <2>1, Zenon
  <2>3. h[i][2] = y
    BY <2>2
  <2> QED BY <1>6, <2>1, <2>3, Zenon
<1>10. \A i \in 1..(N + 1) :
        f[i] = IF i > N THEN <<>>
               ELSE IF Utf8!WholeAt(s, i)
               THEN <<SubSeq(s, i, i + Utf8!Width[s[i]] - 1)>> \o f[i + Utf8!Width[s[i]]]
               ELSE <<Utf8!Replacement>> \o f[i + Utf8!BadBytes(s, i)]
  <2> TAKE i \in 1..(N + 1)
  <2>1. CASE i = N + 1
    <3>1. i > N /\ f[i] = <<>>
      BY <1>1, <1>7, <2>1
    <3> QED BY <3>1, Zenon
  <2>2. CASE i # N + 1
    <3>1. i \in 1..N /\ ~(i > N)
      BY <1>1, <2>2
    <3>2. CASE Utf8!WholeAt(s, i)
      <4>1. f[i] = <<SubSeq(s, i, i + Utf8!Width[s[i]] - 1)>> \o f[i + Utf8!Width[s[i]]]
        BY <1>4, <1>9, <3>1, <3>2, Zenon
      <4> QED BY <3>1, <3>2, <4>1, Zenon
    <3>3. CASE ~Utf8!WholeAt(s, i)
      <4>1. f[i] = <<Utf8!Replacement>> \o f[i + Utf8!BadBytes(s, i)]
        BY <1>4, <1>9, <3>1, <3>3, Zenon
      <4> QED BY <3>1, <3>3, <4>1, Zenon
    <3> QED BY <3>2, <3>3
  <2> QED BY <2>1, <2>2
<1>11. Equation(f)
  BY <1>8, <1>10, Zenon
<1>12. Utf8!Lossy(s) = (CHOOSE g : Equation(g))[1]
  BY Zenon DEF Utf8!Lossy, N
<1>13. PICK e : e = CHOOSE g : Equation(g)
  OBVIOUS
<1>14. Equation(e)
  <2> HIDE DEF Equation
  <2> QED BY <1>11, <1>13, Zenon
<1>15. \A i \in 1..(N + 1) :
        e[i] = IF i > N THEN <<>>
               ELSE IF Utf8!WholeAt(s, i)
               THEN <<SubSeq(s, i, i + Utf8!Width[s[i]] - 1)>> \o e[i + Utf8!Width[s[i]]]
               ELSE <<Utf8!Replacement>> \o e[i + Utf8!BadBytes(s, i)]
  <2>1. \A d, i : i \in 1..(N + 1) => [j \in 1..(N + 1) |-> d[j]][i] = d[i]
    OBVIOUS
  <2> QED BY <1>14
<1>16. e[N + 1] = <<>>
  <2>1. N + 1 \in 1..(N + 1) /\ N + 1 > N
    BY <1>1
  <2> QED BY <1>15, <2>1, Zenon
<1>17. \A i \in 1..N : e[i] = <<CharAt(s, i)>> \o e[After(s, i)]
  <2> TAKE i \in 1..N
  <2>1. i \in 1..(N + 1) /\ ~(i > N)
    BY <1>1
  <2>2. e[i] = IF Utf8!WholeAt(s, i)
               THEN <<SubSeq(s, i, i + Utf8!Width[s[i]] - 1)>> \o e[i + Utf8!Width[s[i]]]
               ELSE <<Utf8!Replacement>> \o e[i + Utf8!BadBytes(s, i)]
    BY <1>15, <2>1, Zenon
  <2> QED BY <1>4, <2>2, Zenon
<1>18. IsLossy(e, s)
  BY <1>16, <1>17, Zenon DEF IsLossy, N
<1>19. Utf8!Lossy(s) = e[1]
  BY <1>12, <1>13, Zenon
<1> HIDE DEF Equation
<1> QED BY <1>18, <1>19

\* A stream and the bytes of another behind it.
Joins(s, t, u) ==
  /\ s \in Seq(Kinds) /\ t \in Seq(Kinds) /\ u \in Seq(Kinds)
  /\ Len(s) \in Nat /\ Len(t) \in Nat /\ Len(u) = Len(s) + Len(t)
  /\ \A i \in 1..Len(s) : u[i] = s[i]
  /\ \A i \in 1..Len(t) : u[Len(s) + i] = t[i]

LEMMA JoinsIs ==
  ASSUME NEW s \in Seq(Kinds), NEW t \in Seq(Kinds)
  PROVE  Joins(s, t, s \o t)
  BY DEF Joins

LEMMA SplitIs ==
  ASSUME NEW u \in Seq(Kinds), NEW m \in Nat, m <= Len(u)
  PROVE  /\ Joins(SubSeq(u, 1, m), SubSeq(u, m + 1, Len(u)), u)
         /\ Len(SubSeq(u, 1, m)) = m /\ Len(SubSeq(u, m + 1, Len(u))) = Len(u) - m
<1> DEFINE N == Len(u)
<1>1. N \in Nat /\ m <= N
  OBVIOUS
<1>2. PICK s, t : s = SubSeq(u, 1, m) /\ t = SubSeq(u, m + 1, N)
  OBVIOUS
<1>3. s \in Seq(Kinds) /\ Len(s) = m /\ \A i \in 1..m : s[i] = u[i]
  BY <1>1, <1>2
<1>4. t \in Seq(Kinds) /\ Len(t) = N - m /\ \A i \in 1..(N - m) : t[i] = u[m + i]
  BY <1>1, <1>2
<1>5. N - m \in Nat /\ N = m + (N - m)
  BY <1>1
<1>6. Joins(s, t, u)
  BY <1>3, <1>4, <1>5 DEF Joins
<1> QED BY <1>2, <1>3, <1>4, <1>6

LEMMA SameBytes ==
  ASSUME NEW a \in Seq(Kinds), NEW b \in Seq(Kinds), NEW n, Len(a) = n, Len(b) = n,
         \A k \in 1..n : a[k] = b[k]
  PROVE  a = b
  OBVIOUS

LEMMA WidthAt ==
  ASSUME NEW s \in Seq(Kinds), NEW i \in 1..Len(s)
  PROVE  Utf8!Width[s[i]] \in Nat /\ Utf8!Width[s[i]] <= 3
<1>1. s[i] \in Kinds
  OBVIOUS
<1> QED BY <1>1, Widths

\* What is at a place of the second part.
LEMMA ContinuedBehind ==
  ASSUME NEW s, NEW t, NEW u, Joins(s, t, u), NEW i \in 1..Len(t), NEW n \in Nat, n <= Len(t)
  PROVE  Utf8!Continued(u, Len(s) + i, Len(s) + n) <=> Utf8!Continued(t, i, n)
<1> DEFINE m == Len(s)
<1>1. m \in Nat /\ i \in Nat /\ Len(t) \in Nat /\ \A k \in 1..Len(t) : u[m + k] = t[k]
  BY DEF Joins
<1> HIDE DEF m
<1>2. ASSUME Utf8!Continued(u, m + i, m + n), NEW k \in (i + 1)..n PROVE t[k] = "continuation"
  <2>1. k \in 1..Len(t) /\ m + k \in (m + i + 1)..(m + n)
    BY <1>1
  <2> QED BY <1>1, <1>2, <2>1 DEF Utf8!Continued
<1>3. ASSUME Utf8!Continued(t, i, n), NEW k \in (m + i + 1)..(m + n) PROVE u[k] = "continuation"
  <2>1. k - m \in 1..Len(t) /\ k - m \in (i + 1)..n /\ m + (k - m) = k
    BY <1>1
  <2> QED BY <1>1, <1>3, <2>1 DEF Utf8!Continued
<1> QED BY <1>2, <1>3 DEF Utf8!Continued, m

LEMMA WholeBehind ==
  ASSUME NEW s, NEW t, NEW u, Joins(s, t, u), NEW i \in 1..Len(t)
  PROVE  /\ Utf8!WholeAt(u, Len(s) + i) <=> Utf8!WholeAt(t, i)
         /\ Utf8!CutAt(u, Len(s) + i) <=> Utf8!CutAt(t, i)
         /\ u[Len(s) + i] = t[i]
<1> DEFINE m == Len(s)
           w == Utf8!Width[t[i]]
<1>1. m \in Nat /\ i \in Nat /\ Len(t) \in Nat /\ Len(u) = m + Len(t) /\ u[m + i] = t[i]
  BY DEF Joins
<1>2. w \in Nat
  BY WidthAt DEF Joins
<1> HIDE DEF m
<1>3. Utf8!Width[u[m + i]] = w
  BY <1>1
<1>4. Utf8!CutAt(u, m + i) <=> Utf8!CutAt(t, i)
  <2>1. Utf8!Continued(u, m + i, m + Len(t)) <=> Utf8!Continued(t, i, Len(t))
    BY <1>1, ContinuedBehind DEF m
  <2>2. m + i + w - 1 > m + Len(t) <=> i + w - 1 > Len(t)
    <3> HIDE DEF w
    <3> QED BY <1>1, <1>2
  <2> QED BY <1>1, <1>3, <2>1, <2>2 DEF Utf8!CutAt
<1>5. Utf8!WholeAt(u, m + i) <=> Utf8!WholeAt(t, i)
  <2>1. m + i + w - 1 <= m + Len(t) <=> i + w - 1 <= Len(t)
    <3> HIDE DEF w
    <3> QED BY <1>1, <1>2
  <2>2. ASSUME i + w - 1 <= Len(t), w > 0
        PROVE  Utf8!Continued(u, m + i, m + i + w - 1) <=> Utf8!Continued(t, i, i + w - 1)
    <3> HIDE DEF w
    <3>1. i + w - 1 \in Nat /\ m + (i + w - 1) = m + i + w - 1
      BY <1>1, <1>2, <2>2
    <3>2. Utf8!Continued(u, m + i, m + (i + w - 1)) <=> Utf8!Continued(t, i, i + w - 1)
      BY <1>1, <2>2, <3>1, ContinuedBehind DEF m
    <3> QED BY <3>1, <3>2
  <2>3. Utf8!WholeAt(u, m + i) <=> /\ w > 0 /\ m + i + w - 1 <= m + Len(t)
                                   /\ Utf8!Continued(u, m + i, m + i + w - 1)
    BY <1>1, <1>3 DEF Utf8!WholeAt
  <2>4. Utf8!WholeAt(t, i) <=> w > 0 /\ i + w - 1 <= Len(t) /\ Utf8!Continued(t, i, i + w - 1)
    BY DEF Utf8!WholeAt
  <2> HIDE DEF w
  <2> QED BY <2>1, <2>2, <2>3, <2>4
<1> QED BY <1>1, <1>4, <1>5 DEF m

LEMMA BadBehind ==
  ASSUME NEW s, NEW t, NEW u, Joins(s, t, u), NEW i \in 1..Len(t)
  PROVE  Utf8!BadBytes(u, Len(s) + i) = Utf8!BadBytes(t, i)
<1> DEFINE m == Len(s)
           w == Utf8!Width[t[i]]
           Here(n)  == n < w /\ Utf8!Continued(t, i, i + n - 1)
           There(n) == n < w /\ Utf8!Continued(u, m + i, m + i + n - 1)
           b == Len(t) - i + 1
<1>1. m \in Nat /\ i \in Nat /\ i <= Len(t) /\ i > 0 /\ Len(t) \in Nat /\ Len(u) = m + Len(t)
      /\ u[m + i] = t[i]
  BY DEF Joins
<1>2. Len(u) - (m + i) + 1 = b /\ b \in Nat
  BY <1>1
<1>3. \A n \in 1..b : Here(n) <=> There(n)
  <2> TAKE n \in 1..b
  <2>1. i + n - 1 \in Nat /\ i + n - 1 <= Len(t) /\ m + (i + n - 1) = m + i + n - 1
    <3>1. PICK l, k : l = Len(t) /\ k = m
      OBVIOUS
    <3>2. l \in Nat /\ k \in Nat /\ i <= l /\ n \in Nat /\ n > 0 /\ n <= l - i + 1
      BY <1>1, <3>1
    <3>3. i + n - 1 \in Nat /\ i + n - 1 <= l /\ k + (i + n - 1) = k + i + n - 1
      BY <1>1, <3>2
    <3> QED BY <3>1, <3>3
  <2>2. Utf8!Continued(u, m + i, m + i + n - 1) <=> Utf8!Continued(t, i, i + n - 1)
    <3>1. Utf8!Continued(u, m + i, m + (i + n - 1)) <=> Utf8!Continued(t, i, i + n - 1)
      BY <2>1, ContinuedBehind
    <3> QED BY <2>1, <3>1
  <2> QED BY <2>2
<1>4. Utf8!BadBytes(t, i) = IF w = 0 THEN 1 ELSE Utf8!Max({n \in 1..b : Here(n)})
  BY Zenon DEF Utf8!BadBytes
<1>5. Utf8!BadBytes(u, m + i) = IF Utf8!Width[u[m + i]] = 0 THEN 1
                           ELSE Utf8!Max({n \in 1..(Len(u) - (m + i) + 1) :
                                       n < Utf8!Width[u[m + i]]
                                           /\ Utf8!Continued(u, m + i, m + i + n - 1)})
  BY Zenon DEF Utf8!BadBytes
<1>6. Utf8!BadBytes(u, m + i) = IF w = 0 THEN 1 ELSE Utf8!Max({n \in 1..b : There(n)})
  BY <1>1, <1>2, <1>5, Zenon
<1>7. {n \in 1..b : Here(n)} = {n \in 1..b : There(n)}
  <2> HIDE DEF Here, There, b
  <2> QED BY <1>3, Zenon
<1>8. PICK x, y : x = Utf8!Max({n \in 1..b : Here(n)}) /\ y = Utf8!Max({n \in 1..b : There(n)})
  OBVIOUS
<1>9. x = y
  <2> HIDE DEF Here, There, b
  <2> QED BY <1>7, <1>8, Zenon
<1>10. Utf8!BadBytes(t, i) = IF w = 0 THEN 1 ELSE x
  BY <1>4, <1>8, Zenon
<1>11. Utf8!BadBytes(u, m + i) = IF w = 0 THEN 1 ELSE y
  BY <1>6, <1>8, Zenon
<1>12. CASE w = 0
  <2>1. Utf8!BadBytes(t, i) = 1 /\ Utf8!BadBytes(u, m + i) = 1
    BY <1>10, <1>11, <1>12
  <2> QED BY <2>1
<1>13. CASE w # 0
  <2>1. Utf8!BadBytes(t, i) = x /\ Utf8!BadBytes(u, m + i) = y
    BY <1>10, <1>11, <1>13
  <2> QED BY <1>9, <2>1
<1> QED BY <1>12, <1>13

LEMMA AfterBehind ==
  ASSUME NEW s, NEW t, NEW u, Joins(s, t, u), NEW i \in 1..Len(t)
  PROVE  /\ After(u, Len(s) + i) = Len(s) + After(t, i)
         /\ CharAt(u, Len(s) + i) = CharAt(t, i)
<1> DEFINE m == Len(s)
           w == Utf8!Width[t[i]]
<1>1. /\ m \in Nat /\ i \in Nat /\ i > 0 /\ i <= Len(t) /\ Len(t) \in Nat /\ Len(u) = m + Len(t)
      /\ t \in Seq(Kinds) /\ u \in Seq(Kinds) /\ \A k \in 1..Len(t) : u[m + k] = t[k]
  BY DEF Joins
<1>2. (Utf8!WholeAt(u, m + i) <=> Utf8!WholeAt(t, i)) /\ u[m + i] = t[i]
  BY WholeBehind
<1>3. w \in Nat
  BY <1>1, WidthAt
<1> HIDE DEF m
<1>4. CASE Utf8!WholeAt(t, i)
  <2>1. w > 0 /\ i + w - 1 <= Len(t)
    BY <1>4 DEF Utf8!WholeAt
  <2>2. After(u, m + i) = m + i + w /\ After(t, i) = i + w
    BY <1>2, <1>4 DEF After
  <2>3. CharAt(u, m + i) = SubSeq(u, m + i, m + i + w - 1)
            /\ CharAt(t, i) = SubSeq(t, i, i + w - 1)
    BY <1>2, <1>4 DEF CharAt
  <2> HIDE DEF w
  <2>4. m + i + w = m + (i + w)
    BY <1>1, <1>3
  <2>5. SubSeq(u, m + i, m + i + w - 1) = SubSeq(t, i, i + w - 1)
    <3>1. PICK a, b : a = SubSeq(u, m + i, m + i + w - 1) /\ b = SubSeq(t, i, i + w - 1)
      OBVIOUS
    <3>2. a \in Seq(Kinds) /\ Len(a) = w /\ \A k \in 1..w : a[k] = u[m + i + k - 1]
      BY <1>1, <1>3, <2>1, <3>1
    <3>3. b \in Seq(Kinds) /\ Len(b) = w /\ \A k \in 1..w : b[k] = t[i + k - 1]
      BY <1>1, <1>3, <2>1, <3>1
    <3>4. \A k \in 1..w : a[k] = b[k]
      <4> TAKE k \in 1..w
      <4>1. i + k - 1 \in 1..Len(t) /\ m + i + k - 1 = m + (i + k - 1)
        BY <1>1, <1>3, <2>1
      <4> QED BY <1>1, <3>2, <3>3, <4>1
    <3>5. a = b
      BY <3>2, <3>3, <3>4, SameBytes
    <3> QED BY <3>1, <3>5
  <2> QED BY <2>2, <2>3, <2>4, <2>5 DEF m
<1>5. CASE ~Utf8!WholeAt(t, i)
  <2>1. After(u, m + i) = m + i + Utf8!BadBytes(u, m + i) /\ CharAt(u, m + i) = Utf8!Replacement
    BY <1>2, <1>5 DEF After, CharAt
  <2>2. After(t, i) = i + Utf8!BadBytes(t, i) /\ CharAt(t, i) = Utf8!Replacement
    BY <1>5 DEF After, CharAt
  <2>3. Utf8!BadBytes(u, m + i) = Utf8!BadBytes(t, i)
    BY BadBehind DEF m
  <2>4. Utf8!BadBytes(t, i) \in 1..(Len(t) - i + 1)
    BY <1>1, <1>5, BadBytesIs
  <2>5. PICK b : b = Utf8!BadBytes(t, i)
    OBVIOUS
  <2>6. m + i + b = m + (i + b)
    BY <1>1, <2>4, <2>5
  <2> QED BY <2>1, <2>2, <2>3, <2>5, <2>6 DEF m
<1> QED BY <1>4, <1>5

\* What is at a place of the first part.
LEMMA ContinuedBefore ==
  ASSUME NEW s, NEW t, NEW u, Joins(s, t, u), NEW i \in 1..Len(s), NEW n \in Nat, n <= Len(s)
  PROVE  Utf8!Continued(u, i, n) <=> Utf8!Continued(s, i, n)
<1>1. Len(s) \in Nat /\ i \in Nat /\ i > 0 /\ \A k \in 1..Len(s) : u[k] = s[k]
  BY DEF Joins
<1>2. \A k \in (i + 1)..n : k \in 1..Len(s)
  BY <1>1
<1> QED BY <1>1, <1>2 DEF Utf8!Continued

LEMMA WholeBefore ==
  ASSUME NEW s, NEW t, NEW u, Joins(s, t, u), NEW i \in 1..Len(s)
  PROVE  /\ Utf8!WholeAt(s, i) => Utf8!WholeAt(u, i) /\ After(s, i) <= Len(s) + 1
         /\ Utf8!WholeAt(u, i) /\ After(u, i) <= Len(s) + 1 => Utf8!WholeAt(s, i)
         /\ Utf8!WholeAt(u, i) => Utf8!WholeAt(s, i) \/ Utf8!CutAt(s, i)
         /\ Utf8!CutAt(u, i) => Utf8!CutAt(s, i)
<1> DEFINE m == Len(s)
           N == Len(u)
           w == Utf8!Width[s[i]]
<1>1. m \in Nat /\ N \in Nat /\ i \in Nat /\ i > 0 /\ i <= m /\ m <= N /\ u[i] = s[i]
  BY DEF Joins
<1>2. w \in Nat
  BY WidthAt DEF Joins
<1>3. Utf8!WholeAt(s, i) <=> w > 0 /\ i + w - 1 <= m /\ Utf8!Continued(s, i, i + w - 1)
  BY DEF Utf8!WholeAt
<1>4. Utf8!WholeAt(u, i) <=> w > 0 /\ i + w - 1 <= N /\ Utf8!Continued(u, i, i + w - 1)
  BY <1>1 DEF Utf8!WholeAt
<1>5. Utf8!CutAt(s, i) <=> i + w - 1 > m /\ Utf8!Continued(s, i, m)
  BY DEF Utf8!CutAt
<1>6. Utf8!CutAt(u, i) <=> i + w - 1 > N /\ Utf8!Continued(u, i, N)
  BY <1>1 DEF Utf8!CutAt
<1>7. (Utf8!WholeAt(s, i) => After(s, i) = i + w) /\ (Utf8!WholeAt(u, i) => After(u, i) = i + w)
  BY <1>1 DEF After
<1>8. Utf8!Continued(u, i, m) <=> Utf8!Continued(s, i, m)
  BY <1>1, ContinuedBefore
<1>9. i + w - 1 <= m => (Utf8!Continued(u, i, i + w - 1) <=> Utf8!Continued(s, i, i + w - 1))
  <2> HIDE DEF w
  <2>1. i + w - 1 \in Nat
    BY <1>1, <1>2
  <2> QED BY <2>1, ContinuedBefore
<1> HIDE DEF m, N, w
<1>10. ASSUME NEW n \in Nat, n >= m, Utf8!Continued(u, i, n) PROVE Utf8!Continued(u, i, m)
  <2>1. \A k \in (i + 1)..m : k \in (i + 1)..n
    BY <1>1, <1>10
  <2> QED BY <1>10, <2>1 DEF Utf8!Continued
<1>11. Utf8!WholeAt(s, i) => Utf8!WholeAt(u, i) /\ After(s, i) <= m + 1
  <2> SUFFICES ASSUME Utf8!WholeAt(s, i) PROVE Utf8!WholeAt(u, i) /\ After(s, i) <= m + 1
    OBVIOUS
  <2>1. w > 0 /\ i + w - 1 <= m /\ Utf8!Continued(u, i, i + w - 1) /\ After(s, i) = i + w
    BY <1>3, <1>7, <1>9
  <2>2. i + w - 1 <= N /\ i + w <= m + 1
    BY <1>1, <1>2, <2>1
  <2> QED BY <1>4, <2>1, <2>2
<1>12. Utf8!WholeAt(u, i) /\ After(u, i) <= m + 1 => Utf8!WholeAt(s, i)
  <2> SUFFICES ASSUME Utf8!WholeAt(u, i), After(u, i) <= m + 1 PROVE Utf8!WholeAt(s, i)
    OBVIOUS
  <2>1. i + w <= m + 1
    BY <1>7
  <2>2. i + w - 1 <= m
    BY <1>1, <1>2, <2>1
  <2> QED BY <1>3, <1>4, <1>9, <2>2
<1>13. Utf8!WholeAt(u, i) => Utf8!WholeAt(s, i) \/ Utf8!CutAt(s, i)
  <2> SUFFICES ASSUME Utf8!WholeAt(u, i), ~Utf8!WholeAt(s, i) PROVE Utf8!CutAt(s, i)
    OBVIOUS
  <2>1. w > 0 /\ Utf8!Continued(u, i, i + w - 1) /\ ~(i + w - 1 <= m)
    BY <1>3, <1>4, <1>9
  <2>2. i + w - 1 \in Nat /\ i + w - 1 > m /\ i + w - 1 >= m
    BY <1>1, <1>2, <2>1
  <2>3. Utf8!Continued(u, i, m)
    BY <1>10, <2>1, <2>2
  <2> QED BY <1>5, <1>8, <2>2, <2>3
<1>14. Utf8!CutAt(u, i) => Utf8!CutAt(s, i)
  <2> SUFFICES ASSUME Utf8!CutAt(u, i) PROVE Utf8!CutAt(s, i)
    OBVIOUS
  <2>1. i + w - 1 > N /\ Utf8!Continued(u, i, N)
    BY <1>6
  <2>2. i + w - 1 > m /\ N >= m
    BY <1>1, <1>2, <2>1
  <2>3. Utf8!Continued(u, i, m)
    BY <1>1, <1>10, <2>1, <2>2
  <2> QED BY <1>5, <1>8, <2>2, <2>3
<1> QED BY <1>11, <1>12, <1>13, <1>14 DEF m

LEMMA SameBefore ==
  ASSUME NEW s, NEW t, NEW u, Joins(s, t, u), NEW i \in 1..Len(s), Utf8!WholeAt(s, i)
  PROVE  After(u, i) = After(s, i) /\ CharAt(u, i) = CharAt(s, i)
<1> DEFINE m == Len(s)
           w == Utf8!Width[s[i]]
<1>1. /\ m \in Nat /\ i \in Nat /\ i > 0 /\ i <= m /\ Len(u) \in Nat /\ m <= Len(u) /\ u[i] = s[i]
      /\ s \in Seq(Kinds) /\ u \in Seq(Kinds) /\ \A k \in 1..m : u[k] = s[k]
  BY DEF Joins
<1>2. w \in Nat /\ w > 0 /\ i + w - 1 <= m
  BY <1>1, WidthAt DEF Utf8!WholeAt
<1>3. Utf8!WholeAt(u, i)
  BY WholeBefore
<1>4. After(u, i) = i + w /\ After(s, i) = i + w
  BY <1>1, <1>3 DEF After
<1>5. CharAt(u, i) = SubSeq(u, i, i + w - 1) /\ CharAt(s, i) = SubSeq(s, i, i + w - 1)
  BY <1>1, <1>3 DEF CharAt
<1> HIDE DEF m, w
<1>6. PICK a, b : a = SubSeq(u, i, i + w - 1) /\ b = SubSeq(s, i, i + w - 1)
  OBVIOUS
<1>7. a \in Seq(Kinds) /\ Len(a) = w /\ \A k \in 1..w : a[k] = u[i + k - 1]
  <2>1. i + w - 1 <= Len(u)
    BY <1>1, <1>2
  <2> QED BY <1>1, <1>2, <1>6, <2>1
<1>8. b \in Seq(Kinds) /\ Len(b) = w /\ \A k \in 1..w : b[k] = s[i + k - 1]
  <2>1. i + w - 1 <= Len(s)
    BY <1>2 DEF m
  <2> QED BY <1>1, <1>2, <1>6, <2>1
<1>9. \A k \in 1..w : a[k] = b[k]
  <2> TAKE k \in 1..w
  <2>1. i + k - 1 \in 1..m
    BY <1>1, <1>2
  <2> QED BY <1>1, <1>7, <1>8, <2>1
<1>10. a = b
  BY <1>7, <1>8, <1>9, SameBytes
<1> QED BY <1>4, <1>5, <1>6, <1>10

-----------------------------------------------------------------------------
(* Utf8Chunks: errors and characters of a whole stream                     *)

LEMMA ErrorBounds ==
  ASSUME NEW s \in Seq(Kinds), NEW f, IsError(f, s), NEW i \in 1..(Len(s) + 1)
  PROVE  f[i] \in i..(Len(s) + 1) /\ (f[i] # Len(s) + 1
         => f[i] \in 1..Len(s) /\ ~Utf8!WholeAt(s, f[i]))
<1> DEFINE N == Len(s)
           Fine(k) == f[k] \in k..(N + 1)
               /\ (f[k] # N + 1 => f[k] \in 1..N /\ ~Utf8!WholeAt(s, f[k]))
           Bad == {k \in 1..(N + 1) : ~Fine(k)}
<1>1. N \in Nat /\ N + 1 \in Nat
  OBVIOUS
<1>2. f[N + 1] = N + 1 /\ \A k \in 1..N : f[k] = IF Utf8!WholeAt(s, k) THEN f[After(s, k)] ELSE k
  BY DEF IsError
<1>3. \A k \in 1..N : After(s, k) \in 1..(N + 1) /\ After(s, k) > k
  BY AfterIs
<1>4. SUFFICES ASSUME Bad # {} PROVE FALSE
  OBVIOUS
<1> HIDE DEF N
<1>5. PICK k \in Bad : \A l \in Bad : ~(k < l)
  <2>1. \A x \in Bad : x \in Nat /\ x <= N + 1
    BY <1>1
  <2> HIDE DEF Bad
  <2> QED BY <1>1, <1>4, <2>1, Largest
<1>6. k \in 1..(N + 1) /\ ~Fine(k)
  OBVIOUS
<1>7. k # N + 1
  <2>1. Fine(N + 1)
    BY <1>1, <1>2
  <2> HIDE DEF Fine
  <2> QED BY <1>6, <2>1
<1>8. k \in 1..N
  BY <1>1, <1>6, <1>7
<1>9. CASE Utf8!WholeAt(s, k)
  <2>1. PICK a : a = After(s, k)
    OBVIOUS
  <2>2. a \in 1..(N + 1) /\ a > k
    BY <1>3, <1>8, <2>1
  <2>3. Fine(a)
    <3> HIDE DEF Fine
    <3> QED BY <1>5, <2>2
  <2>4. f[k] = f[a]
    BY <1>2, <1>8, <1>9, <2>1
  <2>5. f[a] \in a..(N + 1) => f[a] \in k..(N + 1)
    BY <1>1, <1>8, <2>2
  <2>6. Fine(k)
    BY <2>3, <2>4, <2>5
  <2> QED BY <1>6, <2>6
<1>10. CASE ~Utf8!WholeAt(s, k)
  <2>1. f[k] = k
    BY <1>2, <1>8, <1>10
  <2>2. Fine(k)
    BY <1>1, <1>8, <1>10, <2>1
  <2> QED BY <1>6, <2>2
<1> QED BY <1>9, <1>10

Decoded == Seq(Kinds) \cup {Utf8!Replacement}

LEMMA LossyTypes ==
  ASSUME NEW s \in Seq(Kinds), NEW g, IsLossy(g, s), NEW i \in 1..(Len(s) + 1)
  PROVE  g[i] \in Seq(Decoded)
<1> DEFINE N == Len(s)
           Bad == {k \in 1..(N + 1) : g[k] \notin Seq(Decoded)}
<1>1. N \in Nat /\ N + 1 \in Nat
  OBVIOUS
<1>2. g[N + 1] = <<>> /\ \A k \in 1..N : g[k] = <<CharAt(s, k)>> \o g[After(s, k)]
  BY DEF IsLossy
<1>3. \A k \in 1..N : /\ After(s, k) \in 1..(N + 1) /\ After(s, k) > k
                      /\ CharAt(s, k) \in Decoded
  BY AfterIs DEF Decoded
<1>4. SUFFICES ASSUME Bad # {} PROVE FALSE
  OBVIOUS
<1> HIDE DEF N
<1>5. PICK k \in Bad : \A l \in Bad : ~(k < l)
  <2>1. \A x \in Bad : x \in Nat /\ x <= N + 1
    BY <1>1
  <2> HIDE DEF Bad
  <2> QED BY <1>1, <1>4, <2>1, Largest
<1>6. k \in 1..(N + 1) /\ g[k] \notin Seq(Decoded)
  OBVIOUS
<1>7. k # N + 1
  <2>1. <<>> \in Seq(Decoded)
    OBVIOUS
  <2>2. k = N + 1 => g[k] = <<>>
    BY <1>2, Zenon
  <2> QED BY <1>6, <2>1, <2>2, Zenon
<1>8. k \in 1..N
  BY <1>1, <1>6, <1>7
<1>9. PICK a, c : a = After(s, k) /\ c = CharAt(s, k)
  OBVIOUS
<1>10. a \in 1..(N + 1) /\ a > k /\ c \in Decoded
  BY <1>3, <1>8, <1>9
<1>11. g[a] \in Seq(Decoded)
  BY <1>5, <1>10
<1>12. g[k] = <<c>> \o g[a]
  BY <1>2, <1>8, <1>9
<1>13. <<c>> \in Seq(Decoded)
  BY <1>10
<1> QED BY <1>6, <1>11, <1>12, <1>13

LEMMA JoinAssociates ==
  ASSUME NEW S, NEW a \in Seq(S), NEW b \in Seq(S), NEW c \in Seq(S)
  PROVE  a \o (b \o c) = (a \o b) \o c
  OBVIOUS

\* Behind the end of the first part is what is behind the start of the second.
LEMMA Behind ==
  ASSUME NEW s, NEW t, NEW u, Joins(s, t, u), NEW fu, IsError(fu, u), NEW ft, IsError(ft, t),
         NEW gu, IsLossy(gu, u), NEW gt, IsLossy(gt, t)
  PROVE  \A j \in 1..(Len(t) + 1) :
           fu[Len(s) + j] = Len(s) + ft[j] /\ gu[Len(s) + j] = gt[j]
<1> DEFINE m == Len(s)
           N == Len(t)
           Same(j) == fu[m + j] = m + ft[j] /\ gu[m + j] = gt[j]
           Bad == {j \in 1..(N + 1) : ~Same(j)}
<1>1. /\ m \in Nat /\ N \in Nat /\ Len(u) = m + N /\ N + 1 \in Nat
      /\ t \in Seq(Kinds) /\ u \in Seq(Kinds)
  BY DEF Joins
<1>2. /\ ft[N + 1] = N + 1 /\ gt[N + 1] = <<>>
      /\ \A i \in 1..N : /\ ft[i] = IF Utf8!WholeAt(t, i) THEN ft[After(t, i)] ELSE i
                         /\ gt[i] = <<CharAt(t, i)>> \o gt[After(t, i)]
  BY Zenon DEF IsError, IsLossy
<1>3. /\ fu[Len(u) + 1] = Len(u) + 1 /\ gu[Len(u) + 1] = <<>>
      /\ \A i \in 1..Len(u) : /\ fu[i] = IF Utf8!WholeAt(u, i) THEN fu[After(u, i)] ELSE i
                              /\ gu[i] = <<CharAt(u, i)>> \o gu[After(u, i)]
  BY Zenon DEF IsError, IsLossy
<1>4. \A i \in 1..N : After(t, i) \in 1..(N + 1) /\ After(t, i) > i
  BY <1>1, AfterIs
<1>5. \A i \in 1..N : /\ After(u, m + i) = m + After(t, i) /\ CharAt(u, m + i) = CharAt(t, i)
                      /\ Utf8!WholeAt(u, m + i) <=> Utf8!WholeAt(t, i)
  BY AfterBehind, WholeBehind
<1> HIDE DEF m, N
<1>6. SUFFICES ASSUME Bad # {} PROVE FALSE
  BY DEF m, N
<1>7. PICK k \in Bad : \A l \in Bad : ~(k < l)
  <2>1. \A x \in Bad : x \in Nat /\ x <= N + 1
    BY <1>1
  <2> HIDE DEF Bad
  <2> QED BY <1>1, <1>6, <2>1, Largest
<1>8. k \in 1..(N + 1) /\ ~Same(k)
  OBVIOUS
<1>9. k # N + 1
  <2>1. m + (N + 1) = Len(u) + 1 /\ Len(u) + 1 = m + (N + 1)
    BY <1>1
  <2>2. fu[m + (N + 1)] = m + (N + 1) /\ gu[m + (N + 1)] = <<>>
    BY <1>3, <2>1
  <2>3. Same(N + 1)
    BY <1>2, <2>2
  <2> HIDE DEF Same
  <2> QED BY <1>8, <2>3
<1>10. k \in 1..N /\ m + k \in 1..Len(u)
  BY <1>1, <1>8, <1>9
<1>11. PICK a, c : a = After(t, k) /\ c = CharAt(t, k)
  OBVIOUS
<1>12. a \in 1..(N + 1) /\ a > k
  BY <1>4, <1>10, <1>11
<1>13. Same(a)
  <2> HIDE DEF Same
  <2> QED BY <1>7, <1>12
<1>14. gt[k] = <<c>> \o gt[a]
  BY <1>2, <1>10, <1>11
<1>15. gu[m + k] = <<c>> \o gu[m + a]
  BY <1>3, <1>5, <1>10, <1>11, Zenon
<1>16. gu[m + k] = gt[k]
  BY <1>13, <1>14, <1>15, Zenon
<1>17. CASE Utf8!WholeAt(t, k)
  <2>1. ft[k] = ft[a]
    BY <1>2, <1>10, <1>11, <1>17
  <2>2. Utf8!WholeAt(u, m + k)
    BY <1>5, <1>10, <1>17
  <2>3. fu[m + k] = fu[m + a]
    BY <1>3, <1>5, <1>10, <1>11, <2>2
  <2> QED BY <1>8, <1>13, <1>16, <2>1, <2>3
<1>18. CASE ~Utf8!WholeAt(t, k)
  <2>1. ft[k] = k
    BY <1>2, <1>10, <1>18
  <2>2. ~Utf8!WholeAt(u, m + k)
    BY <1>5, <1>10, <1>18
  <2>3. fu[m + k] = m + k
    BY <1>3, <1>10, <2>2
  <2> QED BY <1>8, <1>16, <2>1, <2>3
<1> QED BY <1>17, <1>18

\* From where all of the first part is whole.
FromWhole(s, t, u, fs, gs, ft, gt, fu, gu) ==
  \A i \in 1..(Len(s) + 1) :
    fs[i] = Len(s) + 1 => fu[i] = Len(s) + ft[1] /\ gu[i] = gs[i] \o gt[1]

LEMMA Before ==
  ASSUME NEW s, NEW t, NEW u, Joins(s, t, u), NEW fu, IsError(fu, u), NEW ft, IsError(ft, t),
         NEW gu, IsLossy(gu, u), NEW gt, IsLossy(gt, t), NEW fs, IsError(fs, s),
         NEW gs, IsLossy(gs, s)
  PROVE  FromWhole(s, t, u, fs, gs, ft, gt, fu, gu)
<1> DEFINE m == Len(s)
           Fine(i) == fs[i] = m + 1 => fu[i] = m + ft[1] /\ gu[i] = gs[i] \o gt[1]
           Bad == {i \in 1..(m + 1) : ~Fine(i)}
<1>1. /\ m \in Nat /\ m + 1 \in Nat /\ Len(t) \in Nat /\ Len(u) = m + Len(t)
      /\ s \in Seq(Kinds) /\ t \in Seq(Kinds)
  BY DEF Joins
<1>2. /\ fs[m + 1] = m + 1 /\ gs[m + 1] = <<>>
      /\ \A i \in 1..m : /\ fs[i] = IF Utf8!WholeAt(s, i) THEN fs[After(s, i)] ELSE i
                         /\ gs[i] = <<CharAt(s, i)>> \o gs[After(s, i)]
  BY Zenon DEF IsError, IsLossy
<1>3. \A i \in 1..Len(u) : /\ fu[i] = IF Utf8!WholeAt(u, i) THEN fu[After(u, i)] ELSE i
                           /\ gu[i] = <<CharAt(u, i)>> \o gu[After(u, i)]
  BY Zenon DEF IsError, IsLossy
<1>4. \A i \in 1..m : /\ After(s, i) \in 1..(m + 1) /\ After(s, i) > i
                      /\ CharAt(s, i) \in Decoded
  BY <1>1, AfterIs DEF Decoded
<1>5. \A i \in 1..m : Utf8!WholeAt(s, i) =>
        Utf8!WholeAt(u, i) /\ After(u, i) = After(s, i) /\ CharAt(u, i) = CharAt(s, i)
  BY SameBefore, WholeBefore
<1>6. \A i \in 1..(m + 1) : gs[i] \in Seq(Decoded)
  BY <1>1, LossyTypes
<1>7. gt[1] \in Seq(Decoded)
  <2>1. 1 \in 1..(Len(t) + 1)
    BY <1>1
  <2> QED BY <1>1, <2>1, LossyTypes
<1>8. fu[m + 1] = m + ft[1] /\ gu[m + 1] = gt[1]
  <2>1. 1 \in 1..(Len(t) + 1)
    BY <1>1
  <2> QED BY <2>1, Behind
<1> HIDE DEF m
<1>9. SUFFICES ASSUME Bad # {} PROVE FALSE
  BY DEF m, FromWhole
<1>10. PICK k \in Bad : \A l \in Bad : ~(k < l)
  <2>1. \A x \in Bad : x \in Nat /\ x <= m + 1
    BY <1>1
  <2> HIDE DEF Bad
  <2> QED BY <1>1, <1>9, <2>1, Largest
<1>11. k \in 1..(m + 1) /\ ~Fine(k)
  OBVIOUS
<1>12. k # m + 1
  <2>1. gt[1] = <<>> \o gt[1]
    BY <1>7
  <2>2. gu[m + 1] = gs[m + 1] \o gt[1]
    BY <1>2, <1>8, <2>1, Zenon
  <2>3. Fine(m + 1)
    BY <1>8, <2>2
  <2> HIDE DEF Fine
  <2> QED BY <1>11, <2>3
<1>13. k \in 1..m /\ k \in 1..Len(u) /\ fs[k] = m + 1
  <2>1. k \in 1..m
    BY <1>1, <1>11, <1>12
  <2>2. k \in 1..Len(u)
    BY <1>1, <2>1
  <2>3. fs[k] = m + 1
    BY <1>11, Zenon
  <2> QED BY <2>1, <2>2, <2>3
<1>14. Utf8!WholeAt(s, k)
  <2> SUFFICES ASSUME ~Utf8!WholeAt(s, k) PROVE FALSE
    OBVIOUS
  <2>1. fs[k] = k
    BY <1>2, <1>13
  <2> QED BY <1>12, <1>13, <2>1
<1>15. PICK a, c : a = After(s, k) /\ c = CharAt(s, k)
  OBVIOUS
<1>16. a \in 1..(m + 1) /\ a > k /\ c \in Decoded
  BY <1>4, <1>13, <1>15
<1>17. fs[k] = fs[a] /\ gs[k] = <<c>> \o gs[a]
  BY <1>2, <1>13, <1>14, <1>15
<1>18. Utf8!WholeAt(u, k) /\ After(u, k) = a /\ CharAt(u, k) = c
  BY <1>5, <1>13, <1>14, <1>15
<1>19. fu[k] = fu[a] /\ gu[k] = <<c>> \o gu[a]
  BY <1>3, <1>13, <1>18
<1>20. Fine(a)
  <2> HIDE DEF Fine
  <2> QED BY <1>10, <1>16
<1>21. fu[a] = m + ft[1] /\ gu[a] = gs[a] \o gt[1]
  BY <1>13, <1>17, <1>20
<1>22. <<c>> \in Seq(Decoded) /\ gs[a] \in Seq(Decoded)
  BY <1>6, <1>16
<1>23. <<c>> \o (gs[a] \o gt[1]) = (<<c>> \o gs[a]) \o gt[1]
  <2>1. PICK x, y, z : x = <<c>> /\ y = gs[a] /\ z = gt[1]
    OBVIOUS
  <2>2. x \in Seq(Decoded) /\ y \in Seq(Decoded) /\ z \in Seq(Decoded)
    BY <1>7, <1>22, <2>1
  <2>3. x \o (y \o z) = (x \o y) \o z
    BY <2>2, JoinAssociates
  <2> QED BY <2>1, <2>3, Zenon
<1>24. gu[k] = gs[k] \o gt[1]
  BY <1>17, <1>19, <1>21, <1>23, Zenon
<1> QED BY <1>11, <1>19, <1>21, <1>24

LEMMA ErrorPlace ==
  ASSUME NEW s \in Seq(Kinds)
  PROVE  /\ Utf8!ErrorAt(s) \in 1..(Len(s) + 1) /\ Utf8!Lossy(s) \in Seq(Decoded)
         /\ Utf8!ErrorAt(s) <= Len(s) => ~Utf8!WholeAt(s, Utf8!ErrorAt(s))
         /\ Utf8!Whole(s) <=> Utf8!ErrorAt(s) = Len(s) + 1
<1>1. PICK f : IsError(f, s) /\ Utf8!ErrorAt(s) = f[1]
  BY ErrorIs
<1>2. PICK g : IsLossy(g, s) /\ Utf8!Lossy(s) = g[1]
  BY LossyIs
<1>3. 1 \in 1..(Len(s) + 1) /\ Len(s) \in Nat
  OBVIOUS
<1>4. f[1] \in 1..(Len(s) + 1) /\ (f[1] # Len(s) + 1
          => f[1] \in 1..Len(s) /\ ~Utf8!WholeAt(s, f[1]))
  BY <1>1, <1>3, ErrorBounds
<1>5. g[1] \in Seq(Decoded)
  BY <1>2, <1>3, LossyTypes
<1>6. PICK e : e = Utf8!ErrorAt(s)
  OBVIOUS
<1>7. e \in 1..(Len(s) + 1) /\ (e # Len(s) + 1 => ~Utf8!WholeAt(s, e))
  BY <1>1, <1>4, <1>6
<1>8. e <= Len(s) => e # Len(s) + 1
  BY <1>3, <1>7
<1>9. e > Len(s) <=> e = Len(s) + 1
  BY <1>3, <1>7
<1> QED BY <1>2, <1>5, <1>6, <1>7, <1>8, <1>9 DEF Utf8!Whole

\* What is not whole at its start has its first error there.
LEMMA ErrorFirst ==
  ASSUME NEW s \in Seq(Kinds), Len(s) > 0, ~Utf8!WholeAt(s, 1)
  PROVE  Utf8!ErrorAt(s) = 1
<1>1. PICK f : IsError(f, s) /\ Utf8!ErrorAt(s) = f[1]
  BY ErrorIs
<1>2. 1 \in 1..Len(s)
  OBVIOUS
<1> QED BY <1>1, <1>2 DEF IsError

\* Behind whole characters decoding starts anew.
LEMMA Concatenated ==
  ASSUME NEW s, NEW t, NEW u, Joins(s, t, u), Utf8!Whole(s)
  PROVE  /\ Utf8!ErrorAt(u) = Len(s) + Utf8!ErrorAt(t)
         /\ Utf8!Lossy(u) = Utf8!Lossy(s) \o Utf8!Lossy(t)
         /\ Utf8!Whole(u) <=> Utf8!Whole(t)
         /\ Utf8!Cut(u) <=> Utf8!Cut(t)
<1>1. /\ s \in Seq(Kinds) /\ t \in Seq(Kinds) /\ u \in Seq(Kinds)
      /\ Len(s) \in Nat /\ Len(t) \in Nat /\ Len(u) = Len(s) + Len(t)
  BY DEF Joins
<1>2. PICK fs, ft, fu : /\ IsError(fs, s) /\ Utf8!ErrorAt(s) = fs[1]
                        /\ IsError(ft, t) /\ Utf8!ErrorAt(t) = ft[1]
                        /\ IsError(fu, u) /\ Utf8!ErrorAt(u) = fu[1]
  BY <1>1, ErrorIs
<1>3. PICK gs, gt, gu : /\ IsLossy(gs, s) /\ Utf8!Lossy(s) = gs[1]
                        /\ IsLossy(gt, t) /\ Utf8!Lossy(t) = gt[1]
                        /\ IsLossy(gu, u) /\ Utf8!Lossy(u) = gu[1]
  BY <1>1, LossyIs
<1>4. fs[1] = Len(s) + 1
  BY <1>1, <1>2, ErrorPlace
<1>5. 1 \in 1..(Len(s) + 1)
  BY <1>1
<1>6. fu[1] = Len(s) + ft[1] /\ gu[1] = gs[1] \o gt[1]
  <2>1. \A i \in 1..(Len(s) + 1) :
          fs[i] = Len(s) + 1 => fu[i] = Len(s) + ft[1] /\ gu[i] = gs[i] \o gt[1]
    <3>1. IsError(fs, s) /\ IsError(ft, t) /\ IsError(fu, u)
      BY <1>2
    <3>2. IsLossy(gs, s) /\ IsLossy(gt, t) /\ IsLossy(gu, u)
      BY <1>3
    <3>3. FromWhole(s, t, u, fs, gs, ft, gt, fu, gu)
      BY <3>1, <3>2, Before
    <3> QED BY <3>3, Zenon DEF FromWhole
  <2> QED BY <1>4, <1>5, <2>1, Zenon
<1>7. PICK e, d : e = Utf8!ErrorAt(t) /\ d = Utf8!ErrorAt(u)
  OBVIOUS
<1>8. d = Len(s) + e
  BY <1>2, <1>6, <1>7
<1>9. e \in 1..(Len(t) + 1)
  BY <1>1, <1>7, ErrorPlace
<1>10. d > Len(u) <=> e > Len(t)
  BY <1>1, <1>8, <1>9
<1>11. Utf8!Whole(u) <=> Utf8!Whole(t)
  BY <1>7, <1>10 DEF Utf8!Whole
<1>12. ASSUME ~Utf8!Whole(t) PROVE Utf8!CutAt(u, d) <=> Utf8!CutAt(t, e)
  <2>1. ~(e > Len(t))
    BY <1>7, <1>12 DEF Utf8!Whole
  <2>2. e \in 1..Len(t)
    BY <1>1, <1>9, <2>1
  <2> QED BY <1>8, <2>2, WholeBehind
<1>13. Utf8!Cut(u) <=> Utf8!Cut(t)
  BY <1>7, <1>11, <1>12 DEF Utf8!Cut
<1> QED BY <1>2, <1>3, <1>6, <1>11, <1>13

\* Before the first error is nothing but whole characters.
LEMMA PrefixWhole ==
  ASSUME NEW s, NEW t, NEW u, Joins(s, t, u), Len(s) = Utf8!ErrorAt(u) - 1
  PROVE  Utf8!Whole(s)
<1> DEFINE m == Len(s)
<1>1. /\ s \in Seq(Kinds) /\ u \in Seq(Kinds) /\ m \in Nat /\ Len(t) \in Nat
      /\ Len(u) = m + Len(t)
  BY DEF Joins
<1>2. PICK fs, fu : /\ IsError(fs, s) /\ Utf8!ErrorAt(s) = fs[1]
                    /\ IsError(fu, u) /\ Utf8!ErrorAt(u) = fu[1]
  BY <1>1, ErrorIs
<1> DEFINE Fine(i) == fu[i] = m + 1 => fs[i] = m + 1
           Bad == {i \in 1..(m + 1) : ~Fine(i)}
<1>3. /\ fs[m + 1] = m + 1
      /\ \A i \in 1..m : fs[i] = IF Utf8!WholeAt(s, i) THEN fs[After(s, i)] ELSE i
  BY <1>2, Zenon DEF IsError
<1>4. \A i \in 1..Len(u) : fu[i] = IF Utf8!WholeAt(u, i) THEN fu[After(u, i)] ELSE i
  BY <1>2, Zenon DEF IsError
<1>5. \A i \in 1..Len(u) : After(u, i) \in 1..(Len(u) + 1) /\ After(u, i) > i
  BY <1>1, AfterIs
<1>6. \A i \in 1..(Len(u) + 1) : fu[i] \in i..(Len(u) + 1)
  BY <1>1, <1>2, ErrorBounds
<1>7. \A i \in 1..m : Utf8!WholeAt(u, i) /\ After(u, i) <= m + 1 =>
                        Utf8!WholeAt(s, i) /\ After(s, i) = After(u, i)
  BY WholeBefore, SameBefore
<1>8. Utf8!ErrorAt(u) = m + 1
  <2>1. Utf8!ErrorAt(u) \in 1..(Len(u) + 1)
    BY <1>1, ErrorPlace
  <2> QED BY <1>1, <2>1
<1> HIDE DEF m
<1>9. Bad = {}
  <2> SUFFICES ASSUME Bad # {} PROVE FALSE
    OBVIOUS
  <2>1. PICK k \in Bad : \A l \in Bad : ~(k < l)
    <3>1. \A x \in Bad : x \in Nat /\ x <= m + 1
      BY <1>1
    <3>2. m + 1 \in Nat
      BY <1>1
    <3> HIDE DEF Bad
    <3> QED BY <3>1, <3>2, Largest
  <2>2. k \in 1..(m + 1) /\ fu[k] = m + 1 /\ fs[k] # m + 1
    OBVIOUS
  <2>3. k # m + 1
    BY <1>3, <2>2
  <2>4. k \in 1..m /\ k \in 1..Len(u)
    BY <1>1, <2>2, <2>3
  <2>5. Utf8!WholeAt(u, k)
    <3> SUFFICES ASSUME ~Utf8!WholeAt(u, k) PROVE FALSE
      OBVIOUS
    <3>1. fu[k] = k
      BY <1>4, <2>4
    <3> QED BY <2>2, <2>3, <3>1
  <2>6. PICK a : a = After(u, k)
    OBVIOUS
  <2>7. fu[a] = m + 1 /\ a \in 1..(Len(u) + 1) /\ a > k
    BY <1>4, <1>5, <2>2, <2>4, <2>5, <2>6
  <2>8. a <= m + 1
    <3>1. fu[a] \in a..(Len(u) + 1)
      BY <1>6, <2>7
    <3> QED BY <1>1, <2>7, <3>1
  <2>9. Utf8!WholeAt(s, k) /\ After(s, k) = a
    BY <1>7, <2>4, <2>5, <2>6, <2>8
  <2>10. fs[k] = fs[a]
    BY <1>3, <2>4, <2>9
  <2>11. a \in 1..(m + 1)
    BY <1>1, <2>7, <2>8
  <2>12. Fine(a)
    <3> HIDE DEF Fine
    <3> QED BY <2>1, <2>7, <2>11
  <2> QED BY <2>2, <2>7, <2>10, <2>12
<1>10. fs[1] = m + 1
  <2>1. 1 \in 1..(m + 1)
    BY <1>1
  <2>2. fu[1] = m + 1
    BY <1>2, <1>8
  <2>3. Fine(1)
    <3> HIDE DEF Fine
    <3> QED BY <1>9, <2>1
  <2> QED BY <2>2, <2>3
<1>11. m + 1 > m
  BY <1>1
<1> QED BY <1>2, <1>10, <1>11 DEF Utf8!Whole, m

LEMMA JoinsParts ==
  ASSUME NEW s, NEW t, NEW u, Joins(s, t, u)
  PROVE  /\ s = SubSeq(u, 1, Len(s)) /\ t = SubSeq(u, Len(u) - Len(t) + 1, Len(u))
         /\ t = SubSeq(u, Len(s) + 1, Len(u)) /\ u = s \o t
<1>1. /\ s \in Seq(Kinds) /\ t \in Seq(Kinds) /\ u \in Seq(Kinds)
      /\ Len(s) \in Nat /\ Len(t) \in Nat /\ Len(u) = Len(s) + Len(t)
      /\ \A i \in 1..Len(s) : u[i] = s[i]
      /\ \A i \in 1..Len(t) : u[Len(s) + i] = t[i]
  BY DEF Joins
<1>2. s = SubSeq(u, 1, Len(s))
  BY <1>1
<1>3. t = SubSeq(u, Len(s) + 1, Len(u))
  BY <1>1
<1>4. Len(u) - Len(t) = Len(s)
  BY <1>1
<1>5. u = s \o t
  BY <1>1
<1> QED BY <1>2, <1>3, <1>4, <1>5

LEMMA JoinsMore ==
  ASSUME NEW s, NEW t, NEW u, Joins(s, t, u), NEW c \in Seq(Kinds)
  PROVE  Joins(s, t \o c, u \o c)
<1>1. /\ s \in Seq(Kinds) /\ t \in Seq(Kinds) /\ u \in Seq(Kinds) /\ Len(c) \in Nat
      /\ Len(s) \in Nat /\ Len(t) \in Nat /\ Len(u) = Len(s) + Len(t)
      /\ \A i \in 1..Len(s) : u[i] = s[i]
      /\ \A i \in 1..Len(t) : u[Len(s) + i] = t[i]
  BY DEF Joins
<1>2. PICK v, w : v = t \o c /\ w = u \o c
  OBVIOUS
<1>3. /\ v \in Seq(Kinds) /\ Len(v) = Len(t) + Len(c)
      /\ \A i \in 1..Len(t) : v[i] = t[i]
      /\ \A i \in 1..Len(c) : v[Len(t) + i] = c[i]
  BY <1>1, <1>2
<1>4. /\ w \in Seq(Kinds) /\ Len(w) = Len(u) + Len(c)
      /\ \A i \in 1..Len(u) : w[i] = u[i]
      /\ \A i \in 1..Len(c) : w[Len(u) + i] = c[i]
  <2>1. Joins(u, c, w)
    BY <1>1, <1>2, JoinsIs
  <2> QED BY <2>1 DEF Joins
<1>5. Len(v) \in Nat /\ Len(w) = Len(s) + Len(v)
  BY <1>1, <1>3, <1>4
<1>6. \A i \in 1..Len(s) : w[i] = s[i]
  BY <1>1, <1>4
<1>7. \A i \in 1..Len(v) : w[Len(s) + i] = v[i]
  <2> TAKE i \in 1..Len(v)
  <2>1. CASE i <= Len(t)
    <3>1. i \in 1..Len(t) /\ Len(s) + i \in 1..Len(u)
      BY <1>1, <1>5, <2>1
    <3> QED BY <1>1, <1>3, <1>4, <3>1
  <2>2. CASE ~(i <= Len(t))
    <3>1. PICK k : k = i - Len(t)
      OBVIOUS
    <3>2. k \in 1..Len(c) /\ i = Len(t) + k /\ Len(s) + i = Len(u) + k
      BY <1>1, <1>3, <1>5, <2>2, <3>1
    <3>3. w[Len(u) + k] = c[k] /\ v[Len(t) + k] = c[k]
      BY <1>3, <1>4, <3>2
    <3> QED BY <3>2, <3>3
  <2> QED BY <2>1, <2>2
<1>8. Joins(s, v, w)
  BY <1>1, <1>3, <1>4, <1>5, <1>6, <1>7 DEF Joins
<1> QED BY <1>2, <1>8

\* The second part is itself of two, and its first belongs to the first.
LEMMA JoinsShift ==
  ASSUME NEW s, NEW t, NEW u, Joins(s, t, u), NEW a, NEW b, Joins(a, b, t)
  PROVE  Joins(s \o a, b, u) /\ Joins(s, a, s \o a) /\ Len(s \o a) = Len(s) + Len(a)
<1>1. /\ s \in Seq(Kinds) /\ u \in Seq(Kinds)
      /\ Len(s) \in Nat /\ Len(u) = Len(s) + Len(t)
      /\ \A i \in 1..Len(s) : u[i] = s[i]
      /\ \A i \in 1..Len(t) : u[Len(s) + i] = t[i]
  BY DEF Joins
<1>2. /\ a \in Seq(Kinds) /\ b \in Seq(Kinds)
      /\ Len(a) \in Nat /\ Len(b) \in Nat /\ Len(t) = Len(a) + Len(b)
      /\ \A i \in 1..Len(a) : t[i] = a[i]
      /\ \A i \in 1..Len(b) : t[Len(a) + i] = b[i]
  BY DEF Joins
<1>3. PICK v : v = s \o a
  OBVIOUS
<1>4. /\ v \in Seq(Kinds) /\ Len(v) = Len(s) + Len(a) /\ Len(v) \in Nat
      /\ \A i \in 1..Len(s) : v[i] = s[i]
      /\ \A i \in 1..Len(a) : v[Len(s) + i] = a[i]
  BY <1>1, <1>2, <1>3
<1>5. Len(u) = Len(v) + Len(b)
  BY <1>1, <1>2, <1>4
<1>6. \A i \in 1..Len(v) : u[i] = v[i]
  <2> TAKE i \in 1..Len(v)
  <2>1. CASE i <= Len(s)
    <3>1. i \in 1..Len(s)
      BY <1>1, <1>4, <2>1
    <3> QED BY <1>1, <1>4, <3>1
  <2>2. CASE ~(i <= Len(s))
    <3>1. PICK k : k = i - Len(s)
      OBVIOUS
    <3>2. k \in 1..Len(a) /\ k \in 1..Len(t) /\ i = Len(s) + k
      BY <1>1, <1>2, <1>4, <2>2, <3>1
    <3>3. u[Len(s) + k] = t[k] /\ t[k] = a[k] /\ v[Len(s) + k] = a[k]
      BY <1>1, <1>2, <1>4, <3>2
    <3> QED BY <3>2, <3>3
  <2> QED BY <2>1, <2>2
<1>7. \A i \in 1..Len(b) : u[Len(v) + i] = b[i]
  <2> TAKE i \in 1..Len(b)
  <2>1. PICK k : k = Len(a) + i
    OBVIOUS
  <2>2. k \in 1..Len(t) /\ Len(v) + i = Len(s) + k
    BY <1>1, <1>2, <1>4, <2>1
  <2>3. u[Len(s) + k] = t[k] /\ t[k] = b[i]
    BY <1>1, <1>2, <2>1, <2>2
  <2> QED BY <2>2, <2>3
<1>8. Joins(v, b, u)
  BY <1>1, <1>2, <1>4, <1>5, <1>6, <1>7 DEF Joins
<1>9. Joins(s, a, v)
  BY <1>1, <1>2, <1>4 DEF Joins
<1> QED BY <1>3, <1>4, <1>8, <1>9

LEMMA EmptyWhole ==
  /\ <<>> \in Seq(Kinds) /\ Len(<<>>) = 0 /\ Utf8!Whole(<<>>) /\ Utf8!ErrorAt(<<>>) = 1
  /\ Utf8!Lossy(<<>>) = <<>>
<1>1. PICK s : s = <<>>
  OBVIOUS
<1>2. s \in Seq(Kinds) /\ Len(s) = 0
  BY <1>1
<1>3. PICK f : IsError(f, s) /\ Utf8!ErrorAt(s) = f[1]
  BY <1>2, ErrorIs
<1>4. PICK g : IsLossy(g, s) /\ Utf8!Lossy(s) = g[1]
  BY <1>2, LossyIs
<1>5. Utf8!ErrorAt(s) = 1
  BY <1>2, <1>3 DEF IsError
<1>6. Utf8!Lossy(s) = <<>>
  BY <1>2, <1>4 DEF IsLossy
<1>7. Utf8!Whole(s)
  BY <1>2, <1>5 DEF Utf8!Whole
<1> QED BY <1>1, <1>2, <1>5, <1>6, <1>7

LEMMA JoinsEmpty ==
  ASSUME NEW s \in Seq(Kinds)
  PROVE  Joins(s, <<>>, s) /\ Joins(<<>>, s, s) /\ SubSeq(s, 1, Len(s)) = s
<1>1. PICK e : e = <<>>
  OBVIOUS
<1>2. e \in Seq(Kinds) /\ Len(e) = 0
  BY <1>1
<1>3. Len(s) \in Nat
  OBVIOUS
<1>4. Joins(s, e, s) /\ Joins(e, s, s)
  BY <1>2, <1>3 DEF Joins
<1>5. SubSeq(s, 1, Len(s)) = s
  BY <1>4, JoinsParts
<1> QED BY <1>1, <1>4, <1>5

\* What begins a stream of characters consists of characters, but for its end.
LEMMA StillWhole ==
  ASSUME NEW s, NEW c, NEW u, Joins(s, c, u), Utf8!Whole(u) \/ Utf8!Cut(u)
  PROVE  Utf8!Whole(s) \/ Utf8!Cut(s)
<1>1. /\ s \in Seq(Kinds) /\ u \in Seq(Kinds) /\ Len(s) \in Nat /\ Len(c) \in Nat
      /\ Len(u) = Len(s) + Len(c)
  BY DEF Joins
<1>2. SUFFICES ASSUME ~Utf8!Whole(s) PROVE Utf8!Cut(s)
  OBVIOUS
<1>3. PICK e : e = Utf8!ErrorAt(s)
  OBVIOUS
<1>4. e \in 1..Len(s) /\ ~Utf8!WholeAt(s, e)
  <2>1. e \in 1..(Len(s) + 1) /\ ~(e > Len(s)) /\ (e <= Len(s) => ~Utf8!WholeAt(s, e))
    BY <1>1, <1>2, <1>3, ErrorPlace DEF Utf8!Whole
  <2> QED BY <1>1, <2>1
<1>5. PICK p, r : p = SubSeq(s, 1, e - 1) /\ r = SubSeq(s, e - 1 + 1, Len(s))
  OBVIOUS
<1>6. e - 1 \in Nat /\ e - 1 <= Len(s)
  BY <1>1, <1>4
<1>7. Joins(p, r, s) /\ Len(p) = e - 1
  BY <1>1, <1>5, <1>6, SplitIs
<1>8. Utf8!Whole(p)
  BY <1>3, <1>7, PrefixWhole
<1>9. c \in Seq(Kinds) /\ u = s \o c
  <2>1. c \in Seq(Kinds)
    BY DEF Joins
  <2>2. u = s \o c
    BY JoinsParts
  <2> QED BY <2>1, <2>2
<1>10. PICK q : q = r \o c
  OBVIOUS
<1>11. Joins(p, q, u)
  BY <1>7, <1>9, <1>10, JoinsMore
<1>12. q \in Seq(Kinds) /\ Len(q) \in Nat /\ Len(u) = Len(p) + Len(q)
  BY <1>11 DEF Joins
<1>13. Len(q) > 0 /\ 1 \in 1..Len(q) /\ Len(p) + 1 = e
  BY <1>1, <1>4, <1>7, <1>12
<1>14. CASE Utf8!WholeAt(u, e)
  <2>1. Utf8!CutAt(s, e)
    BY <1>4, <1>14, WholeBefore
  <2> QED BY <1>2, <1>3, <2>1 DEF Utf8!Cut
<1>15. CASE ~Utf8!WholeAt(u, e)
  <2>1. ~Utf8!WholeAt(q, 1)
    BY <1>11, <1>13, <1>15, WholeBehind
  <2>2. Utf8!ErrorAt(q) = 1
    BY <1>12, <1>13, <2>1, ErrorFirst
  <2>3. Utf8!ErrorAt(u) = e
    BY <1>8, <1>11, <1>13, <2>2, Concatenated
  <2>4. ~Utf8!Whole(u)
    <3>1. e <= Len(u)
      BY <1>1, <1>4
    <3>2. ~(e > Len(u))
      BY <1>1, <1>4, <3>1
    <3> QED BY <2>3, <3>2 DEF Utf8!Whole
  <2>5. Utf8!CutAt(u, e)
    BY <2>3, <2>4 DEF Utf8!Cut
  <2>6. Utf8!CutAt(s, e)
    BY <1>4, <2>5, WholeBefore
  <2> QED BY <1>2, <1>3, <2>6 DEF Utf8!Cut
<1> QED BY <1>14, <1>15

\* What take_valid_utf8 takes out and leaves are the buffer; of a buffer of
\* characters it takes all that are whole; what it leaves is the start of one.
LEMMA TakenKept ==
  ASSUME NEW b \in Seq(Kinds)
  PROVE  /\ Joins(Utf8!Taken(b), Utf8!Kept(b), b)
         /\ Utf8!Whole(b) \/ Utf8!Cut(b) => Utf8!Whole(Utf8!Taken(b))
              /\ Len(Utf8!Taken(b)) = Utf8!ErrorAt(b) - 1
         /\ Utf8!Kept(b) # <<>> => Utf8!Cut(Utf8!Kept(b)) /\ Utf8!ErrorAt(Utf8!Kept(b)) = 1
         /\ Len(Utf8!Kept(b)) < 3
<1>1. Len(b) \in Nat
  OBVIOUS
<1>2. PICK k, t, e : k = Utf8!Kept(b) /\ t = Utf8!Taken(b) /\ e = Utf8!ErrorAt(b)
  OBVIOUS
<1>3. t = SubSeq(b, 1, Len(b) - Len(k))
  BY <1>2 DEF Utf8!Taken
<1>4. e \in 1..(Len(b) + 1) /\ (Utf8!Whole(b) <=> e = Len(b) + 1)
  BY <1>2, ErrorPlace
<1>5. CASE ~Utf8!Cut(b)
  <2>1. k = <<>> /\ Len(k) = 0
    BY <1>2, <1>5 DEF Utf8!Kept
  <2>2. t = b
    <3>1. Len(b) - Len(k) = Len(b)
      BY <1>1, <2>1
    <3> QED BY <1>3, <3>1, JoinsEmpty
  <2>3. Joins(t, k, b)
    BY <2>1, <2>2, JoinsEmpty
  <2>4. Utf8!Whole(b) => Utf8!Whole(t) /\ Len(t) = e - 1
    BY <1>1, <1>4, <2>2
  <2> QED BY <1>2, <1>5, <2>1, <2>3, <2>4
<1>6. CASE Utf8!Cut(b)
  <2>1. k = SubSeq(b, e, Len(b)) /\ ~Utf8!Whole(b) /\ Utf8!CutAt(b, e)
    BY <1>2, <1>6 DEF Utf8!Kept, Utf8!Cut
  <2>2. e \in 1..Len(b) /\ e - 1 \in Nat /\ e - 1 <= Len(b) /\ e - 1 + 1 = e
    BY <1>1, <1>4, <2>1
  <2>3. PICK p : p = SubSeq(b, 1, e - 1)
    OBVIOUS
  <2>4. Joins(p, k, b) /\ Len(p) = e - 1 /\ Len(k) = Len(b) - (e - 1)
    <3>1. k = SubSeq(b, e - 1 + 1, Len(b))
      BY <2>1, <2>2
    <3> QED BY <2>2, <2>3, <3>1, SplitIs
  <2>5. Len(b) - Len(k) = e - 1
    BY <1>1, <2>2, <2>4
  <2>6. t = p
    BY <1>3, <2>3, <2>5
  <2>7. Utf8!Whole(p)
    BY <1>2, <2>4, PrefixWhole
  <2>8. Utf8!Cut(k)
    BY <1>6, <2>4, <2>7, Concatenated
  <2>9. Utf8!ErrorAt(k) = 1
    <3>1. k \in Seq(Kinds)
      BY <2>4 DEF Joins
    <3>2. PICK d : d = Utf8!ErrorAt(k)
      OBVIOUS
    <3>3. d \in 1..(Len(k) + 1)
      BY <3>1, <3>2, ErrorPlace
    <3>4. e = Len(p) + d
      BY <1>2, <2>4, <2>7, <3>2, Concatenated
    <3>5. d \in Nat /\ e \in Nat
      <4>1. Len(k) \in Nat
        BY <1>1, <2>2, <2>4
      <4> QED BY <2>2, <3>3, <4>1
    <3>6. e = e - 1 + d
      BY <2>4, <3>4
    <3>7. d = 1
      BY <3>5, <3>6
    <3> QED BY <3>2, <3>7
  <2>10. Len(k) < 3
    <3>1. k \in Seq(Kinds) /\ Len(k) \in Nat /\ Len(k) > 0
      BY <1>1, <2>2, <2>4 DEF Joins
    <3>2. Utf8!CutAt(k, 1)
      BY <2>8, <2>9 DEF Utf8!Cut
    <3>3. 1 \in 1..Len(k)
      BY <3>1
    <3>4. PICK w : w = Utf8!Width[k[1]]
      OBVIOUS
    <3>5. w \in Nat /\ w <= 3
      BY <3>1, <3>3, <3>4, WidthAt
    <3>6. 1 + w - 1 > Len(k)
      BY <3>2, <3>4 DEF Utf8!CutAt
    <3> QED BY <3>1, <3>5, <3>6
  <2> QED BY <1>2, <2>4, <2>6, <2>7, <2>8, <2>9, <2>10
<1> QED BY <1>5, <1>6

-----------------------------------------------------------------------------
(* Utf8Chunks: the decoder                                                 *)

\* What waits is the end of what was read, and what was decoded the rest.
Waits(text, left) ==
  /\ text \in Seq(Kinds) /\ left \in Seq(Kinds) /\ Len(left) < 3
  /\ Joins(SubSeq(text, 1, Len(text) - Len(left)), left, text)
  /\ left # <<>> => Utf8!Cut(left) /\ Utf8!ErrorAt(left) = 1

Decodes(text, left, out) ==
  Utf8!Whole(text) \/ Utf8!Cut(text) =>
    \E head : Joins(head, left, text) /\ Utf8!Whole(head) /\ Len(head) = Utf8!ErrorAt(text) - 1
              /\ out = Utf8!Lossy(head)

Finishes(text, out) == Utf8!Whole(text) \/ Utf8!Cut(text) => out = Utf8!Lossy(text)

LEMMA ReadDecodes ==
  ASSUME NEW text, NEW left, NEW out, Waits(text, left), Decodes(text, left, out),
         NEW chunk \in Seq(Kinds), NEW b, b = left \o chunk
  PROVE  /\ Waits(text \o chunk, Utf8!Kept(b))
         /\ Decodes(text \o chunk, Utf8!Kept(b), out \o Utf8!Lossy(Utf8!Taken(b)))
<1>1. PICK u, k, t, h : /\ u = text \o chunk /\ k = Utf8!Kept(b) /\ t = Utf8!Taken(b)
                        /\ h = SubSeq(text, 1, Len(text) - Len(left))
  OBVIOUS
<1>2. Joins(h, left, text) /\ text \in Seq(Kinds) /\ left \in Seq(Kinds)
  BY <1>1 DEF Waits
<1>3. Joins(h, b, u) /\ Joins(text, chunk, u)
  BY <1>1, <1>2, JoinsMore, JoinsIs
<1>4. b \in Seq(Kinds) /\ u \in Seq(Kinds)
  BY <1>3 DEF Joins
<1>5. /\ Joins(t, k, b) /\ Len(k) < 3
      /\ Utf8!Whole(b) \/ Utf8!Cut(b) => Utf8!Whole(t) /\ Len(t) = Utf8!ErrorAt(b) - 1
      /\ k # <<>> => Utf8!Cut(k) /\ Utf8!ErrorAt(k) = 1
  BY <1>1, <1>4, TakenKept
<1>6. Waits(u, k)
  <2>1. PICK g : g = h \o t
    OBVIOUS
  <2>2. Joins(g, k, u)
    BY <1>3, <1>5, <2>1, JoinsShift
  <2>3. k \in Seq(Kinds) /\ g = SubSeq(u, 1, Len(g)) /\ Len(u) - Len(k) = Len(g)
    <3>1. g = SubSeq(u, 1, Len(g))
      BY <2>2, JoinsParts
    <3>2. k \in Seq(Kinds) /\ Len(g) \in Nat /\ Len(k) \in Nat /\ Len(u) = Len(g) + Len(k)
      BY <2>2 DEF Joins
    <3> QED BY <3>1, <3>2
  <2>4. Joins(SubSeq(u, 1, Len(u) - Len(k)), k, u)
    BY <2>2, <2>3
  <2> QED BY <1>4, <1>5, <2>3, <2>4 DEF Waits
<1>7. Decodes(u, k, out \o Utf8!Lossy(t))
  <2> SUFFICES ASSUME Utf8!Whole(u) \/ Utf8!Cut(u)
               PROVE  \E head : Joins(head, k, u) /\ Utf8!Whole(head)
                      /\ Len(head) = Utf8!ErrorAt(u) - 1
                                /\ out \o Utf8!Lossy(t) = Utf8!Lossy(head)
    BY DEF Decodes
  <2>1. Utf8!Whole(text) \/ Utf8!Cut(text)
    BY <1>3, StillWhole
  <2>2. PICK head : Joins(head, left, text) /\ Utf8!Whole(head) /\ out = Utf8!Lossy(head)
    BY <2>1 DEF Decodes
  <2>3. Joins(head, b, u)
    BY <1>1, <2>2, JoinsMore
  <2>4. (Utf8!Whole(b) \/ Utf8!Cut(b)) /\ Utf8!ErrorAt(u) = Len(head) + Utf8!ErrorAt(b)
    BY <2>2, <2>3, Concatenated
  <2>5. Utf8!Whole(t) /\ Len(t) = Utf8!ErrorAt(b) - 1
    BY <1>5, <2>4
  <2>6. PICK g : g = head \o t
    OBVIOUS
  <2>7. Joins(g, k, u) /\ Joins(head, t, g) /\ Len(g) = Len(head) + Len(t)
    BY <1>5, <2>3, <2>6, JoinsShift
  <2>8. Utf8!Whole(g) /\ Utf8!Lossy(g) = out \o Utf8!Lossy(t)
    BY <2>2, <2>5, <2>7, Concatenated
  <2>9. Len(g) = Utf8!ErrorAt(u) - 1
    <3>1. PICK e : e = Utf8!ErrorAt(b)
      OBVIOUS
    <3>2. e \in Nat /\ Len(head) \in Nat
      <4>1. e \in 1..(Len(b) + 1)
        BY <1>4, <3>1, ErrorPlace
      <4>2. Len(head) \in Nat /\ Len(b) \in Nat
        BY <2>3 DEF Joins
      <4> QED BY <4>1, <4>2
    <3> QED BY <2>4, <2>5, <2>7, <3>1, <3>2
  <2> QED BY <2>7, <2>8, <2>9
<1> QED BY <1>1, <1>6, <1>7

LEMMA EndDecodes ==
  ASSUME NEW text, NEW left, NEW out, Waits(text, left), Decodes(text, left, out)
  PROVE  Finishes(text, out \o Utf8!Lossy(left))
<1> SUFFICES ASSUME Utf8!Whole(text) \/ Utf8!Cut(text)
             PROVE  out \o Utf8!Lossy(left) = Utf8!Lossy(text)
  BY DEF Finishes
<1>1. PICK head : Joins(head, left, text) /\ Utf8!Whole(head) /\ out = Utf8!Lossy(head)
  BY DEF Decodes
<1> QED BY <1>1, Concatenated

LEMMA StartDecodes ==
  Waits(<<>>, <<>>) /\ Decodes(<<>>, <<>>, <<>>)
<1>1. PICK e : e = <<>>
  OBVIOUS
<1>2. e \in Seq(Kinds) /\ Len(e) = 0 /\ Utf8!Whole(e) /\ Utf8!ErrorAt(e) = 1 /\ Utf8!Lossy(e) = e
  BY <1>1, EmptyWhole
<1>3. Joins(e, e, e) /\ SubSeq(e, 1, Len(e)) = e
  BY <1>1, <1>2, JoinsEmpty
<1>4. Waits(e, e)
  <2>1. Len(e) - Len(e) = Len(e)
    BY <1>2
  <2>2. Joins(SubSeq(e, 1, Len(e) - Len(e)), e, e)
    BY <1>3, <2>1
  <2> QED BY <1>1, <1>2, <2>2 DEF Waits
<1>5. Decodes(e, e, e)
  <2>1. Len(e) = Utf8!ErrorAt(e) - 1
    BY <1>2
  <2> QED BY <1>2, <1>3, <2>1 DEF Decodes
<1> QED BY <1>1, <1>4, <1>5

DecoderInv ==
  /\ Waits(stream, pending) /\ Len(stream) <= MaxStream /\ ended \in BOOLEAN
  /\ ~ended => Decodes(stream, pending, decoded)
  /\ ended => Finishes(stream, decoded)

LEMMA DecoderStart == Utf8!Init => DecoderInv
<1> SUFFICES ASSUME Utf8!Init PROVE DecoderInv
  OBVIOUS
<1>1. stream = <<>> /\ pending = <<>> /\ decoded = <<>> /\ ended = FALSE
  BY DEF Utf8!Init
<1>2. MaxStream \in Nat
  BY InterfaceAssumption DEF Utf8!ChunksAssumption
<1>3. Len(stream) <= MaxStream /\ ended \in BOOLEAN
  <2>1. Len(stream) = 0
    BY <1>1
  <2>2. ended \in BOOLEAN
    BY <1>1
  <2> QED BY <1>2, <2>1, <2>2
<1>4. Waits(stream, pending) /\ Decodes(stream, pending, decoded)
  BY <1>1, StartDecodes
<1> QED BY <1>1, <1>3, <1>4 DEF DecoderInv

LEMMA DecoderNext ==
  ASSUME DecoderInv, Utf8!Next
  PROVE  DecoderInv'
<1>1. PICK s, p, d : s = stream /\ p = pending /\ d = decoded
  OBVIOUS
<1>2. ~ended
  BY DEF Utf8!Next, Utf8!Read, Utf8!ReadEnd
<1>3. Waits(s, p) /\ Decodes(s, p, d) /\ Len(s) <= MaxStream
  BY <1>1, <1>2 DEF DecoderInv
<1>4. CASE Utf8!Read
  <2>1. PICK n \in 1..MaxRead : \E chunk \in [1..n -> Kinds] :
          /\ Len(stream) + n <= MaxStream
          /\ stream' = stream \o chunk
          /\ decoded' = decoded \o Utf8!Lossy(Utf8!Taken(pending \o chunk))
          /\ pending' = Utf8!Kept(pending \o chunk)
    BY <1>4, Zenon DEF Utf8!Read
  <2>2. PICK chunk \in [1..n -> Kinds] :
          /\ Len(s) + n <= MaxStream
          /\ stream' = s \o chunk
          /\ decoded' = d \o Utf8!Lossy(Utf8!Taken(p \o chunk))
          /\ pending' = Utf8!Kept(p \o chunk)
    BY <1>1, <2>1, Zenon
  <2>3. MaxRead \in Nat
    BY InterfaceAssumption DEF Utf8!ChunksAssumption
  <2>4. n \in Nat
    BY <2>3
  <2>5. chunk \in Seq(Kinds) /\ Len(chunk) = n
    BY <2>4
  <2>6. PICK b : b = p \o chunk
    OBVIOUS
  <2>7. Waits(s \o chunk, Utf8!Kept(b)) /\ Decodes(s \o chunk, Utf8!Kept(b),
            d \o Utf8!Lossy(Utf8!Taken(b)))
    BY <1>3, <2>5, <2>6, ReadDecodes
  <2>8. Waits(stream', pending') /\ Decodes(stream', pending', decoded')
    BY <2>2, <2>6, <2>7, Zenon
  <2>9. Len(stream') <= MaxStream
    <3>1. s \in Seq(Kinds)
      BY <1>3 DEF Waits
    <3>2. Len(s \o chunk) = Len(s) + Len(chunk)
      BY <2>5, <3>1
    <3> QED BY <2>2, <2>5, <3>2
  <2>10. ended' = ended
    BY <1>4 DEF Utf8!Read
  <2> QED BY <1>2, <2>8, <2>9, <2>10 DEF DecoderInv
<1>5. CASE Utf8!ReadEnd
  <2>1. /\ ended' = TRUE /\ decoded' = d \o Utf8!Lossy(p)
        /\ stream' = s /\ pending' = p
    BY <1>1, <1>5 DEF Utf8!ReadEnd
  <2>2. Finishes(s, d \o Utf8!Lossy(p))
    BY <1>3, EndDecodes
  <2>3. Finishes(stream', decoded') /\ Waits(stream', pending') /\ Len(stream') <= MaxStream
    BY <1>3, <2>1, <2>2
  <2> QED BY <2>1, <2>3 DEF DecoderInv
<1> QED BY <1>4, <1>5 DEF Utf8!Next

LEMMA DecoderStutter ==
  ASSUME DecoderInv, UNCHANGED Utf8!vars
  PROVE  DecoderInv'
<1>1. stream' = stream /\ pending' = pending /\ decoded' = decoded /\ ended' = ended
  BY DEF Utf8!vars
<1> QED BY <1>1 DEF DecoderInv

LEMMA DecoderIs ==
  ASSUME DecoderInv
  PROVE  Utf8!TypeOK /\ Utf8!DecodedExact
<1>1. PICK s, p, d : s = stream /\ p = pending /\ d = decoded
  OBVIOUS
<1>2. Waits(s, p) /\ Len(s) <= MaxStream /\ ended \in BOOLEAN
  BY <1>1 DEF DecoderInv
<1>3. /\ s \in Seq(Kinds) /\ p \in Seq(Kinds) /\ Len(p) < 3
      /\ Joins(SubSeq(s, 1, Len(s) - Len(p)), p, s)
      /\ p # <<>> => Utf8!Cut(p) /\ Utf8!ErrorAt(p) = 1
  BY <1>2 DEF Waits
<1>4. Utf8!TypeOK
  BY <1>1, <1>2, <1>3 DEF Utf8!TypeOK
<1>5. SubSeq(s, Len(s) - Len(p) + 1, Len(s)) = p
  BY <1>3, JoinsParts
<1>6. Utf8!NothingStalls
  <2>1. p # <<>> => /\ Utf8!Cut(p) /\ Utf8!ErrorAt(p) = 1
                    /\ SubSeq(s, Len(s) - Len(p) + 1, Len(s)) = p
    BY <1>3, <1>5
  <2> QED BY <1>1, <2>1, Zenon DEF Utf8!NothingStalls
<1>7. ASSUME Utf8!Whole(s) \/ Utf8!Cut(s), ended PROVE d = Utf8!Lossy(s)
  <2>1. Finishes(s, d)
    BY <1>1, <1>7 DEF DecoderInv
  <2> QED BY <1>7, <2>1 DEF Finishes
<1>8. ASSUME Utf8!Whole(s) \/ Utf8!Cut(s), ~ended
      PROVE  /\ d = Utf8!Lossy(SubSeq(s, 1, Utf8!ErrorAt(s) - 1))
             /\ p = SubSeq(s, Utf8!ErrorAt(s), Len(s))
  <2>1. Decodes(s, p, d)
    BY <1>1, <1>8 DEF DecoderInv
  <2>2. PICK head : Joins(head, p, s) /\ Len(head) = Utf8!ErrorAt(s) - 1 /\ d = Utf8!Lossy(head)
    BY <1>8, <2>1 DEF Decodes
  <2>3. head = SubSeq(s, 1, Len(head)) /\ p = SubSeq(s, Len(head) + 1, Len(s))
    BY <2>2, JoinsParts
  <2>4. Len(head) + 1 = Utf8!ErrorAt(s)
    <3>1. PICK e : e = Utf8!ErrorAt(s)
      OBVIOUS
    <3>2. e \in 1..(Len(s) + 1)
      BY <1>3, <3>1, ErrorPlace
    <3>3. Len(s) \in Nat
      BY <1>3
    <3>4. e \in Nat
      BY <3>2, <3>3
    <3> QED BY <2>2, <3>1, <3>4
  <2>5. d = Utf8!Lossy(SubSeq(s, 1, Utf8!ErrorAt(s) - 1))
    BY <2>2, <2>3, Zenon
  <2> QED BY <2>3, <2>4, <2>5
<1>9. Utf8!DecodedExact
  <2>1. Utf8!Whole(s) \/ Utf8!Cut(s) =>
          /\ ended => d = Utf8!Lossy(s)
          /\ ~ended => /\ d = Utf8!Lossy(SubSeq(s, 1, Utf8!ErrorAt(s) - 1))
                       /\ p = SubSeq(s, Utf8!ErrorAt(s), Len(s))
    BY <1>7, <1>8, Zenon
  <2> QED BY <1>1, <1>6, <2>1, Zenon DEF Utf8!DecodedExact
<1> QED BY <1>4, <1>9

LEMMA DecoderKeeps ==
  ASSUME DecoderInv, [Next]_vars
  PROVE  DecoderInv'
<1>1. CASE Utf8Step
  BY <1>1, DecoderNext DEF Utf8Step
<1>2. CASE UNCHANGED utf8Vars
  BY <1>2, DecoderStutter DEF utf8Vars, Utf8!vars
<1>3. Utf8Step \/ UNCHANGED utf8Vars
  BY DEF Next, vars
<1> QED BY <1>1, <1>2, <1>3

\* cli/mod.rs:254-256: wherever the reads end, every character of a CLI that
\* writes UTF-8 arrives, in order and once; what waits for the next read is
\* the start of one character, whatever the CLI writes.
THEOREM CharactersDecoded == Spec => [](Utf8!TypeOK /\ DecodedExact)
<1>1. Init => DecoderInv
  BY DecoderStart DEF Init
<1>2. DecoderInv => Utf8!TypeOK /\ DecodedExact
  BY DecoderIs DEF DecodedExact
<1> QED BY <1>1, <1>2, DecoderKeeps, PTL DEF Spec

-----------------------------------------------------------------------------
(* Types of LineFramer and ConfigFiles                                     *)

LEMMA OneRecord ==
  ASSUME NEW text
  PROVE  Len(Lines!Nonempty(Lines!Chomp(text))) <= 1
<1>1. PICK x : x = Lines!Chomp(text)
  OBVIOUS
<1>2. Len(Lines!Nonempty(x)) <= 1
  <2>1. Len(<<>>) = 0 /\ Len(<<x>>) = 1
    OBVIOUS
  <2>2. Lines!Nonempty(x) = <<>> \/ Lines!Nonempty(x) = <<x>>
    BY DEF Lines!Nonempty
  <2>3. CASE Lines!Nonempty(x) = <<>>
    BY <2>1, <2>3
  <2>4. CASE Lines!Nonempty(x) = <<x>>
    BY <2>1, <2>4
  <2> QED BY <2>2, <2>3, <2>4
<1> QED BY <1>1, <1>2

LEMMA LinesTypes ==
  ASSUME Lines!TypeOK, Lines!BufferIsLine, Lines!Next
  PROVE  Lines!TypeOK'
<1>1. MaxLine \in Nat /\ MaxLine > 0
  BY InterfaceAssumption DEF Lines!LineAssumption
<1>2. /\ lineBuffer \in Seq(Lines!Bytes \ {"newline"}) /\ Len(lineBuffer) <= MaxLine
      /\ discardingLine \in BOOLEAN /\ (discardingLine => lineBuffer = <<>>)
      /\ Len(line) <= MaxLine + 1 /\ line \in Seq(Lines!Bytes)
  BY DEF Lines!TypeOK, Lines!BufferIsLine
<1>3. <<>> \in Seq(Lines!Bytes \ {"newline"}) /\ Len(<<>>) = 0
  OBVIOUS
<1>4. CASE Lines!PushByte
  <2>1. PICK byte \in Lines!Bytes :
          /\ Lines!SkipByte(byte) \/ Lines!EndLine(byte) \/ Lines!Overflow(byte) \/ Lines!Collect(byte)
          /\ line' = IF byte = "newline" THEN <<>>
                     ELSE IF Len(line) > MaxLine THEN line ELSE Append(line, byte)
    BY <1>4 DEF Lines!PushByte
  <2>2. Len(line') <= MaxLine + 1
    <3>1. CASE byte = "newline"
      <4>1. line' = <<>>
        BY <2>1, <3>1
      <4> QED BY <1>1, <1>3, <4>1
    <3>2. CASE byte # "newline" /\ Len(line) > MaxLine
      <4>1. line' = line
        BY <2>1, <3>2
      <4> QED BY <1>2, <4>1
    <3>3. CASE byte # "newline" /\ ~(Len(line) > MaxLine)
      <4>1. line' = Append(line, byte)
        BY <2>1, <3>3
      <4>2. Len(line') = Len(line) + 1 /\ Len(line) \in Nat
        BY <1>2, <4>1
      <4> QED BY <1>1, <3>3, <4>2
    <3> QED BY <3>1, <3>2, <3>3
  <2>3. lineEnded' = lineEnded /\ lineEnded \in BOOLEAN
    BY <1>4 DEF Lines!PushByte, Lines!TypeOK
  <2>4. /\ lineBuffer' \in Seq(Lines!Bytes \ {"newline"}) /\ Len(lineBuffer') <= MaxLine
        /\ discardingLine' \in BOOLEAN /\ (discardingLine' => lineBuffer' = <<>>)
        /\ Len(records') <= 1
    <3>1. CASE Lines!SkipByte(byte)
      BY <1>2, <1>3, <3>1 DEF Lines!SkipByte
    <3>2. CASE Lines!EndLine(byte)
      <4>1. lineBuffer' = <<>> /\ discardingLine' = discardingLine
        BY <3>2 DEF Lines!EndLine, Lines!TakeRecord
      <4>2. Len(records') <= 1
        BY <3>2, OneRecord DEF Lines!EndLine, Lines!TakeRecord
      <4> QED BY <1>1, <1>2, <1>3, <4>1, <4>2
    <3>3. CASE Lines!Overflow(byte)
      <4>1. lineBuffer' = <<>> /\ discardingLine' = TRUE /\ records' = <<>>
        BY <3>3 DEF Lines!Overflow
      <4> QED BY <1>1, <1>3, <4>1
    <3>4. CASE Lines!Collect(byte)
      <4>1. /\ lineBuffer' = Append(lineBuffer, byte) /\ discardingLine' = discardingLine
            /\ records' = <<>> /\ ~discardingLine /\ Len(lineBuffer) < MaxLine
            /\ byte \in Lines!Bytes \ {"newline"}
        BY <3>4 DEF Lines!Collect
      <4>2. lineBuffer' \in Seq(Lines!Bytes \ {"newline"}) /\ Len(lineBuffer') = Len(lineBuffer) + 1
        BY <1>2, <4>1
      <4>3. Len(lineBuffer) \in Nat
        BY <1>2
      <4> QED BY <1>1, <1>2, <1>3, <4>1, <4>2, <4>3
    <3> QED BY <2>1, <3>1, <3>2, <3>3, <3>4
  <2> QED BY <2>2, <2>3, <2>4 DEF Lines!TypeOK
<1>5. CASE Lines!Finish
  <2>1. lineEnded' = TRUE /\ line' = <<>> /\ lineBuffer' = <<>>
    BY <1>5 DEF Lines!Finish, Lines!TakeRecord
  <2>2. discardingLine' \in BOOLEAN
    BY <1>2, <1>5 DEF Lines!Finish
  <2>3. Len(records') <= 1
    <3>1. records' = <<>> \/ records' = Lines!Nonempty(Lines!Chomp(lineBuffer))
      BY <1>5, Zenon DEF Lines!Finish, Lines!TakeRecord
    <3> QED BY <1>3, <3>1, OneRecord
  <2>4. Len(lineBuffer') <= MaxLine /\ Len(line') <= MaxLine + 1
    BY <1>1, <1>3, <2>1
  <2> QED BY <1>3, <2>1, <2>2, <2>3, <2>4 DEF Lines!TypeOK
<1> QED BY <1>4, <1>5 DEF Lines!Next

LEMMA FilesAre ==
  /\ Config!Missing \in Config!Files /\ Config!Torn \in Config!Files
  /\ \A c \in Config!Configs : Config!Json(c) \in Config!Files /\ Config!Saved(c) \in Config!Files
  /\ \A f \in Config!Files : Config!Parses(f) => Config!Parsed(f) \in Config!Configs
  /\ Config!Default \in Config!Configs
<1>1. \A S \in SUBSET Config!Options : \A f \in [S -> Config!Values] : Config!Json(f) \in Config!Files
  BY Zenon DEF Config!Files
<1>2. ASSUME NEW c \in Config!Configs
      PROVE  Config!Json(c) \in Config!Files /\ Config!Saved(c) \in Config!Files
  <2>1. Config!Json(c) \in Config!Files
    BY <1>1 DEF Config!Configs
  <2>2. PICK S : S = {o \in Config!Options : o \in Required \/ c[o] # "default"}
    OBVIOUS
  <2>3. S \in SUBSET Config!Options
    BY <2>2
  <2>4. Config!Saved(c) = Config!Json([o \in S |-> c[o]])
    BY <2>2 DEF Config!Saved, Config!Restrict
  <2>5. [o \in S |-> c[o]] \in [S -> Config!Values]
    BY <2>3 DEF Config!Configs
  <2> QED BY <1>1, <2>1, <2>3, <2>4, <2>5
<1>3. ASSUME NEW f \in Config!Files, Config!Parses(f)
      PROVE  Config!Parsed(f) \in Config!Configs
  <2>1. f.kind = "json"
    BY <1>3 DEF Config!Parses
  <2>2. f \notin {Config!Missing, Config!Torn}
    BY <2>1 DEF Config!Missing, Config!Torn
  <2>3. PICK g \in UNION {[S -> Config!Values] : S \in SUBSET Config!Options} : f = Config!Json(g)
    BY <2>2, Zenon DEF Config!Files
  <2>4. PICK S \in SUBSET Config!Options : g \in [S -> Config!Values]
    BY <2>3
  <2>5. f.options = g
    BY <2>3 DEF Config!Json
  <2>6. \A o \in S : g[o] \in Config!Values
    BY <2>4
  <2>7. DOMAIN g = S /\ "default" \in Config!Values
    BY <2>4 DEF Config!Values
  <2>8. \A o \in Config!Options :
          (IF o \in DOMAIN f.options THEN f.options[o] ELSE "default") \in Config!Values
    BY <2>5, <2>6, <2>7
  <2> QED BY <2>8 DEF Config!Parsed, Config!Configs
<1>4. Config!Default \in Config!Configs
  BY DEF Config!Default, Config!Configs, Config!Values
<1>5. Config!Missing \in Config!Files /\ Config!Torn \in Config!Files
  BY DEF Config!Files
<1> QED BY <1>2, <1>3, <1>4, <1>5

LEMMA ConfigTypes ==
  ASSUME Config!TypeOK, Config!Next
  PROVE  Config!TypeOK'
<1>1. /\ file \in Config!Files /\ pairs \in Config!Files /\ read \in Config!Files
      /\ config \in Config!Configs /\ edits \in 0..MaxEdits /\ deaths \in 0..MaxDeaths
      /\ pc \in {"down", "load", "create", "save", "up", "truncate", "pairs", "spawn"}
      /\ cli \in {"none", "launched", "syncing"}
  BY DEF Config!TypeOK
<1>2. MaxEdits \in Nat /\ MaxDeaths \in Nat
  BY InterfaceAssumption DEF Config!BoundsAssumption
<1>3. PICK missing, torn, default, saved, json :
        /\ missing = Config!Missing /\ torn = Config!Torn /\ default = Config!Default
        /\ saved = Config!Saved(config) /\ json = Config!Json(config)
  OBVIOUS
<1>4. /\ missing \in Config!Files /\ torn \in Config!Files /\ default \in Config!Configs
      /\ saved \in Config!Files /\ json \in Config!Files
  BY <1>1, <1>3, FilesAre
<1>5. CASE Config!Load
  <2>1. config' \in Config!Configs
    <3>1. Config!Parses(file) => config' = Config!Parsed(file)
      BY <1>5 DEF Config!Load
    <3>2. ~Config!Parses(file) => config' = default
      BY <1>3, <1>5 DEF Config!Load
    <3> QED BY <1>1, <1>4, <3>1, <3>2, FilesAre
  <2>2. pc' \in {"create", "up"}
    BY <1>5 DEF Config!Load
  <2>3. UNCHANGED <<file, pairs, cli, read, edits, deaths>>
    BY <1>5 DEF Config!Load
  <2> QED BY <1>1, <2>1, <2>2, <2>3 DEF Config!TypeOK
<1>6. CASE Config!CreateFile
  BY <1>1, <1>3, <1>4, <1>6 DEF Config!CreateFile, Config!TypeOK
<1>7. CASE Config!SaveFile
  BY <1>1, <1>3, <1>4, <1>7 DEF Config!SaveFile, Config!TypeOK
<1>8. CASE Config!StartSync
  BY <1>1, <1>3, <1>4, <1>8 DEF Config!StartSync, Config!TypeOK
<1>9. CASE Config!TruncatePairs
  BY <1>1, <1>3, <1>4, <1>9 DEF Config!TruncatePairs, Config!TypeOK
<1>10. CASE Config!WritePairs
  BY <1>1, <1>3, <1>4, <1>10 DEF Config!WritePairs, Config!TypeOK
<1>11. CASE Config!Spawn
  BY <1>1, <1>11 DEF Config!Spawn, Config!TypeOK
<1>12. CASE Config!CliReads
  BY <1>1, <1>12 DEF Config!CliReads, Config!TypeOK
<1>13. CASE Config!Edit
  <2>1. edits' \in 0..MaxEdits
    BY <1>1, <1>2, <1>13 DEF Config!Edit
  <2>2. file' \in Config!Files
    BY <1>13 DEF Config!Edit
  <2>3. UNCHANGED <<pairs, pc, config, cli, read, deaths>>
    BY <1>13 DEF Config!Edit
  <2> QED BY <1>1, <2>1, <2>2, <2>3 DEF Config!TypeOK
<1>14. CASE Config!Die
  <2>1. deaths' \in 0..MaxDeaths
    BY <1>1, <1>2, <1>14 DEF Config!Die
  <2> QED BY <1>1, <1>3, <1>4, <1>14, <2>1 DEF Config!Die, Config!TypeOK
<1>15. CASE Config!Restart
  BY <1>1, <1>15 DEF Config!Restart, Config!TypeOK
<1> QED BY <1>5, <1>6, <1>7, <1>8, <1>9, <1>10, <1>11, <1>12, <1>13, <1>14, <1>15
        DEF Config!Next, Config!Program

LEMMA TypesInit == Init => Lines!TypeOK /\ Config!TypeOK
<1> SUFFICES ASSUME Init PROVE Lines!TypeOK /\ Config!TypeOK
  OBVIOUS
<1>1. Lines!TypeOK
  <2>1. /\ lineBuffer = <<>> /\ discardingLine = FALSE /\ records = <<>>
        /\ line = <<>> /\ lineEnded = FALSE
    BY DEF Init, Lines!Init
  <2>2. MaxLine \in Nat
    BY InterfaceAssumption DEF Lines!LineAssumption
  <2>3. Len(<<>>) = 0 /\ <<>> \in Seq(Lines!Bytes \ {"newline"})
    OBVIOUS
  <2>4. Len(lineBuffer) <= MaxLine /\ Len(line) <= MaxLine + 1 /\ Len(records) <= 1
    BY <2>1, <2>2, <2>3
  <2> QED BY <2>1, <2>3, <2>4 DEF Lines!TypeOK
<1>2. Config!TypeOK
  <2>1. PICK missing, default : missing = Config!Missing /\ default = Config!Default
    OBVIOUS
  <2>2. missing \in Config!Files /\ default \in Config!Configs
    BY <2>1, FilesAre
  <2>3. MaxEdits \in Nat /\ MaxDeaths \in Nat
    BY InterfaceAssumption DEF Config!BoundsAssumption
  <2>4. /\ file = missing /\ pairs = missing /\ pc = "load" /\ config = default
        /\ cli = "none" /\ read = missing /\ edits = 0 /\ deaths = 0
    BY <2>1 DEF Init, Config!Init
  <2> QED BY <2>2, <2>3, <2>4 DEF Config!TypeOK
<1> QED BY <1>1, <1>2

LEMMA TypesKept ==
  ASSUME Lines!TypeOK, Config!TypeOK, Lines!BufferIsLine, [Next]_vars
  PROVE  Lines!TypeOK' /\ Config!TypeOK'
<1>1. LinesStep \/ UNCHANGED linesVars
  BY DEF Next, vars
<1>2. ConfigStep \/ UNCHANGED configVars
  BY DEF Next, vars
<1>3. Lines!TypeOK'
  <2>1. CASE LinesStep
    BY <2>1, LinesTypes DEF LinesStep
  <2>2. CASE UNCHANGED linesVars
    BY <2>2 DEF linesVars, Lines!TypeOK
  <2> QED BY <1>1, <2>1, <2>2
<1>4. Config!TypeOK'
  <2>1. CASE ConfigStep
    BY <2>1, ConfigTypes DEF ConfigStep
  <2>2. CASE UNCHANGED configVars
    BY <2>2 DEF configVars, Config!TypeOK
  <2> QED BY <1>2, <2>1, <2>2
<1> QED BY <1>3, <1>4

\* What every part rests on, for any bounds: the types of the five parts, the
\* invariants of framer and login driver, and (cli/mod.rs, BoundedLineFramer
\* and start_sync_if_permitted) a buffer that is the record so far and sync
\* pairs that are those of the configuration while a CLI may read them.
THEOREM InterfaceKept == Spec => []InterfaceInv
<1> DEFINE Kept == /\ FramesInv /\ DecoderInv /\ Lines!TypeOK /\ Lines!BufferIsLine
                   /\ Dialogue!DriverInv /\ Config!TypeOK /\ ConfigInv
<1>1. Init => Kept
  <2>1. Init => Utf8!Init /\ Dialogue!Init
    BY DEF Init
  <2> QED BY <2>1, FramesStart, DecoderStart, TypesInit, LinesInit, DialogueStart, ConfigInit
<1>2. Kept /\ [Next]_vars => Kept'
  <2> SUFFICES ASSUME Kept, [Next]_vars PROVE Kept'
    OBVIOUS
  <2>1. FramesInv'
    BY FramesKeeps
  <2>2. DecoderInv'
    BY DecoderKeeps
  <2>3. Lines!TypeOK' /\ Config!TypeOK'
    BY TypesKept
  <2>4. Lines!BufferIsLine'
    BY LinesKeeps
  <2>5. Dialogue!DriverInv'
    BY DialogueKeeps
  <2>6. ConfigInv'
    BY ConfigKeeps
  <2> QED BY <2>1, <2>2, <2>3, <2>4, <2>5, <2>6
<1>3. Kept => InterfaceInv
  BY DecoderIs DEF FramesInv, ConfigInv, InterfaceInv
<1> QED BY <1>1, <1>2, <1>3, PTL DEF Spec
=============================================================================
