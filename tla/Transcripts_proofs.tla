-------------------------- MODULE Transcripts_proofs --------------------------
(* What was there when a reader began is read, for any number of files and    *)
(* lines, any lengths of them and any limits of the readers.                  *)
EXTENDS Transcripts, SequenceTheorems, WellFoundedInduction, TLAPS

-----------------------------------------------------------------------------
(* Least and greatest elements.                                            *)

\* A set of naturals that is not empty has a least element.
LEMMA LeastExists ==
  ASSUME NEW S \in SUBSET Nat, S # {}
  PROVE  \E x \in S : \A y \in S : x <= y
<1>1. IsWellFoundedOn(OpToRel(<, Nat), Nat)
  BY NatLessThanWellFounded
<1>2. PICK x \in S : \A y \in S : <<y, x>> \notin OpToRel(<, Nat)
  BY <1>1, WFMin
<1>3. \A y \in S : ~(y < x)
  BY <1>2 DEF OpToRel
<1>4. QED
  BY <1>3

\* Min is it.
LEMMA MinFact ==
  ASSUME NEW S \in SUBSET Nat, S # {}
  PROVE  Min(S) \in S /\ \A y \in S : Min(S) <= y
<1>1. \E x \in S : \A y \in S : x <= y
  BY LeastExists
<1>2. QED
  BY <1>1 DEF Min

\* Max is the greatest element of a set of naturals that has a bound.
LEMMA MaxFact ==
  ASSUME NEW S \in SUBSET Nat, S # {}, NEW n \in Nat, \A x \in S : x <= n
  PROVE  Max(S) \in S /\ \A y \in S : Max(S) >= y
<1> DEFINE D == {m \in Nat : n - m \in S}
<1>1. D \in SUBSET Nat /\ D # {}
  <2>1. PICK x \in S : TRUE
    OBVIOUS
  <2>2. n - x \in Nat /\ n - (n - x) = x
    OBVIOUS
  <2>3. QED
    BY <2>1, <2>2
<1>2. PICK d \in D : \A e \in D : d <= e
  BY <1>1, LeastExists
<1>3. n - d \in S
  BY <1>2
<1>4. \A y \in S : n - d >= y
  <2>1. \A y \in S : n - y \in Nat /\ n - (n - y) = y
    OBVIOUS
  <2>2. \A y \in S : n - y \in D
    BY <2>1
  <2>3. QED
    BY <1>2, <2>2
<1>5. \E z \in S : \A y \in S : z >= y
  BY <1>3, <1>4
<1>6. QED
  BY <1>5 DEF Max

-----------------------------------------------------------------------------
(* Lines.                                                                  *)

\* A transcript is a sequence of lines, each of which is as long as it will be.
LEMMA FileFact ==
  ASSUME TranscriptsTypeOK, NEW f \in Files
  PROVE  /\ Len(files[f]) \in Nat /\ DOMAIN files[f] = 1 .. Len(files[f])
         /\ files[f] \in [1 .. Len(files[f]) -> Line]
         /\ \A i \in DOMAIN files[f] :
              /\ files[f][i] \in Line
              /\ files[f][i].size \in Nat /\ files[f][i].start \in Nat
              /\ files[f][i].left \in 0 .. 2 /\ files[f][i].age \in Age
              /\ Bytes(files[f][i]) \in Nat /\ Bytes(files[f][i]) <= files[f][i].size
              /\ Bytes(files[f][i]) > 0
<1>1. files[f] \in Seq(Line)
  BY DEF TranscriptsTypeOK
<1>2. /\ Len(files[f]) \in Nat /\ DOMAIN files[f] = 1 .. Len(files[f])
      /\ files[f] \in [1 .. Len(files[f]) -> Line]
  BY <1>1, LenProperties
<1>3. ASSUME NEW i \in DOMAIN files[f]
      PROVE  /\ files[f][i] \in Line
             /\ files[f][i].size \in Nat /\ files[f][i].start \in Nat
             /\ files[f][i].left \in 0 .. 2 /\ files[f][i].age \in Age
             /\ Bytes(files[f][i]) \in Nat /\ Bytes(files[f][i]) <= files[f][i].size
             /\ Bytes(files[f][i]) > 0
  <2>1. files[f][i] \in Line
    BY <1>2
  <2>2. QED
    BY <2>1 DEF Line, Bytes
<1>4. QED
  BY <1>2, <1>3

\* No line reaches beyond the end of its file.
LEMMA FileSizeFact ==
  ASSUME TranscriptsTypeOK, LinesInOrder, NEW f \in Files
  PROVE  /\ FileSize(f) \in Nat
         /\ \A i \in DOMAIN files[f] : files[f][i].start + Bytes(files[f][i]) <= FileSize(f)
<1> DEFINE n == Len(files[f])
<1>1. /\ n \in Nat /\ DOMAIN files[f] = 1 .. n
      /\ \A i \in 1 .. n : /\ files[f][i].size \in Nat /\ files[f][i].start \in Nat
                           /\ Bytes(files[f][i]) \in Nat
                           /\ Bytes(files[f][i]) <= files[f][i].size
  BY FileFact
<1>2. CASE n = 0
  BY <1>1, <1>2 DEF FileSize
<1>3. CASE n # 0
  <2>1. FileSize(f) = files[f][n].start + Bytes(files[f][n])
    BY <1>3 DEF FileSize
  <2>2. \A i \in 1 .. n : i < n => files[f][i].start + files[f][i].size <= files[f][n].start
    BY <1>1, <1>3 DEF LinesInOrder
  <2>3. ASSUME NEW i \in 1 .. n
        PROVE  files[f][i].start + Bytes(files[f][i]) <= FileSize(f)
    <3>1. i = n \/ files[f][i].start + files[f][i].size <= files[f][n].start
      BY <1>1, <2>2
    <3>2. QED
      BY <1>1, <1>3, <2>1, <3>1
  <2>4. QED
    BY <1>1, <1>3, <2>1, <2>3
<1>4. QED
  BY <1>2, <1>3

\* What a session or the clock may do to the lines there are.
Kept ==
  \A f \in Files : \A i \in DOMAIN files[f] :
    /\ i \in DOMAIN files'[f]
    /\ files'[f][i].kind = files[f][i].kind /\ files'[f][i].start = files[f][i].start
    /\ files'[f][i].size = files[f][i].size /\ files'[f][i].left \in 0 .. files[f][i].left

\* A line is put behind the others, which are whole.
LEMMA WriteFact ==
  ASSUME TranscriptsTypeOK, LinesInOrder,
         NEW g \in Files, NEW shape \in Shapes, NEW left \in 0 .. 2, Write(g, shape, left)
  PROVE  /\ files' \in [Files -> Seq(Line)] /\ LinesInOrder' /\ Kept
         /\ \A f \in Files : \A i \in DOMAIN files[f] : files'[f][i].age = files[f][i].age
<1> DEFINE n == Len(files[g])
           l == [kind |-> shape.kind, start |-> FileSize(g), size |-> shape.size,
                 age |-> 0, left |-> left]
<1>1. l \in Line
  <2>1. shape.kind \in Kinds /\ shape.size \in Nat \ 0 .. 2
    BY TranscriptsAssumption
  <2>2. 0 \in Age
    BY TranscriptsAssumption DEF Age
  <2>3. QED
    BY <2>1, <2>2, FileSizeFact DEF Line
<1>2. files \in [Files -> Seq(Line)] /\ files' = [files EXCEPT ![g] = Append(@, l)]
  BY DEF Write, TranscriptsTypeOK
<1>3. /\ files'[g] = Append(files[g], l)
      /\ \A f \in Files : f # g => files'[f] = files[f]
  BY <1>2
<1>4. n \in Nat /\ DOMAIN files[g] = 1 .. n
  BY FileFact
<1>5. /\ files'[g] \in Seq(Line) /\ Len(files'[g]) = n + 1
      /\ DOMAIN files'[g] = 1 .. n + 1 /\ files'[g][n + 1] = l
      /\ \A i \in 1 .. n : files'[g][i] = files[g][i]
  BY <1>1, <1>2, <1>3, <1>4, AppendProperties, LenProperties
<1>6. files' \in [Files -> Seq(Line)]
  BY <1>2, <1>5
<1>7. ASSUME NEW f \in Files, NEW i \in DOMAIN files[f]
      PROVE  i \in DOMAIN files'[f] /\ files'[f][i] = files[f][i]
  <2>1. CASE f # g
    BY <1>3, <2>1
  <2>2. CASE f = g
    BY <1>4, <1>5, <2>2
  <2>3. QED
    BY <2>1, <2>2
<1>8. \A i \in 1 .. n : Ended(files[g][i])
                        /\ files[g][i].start + files[g][i].size <= FileSize(g)
  <2>1. ASSUME NEW i \in 1 .. n
        PROVE  files[g][i].left = 0 /\ files[g][i].size \in Nat
               /\ files[g][i].start + Bytes(files[g][i]) <= FileSize(g)
    BY <1>4, FileFact, FileSizeFact DEF Write, Ended
  <2>2. QED
    BY <2>1 DEF Ended, Bytes
<1>9. n = 0 => FileSize(g) = 0
  BY DEF FileSize
<1>10. ASSUME NEW f \in Files, NEW i \in DOMAIN files'[f]
       PROVE  /\ i = 1 => files'[f][i].start = 0
              /\ ~Ended(files'[f][i]) => i = Len(files'[f])
              /\ \A j \in DOMAIN files'[f] :
                   i < j => files'[f][i].start + files'[f][i].size <= files'[f][j].start
  <2>1. CASE f # g
    BY <1>3, <2>1 DEF LinesInOrder
  <2>2. CASE f = g /\ i \in 1 .. n
    <3>1. \A j \in 1 .. n : i < j => files[g][i].start + files[g][i].size <= files[g][j].start
      BY <1>4, <2>2 DEF LinesInOrder
    <3>2. i = 1 => files[g][i].start = 0
      BY <1>4, <2>2 DEF LinesInOrder
    <3>3. /\ files'[g][i] = files[g][i] /\ Ended(files[g][i])
          /\ files[g][i].start + files[g][i].size <= l.start
      BY <1>5, <1>8, <2>2
    <3>4. ASSUME NEW j \in 1 .. n + 1, i < j
          PROVE  files[g][i].start + files[g][i].size <= files'[g][j].start
      <4>1. CASE j = n + 1
        BY <1>5, <3>3, <4>1
      <4>2. CASE j \in 1 .. n
        BY <1>5, <3>1, <3>4, <4>2
      <4>3. QED
        BY <1>4, <4>1, <4>2
    <3>5. QED
      BY <1>5, <2>2, <3>2, <3>3, <3>4
  <2>3. CASE f = g /\ i = n + 1
    BY <1>4, <1>5, <1>9, <2>3
  <2>4. QED
    BY <1>4, <1>5, <2>1, <2>2, <2>3
<1>11. LinesInOrder'
  BY <1>10 DEF LinesInOrder, Ended
<1>12. Kept
  <2>1. \A f \in Files : \A i \in DOMAIN files[f] : files[f][i].left \in 0 .. 2
    BY FileFact
  <2>2. QED
    BY <1>7, <2>1 DEF Kept
<1>13. QED
  BY <1>6, <1>7, <1>11, <1>12

\* The rest of the last line is written.
LEMMA FinishFact ==
  ASSUME TranscriptsTypeOK, LinesInOrder, NEW g \in Files, Finish(g)
  PROVE  /\ files' \in [Files -> Seq(Line)] /\ LinesInOrder' /\ Kept
         /\ \A f \in Files : \A i \in DOMAIN files[f] : files'[f][i].age = files[f][i].age
<1> DEFINE n == Len(files[g])
           l == [files[g][n] EXCEPT !.left = 0]
<1>1. /\ n \in Nat /\ DOMAIN files[g] = 1 .. n /\ n > 0
      /\ files[g][n] \in Line
  <2>1. n \in Nat /\ DOMAIN files[g] = 1 .. n
    BY FileFact
  <2>2. \E i \in 1 .. n : TRUE
    BY <2>1 DEF Finish
  <2>3. QED
    BY <2>1, <2>2, FileFact
<1>2. /\ l \in Line /\ l.left = 0 /\ l.kind = files[g][n].kind /\ l.size = files[g][n].size
      /\ l.start = files[g][n].start /\ l.age = files[g][n].age
  BY <1>1 DEF Line
<1>3. /\ files \in [Files -> Seq(Line)]
      /\ files' = [files EXCEPT ![g] = [@ EXCEPT ![n] = l]]
  BY DEF Finish, TranscriptsTypeOK
<1>4. /\ files'[g] = [files[g] EXCEPT ![n] = l]
      /\ \A f \in Files : f # g => files'[f] = files[f]
  BY <1>3
<1>5. /\ files'[g] \in Seq(Line) /\ Len(files'[g]) = n
      /\ DOMAIN files'[g] = 1 .. n
      /\ \A i \in 1 .. n : files'[g][i] = IF i = n THEN l ELSE files[g][i]
  BY <1>1, <1>2, <1>3, <1>4, ExceptSeq, LenProperties
<1>6. files' \in [Files -> Seq(Line)]
  BY <1>3, <1>5
<1>7. ASSUME NEW f \in Files, NEW i \in DOMAIN files[f]
      PROVE  /\ DOMAIN files'[f] = DOMAIN files[f] /\ Len(files'[f]) = Len(files[f])
             /\ files'[f][i].kind = files[f][i].kind /\ files'[f][i].start = files[f][i].start
             /\ files'[f][i].size = files[f][i].size /\ files'[f][i].age = files[f][i].age
             /\ files'[f][i].left = files[f][i].left \/ files'[f][i].left = 0
  <2>1. CASE f = g /\ i = n
    BY <1>1, <1>2, <1>5, <2>1
  <2>2. CASE ~(f = g /\ i = n)
    BY <1>1, <1>4, <1>5, <2>2
  <2>3. QED
    BY <2>1, <2>2
<1>8. Kept
  <2>1. ASSUME NEW f \in Files, NEW i \in DOMAIN files[f]
        PROVE  files'[f][i].left \in 0 .. files[f][i].left
    <3>1. files[f][i].left \in 0 .. 2
      BY FileFact
    <3>2. QED
      BY <1>7, <3>1
  <2>2. QED
    BY <1>7, <2>1 DEF Kept
<1>9. \A f \in Files : DOMAIN files'[f] = DOMAIN files[f]
  BY <1>1, <1>4, <1>5
<1>10. LinesInOrder'
  BY <1>7, <1>9 DEF LinesInOrder, Ended
<1>11. QED
  BY <1>6, <1>7, <1>8, <1>10

\* Every line gets older.
LEMMA AgeFact ==
  ASSUME TranscriptsTypeOK, LinesInOrder, Tick
  PROVE  /\ files' \in [Files -> Seq(Line)] /\ LinesInOrder' /\ Kept
         /\ \A f \in Files : \A i \in DOMAIN files[f] :
              files'[f][i].age \in {files[f][i].age + 1, Week + MaxScan + 1}
<1>1. ASSUME NEW l \in Line
      PROVE  /\ Older(l) \in Line /\ Older(l).left = l.left /\ Older(l).kind = l.kind
             /\ Older(l).size = l.size /\ Older(l).start = l.start
             /\ Older(l).age \in {l.age + 1, Week + MaxScan + 1}
  <2>1. l.age + 1 \in Nat /\ Week + MaxScan + 1 \in Nat
    BY TranscriptsAssumption DEF Line, Age
  <2>2. /\ Min({l.age + 1, Week + MaxScan + 1}) \in Age
        /\ Min({l.age + 1, Week + MaxScan + 1}) \in {l.age + 1, Week + MaxScan + 1}
    <3> DEFINE a == l.age + 1
               b == Week + MaxScan + 1
               S == {a, b}
    <3>1. a \in Nat /\ b \in Nat /\ Age = 0 .. b /\ S = {a, b}
      BY <2>1 DEF Age
    <3>2. b \in S /\ S \in SUBSET Nat /\ S # {}
      BY <3>1
    <3> HIDE DEF a, b, S
    <3>3. Min(S) \in Nat /\ Min(S) <= b /\ Min(S) \in S
      BY <3>2, MinFact
    <3>4. Min(S) \in Age /\ Min(S) \in {a, b}
      BY <3>1, <3>3
    <3>5. QED
      BY <3>4 DEF a, b, S
  <2>3. QED
    BY <2>2 DEF Older, Line
<1>2. ASSUME NEW f \in Files
      PROVE  /\ DOMAIN files'[f] = DOMAIN files[f]
             /\ files'[f] \in Seq(Line) /\ Len(files'[f]) = Len(files[f])
             /\ \A i \in DOMAIN files[f] : files'[f][i] = Older(files[f][i])
  <2>1. files'[f] = [i \in DOMAIN files[f] |-> Older(files[f][i])]
    BY DEF Tick
  <2>2. /\ Len(files[f]) \in Nat /\ DOMAIN files[f] = 1 .. Len(files[f])
        /\ \A i \in DOMAIN files[f] : files[f][i] \in Line
    BY FileFact
  <2>3. files'[f] \in [1 .. Len(files[f]) -> Line]
    BY <1>1, <2>1, <2>2
  <2>4. files'[f] \in Seq(Line)
    BY <2>2, <2>3, SeqDef
  <2>5. QED
    BY <2>1, <2>2, <2>4, LenProperties
<1>3. files' \in [Files -> Seq(Line)]
  <2>1. files' = [f \in Files |-> files'[f]]
    BY DEF Tick
  <2>2. QED
    BY <1>2, <2>1
<1>4. ASSUME NEW f \in Files, NEW i \in DOMAIN files[f]
      PROVE  /\ files'[f][i].left = files[f][i].left /\ files'[f][i].kind = files[f][i].kind
             /\ files'[f][i].size = files[f][i].size /\ files'[f][i].start = files[f][i].start
  BY <1>1, <1>2, FileFact
<1>8. \A f \in Files : \A i \in DOMAIN files[f] :
        files'[f][i].age \in {files[f][i].age + 1, Week + MaxScan + 1}
  BY <1>1, <1>2, FileFact
<1>5. LinesInOrder'
  <2>1. \A f \in Files : DOMAIN files'[f] = DOMAIN files[f] /\ Len(files'[f]) = Len(files[f])
    BY <1>2
  <2>2. QED
    BY <1>4, <2>1 DEF LinesInOrder, Ended
<1>6. Kept
  <2>1. \A f \in Files : \A i \in DOMAIN files[f] : files[f][i].left \in 0 .. 2
    BY FileFact
  <2>2. \A f \in Files : DOMAIN files'[f] = DOMAIN files[f]
    BY <1>2
  <2>3. QED
    BY <1>4, <2>1, <2>2 DEF Kept
<1>7. QED
  BY <1>3, <1>5, <1>6, <1>8

-----------------------------------------------------------------------------
(* What the sessions and the clock leave as it was.                        *)

\* Appending does not take a line from the scan's account.
LEMMA KnownStable ==
  ASSUME TranscriptsInv, Kept, UNCHANGED <<scan, known>>,
         \A f \in Files : \A i \in DOMAIN files[f] : files'[f][i].age = files[f][i].age
  PROVE  KnownIsAccounted'
<1>1. ASSUME NEW id \in known
      PROVE  id.line \in DOMAIN files'[id.file] /\ CountsAsUsage(LineOf(id))' /\ Accounted(id)'
  <2>1. /\ id.file \in Files /\ id.line \in DOMAIN files[id.file]
        /\ CountsAsUsage(LineOf(id)) /\ Accounted(id)
    BY DEF TranscriptsInv, TranscriptsTypeOK, KnownIsAccounted, Id
  <2>2. /\ id.line \in DOMAIN files'[id.file]
        /\ LineOf(id)'.kind = LineOf(id).kind /\ LineOf(id)'.age = LineOf(id).age
        /\ LineOf(id)'.left \in 0 .. LineOf(id).left
    BY <2>1 DEF Kept, LineOf
  <2>3. LineOf(id)'.left < 2
    <3>1. LineOf(id).left \in 0 .. 2
      BY <2>1, FileFact DEF LineOf, TranscriptsInv
    <3>2. QED
      BY <2>1, <2>2, <3>1 DEF CountsAsUsage, Legible
  <2>4. QED
    BY <2>1, <2>2, <2>3 DEF CountsAsUsage, Legible, Accounted
<1>2. QED
  BY <1>1 DEF TranscriptsInv, KnownIsAccounted

\* Nor does it keep a status line from the newest line of its tail.
LEMMA NewestStable ==
  ASSUME TranscriptsInv, Kept, UNCHANGED <<parse, newest>>
  PROVE  NewestIsReached'
<1> DEFINE f == parse.file
<1> SUFFICES ASSUME parse.pc # "off", newest # 0
             PROVE  /\ newest \in DOMAIN files'[f]
                    /\ Usable(files'[f][newest]) /\ parse.first <= newest
                    /\ newest <= parse.pos => newest \in parse.usable
                    /\ parse.pc = "done" => newest <= parse.pos
                    /\ \A i \in parse.pos + 1 .. newest : files'[f][i].size <= ReadTailBytes
  BY DEF NewestIsReached, Usable, Legible, TranscriptsInv
<1>1. /\ f \in Files /\ newest \in DOMAIN files[f] /\ parse.first <= newest
      /\ newest <= parse.pos => newest \in parse.usable
      /\ parse.pc = "done" => newest <= parse.pos
      /\ Usable(files[f][newest])
      /\ \A i \in parse.pos + 1 .. newest : files[f][i].size <= ReadTailBytes
      /\ parse.pos \in Nat
  BY DEF TranscriptsInv, NewestIsReached, TranscriptsTypeOK, ParseState
<1>2. /\ Len(files[f]) \in Nat /\ DOMAIN files[f] = 1 .. Len(files[f])
      /\ files[f][newest].left \in 0 .. 2
  BY <1>1, FileFact DEF TranscriptsInv
<1>3. /\ newest \in DOMAIN files'[f] /\ files'[f][newest].kind = files[f][newest].kind
      /\ files'[f][newest].left \in 0 .. files[f][newest].left
      /\ \A i \in DOMAIN files[f] : files'[f][i].size = files[f][i].size
  BY <1>1 DEF Kept
<1>5. Usable(files'[f][newest])
  BY <1>1, <1>2, <1>3 DEF Usable, Legible
<1>6. \A i \in parse.pos + 1 .. newest : i \in DOMAIN files[f]
  BY <1>1, <1>2
<1>7. QED
  BY <1>1, <1>3, <1>5, <1>6

\* The scan writes no file, and has nothing to do with a status line.
LEMMA ScanLeaves ==
  ASSUME TranscriptsInv, ByScan
  PROVE  LinesInOrder' /\ NewestIsReached'
BY DEF TranscriptsInv, ByScan, LinesInOrder, NewestIsReached, Ended, Usable, Legible

\* Nor the other way round.
LEMMA ParseLeaves ==
  ASSUME TranscriptsInv, ByParse
  PROVE  LinesInOrder' /\ KnownIsAccounted'
BY DEF TranscriptsInv, ByParse, LinesInOrder, KnownIsAccounted, Accounted, Ended, LineOf,
       CountsAsUsage, Legible

-----------------------------------------------------------------------------
(* The sessions and the clock.                                             *)

\* The invariant holds of no transcripts.
LEMMA TranscriptsInvInit == TranscriptsInit => TranscriptsInv
<1> SUFFICES ASSUME TranscriptsInit PROVE TranscriptsInv
  OBVIOUS
<1>1. \A f \in Files : files[f] = <<>> /\ DOMAIN files[f] = {}
  BY DEF TranscriptsInit
<1>2. TranscriptsTypeOK
  <2>1. files \in [Files -> Seq(Line)]
    BY EmptySeq DEF TranscriptsInit
  <2>2. QED
    BY <2>1, TranscriptsAssumption DEF TranscriptsInit, TranscriptsTypeOK, NoScan, NoParse, ScanState, ParseState
<1>3. LinesInOrder
  BY <1>1 DEF LinesInOrder
<1>4. KnownIsAccounted /\ NewestIsReached
  BY DEF TranscriptsInit, KnownIsAccounted, NewestIsReached, NoScan, NoParse
<1>5. QED
  BY <1>2, <1>3, <1>4 DEF TranscriptsInv

LEMMA TranscriptsInvStutter ==
  ASSUME TranscriptsInv, UNCHANGED transcriptVars
  PROVE  TranscriptsInv'
BY DEF TranscriptsInv, TranscriptsTypeOK, LinesInOrder, KnownIsAccounted, NewestIsReached,
       Accounted, Ended, LineOf, CountsAsUsage, Usable, Legible, transcriptVars

LEMMA WriteStep ==
  ASSUME TranscriptsInv, NEW f \in Files, NEW shape \in Shapes, NEW left \in 0 .. 2,
         Write(f, shape, left)
  PROVE  TranscriptsInv'
<1>1. UNCHANGED <<scan, known, parse, newest>>
  BY DEF Write
<1>2. /\ files' \in [Files -> Seq(Line)] /\ LinesInOrder' /\ Kept
      /\ \A g \in Files : \A i \in DOMAIN files[g] : files'[g][i].age = files[g][i].age
  BY WriteFact DEF TranscriptsInv
<1>3. TranscriptsTypeOK'
  BY <1>1, <1>2 DEF TranscriptsInv, TranscriptsTypeOK
<1>4. QED
  BY <1>1, <1>2, <1>3, KnownStable, NewestStable DEF TranscriptsInv

LEMMA FinishStep ==
  ASSUME TranscriptsInv, NEW f \in Files, Finish(f)
  PROVE  TranscriptsInv'
<1>1. UNCHANGED <<scan, known, parse, newest>>
  BY DEF Finish
<1>2. /\ files' \in [Files -> Seq(Line)] /\ LinesInOrder' /\ Kept
      /\ \A g \in Files : \A i \in DOMAIN files[g] : files'[g][i].age = files[g][i].age
  BY FinishFact DEF TranscriptsInv
<1>3. TranscriptsTypeOK'
  BY <1>1, <1>2 DEF TranscriptsInv, TranscriptsTypeOK
<1>4. QED
  BY <1>1, <1>2, <1>3, KnownStable, NewestStable DEF TranscriptsInv

\* A line that was too old when the scan began gets no younger by the time that
\* the scan takes.
LEMMA TickStep ==
  ASSUME TranscriptsInv, Tick
  PROVE  TranscriptsInv'
<1>1. /\ files' \in [Files -> Seq(Line)] /\ LinesInOrder' /\ Kept
      /\ \A f \in Files : \A i \in DOMAIN files[f] :
           files'[f][i].age \in {files[f][i].age + 1, Week + MaxScan + 1}
  BY AgeFact DEF TranscriptsInv
<1>2. UNCHANGED <<known, parse, newest>>
  BY DEF Tick
<1>3. /\ scan.took \in 0 .. MaxScan
      /\ \/ scan.pc = "off" /\ scan' = scan
         \/ scan.took < MaxScan /\ scan' = [scan EXCEPT !.took = @ + 1]
  BY DEF Tick, TranscriptsInv, TranscriptsTypeOK, ScanState
<1>4. TranscriptsTypeOK'
  <2>1. scan \in ScanState
    BY DEF TranscriptsInv, TranscriptsTypeOK
  <2>2. CASE scan' = scan
    BY <1>1, <1>2, <2>1, <2>2 DEF TranscriptsInv, TranscriptsTypeOK
  <2>3. CASE scan' # scan
    <3>1. scan' = [scan EXCEPT !.took = @ + 1] /\ scan.took + 1 \in 0 .. MaxScan
      BY <1>3, <2>3, TranscriptsAssumption
    <3>2. scan' \in ScanState
      BY <2>1, <3>1 DEF ScanState
    <3>3. QED
      BY <1>1, <1>2, <3>2 DEF TranscriptsInv, TranscriptsTypeOK
  <2>4. QED
    BY <2>2, <2>3
<1>5. NewestIsReached'
  BY <1>1, <1>2, NewestStable
<1>6. ASSUME NEW id \in known
      PROVE  id.line \in DOMAIN files'[id.file] /\ CountsAsUsage(LineOf(id))' /\ Accounted(id)'
  <2>1. /\ id.file \in Files /\ id.line \in DOMAIN files[id.file]
        /\ CountsAsUsage(LineOf(id)) /\ Accounted(id) /\ scan.pc # "off"
    BY DEF TranscriptsInv, TranscriptsTypeOK, KnownIsAccounted, Id
  <2>2. scan' = [scan EXCEPT !.took = @ + 1] /\ scan.took + 1 \in 0 .. MaxScan
    BY <1>3, <2>1, TranscriptsAssumption
  <2>3. /\ scan'.took = scan.took + 1 /\ scan'.got = scan.got /\ scan'.file = scan.file
        /\ scan'.projects = scan.projects /\ scan'.files = scan.files
        /\ scan'.pos = scan.pos /\ scan'.part = scan.part
    BY <2>2 DEF TranscriptsInv, TranscriptsTypeOK, ScanState
  <2>4. /\ id.line \in DOMAIN files'[id.file]
        /\ LineOf(id)'.kind = LineOf(id).kind /\ LineOf(id)'.left \in 0 .. LineOf(id).left
        /\ LineOf(id)'.age \in {LineOf(id).age + 1, Week + MaxScan + 1}
    BY <1>1, <2>1 DEF Kept, LineOf
  <2>5. LineOf(id).left \in 0 .. 2 /\ LineOf(id).age \in Nat
    BY <2>1, FileFact DEF LineOf, TranscriptsInv, Age
  <2>6. CountsAsUsage(LineOf(id))'
    BY <2>1, <2>4, <2>5 DEF CountsAsUsage, Legible
  <2>7. LineOf(id).age > Week + scan.took => LineOf(id)'.age > Week + scan'.took
    BY <1>3, <2>2, <2>3, <2>4, <2>5, TranscriptsAssumption
  <2>8. QED
    BY <2>1, <2>3, <2>4, <2>6, <2>7 DEF Accounted
<1>7. KnownIsAccounted'
  <2>1. scan'.pc = scan.pc /\ scan'.projects = scan.projects /\ scan'.files = scan.files
        /\ scan'.file = scan.file
    BY <1>3 DEF TranscriptsInv, TranscriptsTypeOK, ScanState
  <2>2. QED
    BY <1>2, <1>6, <2>1 DEF TranscriptsInv, KnownIsAccounted
<1>8. QED
  BY <1>1, <1>4, <1>5, <1>7 DEF TranscriptsInv

-----------------------------------------------------------------------------
(* The scan.                                                               *)

\* A step of the scan keeps the invariant if it accounts for what it still knows.
LEMMA ScanStep ==
  ASSUME TranscriptsInv, ByScan, scan' \in ScanState, known' \subseteq known,
         scan'.pc = "off" => known' = {},
         scan'.pc = "sum" => scan'.projects = {} /\ scan'.files = {} /\ scan'.file = None,
         \A id \in known' : Accounted(id)'
  PROVE  TranscriptsInv'
<1>1. TranscriptsTypeOK'
  BY DEF TranscriptsInv, TranscriptsTypeOK, ByScan
<1>2. \A id \in known' : /\ id.line \in DOMAIN files'[id.file]
                         /\ CountsAsUsage(LineOf(id))'
  BY DEF TranscriptsInv, KnownIsAccounted, ByScan, LineOf, CountsAsUsage, Legible
<1>3. KnownIsAccounted'
  BY <1>2 DEF KnownIsAccounted
<1>4. QED
  BY <1>1, <1>3, ScanLeaves DEF TranscriptsInv

\* What the scan may know and how it is accounted for.
LEMMA KnownFact ==
  ASSUME TranscriptsInv, NEW id \in known
  PROVE  /\ id \in Id /\ id.file \in Files /\ id.file # None /\ id.line \in Nat
         /\ id.line \in DOMAIN files[id.file] /\ files[id.file] # <<>>
         /\ ProjectOf[id.file] \in Projects
         /\ CountsAsUsage(LineOf(id)) /\ Accounted(id) /\ scan \in ScanState
BY TranscriptsAssumption
   DEF TranscriptsInv, TranscriptsTypeOK, KnownIsAccounted, Id

LEMMA StartScanStep ==
  ASSUME TranscriptsInv, StartScan
  PROVE  TranscriptsInv'
<1>1. /\ scan' = [NoScan EXCEPT !.pc = "scan",
                                !.projects = {ProjectOf[f] : f \in {g \in Files : Exists(g)}}]
      /\ ByScan
  BY DEF StartScan
<1>2. scan'.pc = "scan" /\ scan'.projects = {ProjectOf[f] : f \in {g \in Files : Exists(g)}}
  BY <1>1 DEF NoScan
<1>3. scan' \in ScanState
  <2> DEFINE P == {ProjectOf[f] : f \in {g \in Files : Exists(g)}}
  <2>1. P \in SUBSET Projects
    BY TranscriptsAssumption
  <2>2. scan' = [NoScan EXCEPT !.pc = "scan", !.projects = P]
    BY <1>1
  <2> HIDE DEF P
  <2>3. NoScan \in ScanState
    BY TranscriptsAssumption DEF NoScan, ScanState
  <2>4. QED
    BY <2>1, <2>2, <2>3 DEF ScanState
<1>4. ASSUME NEW id \in known'
      PROVE  /\ id \in Id /\ id.line \in DOMAIN files[id.file] /\ CountsAsUsage(LineOf(id))
             /\ ProjectOf[id.file] \in scan'.projects
  <2>1. PICK f \in Files : id \in Rest(f, 0)
    BY DEF StartScan
  <2>2. CountsAsUsage(LineOf(id))
    BY DEF StartScan
  <2>3. Len(files[f]) \in Nat /\ DOMAIN files[f] = 1 .. Len(files[f])
    BY FileFact DEF TranscriptsInv
  <2>4. PICK i \in 0 + 1 .. Len(files[f]) : id = [file |-> f, line |-> i]
    BY <2>1 DEF Rest
  <2>5. id \in Id /\ id.file = f /\ id.line = i /\ i \in DOMAIN files[f]
    BY <2>3, <2>4 DEF Id
  <2>6. files[f] # <<>>
    BY <2>3, <2>5
  <2>7. QED
    BY <1>2, <2>2, <2>5, <2>6 DEF Exists
<1>5. TranscriptsTypeOK'
  BY <1>1, <1>3, <1>4 DEF TranscriptsInv, TranscriptsTypeOK, ByScan
<1>6. KnownIsAccounted'
  BY <1>1, <1>2, <1>4
     DEF KnownIsAccounted, Accounted, ByScan, LineOf, CountsAsUsage, Legible
<1>7. QED
  BY <1>1, <1>5, <1>6, ScanLeaves DEF TranscriptsInv

\* A directory that is listed brings all the files with something in them.
LEMMA ListProjectStep ==
  ASSUME TranscriptsInv, NEW p \in Projects, ListProject(p)
  PROVE  TranscriptsInv'
<1>1. /\ scan' = [scan EXCEPT !.projects = @ \ {p},
                              !.files = {f \in Files : Exists(f) /\ ProjectOf[f] = p}]
      /\ scan.pc = "scan" /\ scan.file = None /\ scan.files = {}
      /\ known' = known /\ ByScan /\ scan \in ScanState
  BY DEF ListProject, Between, TranscriptsInv, TranscriptsTypeOK
<1>2. /\ scan'.pc = "scan" /\ scan'.projects = scan.projects \ {p}
      /\ scan'.files = {f \in Files : Exists(f) /\ ProjectOf[f] = p}
      /\ scan'.got = scan.got /\ scan'.took = scan.took /\ scan' \in ScanState
  BY <1>1 DEF ScanState
<1>3. ASSUME NEW id \in known
      PROVE  Accounted(id)'
  <2>1. /\ id.file \in Files /\ id.file # None /\ Exists(id.file) /\ Accounted(id)
    BY KnownFact DEF Exists
  <2>2. LineOf(id)' = LineOf(id)
    BY <1>1 DEF ByScan, LineOf
  <2>3. QED
    BY <1>1, <1>2, <2>1, <2>2 DEF Accounted
<1>4. QED
  BY <1>1, <1>2, <1>3, ScanStep

LEMMA ProjectFailsStep ==
  ASSUME TranscriptsInv, NEW p \in Projects, ProjectFails(p)
  PROVE  TranscriptsInv'
<1>1. /\ scan' = [scan EXCEPT !.projects = @ \ {p}]
      /\ scan.pc = "scan" /\ scan.file = None /\ scan.files = {}
      /\ known' = {id \in known : ProjectOf[id.file] # p} /\ ByScan /\ scan \in ScanState
  BY DEF ProjectFails, Between, TranscriptsInv, TranscriptsTypeOK
<1>2. /\ scan'.pc = "scan" /\ scan'.projects = scan.projects \ {p} /\ scan'.files = {}
      /\ scan'.got = scan.got /\ scan'.took = scan.took /\ scan'.file = None
      /\ scan' \in ScanState
  BY <1>1 DEF ScanState
<1>3. ASSUME NEW id \in known'
      PROVE  Accounted(id)'
  <2>1. id \in known /\ ProjectOf[id.file] # p
    BY <1>1
  <2>2. id.file \in Files /\ id.file # None /\ Accounted(id)
    BY <2>1, KnownFact
  <2>3. LineOf(id)' = LineOf(id)
    BY <1>1 DEF ByScan, LineOf
  <2>4. QED
    BY <1>1, <1>2, <2>1, <2>2, <2>3 DEF Accounted
<1>4. QED
  BY <1>1, <1>2, <1>3, ScanStep

LEMMA OpenFileStep ==
  ASSUME TranscriptsInv, NEW f \in Files, OpenFile(f)
  PROVE  TranscriptsInv'
<1>1. /\ scan' = [scan EXCEPT !.files = @ \ {f}, !.file = f, !.pos = 0, !.part = {}]
      /\ scan.pc = "scan" /\ scan.file = None
      /\ known' = known /\ ByScan /\ scan \in ScanState
  BY DEF OpenFile, Between, TranscriptsInv, TranscriptsTypeOK
<1>2. /\ scan'.pc = "scan" /\ scan'.projects = scan.projects /\ scan'.files = scan.files \ {f}
      /\ scan'.got = scan.got /\ scan'.took = scan.took /\ scan'.file = f /\ scan'.pos = 0
      /\ scan' \in ScanState
  BY <1>1 DEF ScanState
<1>3. ASSUME NEW id \in known
      PROVE  Accounted(id)'
  <2>1. /\ id.file \in Files /\ id.file # None /\ Accounted(id) /\ id.line > 0
    <3>1. id \in Id
      BY KnownFact
    <3>2. id.line > 0
      BY <3>1 DEF Id
    <3>3. QED
      BY <3>2, KnownFact
  <2>2. LineOf(id)' = LineOf(id)
    BY <1>1 DEF ByScan, LineOf
  <2>3. QED
    BY <1>1, <1>2, <2>1, <2>2 DEF Accounted
<1>4. QED
  BY <1>1, <1>2, <1>3, ScanStep

LEMMA OpenFailsStep ==
  ASSUME TranscriptsInv, NEW f \in Files, OpenFails(f)
  PROVE  TranscriptsInv'
<1>1. /\ scan' = [scan EXCEPT !.files = @ \ {f}]
      /\ scan.pc = "scan" /\ scan.file = None
      /\ known' = {id \in known : id.file # f} /\ ByScan /\ scan \in ScanState
  BY DEF OpenFails, Between, Forget, TranscriptsInv, TranscriptsTypeOK
<1>2. /\ scan'.pc = "scan" /\ scan'.projects = scan.projects /\ scan'.files = scan.files \ {f}
      /\ scan'.got = scan.got /\ scan'.took = scan.took /\ scan'.file = None
      /\ scan' \in ScanState
  BY <1>1 DEF ScanState
<1>3. ASSUME NEW id \in known'
      PROVE  Accounted(id)'
  <2>1. id \in known /\ id.file # f
    BY <1>1
  <2>2. id.file \in Files /\ id.file # None /\ Accounted(id)
    BY <2>1, KnownFact
  <2>3. LineOf(id)' = LineOf(id)
    BY <1>1 DEF ByScan, LineOf
  <2>4. QED
    BY <1>1, <1>2, <2>1, <2>2, <2>3 DEF Accounted
<1>4. QED
  BY <1>1, <1>2, <1>3, ScanStep

\* A usage line that is read is taken, or it was too old when the scan began.
LEMMA ReadLineStep ==
  ASSUME TranscriptsInv, ReadLine
  PROVE  TranscriptsInv'
<1> DEFINE last == [file |-> scan.file, line |-> scan.pos + 1]
           part == IF Taken(LineOf(last)) THEN scan.part \cup {last} ELSE scan.part
<1>1. /\ scan' = [scan EXCEPT !.pos = @ + 1, !.part = part]
      /\ scan.pc = "scan" /\ scan.file \in Files
      /\ known' = known /\ ByScan /\ scan \in ScanState
  BY DEF ReadLine, TranscriptsInv, TranscriptsTypeOK, ScanState
<1>2. scan.pos \in Nat /\ scan.part \in SUBSET Id
  BY <1>1 DEF ScanState
<1>3. last \in Id
  BY <1>1, <1>2 DEF Id
<1>4. part \in SUBSET Id /\ scan.part \subseteq part
  BY <1>2, <1>3
<1>5. /\ scan'.pc = "scan" /\ scan'.projects = scan.projects /\ scan'.files = scan.files
      /\ scan'.got = scan.got /\ scan'.took = scan.took /\ scan'.file = scan.file
      /\ scan'.pos = scan.pos + 1 /\ scan'.part = part /\ scan' \in ScanState
  <2>1. scan' = [scan EXCEPT !.pos = scan.pos + 1, !.part = part] /\ scan.pos + 1 \in Nat
    BY <1>1, <1>2
  <2> HIDE DEF part
  <2>2. QED
    BY <1>1, <1>4, <2>1 DEF ScanState
<1>6. ASSUME NEW id \in known
      PROVE  Accounted(id)'
  <2>1. /\ id \in Id /\ id.line \in Nat /\ id.line \in DOMAIN files[id.file]
        /\ id.file \in Files /\ CountsAsUsage(LineOf(id)) /\ Accounted(id)
    BY KnownFact
  <2>2. LineOf(id)' = LineOf(id)
    BY <1>1 DEF ByScan, LineOf
  <2>3. CASE id = last /\ ~Taken(LineOf(id))
    <3>1. LineOf(id).age \in Nat /\ scan.took \in Nat
      BY <1>1, <2>1, FileFact DEF LineOf, TranscriptsInv, Age, ScanState
    <3>2. LineOf(id).age > Week + scan.took
      BY <2>1, <2>3, <3>1, TranscriptsAssumption DEF Taken
    <3>3. QED
      BY <1>5, <2>2, <3>2 DEF Accounted
  <2>4. CASE id = last /\ Taken(LineOf(id))
    BY <1>5, <2>4 DEF Accounted
  <2>5. CASE id # last
    <3>1. id.file = scan.file => id.line # scan.pos + 1
      <4>1. id = [file |-> id.file, line |-> id.line]
        BY <2>1 DEF Id
      <4>2. QED
        BY <2>5, <4>1
    <3>2. id.file = scan.file /\ id.line > scan.pos => id.line > scan.pos + 1
      BY <1>2, <2>1, <3>1
    <3>3. QED
      BY <1>4, <1>5, <2>1, <2>2, <3>2 DEF Accounted
  <2>6. QED
    BY <2>3, <2>4, <2>5
<1>7. QED
  BY <1>1, <1>5, <1>6, ScanStep

\* The end of a file gives what is left of it.
LEMMA EndFileStep ==
  ASSUME TranscriptsInv, EndFile
  PROVE  TranscriptsInv'
<1> DEFINE got == scan.got \cup scan.part \cup LastTaken
<1>1. /\ scan' = [scan EXCEPT !.file = None, !.part = {}, !.got = got]
      /\ scan.pc = "scan" /\ scan.file \in Files
      /\ known' = known /\ ByScan /\ scan \in ScanState
  BY DEF EndFile, TranscriptsInv, TranscriptsTypeOK, ScanState
<1>2. scan.pos \in Nat /\ Len(files[scan.file]) \in Nat
      /\ DOMAIN files[scan.file] = 1 .. Len(files[scan.file])
  BY <1>1, FileFact DEF ScanState, TranscriptsInv
<1>3. got \in SUBSET Id
  <2>1. Rest(scan.file, scan.pos) \subseteq Id
    BY <1>1, <1>2 DEF Rest, Id
  <2>2. scan.got \in SUBSET Id /\ scan.part \in SUBSET Id
    BY <1>1 DEF ScanState
  <2>3. QED
    BY <2>1, <2>2 DEF LastTaken
<1>4. /\ scan'.pc = "scan" /\ scan'.projects = scan.projects /\ scan'.files = scan.files
      /\ scan'.got = got /\ scan'.took = scan.took /\ scan'.file = None
      /\ scan' \in ScanState
  <2> HIDE DEF got
  <2>1. QED
    BY <1>1, <1>3 DEF ScanState
<1>5. ASSUME NEW id \in known
      PROVE  Accounted(id)'
  <2>1. /\ id \in Id /\ id.line \in Nat /\ id.line \in DOMAIN files[id.file]
        /\ id.file \in Files /\ CountsAsUsage(LineOf(id)) /\ Accounted(id)
    BY KnownFact
  <2>2. LineOf(id)' = LineOf(id)
    BY <1>1 DEF ByScan, LineOf
  <2>3. CASE id.file = scan.file /\ id.line > scan.pos
    <3>1. id \in Rest(scan.file, scan.pos)
      <4>1. id = [file |-> id.file, line |-> id.line]
        BY <2>1 DEF Id
      <4>2. id.line \in scan.pos + 1 .. Len(files[scan.file])
        BY <1>2, <2>1, <2>3
      <4>3. QED
        BY <2>3, <4>1, <4>2 DEF Rest
    <3>2. LineOf(id).age \in Nat /\ scan.took \in Nat
      BY <1>1, <2>1, FileFact DEF LineOf, TranscriptsInv, Age, ScanState
    <3>3. LineOf(id).age > Week + scan.took \/ Taken(LineOf(id))
      BY <2>1, <3>2, TranscriptsAssumption DEF Taken
    <3>4. QED
      BY <1>4, <2>2, <3>1, <3>3 DEF Accounted, LastTaken
  <2>4. CASE ~(id.file = scan.file /\ id.line > scan.pos)
    BY <1>4, <2>1, <2>2, <2>4 DEF Accounted
  <2>5. QED
    BY <2>3, <2>4
<1>6. QED
  BY <1>1, <1>4, <1>5, ScanStep

\* A file that fails costs its own lines and no others.
LEMMA FileFailsStep ==
  ASSUME TranscriptsInv, FileFails
  PROVE  TranscriptsInv'
<1>1. /\ scan' = [scan EXCEPT !.file = None, !.part = {}]
      /\ scan.pc = "scan"
      /\ known' = {id \in known : id.file # scan.file} /\ ByScan /\ scan \in ScanState
  BY DEF FileFails, Forget, TranscriptsInv, TranscriptsTypeOK
<1>2. /\ scan'.pc = "scan" /\ scan'.projects = scan.projects /\ scan'.files = scan.files
      /\ scan'.got = scan.got /\ scan'.took = scan.took /\ scan' \in ScanState
  BY <1>1 DEF ScanState
<1>3. ASSUME NEW id \in known'
      PROVE  Accounted(id)'
  <2>1. id \in known /\ id.file # scan.file
    BY <1>1
  <2>2. Accounted(id)
    BY <2>1, KnownFact
  <2>3. LineOf(id)' = LineOf(id)
    BY <1>1 DEF ByScan, LineOf
  <2>4. QED
    BY <1>2, <2>1, <2>2, <2>3 DEF Accounted
<1>4. QED
  BY <1>1, <1>2, <1>3, ScanStep

LEMMA SumStep ==
  ASSUME TranscriptsInv, Sum
  PROVE  TranscriptsInv'
<1>1. /\ scan' = [scan EXCEPT !.pc = "sum"]
      /\ scan.projects = {} /\ scan.files = {} /\ scan.file = None
      /\ known' = known /\ ByScan /\ scan \in ScanState
  BY DEF Sum, Between, TranscriptsInv, TranscriptsTypeOK
<1>2. /\ scan'.pc = "sum" /\ scan'.projects = {} /\ scan'.files = {} /\ scan'.file = None
      /\ scan'.got = scan.got /\ scan'.took = scan.took /\ scan' \in ScanState
  BY <1>1 DEF ScanState
<1>3. ASSUME NEW id \in known
      PROVE  Accounted(id)'
  <2>1. Accounted(id) /\ id.file # None
    BY KnownFact
  <2>2. LineOf(id)' = LineOf(id)
    BY <1>1 DEF ByScan, LineOf
  <2>3. QED
    BY <1>1, <1>2, <2>1, <2>2 DEF Accounted
<1>4. QED
  BY <1>1, <1>2, <1>3, ScanStep

LEMMA EndScanStep ==
  ASSUME TranscriptsInv, EndScan
  PROVE  TranscriptsInv'
<1>1. scan' = NoScan /\ known' = {} /\ ByScan
  BY DEF EndScan
<1>2. scan'.pc = "off" /\ scan' \in ScanState
  BY <1>1, TranscriptsAssumption DEF NoScan, ScanState
<1>3. QED
  BY <1>1, <1>2, ScanStep

-----------------------------------------------------------------------------
(* A status line.                                                          *)

\* The tail has a first line, at which a piece of another may precede it, and its
\* newest line with a percentage is one that the scanner gets to.
LEMMA StartParseStep ==
  ASSUME TranscriptsInv, NEW f \in Files, StartParse(f)
  PROVE  TranscriptsInv'
<1> DEFINE n == Len(files[f])
           seekPos == Max({0, FileSize(f) - ReadTailBytes})
           tail == {i \in 1 .. n + 1 : Start(f, i) >= seekPos}
           line == Min(tail)
           piece == Start(f, line) - seekPos
           usable == {i \in UsableIn(f, tail \cap DOMAIN files[f]) : files[f][i].size <= ReadTailBytes}
           pc == IF piece > 0 /\ ~Ended(files[f][line - 1]) THEN "done" ELSE "read"
           first == FirstToken(line, piece)
<1>1. /\ parse' = [NoParse EXCEPT !.pc = pc, !.file = f, !.first = first, !.pos = line - 1]
      /\ newest' = IF usable = {} THEN 0 ELSE Max(usable)
      /\ Exists(f) /\ ByParse
  BY DEF StartParse
<1>2. /\ n \in Nat /\ n > 0 /\ DOMAIN files[f] = 1 .. n
      /\ \A i \in 1 .. n : /\ files[f][i].start \in Nat /\ files[f][i].size \in Nat
                           /\ Bytes(files[f][i]) \in Nat /\ Bytes(files[f][i]) > 0
                           /\ files[f][i].start + Bytes(files[f][i]) <= FileSize(f)
      /\ FileSize(f) \in Nat
  <2>1. files[f] \in Seq(Line) /\ files[f] # <<>>
    BY <1>1 DEF TranscriptsInv, TranscriptsTypeOK, Exists
  <2>2. n > 0
    BY <2>1, EmptySeq
  <2>3. QED
    BY <2>2, FileFact, FileSizeFact DEF TranscriptsInv
<1>3. /\ seekPos \in Nat /\ seekPos <= FileSize(f) /\ FileSize(f) <= seekPos + ReadTailBytes
  <2> DEFINE z == FileSize(f) - ReadTailBytes
             S == {0, z}
  <2>1. z \in Int /\ z <= FileSize(f) /\ FileSize(f) = z + ReadTailBytes /\ FileSize(f) \in Nat
        /\ ReadTailBytes \in Nat
    BY <1>2, TranscriptsAssumption
  <2> HIDE DEF z
  <2>2. \E x \in S : \A y \in S : x >= y
    BY <2>1
  <2>3. 0 \in S /\ z \in S /\ \A x \in S : x = 0 \/ x = z
    OBVIOUS
  <2> HIDE DEF S
  <2>4. Max(S) \in S /\ \A y \in S : Max(S) >= y
    BY <2>2 DEF Max
  <2>5. Max(S) \in Nat /\ Max(S) <= FileSize(f) /\ FileSize(f) <= Max(S) + ReadTailBytes
    <3>1. (Max(S) = 0 \/ Max(S) = z) /\ Max(S) >= 0 /\ Max(S) >= z
      BY <2>3, <2>4
    <3>2. QED
      BY <2>1, <3>1
  <2>6. QED
    BY <2>5 DEF S, z
<1> HIDE DEF seekPos
<1>4. \A i \in 1 .. n : Start(f, i) = files[f][i].start
  BY <1>2 DEF Start
<1>5. Start(f, n + 1) = FileSize(f)
  BY <1>2 DEF Start
<1>6. line \in tail /\ \A i \in tail : line <= i
  <2>1. n + 1 \in tail
    BY <1>2, <1>3, <1>5
  <2>2. tail \in SUBSET Nat
    BY <1>2
  <2> HIDE DEF tail
  <2>3. QED
    BY <2>1, <2>2, MinFact
<1>7. tail \subseteq 1 .. n + 1 /\ \A i \in tail : Start(f, i) >= seekPos
  OBVIOUS
<1>8. line \in 1 .. n + 1 /\ piece \in Nat
  <2>1. line \in 1 .. n + 1 /\ Start(f, line) >= seekPos
    BY <1>6, <1>7
  <2>2. Start(f, line) \in Nat
    BY <1>2, <1>4, <1>5, <2>1
  <2>3. QED
    BY <1>3, <2>1, <2>2
<1> HIDE DEF tail, line
<1>9. piece > 0 => line > 1
  <2>1. Start(f, 1) = 0
    BY <1>2, <1>4 DEF TranscriptsInv, LinesInOrder
  <2>2. QED
    BY <1>3, <1>8, <2>1
<1> HIDE DEF piece
<1>10. first \in Nat \ {0} /\ first <= line
  BY <1>2, <1>8, <1>9 DEF FirstToken
<1> HIDE DEF first
<1>11. parse' \in ParseState /\ parse'.pc = pc /\ parse'.file = f /\ parse'.first = first
       /\ parse'.pos = line - 1
  <2>1. NoParse \in ParseState
    BY DEF NoParse, ParseState
  <2>2. line - 1 \in Nat /\ pc \in {"off", "read", "done"}
    BY <1>2, <1>8
  <2> HIDE DEF pc
  <2>3. QED
    BY <1>1, <1>10, <2>1, <2>2 DEF ParseState
<1>12. usable \in SUBSET (1 .. n) /\ \A i \in usable : i >= line /\ Usable(files[f][i])
                                                     /\ files[f][i].size <= ReadTailBytes
  BY <1>2, <1>6, <1>7 DEF UsableIn
<1> HIDE DEF usable
<1>13. newest' # 0 => newest' \in usable
  <2>1. usable # {} => Max(usable) \in usable
    <3>1. usable \in SUBSET Nat /\ \A i \in usable : i <= n
      BY <1>2, <1>12
    <3>2. QED
      BY <1>2, <3>1, MaxFact
  <2>2. QED
    BY <1>1, <2>1
<1>14. newest' \in Nat
  <2>1. newest' = 0 \/ newest' \in 1 .. n
    BY <1>12, <1>13
  <2>2. QED
    BY <1>2, <2>1
<1>15. ASSUME newest' # 0
       PROVE  /\ newest' \in 1 .. n /\ Usable(files[f][newest'])
              /\ first <= newest' /\ ~(newest' <= line - 1) /\ pc = "read"
              /\ \A i \in line - 1 + 1 .. newest' : files[f][i].size <= ReadTailBytes
  <2>1. /\ newest' \in 1 .. n /\ newest' >= line /\ Usable(files[f][newest'])
        /\ files[f][newest'].size <= ReadTailBytes
    BY <1>12, <1>13, <1>15
  <2>2. line \in 1 .. n
    BY <1>2, <1>8, <2>1
  <2>3. pc = "read"
    <3>1. (line - 1 \in 1 .. n /\ line - 1 # n) \/ ~(piece > 0)
      BY <1>2, <1>8, <1>9, <2>2
    <3>2. piece > 0 => Ended(files[f][line - 1])
      BY <1>2, <3>1 DEF TranscriptsInv, LinesInOrder
    <3>3. QED
      BY <3>2
  <2>4. ASSUME NEW i \in line .. newest'
        PROVE  files[f][i].size <= ReadTailBytes
    <3>1. i \in 1 .. n
      BY <1>2, <2>1, <2>2
    <3>2. CASE i = newest'
      BY <2>1, <3>2
    <3>3. CASE i # newest'
      <4>1. Ended(files[f][i])
        BY <1>2, <2>1, <3>1, <3>3 DEF TranscriptsInv, LinesInOrder
      <4>2. Bytes(files[f][i]) = files[f][i].size
        BY <1>2, <3>1, <4>1 DEF Ended, Bytes
      <4>3. files[f][line].start <= files[f][i].start
        <5>1. i = line \/ files[f][line].start + files[f][line].size <= files[f][i].start
          BY <1>2, <2>2, <3>1 DEF TranscriptsInv, LinesInOrder
        <5>2. QED
          BY <1>2, <2>2, <3>1, <5>1
      <4>4. files[f][line].start >= seekPos
        BY <1>4, <1>6, <1>7, <2>2
      <4>5. files[f][i].start + files[f][i].size <= FileSize(f)
        BY <1>2, <3>1, <4>2
      <4>6. /\ files[f][i].size \in Nat /\ files[f][i].start \in Nat
            /\ files[f][line].start \in Nat /\ ReadTailBytes \in Nat
        BY <1>2, <2>2, <3>1, TranscriptsAssumption
      <4>7. files[f][i].start + files[f][i].size <= seekPos + ReadTailBytes
        BY <1>2, <1>3, <4>5, <4>6
      <4>8. QED
        BY <1>3, <4>3, <4>4, <4>6, <4>7
    <3>4. QED
      BY <3>2, <3>3
  <2>5. first <= newest' /\ ~(newest' <= line - 1) /\ line - 1 + 1 = line
    BY <1>2, <1>10, <2>1, <2>2
  <2>6. QED
    BY <2>1, <2>3, <2>4, <2>5
<1>16. TranscriptsTypeOK'
  BY <1>1, <1>11, <1>14 DEF TranscriptsInv, TranscriptsTypeOK, ByParse
<1>17. NewestIsReached'
  BY <1>1, <1>2, <1>11, <1>15 DEF NewestIsReached, ByParse, Usable, Legible
<1>18. QED
  BY <1>1, <1>16, <1>17, ParseLeaves DEF TranscriptsInv

\* What a status line has before it while it reads.
LEMMA ParseFact ==
  ASSUME TranscriptsInv, parse.pc = "read"
  PROVE  /\ parse \in ParseState /\ parse.file \in Files /\ parse.pos \in Nat
         /\ parse.usable \in SUBSET Nat /\ newest \in Nat
         /\ Len(files[parse.file]) \in Nat
         /\ DOMAIN files[parse.file] = 1 .. Len(files[parse.file])
         /\ newest # 0 =>
              /\ newest \in DOMAIN files[parse.file] /\ Usable(files[parse.file][newest])
              /\ parse.first <= newest
              /\ newest <= parse.pos => newest \in parse.usable
              /\ \A i \in parse.pos + 1 .. newest : files[parse.file][i].size <= ReadTailBytes
<1>1. parse.file \in Files /\ parse \in ParseState
  BY DEF TranscriptsInv, TranscriptsTypeOK, NewestIsReached
<1>2. QED
  BY <1>1, FileFact DEF TranscriptsInv, TranscriptsTypeOK, NewestIsReached, ParseState

LEMMA ScanLineStep ==
  ASSUME TranscriptsInv, ScanLine
  PROVE  TranscriptsInv'
<1> DEFINE f == parse.file
           i == parse.pos + 1
           usable == parse.usable \cup UsableIn(f, {i})
<1>1. /\ parse.pc = "read" /\ i <= Len(files[f])
      /\ parse' = [parse EXCEPT !.pos = i, !.usable = usable]
      /\ newest' = newest /\ ByParse
  BY DEF ScanLine
<1>2. i \in Nat /\ usable \in SUBSET Nat /\ i - 1 = parse.pos
  BY <1>1, ParseFact DEF UsableIn
<1>3. /\ parse' \in ParseState /\ parse'.pc = "read" /\ parse'.file = f
      /\ parse'.first = parse.first /\ parse'.pos = i /\ parse'.usable = usable
  <2> HIDE DEF i, usable
  <2>1. QED
    BY <1>1, <1>2, ParseFact DEF ParseState
<1>4. TranscriptsTypeOK'
  BY <1>1, <1>3 DEF TranscriptsInv, TranscriptsTypeOK, ByParse
<1>5. ASSUME newest # 0
      PROVE  /\ newest <= i => newest \in usable
             /\ \A j \in i + 1 .. newest : files[f][j].size <= ReadTailBytes
  <2>1. newest = i => newest \in usable
    BY <1>1, <1>5, ParseFact DEF UsableIn
  <2>2. newest <= i => newest = i \/ newest <= parse.pos
    BY <1>1, ParseFact
  <2>3. newest <= parse.pos => newest \in usable
    BY <1>1, <1>5, ParseFact
  <2>4. \A j \in i + 1 .. newest : j \in i .. newest
    BY <1>1, ParseFact
  <2>5. QED
    BY <1>1, <1>5, <2>1, <2>2, <2>3, <2>4, ParseFact
<1>6. NewestIsReached'
  <2> HIDE DEF i, usable
  <2>1. QED
    BY <1>1, <1>3, <1>5, ParseFact DEF NewestIsReached, ByParse, Usable, Legible
<1>7. QED
  BY <1>1, <1>4, <1>6, ParseLeaves DEF TranscriptsInv

\* The line at which the scanner stops is none of those up to the newest.
LEMMA ScanStopsStep ==
  ASSUME TranscriptsInv, ScanStops
  PROVE  TranscriptsInv'
<1> DEFINE f == parse.file
           i == parse.pos + 1
<1>1. /\ parse.pc = "read" /\ parse.pos < Len(files[f])
      /\ TooLong(files[f][i], ReadTailBytes)
      /\ parse' = [parse EXCEPT !.pc = "done"]
      /\ newest' = newest /\ ByParse
  BY DEF ScanStops
<1>2. /\ parse' \in ParseState /\ parse'.pc = "done" /\ parse'.file = f
      /\ parse'.first = parse.first /\ parse'.pos = parse.pos /\ parse'.usable = parse.usable
  BY <1>1, ParseFact DEF ParseState
<1>3. TranscriptsTypeOK'
  BY <1>1, <1>2 DEF TranscriptsInv, TranscriptsTypeOK, ByParse
<1>4. ASSUME newest # 0
      PROVE  newest <= parse.pos
  <2>1. i \in 1 .. Len(files[f])
    BY <1>1, ParseFact
  <2>2. /\ files[f][i].size \in Nat /\ files[f][i].left \in 0 .. 2
        /\ Bytes(files[f][i]) = files[f][i].size - files[f][i].left
    BY <1>1, <2>1, ParseFact, FileFact DEF Bytes, TranscriptsInv
  <2>3. files[f][i].size > ReadTailBytes
    <3>1. CASE Ended(files[f][i])
      <4>1. files[f][i].size - 1 >= ReadTailBytes
        BY <1>1, <3>1 DEF TooLong
      <4>2. QED
        BY <2>2, <4>1, TranscriptsAssumption
    <3>2. CASE ~Ended(files[f][i])
      <4>1. Bytes(files[f][i]) >= ReadTailBytes /\ files[f][i].left # 0
        BY <1>1, <3>2 DEF TooLong, Ended
      <4>2. QED
        BY <2>2, <4>1, TranscriptsAssumption
    <3>3. QED
      BY <3>1, <3>2
  <2>4. i \notin i .. newest
    BY <1>1, <1>4, <2>2, <2>3, ParseFact, TranscriptsAssumption
  <2>5. QED
    BY <1>1, <2>4, ParseFact
<1>5. NewestIsReached'
  BY <1>1, <1>2, <1>4, ParseFact DEF NewestIsReached, ByParse, Usable, Legible
<1>6. QED
  BY <1>1, <1>3, <1>5, ParseLeaves DEF TranscriptsInv

LEMMA ScanEndsStep ==
  ASSUME TranscriptsInv, ScanEnds
  PROVE  TranscriptsInv'
<1> DEFINE f == parse.file
           n == Len(files[f])
           usable == parse.usable \cup UsableIn(f, parse.pos + 1 .. n)
<1>1. /\ parse.pc = "read"
      /\ parse' = [parse EXCEPT !.pc = "done", !.pos = n, !.usable = usable]
      /\ newest' = newest /\ ByParse
  BY DEF ScanEnds
<1>2. n \in Nat /\ usable \in SUBSET Nat
  BY <1>1, ParseFact DEF UsableIn
<1>3. /\ parse' \in ParseState /\ parse'.pc = "done" /\ parse'.file = f
      /\ parse'.first = parse.first /\ parse'.pos = n /\ parse'.usable = usable
  <2> HIDE DEF n, usable
  <2>1. QED
    BY <1>1, <1>2, ParseFact DEF ParseState
<1>4. TranscriptsTypeOK'
  BY <1>1, <1>3 DEF TranscriptsInv, TranscriptsTypeOK, ByParse
<1>5. ASSUME newest # 0
      PROVE  newest <= n /\ newest \in usable /\ \A i \in n + 1 .. newest : FALSE
  <2>1. newest \in 1 .. n
    BY <1>1, <1>5, ParseFact
  <2>2. newest <= parse.pos => newest \in usable
    BY <1>1, <1>5, ParseFact
  <2>3. newest \in parse.pos + 1 .. n => newest \in usable
    BY <1>1, <1>5, ParseFact DEF UsableIn
  <2>4. QED
    BY <1>1, <2>1, <2>2, <2>3, ParseFact
<1>6. NewestIsReached'
  <2> HIDE DEF n, usable
  <2>1. QED
    BY <1>1, <1>3, <1>5, ParseFact DEF NewestIsReached, ByParse, Usable, Legible
<1>7. QED
  BY <1>1, <1>4, <1>6, ParseLeaves DEF TranscriptsInv

LEMMA EndParseStep ==
  ASSUME TranscriptsInv, EndParse
  PROVE  TranscriptsInv'
<1>1. parse' = NoParse /\ newest' = 0 /\ ByParse
  BY DEF EndParse
<1>2. parse' \in ParseState /\ parse'.pc = "off"
  BY <1>1 DEF NoParse, ParseState
<1>3. TranscriptsTypeOK' /\ NewestIsReached'
  BY <1>1, <1>2 DEF TranscriptsInv, TranscriptsTypeOK, NewestIsReached, ByParse
<1>4. QED
  BY <1>1, <1>3, ParseLeaves DEF TranscriptsInv

-----------------------------------------------------------------------------
(* The theorems.                                                           *)

LEMMA TranscriptsInvNext ==
  ASSUME TranscriptsInv, TranscriptsNext
  PROVE  TranscriptsInv'
<1>1. ASSUME NEW f \in Files, Finish(f)
      PROVE  TranscriptsInv'
  BY <1>1, FinishStep
<1>2. ASSUME NEW f \in Files, NEW shape \in Shapes, NEW left \in 0 .. 2, Write(f, shape, left)
      PROVE  TranscriptsInv'
  BY <1>2, WriteStep
<1>3. CASE Scan
  <2>1. ASSUME NEW p \in Projects, ListProject(p) \/ ProjectFails(p)
        PROVE  TranscriptsInv'
    BY <2>1, ListProjectStep, ProjectFailsStep
  <2>2. ASSUME NEW f \in Files, OpenFile(f) \/ OpenFails(f)
        PROVE  TranscriptsInv'
    BY <2>2, OpenFileStep, OpenFailsStep
  <2>3. QED
    BY <1>3, <2>1, <2>2, StartScanStep, ReadLineStep, EndFileStep, FileFailsStep, SumStep,
       EndScanStep DEF Scan
<1>4. CASE Parse
  <2>1. ASSUME NEW f \in Files, StartParse(f)
        PROVE  TranscriptsInv'
    BY <2>1, StartParseStep
  <2>2. QED
    BY <1>4, <2>1, ScanLineStep, ScanStopsStep, ScanEndsStep, EndParseStep DEF Parse
<1>5. CASE Tick
  BY <1>5, TickStep
<1>6. QED
  BY <1>1, <1>2, <1>3, <1>4, <1>5 DEF TranscriptsNext

\* Lines stay in order, what the scan knows stays accounted for and what a status
\* line should find stays within its reach.
THEOREM TranscriptsInvariant == TranscriptsSpec => []TranscriptsInv
<1>1. TranscriptsInv /\ [TranscriptsNext]_transcriptVars => TranscriptsInv'
  BY TranscriptsInvNext, TranscriptsInvStutter
<1>2. QED
  BY <1>1, TranscriptsInvInit, PTL DEF TranscriptsSpec

\* TranscriptsTypeOK, for any number of files and lines.
THEOREM TranscriptsTypes == TranscriptsSpec => []TranscriptsTypeOK
<1>1. TranscriptsInv => TranscriptsTypeOK
  BY DEF TranscriptsInv
<1>2. QED
  BY <1>1, TranscriptsInvariant, PTL

\* UsageIsCounted: no usage line that was there when a scan began is missing from
\* the window it belongs to, but for the files and directories that failed.
THEOREM KnownUsageIsCounted == TranscriptsSpec => []UsageIsCounted
<1>1. TranscriptsInv => UsageIsCounted
  <2> SUFFICES ASSUME TranscriptsInv, scan.pc = "sum", NEW id \in known
               PROVE  /\ LineOf(id).age <= FiveHours => id \in FiveHourEntries
                      /\ LineOf(id).age <= Week => id \in WeekEntries
    BY DEF UsageIsCounted
  <2>1. /\ id.file \in Files /\ id.line \in DOMAIN files[id.file] /\ id.file # None
        /\ Accounted(id) /\ scan \in ScanState
    BY KnownFact
  <2>2. scan.projects = {} /\ scan.files = {} /\ scan.file = None
    BY DEF TranscriptsInv, KnownIsAccounted
  <2>3. LineOf(id).age \in Nat /\ scan.took \in Nat
    BY <2>1, FileFact DEF LineOf, TranscriptsInv, Age, ScanState
  <2>4. LineOf(id).age <= Week => id \in scan.got
    BY <2>1, <2>2, <2>3, TranscriptsAssumption DEF Accounted
  <2>5. LineOf(id).age <= FiveHours => LineOf(id).age <= Week
    BY <2>3, TranscriptsAssumption
  <2>6. QED
    BY <2>4, <2>5 DEF FiveHourEntries, WeekEntries
<1>2. QED
  BY <1>1, TranscriptsInvariant, PTL

\* ContextIsFresh: a status line shows no older line than the newest that it could
\* have read when it looked at the size, unless MaxLines newer ones have come.
THEOREM ContextIsNewest == TranscriptsSpec => []ContextIsFresh
<1>1. TranscriptsInv => ContextIsFresh
  <2> SUFFICES ASSUME TranscriptsInv, parse.pc = "done", newest > parse.pos - MaxLines
               PROVE  Found >= newest
    BY DEF ContextIsFresh
  <2> DEFINE S == {0} \cup (Inspected \cap parse.usable)
  <2>1. /\ parse.pos \in Nat /\ parse.first \in Nat /\ newest \in Nat /\ MaxLines \in Nat
    BY TranscriptsAssumption DEF TranscriptsInv, TranscriptsTypeOK, ParseState
  <2>2. S \in SUBSET Nat /\ S # {} /\ \A i \in S : i <= parse.pos
    BY <2>1 DEF Inspected
  <2>3. newest \in S
    BY <2>1 DEF Inspected, TranscriptsInv, NewestIsReached
  <2> HIDE DEF S
  <2>4. Max(S) >= newest
    BY <2>1, <2>2, <2>3, MaxFact
  <2>5. QED
    BY <2>4 DEF Found, S
<1>2. QED
  BY <1>1, TranscriptsInvariant, PTL
===============================================================================
