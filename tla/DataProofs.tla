------------------------------ MODULE DataProofs ------------------------------
(***************************************************************************)
(* Proofs about what is computed from data of any length: the log of a     *)
(* session, the rules of an adapter, what they say of its tools, and what  *)
(* a command line asks for.                                                *)
(*                                                                         *)
(* Induction.  Every set of naturals has a least one (LeastIs), so a set   *)
(* that has 0 and the successor of each of its members has them all        *)
(* (Induction).  From it comes what a recursive function is: that it       *)
(* exists (JoinsExist, LaunchExists), and what it has at each place.       *)
(*                                                                         *)
(* SessionLog.  Every byte of the raw capture is recorded, waits for a     *)
(* record or is held back, in its order (ExactInv); what waits depends on  *)
(* the framing and on the place of the code (WaitInv); a follower is not   *)
(* ahead of the file (CursorInv).                                          *)
(*                                                                         *)
(* ProcessOutput.  What was captured are bytes of the stream at their      *)
(* places, and reading a text in pieces is reading it at once (AfterBoth), *)
(* so the lines that went out and the one that waits follow the lines of   *)
(* the stream (OutputInv).                                                 *)
(*                                                                         *)
(* AdapterRules.  What a compiler wrote of a bundle and a loader accepted  *)
(* is what the merged rules say, and these passed every check              *)
(* (AdapterInv).                                                           *)
(*                                                                         *)
(* ToolSetup.  A setup that resolved its tools has yet to write what they  *)
(* were resolved with (ResolvedInv).                                       *)
(*                                                                         *)
(* CommandLine.  Both parsers find the same options in a line (ReadsAll),  *)
(* a line that is written again has those that it is written for           *)
(* (LineOfIs), and no question but the one for consent asks for an option  *)
(* that says how a lock is cleared; so an invocation that leads to the     *)
(* clearing of one has those of its own line, and the one that a person    *)
(* agreed to (ConsentInv).                                                 *)
(***************************************************************************)
EXTENDS SessionLog, ProcessOutput, AdapterRules, ToolSetup, CommandLine, SequenceTheorems, FiniteSetTheorems,
        WellFoundedInduction, TLAPS

LEMMA LeastIs ==
  ASSUME NEW T, T \subseteq Nat, T # {}
  PROVE  \E x \in T : \A y \in T : x <= y
<1> DEFINE R == OpToRel(<, Nat)
<1>1. IsWellFoundedOn(R, Nat)
  BY NatLessThanWellFounded
<1>2. \A x, y \in Nat : <<x, y>> \in R <=> x < y
  BY DEF OpToRel
<1> HIDE DEF R
<1>3. PICK x \in T : \A y \in T : ~ (<<y, x>> \in R)
  BY <1>1, WFMin
<1>4. ASSUME NEW y \in T  PROVE x <= y
  <2>1. x \in Nat /\ y \in Nat /\ ~ (<<y, x>> \in R)
    BY <1>3
  <2> QED
    BY <1>2, <2>1
<1> QED
  BY <1>4

(* Induction on the naturals, for membership in a set.                     *)
LEMMA Induction ==
  ASSUME NEW S, 0 \in S, \A n \in Nat : n \in S => n + 1 \in S
  PROVE  Nat \subseteq S
<1>1. SUFFICES ASSUME Nat \ S # {}  PROVE FALSE
  OBVIOUS
<1>2. PICK m \in Nat \ S : \A y \in Nat \ S : m <= y
  BY <1>1, LeastIs
<1>3. m # 0 /\ m - 1 \in Nat /\ m - 1 < m
  BY <1>2
<1>4. m - 1 \in S
  BY <1>2, <1>3
<1> QED
  BY <1>2, <1>3, <1>4

\* f joins the first n of the sequences, one after the other.
Joins(seqs, n, f) == f = [i \in 1 .. n |-> IF i = 1 THEN seqs[i] ELSE f[i - 1] \o seqs[i]]

LEMMA JoinsAre ==
  ASSUME NEW seqs, NEW n \in Nat, NEW f
  PROVE  Joins(seqs, n, f) <=>
           /\ f = [i \in 1 .. n |-> f[i]]
           /\ \A i \in 1 .. n : f[i] = IF i = 1 THEN seqs[i] ELSE f[i - 1] \o seqs[i]
<1> DEFINE Value(i) == IF i = 1 THEN seqs[i] ELSE f[i - 1] \o seqs[i]
<1>1. Joins(seqs, n, f) <=> f = [i \in 1 .. n |-> Value(i)]
  BY DEF Joins
<1> HIDE DEF Value
<1>2. f = [i \in 1 .. n |-> Value(i)] <=> f = [i \in 1 .. n |-> f[i]] /\ \A i \in 1 .. n : f[i] = Value(i)
  OBVIOUS
<1> QED
  BY <1>1, <1>2 DEF Value

LEMMA JoinsExist ==
  ASSUME NEW seqs
  PROVE  \A n \in Nat : \E f : Joins(seqs, n, f)
<1> DEFINE S == {n \in Nat : \E f : Joins(seqs, n, f)}
<1>1. 0 \in S
  <2> DEFINE f == [i \in 1 .. 0 |-> seqs[i]]
  <2>1. f = [i \in 1 .. 0 |-> f[i]] /\ \A i \in 1 .. 0 : FALSE
    OBVIOUS
  <2> HIDE DEF f
  <2>2. Joins(seqs, 0, f)
    BY <2>1, JoinsAre
  <2> QED
    BY <2>2
<1>2. ASSUME NEW n \in Nat, n \in S  PROVE n + 1 \in S
  <2>1. PICK f : Joins(seqs, n, f)
    BY <1>2
  <2>2. \A i \in 1 .. n : f[i] = IF i = 1 THEN seqs[i] ELSE f[i - 1] \o seqs[i]
    BY <2>1, JoinsAre
  <2> DEFINE last == IF n = 0 THEN seqs[1] ELSE f[n] \o seqs[n + 1]
             g == [i \in 1 .. n + 1 |-> IF i = n + 1 THEN last ELSE f[i]]
  <2>3. ASSUME NEW i \in 1 .. n + 1
        PROVE  g[i] = IF i = 1 THEN seqs[i] ELSE g[i - 1] \o seqs[i]
    <3>1. CASE i = n + 1 /\ n # 0
      <4>1. n \in 1 .. n + 1 /\ n # n + 1 /\ i # 1 /\ i - 1 = n
        BY <3>1
      <4>2. g[n] = f[n] /\ g[i] = f[n] \o seqs[n + 1]
        BY <3>1, <4>1
      <4> QED
        BY <3>1, <4>1, <4>2
    <3>2. CASE i = n + 1 /\ n = 0
      BY <3>2
    <3>3. CASE i # n + 1
      <4>1. i \in 1 .. n /\ (i # 1 => i - 1 \in 1 .. n + 1 /\ i - 1 # n + 1)
        BY <3>3
      <4>2. g[i] = f[i] /\ (i # 1 => g[i - 1] = f[i - 1])
        BY <3>3, <4>1
      <4> QED
        BY <2>2, <4>1, <4>2
    <3> QED
      BY <3>1, <3>2, <3>3
  <2>4. g = [i \in 1 .. n + 1 |-> g[i]]
    OBVIOUS
  <2> HIDE DEF g
  <2>5. PICK m \in Nat : m = n + 1
    OBVIOUS
  <2>6. g = [i \in 1 .. m |-> g[i]] /\ \A i \in 1 .. m : g[i] = IF i = 1 THEN seqs[i] ELSE g[i - 1] \o seqs[i]
    BY <2>3, <2>4, <2>5
  <2>7. Joins(seqs, m, g)
    BY <2>6, JoinsAre
  <2> QED
    BY <2>5, <2>7
<1> HIDE DEF S
<1>3. Nat \subseteq S
  BY <1>1, <1>2, Induction
<1> QED
  BY <1>3 DEF S

\* What is joined first does not depend on what comes after it.
LEMMA JoinsAgree ==
  ASSUME NEW m \in Nat, NEW n \in Nat, m <= n
  PROVE  \A one, two, f, g : (\A i \in 1 .. m : one[i] = two[i]) /\ Joins(one, m, f) /\ Joins(two, n, g)
                              => \A i \in 1 .. m : f[i] = g[i]
<1>0. SUFFICES ASSUME NEW one, NEW two, NEW f, NEW g,
                      \A i \in 1 .. m : one[i] = two[i], Joins(one, m, f), Joins(two, n, g)
               PROVE  \A i \in 1 .. m : f[i] = g[i]
  OBVIOUS
<1>1. /\ \A i \in 1 .. m : f[i] = IF i = 1 THEN one[i] ELSE f[i - 1] \o one[i]
      /\ \A i \in 1 .. n : g[i] = IF i = 1 THEN two[i] ELSE g[i - 1] \o two[i]
  BY <1>0, JoinsAre
<1> DEFINE S == {k \in Nat : k \in 1 .. m => f[k] = g[k]}
<1>2. 0 \in S
  OBVIOUS
<1>3. ASSUME NEW k \in Nat, k \in S  PROVE k + 1 \in S
  <2>1. CASE k + 1 \in 1 .. m
    <3>1. k + 1 \in 1 .. n /\ (k # 0 => k \in 1 .. m) /\ (k + 1) - 1 = k /\ (k = 0 <=> k + 1 = 1)
      BY <2>1
    <3>2. CASE k = 0
      BY <1>0, <1>1, <2>1, <3>1, <3>2
    <3>3. CASE k # 0
      <4>1. f[k] = g[k]
        BY <1>3, <3>1, <3>3
      <4>2. f[k + 1] = f[k] \o one[k + 1] /\ g[k + 1] = g[k] \o two[k + 1]
        BY <1>1, <2>1, <3>1, <3>3
      <4>3. one[k + 1] = two[k + 1]
        BY <1>0, <2>1
      <4>4. f[k + 1] = g[k + 1]
        BY <4>1, <4>2, <4>3, Zenon
      <4> QED
        BY <4>4
    <3> QED
      BY <3>2, <3>3
  <2> QED
    BY <2>1
<1> HIDE DEF S
<1>4. Nat \subseteq S
  BY <1>2, <1>3, Induction
<1> QED
  BY <1>4 DEF S

LEMMA FlattenIs ==
  ASSUME NEW seqs, Len(seqs) \in Nat, Len(seqs) # 0
  PROVE  \E f : Joins(seqs, Len(seqs), f) /\ FlattenSeq(seqs) = f[Len(seqs)]
<1> DEFINE f == CHOOSE f : Joins(seqs, Len(seqs), f)
<1>1. Joins(seqs, Len(seqs), f)
  BY JoinsExist
<1>2. FlattenSeq(seqs) = f[Len(seqs)]
  BY Zenon DEF FlattenSeq, Joins
<1> HIDE DEF f
<1> QED
  BY <1>1, <1>2

(* A sequence more is flattened to its elements more.                      *)
LEMMA FlattenMore ==
  ASSUME NEW seqs, NEW more, NEW n \in Nat, NEW m \in Nat, Len(seqs) = n, Len(more) = m, n # 0, m = n + 1,
         \A i \in 1 .. n : seqs[i] = more[i]
  PROVE  FlattenSeq(more) = FlattenSeq(seqs) \o more[m]
<1>1. PICK f : Joins(seqs, n, f) /\ FlattenSeq(seqs) = f[n]
  BY FlattenIs
<1>2. PICK g : Joins(more, m, g) /\ FlattenSeq(more) = g[m]
  BY FlattenIs
<1>3. \A i \in 1 .. m : g[i] = IF i = 1 THEN more[i] ELSE g[i - 1] \o more[i]
  BY <1>2, JoinsAre
<1>4. \A i \in 1 .. n : f[i] = g[i]
  BY <1>1, <1>2, JoinsAgree
<1>5. n \in 1 .. n /\ m \in 1 .. m /\ m # 1 /\ m - 1 = n
  OBVIOUS
<1>6. g[m] = g[n] \o more[m]
  BY <1>3, <1>5
<1> QED
  BY <1>1, <1>2, <1>4, <1>5, <1>6

(* A sequence more is flattened to its elements more.                      *)
LEMMA FlattenAppend ==
  ASSUME NEW T, NEW seqs \in Seq(Seq(T)), NEW s \in Seq(T)
  PROVE  FlattenSeq(Append(seqs, s)) = FlattenSeq(seqs) \o s
<1> SUFFICES ASSUME NEW before, before \in Seq(Seq(T))
             PROVE  FlattenSeq(Append(before, s)) = FlattenSeq(before) \o s
  OBVIOUS
<1>1. PICK n \in Nat : n = Len(before)
  BY LenProperties
<1>2. PICK m \in Nat : m = n + 1
  OBVIOUS
<1>3. PICK more : more = Append(before, s)
  BY Zenon
<1>4. Len(more) = m /\ more[m] = s /\ \A i \in 1 .. n : before[i] = more[i]
  BY <1>1, <1>2, <1>3, AppendProperties
<1>5. CASE n = 0
  <2>1. FlattenSeq(before) = <<>>
    BY <1>1, <1>5, EmptySeq DEF FlattenSeq
  <2>2. PICK g : Joins(more, m, g) /\ FlattenSeq(more) = g[m]
    <3>1. Len(more) \in Nat /\ Len(more) # 0 /\ Len(more) = m
      BY <1>2, <1>4
    <3>2. PICK g : Joins(more, Len(more), g) /\ FlattenSeq(more) = g[Len(more)]
      BY <3>1, FlattenIs
    <3> QED
      BY <3>1, <3>2
  <2>3. \A i \in 1 .. m : g[i] = IF i = 1 THEN more[i] ELSE g[i - 1] \o more[i]
    BY <2>2, JoinsAre
  <2>4. FlattenSeq(more) = s
    BY <1>2, <1>3, <1>4, <1>5, <2>2, <2>3
  <2> QED
    BY <1>2, <1>3, <2>1, <2>4, ConcatEmptySeq
<1>6. CASE n # 0
  <2>1. Len(before) = n
    BY <1>1
  <2>2. FlattenSeq(more) = FlattenSeq(before) \o more[m]
    BY <1>2, <1>3, <1>4, <1>6, <2>1, FlattenMore
  <2> QED
    BY <1>2, <1>3, <1>4, <2>2
<1> QED
  BY <1>5, <1>6

LEMMA FlattenTyped ==
  ASSUME NEW T
  PROVE  \A seqs \in Seq(Seq(T)) : FlattenSeq(seqs) \in Seq(T)
<1> DEFINE S == {n \in Nat : \A seqs \in Seq(Seq(T)) : Len(seqs) = n => FlattenSeq(seqs) \in Seq(T)}
<1>1. 0 \in S
  <2>1. ASSUME NEW seqs \in Seq(Seq(T)), Len(seqs) = 0  PROVE FlattenSeq(seqs) \in Seq(T)
    <3>1. seqs = <<>>
      BY <2>1, EmptySeq
    <3> QED
      BY <2>1, <3>1, EmptySeq DEF FlattenSeq
  <2> QED
    BY <2>1
<1>2. ASSUME NEW n \in Nat, n \in S  PROVE n + 1 \in S
  <2>1. ASSUME NEW seqs \in Seq(Seq(T)), Len(seqs) = n + 1  PROVE FlattenSeq(seqs) \in Seq(T)
    <3>1. seqs # <<>>
      BY <2>1, EmptySeq
    <3>2. PICK before \in Seq(Seq(T)), s \in Seq(T) : seqs = Append(before, s)
      BY <3>1, SequenceEmptyOrAppend
    <3>3. Len(before) = n
      BY <2>1, <3>2, AppendProperties, LenProperties
    <3>4. FlattenSeq(before) \in Seq(T)
      BY <1>2, <3>3
    <3> QED
      BY <3>2, <3>4, FlattenAppend, ConcatProperties
  <2> QED
    BY <2>1
<1> HIDE DEF S
<1>3. Nat \subseteq S
  BY <1>1, <1>2, Induction
<1> QED
  BY <1>3, LenProperties DEF S

-----------------------------------------------------------------------------
Record == [text : Seq(Byte), end : Ending]

\* What a record stands for, and what the records of a file stand for.
BytesOf(r) == r.text \o r.end
BytesIn(file) == [i \in DOMAIN file |-> BytesOf(file[i])]
RecordedIn(file) == FlattenSeq(BytesIn(file))

\* The operators of the module, of any spool.
DueIn(s) == IF s.mode = "line" THEN HasLine(s.pending) ELSE s.due
NextIn(s) == IF s.mode = "line" THEN TextOf(FirstLine(s.pending)) ELSE s.pending
FitsIn(s, text) == Len(s.file) < RecordLimit /\ s.bytes + Size(text) <= SpoolLimit

\* Every byte of the raw capture is recorded, waits for a record or is held back,
\* in its order.
ExactInv(s) == RecordedIn(s.file) \o (s.pending \o s.held) = s.raw

\* What waits, at each place of the code.
WaitInv(s) ==
  /\ s.torn => DueIn(s) /\ FitsIn(s, NextIn(s))
  /\ s.mode = "line" => ~s.due
  /\ s.mode # "line" /\ ~s.due => s.pending = <<>>
  /\ s.mode = "binary" => s.held = <<>>
  /\ s.state = "closed" => s.pending = <<>> /\ (s.mode = "line" => s.held = <<>>)

LimitInv(s) == Len(s.raw) <= RawLimit /\ Len(s.file) <= RecordLimit /\ s.bytes <= SpoolLimit

\* A carriage return that ended a line is not in its record.
EndsInv(s) == \A i \in DOMAIN s.file : s.file[i].end = <<"n">> => ~Returned(s.file[i].text)

SpoolFine(s) == ExactInv(s) /\ WaitInv(s) /\ LimitInv(s) /\ EndsInv(s)

\* A follower is not ahead of the file, and what it got is of before its cursor.
CursorInv(f, s) ==
  /\ f.cursor <= Len(s.file)
  /\ \A i \in DOMAIN f.got : f.got[i] \in 1 .. f.cursor
  /\ \A i, j \in DOMAIN f.got : i < j => f.got[i] < f.got[j]
  /\ ~f.skipped => f.got = [i \in 1 .. f.cursor |-> i]

LogInv == LogTypeOK /\ SpoolFine(spool) /\ CursorInv(follower, spool)

LEMMA PartIsSeq ==
  ASSUME NEW S, NEW s \in Seq(S), NEW m \in Nat, NEW n \in Nat, 1 <= m, n <= Len(s)
  PROVE  SubSeq(s, m, n) \in Seq(S)
<1>1. \A i \in m .. n : s[i] \in S
  <2>1. ASSUME NEW i \in m .. n  PROVE s[i] \in S
    <3>1. i \in 1 .. Len(s)
      BY LenProperties
    <3> QED
      BY <3>1, ElementOfSeq
  <2> QED
    BY <2>1
<1> QED
  BY <1>1, SubSeqProperties

Associates(one, two, three) == (one \o two) \o three = one \o (two \o three)

LEMMA BytesAssociate ==
  \A one, two, three \in Seq(Byte) : Associates(one, two, three)
BY ConcatAssociative DEF Associates

LEMMA EmptyCat ==
  /\ <<>> \o <<>> = <<>>
  /\ \A one \in Seq(Byte) : <<>> \o one = one /\ one \o <<>> = one
BY ConcatEmptySeq, EmptySeq

\* What is before the last byte, and the last byte.
LEMMA LastCut ==
  ASSUME NEW b \in Seq(Byte), b # <<>>
  PROVE  Front(b) \in Seq(Byte) /\ Front(b) \o <<Last(b)>> = b
<1>1. PICK n \in Nat : n = Len(b) /\ n # 0
  BY EmptySeq, LenProperties
<1>2. 1 \in 1 .. n /\ n \in 1 .. n /\ n - 1 \in Nat /\ n - 1 <= n
  BY <1>1
<1>3. SubSeq(b, 1, n) = SubSeq(b, 1, n - 1) \o <<b[n]>>
  BY <1>1, <1>2, SubSeqRecursiveSecond
<1>4. SubSeq(b, 1, n) = b
  BY <1>1, SubSeqFull
<1>5. Front(b) = SubSeq(b, 1, n - 1)
  BY <1>1 DEF Front
<1>6. SubSeq(b, 1, n - 1) \in Seq(Byte)
  BY <1>1, <1>2, PartIsSeq
<1> QED
  BY <1>1, <1>3, <1>4, <1>5, <1>6 DEF Last

(* The decoder keeps what it does not pass on.                             *)
LEMMA DecodedExact ==
  ASSUME NEW b \in Seq(Byte)
  PROVE  /\ Decoded(b) \in Seq(Byte)
         /\ Decoded(b) \o (IF Halved(b) THEN <<"h">> ELSE <<>>) = b
<1>1. CASE Halved(b)
  BY <1>1, LastCut DEF Halved, Decoded
<1>2. CASE ~Halved(b)
  BY <1>2, ConcatEmptySeq DEF Decoded
<1> QED
  BY <1>1, <1>2

(* A line is in its record but for how it ended, and only one carriage     *)
(* return belongs to the end.                                              *)
LEMMA LineIsRecorded ==
  ASSUME NEW line \in Seq(Byte)
  PROVE  /\ TextOf(line) \in Seq(Byte) /\ EndOf(line) \in Ending
         /\ TextOf(line) \o EndOf(line) = line \o <<"n">>
         /\ EndOf(line) = <<"n">> => ~Returned(TextOf(line))
<1>1. CASE Returned(line)
  <2>1. PICK front \in Seq(Byte) : front = Front(line) /\ front \o <<"r">> = line
    BY <1>1, LastCut DEF Returned
  <2>2. PICK one \in Seq(Byte), two \in Seq(Byte) : one = <<"r">> /\ two = <<"n">>
    <3>1. <<"r">> \in Seq(Byte) /\ <<"n">> \in Seq(Byte)
      BY DEF Byte
    <3> QED
      BY <3>1, Zenon
  <2>3. one \o two = <<"r", "n">>
    <3>1. PICK both \in Seq(Byte) : both = one \o two
      BY ConcatProperties
    <3>2. PICK end \in Seq(Byte) : end = <<"r", "n">>
      <4>1. <<"r", "n">> \in Seq(Byte)
        BY DEF Byte
      <4> QED
        BY <4>1, Zenon
    <3>3. Len(one) = 1 /\ one[1] = "r" /\ Len(two) = 1 /\ two[1] = "n"
      BY <2>2
    <3>4. Len(end) = 2 /\ end[1] = "r" /\ end[2] = "n"
      BY <3>2
    <3>5. Len(both) = 2 /\ both[1] = "r" /\ both[2] = "n"
      <4>1. /\ Len(both) = Len(one) + Len(two)
            /\ \A i \in 1 .. Len(one) + Len(two) : both[i] = IF i <= Len(one) THEN one[i] ELSE two[i - Len(one)]
        BY <3>1, ConcatProperties
      <4>2. 1 \in 1 .. 1 + 1 /\ 2 \in 1 .. 1 + 1 /\ 1 <= 1 /\ ~(2 <= 1) /\ 2 - 1 = 1
        OBVIOUS
      <4>3. both[1] = one[1] /\ both[2] = two[1]
        BY <3>3, <4>1, <4>2
      <4> QED
        BY <3>3, <4>1, <4>3
    <3>6. Len(both) = Len(end) /\ \A i \in 1 .. Len(both) : both[i] = end[i]
      BY <3>4, <3>5
    <3>7. both = end
      BY <3>6, SeqEqual
    <3> QED
      BY <3>1, <3>2, <3>7, Zenon
  <2>4. Associates(front, one, two)
    BY BytesAssociate
  <2>5. front \o <<"r", "n">> = line \o <<"n">>
    BY <2>1, <2>2, <2>3, <2>4, Zenon DEF Associates
  <2>6. <<"r", "n">> # <<"n">>
    <3>1. Len(<<"r", "n">>) = 2 /\ Len(<<"n">>) = 1
      OBVIOUS
    <3> QED
      BY <3>1
  <2> QED
    BY <1>1, <2>1, <2>5, <2>6 DEF TextOf, EndOf, Ending
<1>2. CASE ~Returned(line)
  BY <1>2 DEF TextOf, EndOf, Ending
<1> QED
  BY <1>1, <1>2

(* A line, its newline and the rest are the text.                          *)
LEMMA LineCut ==
  ASSUME NEW p \in Seq(Byte), HasLine(p)
  PROVE  /\ FirstLine(p) \in Seq(Byte) /\ RestOf(p) \in Seq(Byte)
         /\ (FirstLine(p) \o <<"n">>) \o RestOf(p) = p
<1>1. PICK n \in Nat : n = Len(p) /\ DOMAIN p = 1 .. n
  BY LenProperties
<1>2. PICK e \in 1 .. n : p[e] = "n" /\ e = LineEnd(p)
  <2> DEFINE T == {i \in 1 .. n : p[i] = "n"}
  <2>1. T \subseteq Nat /\ T # {}
    BY <1>1 DEF HasLine
  <2>2. PICK i \in T : \A j \in T : i <= j
    BY <2>1, LeastIs
  <2>3. i \in 1 .. n /\ p[i] = "n"
    OBVIOUS
  <2>4. \A j \in 1 .. i - 1 : p[j] # "n"
    <3>1. ASSUME NEW j \in 1 .. i - 1, p[j] = "n"  PROVE FALSE
      <4>1. j \in T
        BY <2>3, <3>1
      <4> QED
        BY <2>2, <2>3, <4>1
    <3> QED
      BY <3>1
  <2>5. \E k \in DOMAIN p : p[k] = "n" /\ \A j \in 1 .. k - 1 : p[j] # "n"
    BY <1>1, <2>3, <2>4
  <2>6. LineEnd(p) \in DOMAIN p /\ p[LineEnd(p)] = "n"
    BY <2>5, Zenon DEF LineEnd
  <2> QED
    BY <1>1, <2>6
<1>3. e - 1 \in Nat /\ e - 1 <= n /\ e \in Nat /\ e + 1 \in Nat /\ 1 <= e + 1 /\ n <= n /\ 1 \in 1 .. n
  BY <1>2
<1>4. SubSeq(p, 1, e - 1) \in Seq(Byte) /\ SubSeq(p, e + 1, n) \in Seq(Byte)
  BY <1>1, <1>3, PartIsSeq
<1>5. SubSeq(p, 1, e) = SubSeq(p, 1, e - 1) \o <<p[e]>>
  BY <1>1, <1>2, <1>3, SubSeqRecursiveSecond
<1>6. SubSeq(p, 1, e) \o SubSeq(p, e + 1, n) = SubSeq(p, 1, n)
  <2>1. 1 \in 1 .. Len(p) + 1 /\ e \in 0 .. Len(p) /\ n \in e .. Len(p)
    BY <1>1, <1>2
  <2> QED
    BY <2>1, ConcatAdjacentSubSeq
<1>7. SubSeq(p, 1, n) = p
  BY <1>1, SubSeqFull
<1> QED
  BY <1>1, <1>2, <1>4, <1>5, <1>6, <1>7 DEF RestOf, FirstLine

LEMMA BytesTyped ==
  ASSUME NEW r \in Record
  PROVE  BytesOf(r) \in Seq(Byte)
<1>1. r.text \in Seq(Byte) /\ r.end \in Ending
  BY DEF Record
<1>2. <<>> \in Seq(Byte) /\ <<"n">> \in Seq(Byte) /\ <<"r", "n">> \in Seq(Byte)
  BY DEF Byte
<1>3. r.end \in Seq(Byte)
  BY <1>1, <1>2 DEF Ending
<1> QED
  BY <1>1, <1>3, ConcatProperties DEF BytesOf

\* A record that keeps to its end joins a file whose records do.
LEMMA EndsAppend ==
  ASSUME NEW s, NEW q, NEW r \in Record, s.file \in Seq(Record), q.file = Append(s.file, r), EndsInv(s),
         r.end = <<"n">> => ~Returned(r.text)
  PROVE  EndsInv(q)
<1>1. PICK n \in Nat, file \in Seq(Record) : file = s.file /\ n = Len(file) /\ DOMAIN file = 1 .. n
  BY LenProperties
<1>2. PICK more \in Seq(Record) : more = Append(file, r)
  BY AppendProperties
<1>3. Len(more) = n + 1 /\ more[n + 1] = r /\ \A i \in 1 .. n : more[i] = file[i]
  BY <1>1, <1>2, AppendProperties
<1>4. DOMAIN more = 1 .. n + 1
  BY <1>3, LenProperties
<1>5. ASSUME NEW i \in 1 .. n + 1, more[i].end = <<"n">>  PROVE ~Returned(more[i].text)
  <2>1. CASE i = n + 1
    BY <1>3, <1>5, <2>1
  <2>2. CASE i # n + 1
    <3>1. i \in DOMAIN file
      BY <1>1, <2>2
    <3>2. more[i] = file[i]
      BY <1>1, <1>3, <3>1
    <3> QED
      BY <1>1, <1>5, <3>1, <3>2 DEF EndsInv
  <2> QED
    BY <2>1, <2>2
<1> QED
  BY <1>1, <1>2, <1>4, <1>5 DEF EndsInv

LEMMA BytesInTyped ==
  ASSUME NEW file \in Seq(Record)
  PROVE  BytesIn(file) \in Seq(Seq(Byte)) /\ Len(BytesIn(file)) = Len(file)
<1>1. PICK n \in Nat : n = Len(file) /\ DOMAIN file = 1 .. n
  BY LenProperties
<1>2. \A i \in 1 .. n : BytesOf(file[i]) \in Seq(Byte)
  BY <1>1, ElementOfSeq, BytesTyped
<1>3. BytesIn(file) = [i \in 1 .. n |-> BytesOf(file[i])]
  BY <1>1, Zenon DEF BytesIn
<1>4. BytesIn(file) \in [1 .. n -> Seq(Byte)]
  BY <1>2, <1>3
<1>5. BytesIn(file) \in Seq(Seq(Byte))
  BY <1>4, SeqDef
<1>6. DOMAIN BytesIn(file) = 1 .. n
  BY <1>3
<1> QED
  BY <1>1, <1>5, <1>6, LenProperties

(* What a record adds to the records of a file.                            *)
LEMMA RecordedAppend ==
  ASSUME NEW file \in Seq(Record), NEW r \in Record
  PROVE  RecordedIn(Append(file, r)) = RecordedIn(file) \o BytesOf(r)
<1>1. PICK n \in Nat : n = Len(file) /\ DOMAIN file = 1 .. n
  BY LenProperties
<1>2. PICK more \in Seq(Record) : more = Append(file, r)
  BY AppendProperties
<1>3. Len(more) = n + 1 /\ more[n + 1] = r /\ \A i \in 1 .. n : more[i] = file[i]
  BY <1>1, <1>2, AppendProperties
<1>4. DOMAIN more = 1 .. n + 1
  BY <1>3, LenProperties
<1>5. PICK old \in Seq(Seq(Byte)), new \in Seq(Seq(Byte)), b \in Seq(Byte) :
        old = BytesIn(file) /\ new = BytesIn(more) /\ b = BytesOf(r)
  BY BytesInTyped, BytesTyped
<1>6. PICK both \in Seq(Seq(Byte)) : both = Append(old, b)
  BY AppendProperties
<1>7. Len(old) = n /\ Len(new) = n + 1 /\ Len(both) = n + 1
  BY <1>1, <1>3, <1>5, <1>6, BytesInTyped, AppendProperties
<1>8. ASSUME NEW i \in 1 .. n + 1  PROVE new[i] = both[i]
  <2>1. new[i] = BytesOf(more[i])
    BY <1>4, <1>5, Zenon DEF BytesIn
  <2>2. CASE i = n + 1
    <3>1. both[n + 1] = b
      BY <1>6, <1>7, AppendProperties
    <3> QED
      BY <1>3, <1>5, <2>1, <2>2, <3>1
  <2>3. CASE i # n + 1
    <3>1. i \in 1 .. n
      BY <2>3
    <3>2. both[i] = old[i]
      BY <1>6, <1>7, <3>1, AppendProperties
    <3>3. old[i] = BytesOf(file[i])
      BY <1>1, <1>5, <3>1, Zenon DEF BytesIn
    <3>4. more[i] = file[i]
      BY <1>3, <3>1
    <3> QED
      BY <2>1, <3>2, <3>3, <3>4
  <2> QED
    BY <2>2, <2>3
<1>9. new = both
  <2>1. Len(new) = Len(both) /\ \A i \in 1 .. Len(new) : new[i] = both[i]
    BY <1>7, <1>8
  <2> QED
    BY <2>1, SeqEqual
<1>10. FlattenSeq(new) = FlattenSeq(old) \o b
  BY <1>6, <1>9, FlattenAppend
<1> QED
  BY <1>2, <1>5, <1>10 DEF RecordedIn

LEMMA RecordedTyped ==
  ASSUME NEW file \in Seq(Record)
  PROVE  RecordedIn(file) \in Seq(Byte)
BY BytesInTyped, FlattenTyped DEF RecordedIn

LEMMA LogTyped ==
  ASSUME LogInv
  PROVE  /\ spool \in Spooling /\ spool.mode \in Mode /\ spool.raw \in Seq(Byte)
         /\ spool.held \in {<<>>, <<"h">>} /\ spool.held \in Seq(Byte) /\ spool.pending \in Seq(Byte)
         /\ spool.due \in BOOLEAN /\ spool.file \in Seq(Record) /\ spool.bytes \in Nat /\ spool.torn \in BOOLEAN
         /\ spool.state \in {"open", "failed", "closed", "killed"}
         /\ follower \in Following /\ follower.cursor \in Nat /\ follower.got \in Seq(Nat)
         /\ follower.skipped \in BOOLEAN /\ follower.state \in {"follows", "corrupt"}
         /\ SpoolFine(spool) /\ CursorInv(follower, spool)
<1>1. spool \in Spooling /\ follower \in Following /\ SpoolFine(spool) /\ CursorInv(follower, spool)
  BY DEF LogInv, LogTypeOK
<1>2. <<>> \in Seq(Byte) /\ <<"h">> \in Seq(Byte)
  BY DEF Byte
<1> QED
  BY <1>1, <1>2 DEF Spooling, Following, Record

LEMMA HeldTyped == {<<>>, <<"h">>} \subseteq Seq(Byte)
<1>1. <<>> \in Seq(Byte) /\ <<"h">> \in Seq(Byte)
  BY DEF Byte
<1> QED
  BY <1>1

LEMMA LogIs ==
  ASSUME NEW s \in Spooling, NEW f \in Following, spool' = s, follower' = f, SpoolFine(s), CursorInv(f, s)
  PROVE  LogInv'
BY DEF LogInv, LogTypeOK

\* What the spool does to its file does not move a follower.
LEMMA CursorKept ==
  ASSUME NEW f, NEW s, NEW q, CursorInv(f, s), f.cursor \in Nat, Len(s.file) \in Nat, Len(q.file) \in Nat,
         Len(s.file) <= Len(q.file)
  PROVE  CursorInv(f, q)
BY DEF CursorInv

LEMMA LogInitially ==
  ASSUME LogInit
  PROVE  LogInv
<1>1. PICK m \in Mode :
        spool = [mode |-> m, raw |-> <<>>, held |-> <<>>, pending |-> <<>>, due |-> FALSE,
                 file |-> <<>>, bytes |-> 0, torn |-> FALSE, state |-> "open"]
  BY DEF LogInit
<1>2. follower = [cursor |-> 0, got |-> <<>>, skipped |-> FALSE, state |-> "follows"]
  BY DEF LogInit
<1>3. /\ <<>> \in Seq(Byte) /\ <<>> \in Seq(Record) /\ <<>> \in Seq(Nat)
      /\ Len(<<>>) = 0
  BY EmptySeq
<1>4. spool \in Spooling
  BY <1>1, <1>3 DEF Spooling, Record
<1>5. follower \in Following
  BY <1>2, <1>3 DEF Following
<1>6. RecordedIn(<<>>) = <<>>
  <2>1. BytesIn(<<>>) \in Seq(Seq(Byte)) /\ Len(BytesIn(<<>>)) = 0
    BY <1>3, BytesInTyped
  <2>2. BytesIn(<<>>) = <<>>
    BY <2>1, EmptySeq
  <2> QED
    BY <1>3, <2>2 DEF RecordedIn, FlattenSeq
<1>7. ExactInv(spool)
  BY <1>1, <1>3, <1>6, ConcatEmptySeq DEF ExactInv
<1>8. WaitInv(spool)
  BY <1>1 DEF WaitInv
<1>9. LimitInv(spool)
  BY <1>1, <1>3, LimitsAssumption DEF LimitInv
<1>11. EndsInv(spool)
  BY <1>1 DEF EndsInv
<1>10. CursorInv(follower, spool)
  <2>1. DOMAIN follower.got = {} /\ follower.cursor = 0 /\ Len(spool.file) = 0
    BY <1>1, <1>2, <1>3
  <2>2. follower.got = [i \in 1 .. 0 |-> i]
    BY <1>2
  <2> QED
    BY <2>1, <2>2 DEF CursorInv
<1> QED
  BY <1>4, <1>5, <1>7, <1>8, <1>9, <1>10, <1>11 DEF LogInv, LogTypeOK, SpoolFine

\* A limit stops the spool, and a kill: nothing else of it changes.
LEMMA StoppedFine ==
  ASSUME LogInv, spool.state = "open", NEW state \in {"failed", "killed"},
         spool' = [spool EXCEPT !.state = state], UNCHANGED follower
  PROVE  LogInv'
<1> DEFINE q == [spool EXCEPT !.state = state]
<1>1. /\ q \in Spooling /\ q.mode = spool.mode /\ q.raw = spool.raw /\ q.held = spool.held /\ q.due = spool.due
      /\ q.pending = spool.pending /\ q.file = spool.file /\ q.bytes = spool.bytes /\ q.torn = spool.torn
      /\ q.state = state
  BY LogTyped DEF Spooling
<1>2. spool' = q
  OBVIOUS
<1> HIDE DEF q
<1>3. ExactInv(spool) /\ WaitInv(spool) /\ LimitInv(spool) /\ EndsInv(spool)
  BY LogTyped DEF SpoolFine
<1>4. ExactInv(q) /\ EndsInv(q)
  BY <1>1, <1>3 DEF ExactInv, EndsInv
<1>5. DueIn(q) = DueIn(spool) /\ NextIn(q) = NextIn(spool) /\ \A text : FitsIn(q, text) <=> FitsIn(spool, text)
  BY <1>1 DEF DueIn, NextIn, FitsIn
<1>6. WaitInv(q)
  BY <1>1, <1>3, <1>5 DEF WaitInv
<1>7. LimitInv(q)
  BY <1>1, <1>3 DEF LimitInv
<1>8. CursorInv(follower, q)
  BY <1>1, LogTyped, LenProperties, CursorKept
<1>9. SpoolFine(q) /\ follower \in Following /\ follower' = follower
  BY <1>4, <1>6, <1>7, LogTyped DEF SpoolFine
<1> QED
  BY <1>1, <1>2, <1>8, <1>9, LogIs

\* Where the spool writes, the file holds what the raw capture begins with.
LEMMA AppendChunkStep ==
  ASSUME LogInv, AppendChunk
  PROVE  LogInv'
<1>1. PICK c \in Chunks :
        /\ spool.state = "open" /\ ~Due /\ ~spool.torn
        /\ IF Len(spool.raw) + Len(c) > RawLimit
             THEN spool' = [spool EXCEPT !.state = "failed"]
             ELSE LET bytes == spool.held \o c
                      text == IF spool.mode = "binary" THEN c ELSE Decoded(bytes)
                  IN spool' = [spool EXCEPT !.raw = spool.raw \o c, !.due = spool.mode # "line",
                                 !.held = IF spool.mode # "binary" /\ Halved(bytes) THEN <<"h">> ELSE <<>>,
                                 !.pending = IF spool.mode = "line" THEN spool.pending \o text ELSE text]
  BY DEF AppendChunk
<1>2. UNCHANGED follower
  BY DEF AppendChunk
<1>3. CASE Len(spool.raw) + Len(c) > RawLimit
  BY <1>1, <1>2, <1>3, StoppedFine
<1>4. CASE ~(Len(spool.raw) + Len(c) > RawLimit)
  <2>1. c \in Seq(Byte)
    BY ChunksAssumption
  <2>2. PICK bytes \in Seq(Byte) : bytes = spool.held \o c
    BY <2>1, LogTyped, ConcatProperties
  <2>3. Decoded(bytes) \in Seq(Byte) /\ Decoded(bytes) \o (IF Halved(bytes) THEN <<"h">> ELSE <<>>) = bytes
    BY DecodedExact
  <2>4. PICK text \in Seq(Byte) : text = IF spool.mode = "binary" THEN c ELSE Decoded(bytes)
    BY <2>1, <2>3
  <2>5. PICK held \in Seq(Byte) :
          held \in {<<>>, <<"h">>} /\ held = IF spool.mode # "binary" /\ Halved(bytes) THEN <<"h">> ELSE <<>>
    BY HeldTyped
  <2>6. PICK pending \in Seq(Byte) : pending = IF spool.mode = "line" THEN spool.pending \o text ELSE text
    BY LogTyped, ConcatProperties
  <2>7. PICK raw \in Seq(Byte) : raw = spool.raw \o c
    BY <2>1, LogTyped, ConcatProperties
  <2>8. PICK due \in BOOLEAN : due <=> spool.mode # "line"
    OBVIOUS
  <2> DEFINE q == [spool EXCEPT !.raw = raw, !.due = due, !.held = held, !.pending = pending]
  <2>9. /\ q \in Spooling /\ q.mode = spool.mode /\ q.raw = raw /\ q.held = held /\ q.due = due
        /\ q.pending = pending /\ q.file = spool.file /\ q.bytes = spool.bytes /\ q.torn = spool.torn
        /\ q.state = spool.state
    BY <2>5, LogTyped DEF Spooling
  <2>10. spool' = q
    <3>1. (spool.mode # "line") = due
      BY <2>8
    <3> QED
      BY <1>1, <1>4, <2>2, <2>4, <2>5, <2>6, <2>7, <3>1
  <2> HIDE DEF q
  <2>11. ExactInv(spool) /\ WaitInv(spool) /\ LimitInv(spool) /\ EndsInv(spool)
    BY LogTyped DEF SpoolFine
  <2>12. PICK waits \in Seq(Byte), kept \in Seq(Byte), new \in Seq(Byte), recorded \in Seq(Byte), both \in Seq(Byte) :
           /\ waits = spool.pending /\ kept = spool.held /\ new = c /\ recorded = RecordedIn(spool.file)
           /\ both = waits \o kept
    <3>1. /\ spool.pending \in Seq(Byte) /\ spool.held \in Seq(Byte) /\ RecordedIn(spool.file) \in Seq(Byte)
          /\ spool.pending \o spool.held \in Seq(Byte)
      BY HeldTyped, LogTyped, RecordedTyped, ConcatProperties
    <3> QED
      BY <2>1, <3>1, Zenon
  <2>13. pending \o held = both \o new
    <3>1. CASE spool.mode = "binary"
      <4>1. spool.held = <<>> /\ held = <<>> /\ pending = c
        BY <2>4, <2>5, <2>6, <2>11, <3>1 DEF WaitInv
      <4>2. spool.pending = <<>>
        BY <1>1, <2>11, <3>1 DEF WaitInv, Due
      <4>3. <<>> \o <<>> = <<>> /\ <<>> \o c = c /\ c \o <<>> = c
        BY <2>1, EmptyCat, Zenon
      <4> QED
        BY <2>12, <4>1, <4>2, <4>3, Zenon
    <3>2. CASE spool.mode = "text"
      <4>1. pending = Decoded(bytes) /\ held = IF Halved(bytes) THEN <<"h">> ELSE <<>>
        BY <2>4, <2>5, <2>6, <3>2
      <4>2. spool.pending = <<>>
        BY <1>1, <2>11, <3>2 DEF WaitInv, Due
      <4> QED
        BY <2>2, <2>3, <2>12, <4>1, <4>2, ConcatEmptySeq
    <3>3. CASE spool.mode = "line"
      <4>1. /\ text = Decoded(bytes) /\ held = (IF Halved(bytes) THEN <<"h">> ELSE <<>>)
            /\ pending = spool.pending \o text
        BY <2>4, <2>5, <2>6, <3>3
      <4>2. text \o held = kept \o new
        BY <2>2, <2>3, <2>12, <4>1
      <4>3. Associates(waits, text, held) /\ Associates(waits, kept, new)
        BY BytesAssociate
      <4> QED
        BY <2>12, <4>1, <4>2, <4>3, Zenon DEF Associates
    <3> QED
      BY <3>1, <3>2, <3>3, LogTyped DEF Mode
  <2>14. ExactInv(q)
    <3>1. recorded \o both = spool.raw
      BY <2>11, <2>12, Zenon DEF ExactInv
    <3>2. Associates(recorded, both, new)
      BY BytesAssociate
    <3> QED
      BY <2>7, <2>9, <2>12, <2>13, <3>1, <3>2, Zenon DEF ExactInv, Associates
  <2>15. WaitInv(q)
    <3>1. ~q.torn /\ q.state = "open"
      BY <1>1, <2>9
    <3>2. (q.mode = "line" => ~q.due) /\ (q.mode # "line" => q.due) /\ (q.mode = "binary" => q.held = <<>>)
      BY <2>5, <2>8, <2>9
    <3> QED
      BY <3>1, <3>2 DEF WaitInv
  <2>16. LimitInv(q)
    <3>1. Len(raw) = Len(spool.raw) + Len(c)
      BY <2>1, <2>7, <2>12, ConcatProperties
    <3>2. Len(raw) <= RawLimit
      BY <1>4, <2>1, <2>12, <3>1, LenProperties, LimitsAssumption
    <3> QED
      BY <2>9, <2>11, <3>2 DEF LimitInv
  <2>17. CursorInv(follower, q)
    <3>1. /\ CursorInv(follower, spool) /\ follower.cursor \in Nat
          /\ Len(spool.file) \in Nat /\ Len(spool.file) <= Len(spool.file)
      BY LogTyped, LenProperties
    <3>2. q.file = spool.file
      BY <2>9
    <3> QED
      BY <3>1, <3>2, CursorKept, Zenon
  <2> QED
    <3>1. SpoolFine(q)
      <4>1. EndsInv(q)
        BY <2>9, <2>11 DEF EndsInv
      <4> QED
        BY <2>14, <2>15, <2>16, <4>1 DEF SpoolFine
    <3>2. spool' = q /\ follower' = follower /\ follower \in Following
      BY <1>2, <2>10, LogTyped
    <3>3. q \in Spooling
      BY <2>9
    <3> QED
      BY <2>17, <3>1, <3>2, <3>3, LogIs
<1> QED
  BY <1>3, <1>4

LEMMA OpsAre ==
  /\ Due <=> DueIn(spool)
  /\ NextText = NextIn(spool)
  /\ \A text : Fits(text) <=> FitsIn(spool, text)
BY DEF Due, DueIn, NextText, NextIn, Fits, FitsIn

LEMMA WriteRecordStep ==
  ASSUME LogInv, WriteRecord
  PROVE  LogInv'
<1>1. spool.state = "open" /\ Due /\ UNCHANGED follower
  BY DEF WriteRecord
<1>2. CASE Fits(NextText)
  <2> DEFINE q == [spool EXCEPT !.torn = TRUE]
  <2>1. /\ q \in Spooling /\ q.mode = spool.mode /\ q.raw = spool.raw /\ q.held = spool.held /\ q.due = spool.due
        /\ q.pending = spool.pending /\ q.file = spool.file /\ q.bytes = spool.bytes /\ q.torn
        /\ q.state = spool.state
    BY LogTyped DEF Spooling
  <2>2. spool' = q
    BY <1>2 DEF WriteRecord
  <2> HIDE DEF q
  <2>3. ExactInv(spool) /\ WaitInv(spool) /\ LimitInv(spool) /\ EndsInv(spool)
    BY LogTyped DEF SpoolFine
  <2>4. ExactInv(q) /\ LimitInv(q) /\ EndsInv(q)
    BY <2>1, <2>3 DEF ExactInv, LimitInv, EndsInv
  <2>5. DueIn(q) = DueIn(spool) /\ NextIn(q) = NextIn(spool) /\ \A text : FitsIn(q, text) <=> FitsIn(spool, text)
    BY <2>1 DEF DueIn, NextIn, FitsIn
  <2>6. DueIn(q) /\ FitsIn(q, NextIn(q))
    BY <1>1, <1>2, <2>5, OpsAre
  <2>7. WaitInv(q)
    BY <2>1, <2>3, <2>6 DEF WaitInv
  <2>8. CursorInv(follower, q)
    BY <2>1, LogTyped, LenProperties, CursorKept
  <2>9. SpoolFine(q) /\ follower \in Following /\ follower' = follower
    BY <1>1, <2>4, <2>7, LogTyped DEF SpoolFine
  <2> QED
    BY <2>1, <2>2, <2>8, <2>9, LogIs
<1>3. CASE ~Fits(NextText)
  <2>1. spool' = [spool EXCEPT !.state = "failed"]
    BY <1>3 DEF WriteRecord
  <2> QED
    BY <1>1, <2>1, StoppedFine
<1> QED
  BY <1>2, <1>3

\* What a record takes from what waits is recorded instead.
Moves(recorded, bytes, rest, held) ==
  (recorded \o bytes) \o (rest \o held) = recorded \o ((bytes \o rest) \o held)

LEMMA BytesMove ==
  ASSUME NEW recorded \in Seq(Byte), NEW bytes \in Seq(Byte), NEW rest \in Seq(Byte), NEW held \in Seq(Byte)
  PROVE  Moves(recorded, bytes, rest, held)
<1>1. PICK tail \in Seq(Byte) : tail = rest \o held
  BY ConcatProperties
<1>2. Associates(recorded, bytes, tail) /\ Associates(bytes, rest, held)
  BY BytesAssociate
<1> QED
  BY <1>1, <1>2, Zenon DEF Associates, Moves

LEMMA NextTyped ==
  ASSUME LogInv, Due
  PROVE  /\ NextText \in Seq(Byte) /\ NextEnd \in Ending
         /\ NextEnd = <<"n">> => ~Returned(NextText)
         /\ \E rest \in Seq(Byte) :
              /\ rest = IF spool.mode = "line" THEN RestOf(spool.pending) ELSE <<>>
              /\ (NextText \o NextEnd) \o rest = spool.pending
<1>1. CASE spool.mode = "line"
  <2>1. HasLine(spool.pending)
    BY <1>1 DEF Due
  <2>2. PICK p \in Seq(Byte) : p = spool.pending
    BY LogTyped
  <2>3. PICK line \in Seq(Byte), rest \in Seq(Byte) :
          line = FirstLine(p) /\ rest = RestOf(p) /\ (line \o <<"n">>) \o rest = p
    BY <2>1, <2>2, LineCut
  <2>4. NextText = TextOf(line) /\ NextEnd = EndOf(line)
    BY <1>1, <2>2, <2>3 DEF NextText, NextEnd
  <2>5. /\ NextText \in Seq(Byte) /\ NextEnd \in Ending
        /\ NextEnd = <<"n">> => ~Returned(NextText)
        /\ NextText \o NextEnd = line \o <<"n">>
    BY <2>4, LineIsRecorded, Zenon
  <2>6. (NextText \o NextEnd) \o rest = spool.pending
    BY <2>2, <2>3, <2>5, Zenon
  <2>7. rest = IF spool.mode = "line" THEN RestOf(spool.pending) ELSE <<>>
    BY <1>1, <2>2, <2>3
  <2> QED
    BY <2>5, <2>6, <2>7, Zenon
<1>2. CASE spool.mode # "line"
  <2>1. NextText = spool.pending /\ NextEnd = <<>>
    BY <1>2 DEF NextText, NextEnd
  <2>2. <<>> \in Seq(Byte) /\ spool.pending \in Seq(Byte)
    BY LogTyped, EmptySeq
  <2>3. (spool.pending \o <<>>) \o <<>> = spool.pending
    BY <2>2, EmptyCat, Zenon
  <2>4. <<>> # <<"n">>
    BY EmptySeq
  <2> QED
    BY <1>2, <2>1, <2>2, <2>3, <2>4 DEF Ending
<1> QED
  BY <1>1, <1>2

LEMMA RecordWrittenStep ==
  ASSUME LogInv, RecordWritten
  PROVE  LogInv'
<1>1. spool.state = "open" /\ spool.torn /\ UNCHANGED follower
  BY DEF RecordWritten
<1>2. ExactInv(spool) /\ WaitInv(spool) /\ LimitInv(spool) /\ EndsInv(spool)
  BY LogTyped DEF SpoolFine
<1>3. Due /\ Fits(NextText)
  BY <1>1, <1>2, OpsAre DEF WaitInv
<1>4. PICK text \in Seq(Byte) : text = NextText
  BY <1>3, NextTyped
<1>5. PICK rest \in Seq(Byte) :
        /\ rest = IF spool.mode = "line" THEN RestOf(spool.pending) ELSE <<>>
        /\ (NextText \o NextEnd) \o rest = spool.pending
  BY <1>3, NextTyped
<1>6. PICK end \in Ending : end = NextEnd /\ (end = <<"n">> => ~Returned(text))
  BY <1>3, <1>4, NextTyped
<1>7. PICK r \in Record : r = [text |-> text, end |-> end]
  BY DEF Record
<1>8. PICK file \in Seq(Record) : file = Append(spool.file, r)
  BY LogTyped, AppendProperties
<1>9. PICK bytes \in Nat : bytes = spool.bytes + Size(text)
  BY LogTyped, LenProperties DEF Size
<1> DEFINE q == [spool EXCEPT !.torn = FALSE, !.due = FALSE, !.bytes = bytes, !.file = file, !.pending = rest]
<1>10. /\ q \in Spooling /\ q.mode = spool.mode /\ q.raw = spool.raw /\ q.held = spool.held /\ ~q.due
       /\ q.pending = rest /\ q.file = file /\ q.bytes = bytes /\ ~q.torn /\ q.state = spool.state
  BY LogTyped DEF Spooling, Record
<1>11. spool' = q
  <2>2. [text |-> NextText, end |-> NextEnd] = r
    BY <1>4, <1>6, <1>7
  <2> QED
    BY <1>4, <1>5, <1>8, <1>9, <2>2 DEF RecordWritten
<1> HIDE DEF q
<1>12. ExactInv(q)
  <2>1. PICK recorded \in Seq(Byte), b \in Seq(Byte), held \in Seq(Byte) :
          recorded = RecordedIn(spool.file) /\ b = BytesOf(r) /\ held = spool.held
    BY LogTyped, RecordedTyped, BytesTyped
  <2>2. b = NextText \o NextEnd
    BY <1>4, <1>6, <1>7, <2>1 DEF BytesOf
  <2>3. b \o rest = spool.pending
    BY <1>5, <2>2, Zenon
  <2>4. Moves(recorded, b, rest, held)
    BY BytesMove
  <2>5. RecordedIn(file) = recorded \o b
    BY <1>8, <2>1, LogTyped, RecordedAppend, Zenon
  <2>6. recorded \o (spool.pending \o held) = spool.raw
    BY <1>2, <2>1, Zenon DEF ExactInv
  <2> QED
    BY <1>10, <2>1, <2>3, <2>4, <2>5, <2>6, Zenon DEF ExactInv, Moves
<1>13. WaitInv(q)
  <2>1. spool.mode # "line" => rest = <<>>
    BY <1>5
  <2>2. spool.mode = "binary" => spool.held = <<>>
    BY <1>2 DEF WaitInv
  <2> QED
    BY <1>1, <1>10, <2>1, <2>2 DEF WaitInv
<1>14. Len(file) = Len(spool.file) + 1 /\ Len(spool.file) \in Nat /\ Len(file) \in Nat
  BY <1>8, LogTyped, AppendProperties, LenProperties
<1>15. LimitInv(q)
  <2>1. Len(spool.file) < RecordLimit /\ bytes <= SpoolLimit
    BY <1>3, <1>4, <1>9 DEF Fits
  <2>2. Len(file) <= RecordLimit
    BY <1>14, <2>1, LimitsAssumption
  <2> QED
    BY <1>2, <1>10, <2>1, <2>2 DEF LimitInv
<1>16. CursorInv(follower, q)
  BY <1>10, <1>14, LogTyped, CursorKept
<1>18. EndsInv(q)
  <2>1. r.end = <<"n">> => ~Returned(r.text)
    BY <1>6, <1>7
  <2>2. q.file = Append(spool.file, r) /\ spool.file \in Seq(Record)
    BY <1>8, <1>10, LogTyped
  <2> QED
    BY <1>2, <2>1, <2>2, EndsAppend
<1>17. SpoolFine(q) /\ follower \in Following /\ follower' = follower
  BY <1>1, <1>12, <1>13, <1>15, <1>18, LogTyped DEF SpoolFine
<1> QED
  BY <1>10, <1>11, <1>16, <1>17, LogIs

LEMMA HostKilledStep ==
  ASSUME LogInv, HostKilled
  PROVE  LogInv'
BY StoppedFine DEF HostKilled

LEMMA CloseSpoolStep ==
  ASSUME LogInv, CloseSpool
  PROVE  LogInv'
<1> DEFINE tail == spool.pending \o spool.held
<1>1. spool.state = "open" /\ ~Due /\ ~spool.torn /\ UNCHANGED follower
  BY DEF CloseSpool
<1>2. ExactInv(spool) /\ WaitInv(spool) /\ LimitInv(spool) /\ EndsInv(spool)
  BY LogTyped DEF SpoolFine
<1>3. spool' = IF spool.mode = "line" /\ tail # <<>>
          THEN IF Fits(tail)
                 THEN [spool EXCEPT !.file = Append(spool.file, [text |-> tail, end |-> <<>>]),
                                    !.bytes = spool.bytes + Size(tail), !.pending = <<>>, !.held = <<>>,
                                    !.state = "closed"]
                 ELSE [spool EXCEPT !.state = "failed"]
          ELSE [spool EXCEPT !.state = "closed"]
  BY DEF CloseSpool
<1>4. CASE spool.mode = "line" /\ tail # <<>> /\ Fits(tail)
  <2>1. PICK text \in Seq(Byte) : text = tail
    BY LogTyped, ConcatProperties
  <2>2. PICK r \in Record : r = [text |-> text, end |-> <<>>]
    BY DEF Record, Ending
  <2>3. PICK file \in Seq(Record) : file = Append(spool.file, r)
    BY LogTyped, AppendProperties
  <2>4. PICK bytes \in Nat : bytes = spool.bytes + Size(text)
    BY LogTyped, LenProperties DEF Size
  <2> DEFINE q == [spool EXCEPT !.file = file, !.bytes = bytes, !.pending = <<>>, !.held = <<>>, !.state = "closed"]
  <2>5. /\ q \in Spooling /\ q.mode = spool.mode /\ q.raw = spool.raw /\ q.held = <<>> /\ q.due = spool.due
        /\ q.pending = <<>> /\ q.file = file /\ q.bytes = bytes /\ q.torn = spool.torn /\ q.state = "closed"
    BY LogTyped, EmptySeq DEF Spooling, Record
  <2>6. spool' = q
    BY <1>3, <1>4, <2>1, <2>2, <2>3, <2>4
  <2> HIDE DEF q
  <2>7. ExactInv(q)
    <3>1. PICK recorded \in Seq(Byte) : recorded = RecordedIn(spool.file)
      BY LogTyped, RecordedTyped
    <3>2. BytesOf(r) = text
      <4>1. BytesOf(r) = text \o <<>>
        BY <2>2 DEF BytesOf
      <4> QED
        BY <4>1, EmptyCat, Zenon
    <3>3. RecordedIn(file) = recorded \o text
      BY <2>3, <3>1, <3>2, LogTyped, RecordedAppend, Zenon
    <3>4. recorded \o text \in Seq(Byte)
      BY ConcatProperties
    <3>5. (recorded \o text) \o (<<>> \o <<>>) = recorded \o text
      BY <3>4, EmptyCat, Zenon
    <3>6. recorded \o text = spool.raw
      BY <1>2, <2>1, <3>1, Zenon DEF ExactInv
    <3> QED
      BY <2>5, <3>3, <3>5, <3>6, Zenon DEF ExactInv
  <2>8. WaitInv(q)
    BY <1>1, <1>2, <1>4, <2>5 DEF WaitInv
  <2>9. Len(file) = Len(spool.file) + 1 /\ Len(spool.file) \in Nat /\ Len(file) \in Nat
    BY <2>3, LogTyped, AppendProperties, LenProperties
  <2>10. LimitInv(q)
    <3>1. Len(spool.file) < RecordLimit /\ bytes <= SpoolLimit
      BY <1>4, <2>1, <2>4 DEF Fits
    <3>2. Len(file) <= RecordLimit
      BY <2>9, <3>1, LimitsAssumption
    <3> QED
      BY <1>2, <2>5, <3>1, <3>2 DEF LimitInv
  <2>11. CursorInv(follower, q)
    BY <2>5, <2>9, LogTyped, CursorKept
  <2>13. EndsInv(q)
    <3>1. r.end # <<"n">>
      BY <2>2, EmptySeq
    <3>2. q.file = Append(spool.file, r) /\ spool.file \in Seq(Record)
      BY <2>3, <2>5, LogTyped
    <3> QED
      BY <1>2, <3>1, <3>2, EndsAppend
  <2>12. SpoolFine(q) /\ follower \in Following /\ follower' = follower
    BY <1>1, <2>7, <2>8, <2>10, <2>13, LogTyped DEF SpoolFine
  <2> QED
    BY <2>5, <2>6, <2>11, <2>12, LogIs
<1>5. CASE spool.mode = "line" /\ tail # <<>> /\ ~Fits(tail)
  BY <1>1, <1>3, <1>5, StoppedFine
<1>6. CASE ~(spool.mode = "line" /\ tail # <<>>)
  <2> DEFINE q == [spool EXCEPT !.state = "closed"]
  <2>1. /\ q \in Spooling /\ q.mode = spool.mode /\ q.raw = spool.raw /\ q.held = spool.held /\ q.due = spool.due
        /\ q.pending = spool.pending /\ q.file = spool.file /\ q.bytes = spool.bytes /\ q.torn = spool.torn
        /\ q.state = "closed"
    BY LogTyped DEF Spooling
  <2>2. spool' = q
    BY <1>3, <1>6
  <2> HIDE DEF q
  <2>3. ExactInv(q) /\ LimitInv(q) /\ EndsInv(q)
    BY <1>2, <2>1 DEF ExactInv, LimitInv, EndsInv
  <2>4. spool.pending = <<>> /\ (spool.mode = "line" => spool.held = <<>>)
    <3>1. CASE spool.mode = "line"
      <4>1. tail = <<>>
        BY <1>6, <3>1
      <4>2. PICK p \in Seq(Byte), h \in Seq(Byte) : p = spool.pending /\ h = spool.held
        BY LogTyped
      <4>3. p \o h = <<>>
        BY <4>1, <4>2
      <4>4. p = <<>> /\ h = <<>>
        BY <4>3, ConcatSimplifications!concIsEmpty
      <4> QED
        BY <4>2, <4>4
    <3>2. CASE spool.mode # "line"
      BY <1>1, <1>2, <3>2 DEF Due, WaitInv
    <3> QED
      BY <3>1, <3>2
  <2>5. WaitInv(q)
    BY <1>1, <1>2, <2>1, <2>4 DEF WaitInv
  <2>6. CursorInv(follower, q)
    BY <2>1, LogTyped, LenProperties, CursorKept
  <2>7. SpoolFine(q) /\ follower \in Following /\ follower' = follower
    BY <1>1, <2>3, <2>5, LogTyped DEF SpoolFine
  <2> QED
    BY <2>1, <2>2, <2>6, <2>7, LogIs
<1> QED
  BY <1>4, <1>5, <1>6

\* What a poll adds follows what the follower has.
LEMMA PollStep ==
  ASSUME LogInv, Poll
  PROVE  LogInv'
<1>1. UNCHANGED spool
  BY DEF Poll
<1>2. CursorInv(follower, spool)
  BY LogTyped
<1>3. PICK n \in Nat, cursor \in Nat : n = Len(spool.file) /\ cursor = follower.cursor /\ cursor <= n
  BY <1>2, LogTyped, LenProperties DEF CursorInv
<1>4. PICK from \in Nat : /\ from = IF Len(spool.file) > follower.cursor + TailLimit
                                      THEN Len(spool.file) - TailLimit ELSE follower.cursor
                          /\ cursor <= from /\ from <= n
  BY <1>3, LimitsAssumption
<1>5. CASE follower' = [follower EXCEPT !.state = "corrupt"]
  <2> DEFINE f == [follower EXCEPT !.state = "corrupt"]
  <2>1. f \in Following /\ f.cursor = follower.cursor /\ f.got = follower.got /\ f.skipped = follower.skipped
    BY LogTyped DEF Following
  <2> HIDE DEF f
  <2>2. CursorInv(f, spool)
    BY <1>2, <2>1 DEF CursorInv
  <2>3. follower' = f /\ spool' = spool /\ spool \in Spooling /\ SpoolFine(spool)
    BY <1>1, <1>5, LogTyped DEF f
  <2> QED
    BY <2>1, <2>2, <2>3, LogIs
<1>6. CASE follower' = [follower EXCEPT !.cursor = Len(spool.file),
                          !.skipped = follower.skipped \/ from > follower.cursor,
                          !.got = follower.got \o [i \in 1 .. Len(spool.file) - from |-> from + i]]
  <2>1. PICK more \in Seq(Nat), k \in Nat :
          /\ k = n - from /\ more = [i \in 1 .. Len(spool.file) - from |-> from + i]
          /\ Len(more) = k /\ \A i \in 1 .. k : more[i] = from + i
    <3>1. PICK k \in Nat : k = n - from
      BY <1>4
    <3> DEFINE m == [i \in 1 .. k |-> from + i]
    <3>2. m \in [1 .. k -> Nat]
      OBVIOUS
    <3>3. m \in Seq(Nat) /\ Len(m) = k
      BY <3>2, LenProperties, SeqDef
    <3>4. m = [i \in 1 .. Len(spool.file) - from |-> from + i]
      BY <1>3, <3>1
    <3>5. \A i \in 1 .. k : m[i] = from + i
      OBVIOUS
    <3> HIDE DEF m
    <3> QED
      BY <3>1, <3>3, <3>4, <3>5
  <2>2. PICK old \in Seq(Nat), o \in Nat : old = follower.got /\ o = Len(old)
    BY LogTyped, LenProperties
  <2>3. PICK got \in Seq(Nat) : got = old \o more
    BY ConcatProperties
  <2>4. /\ DOMAIN got = 1 .. o + k /\ DOMAIN old = 1 .. o
        /\ \A i \in 1 .. o + k : got[i] = IF i <= o THEN old[i] ELSE more[i - o]
    <3>1. Len(more) = k /\ Len(old) = o
      BY <2>1, <2>2
    <3>2. /\ Len(got) = Len(old) + Len(more)
          /\ \A i \in 1 .. Len(old) + Len(more) : got[i] = IF i <= Len(old) THEN old[i] ELSE more[i - Len(old)]
      BY <2>3, ConcatProperties
    <3>3. DOMAIN got = 1 .. Len(got) /\ DOMAIN old = 1 .. Len(old)
      BY LenProperties
    <3> QED
      BY <3>1, <3>2, <3>3
  <2>5. \A i \in 1 .. o : old[i] \in 1 .. cursor /\ got[i] = old[i]
    BY <1>2, <1>3, <2>2, <2>4, SMTT(30) DEF CursorInv
  <2>6. \A i \in 1 .. o + k : ~(i <= o) => i - o \in 1 .. k /\ got[i] = from + (i - o)
    <3>1. ASSUME NEW i \in 1 .. o + k, ~(i <= o)  PROVE i - o \in 1 .. k /\ got[i] = from + (i - o)
      <4>1. i - o \in 1 .. k
        BY <3>1
      <4> QED
        BY <2>1, <2>4, <3>1, <4>1
    <3> QED
      BY <3>1
  <2>7. PICK skipped \in BOOLEAN : skipped <=> (follower.skipped \/ from > follower.cursor)
    BY Zenon
  <2> DEFINE f == [follower EXCEPT !.cursor = n, !.skipped = skipped, !.got = got]
  <2>8. f \in Following /\ f.cursor = n /\ f.skipped = skipped /\ f.got = got
    BY LogTyped DEF Following
  <2>9. follower' = f
    <3>1. skipped = (follower.skipped \/ from > follower.cursor)
      BY <2>7, LogTyped
    <3> QED
      BY <1>3, <1>6, <2>1, <2>2, <2>3, <3>1
  <2> HIDE DEF f
  <2>10. \A i \in 1 .. o + k : got[i] \in 1 .. n
    <3>1. ASSUME NEW i \in 1 .. o + k  PROVE got[i] \in 1 .. n
      <4>1. CASE i <= o
        <5>1. i \in 1 .. o
          BY <4>1
        <5>2. got[i] \in 1 .. cursor
          BY <2>5, <5>1
        <5> QED
          BY <1>3, <5>2
      <4>2. CASE ~(i <= o)
        <5>1. i - o \in 1 .. k /\ got[i] = from + (i - o)
          BY <2>6, <4>2
        <5>2. PICK d \in Nat : d = i - o /\ 1 <= d /\ d <= k
          BY <5>1
        <5>3. from + d \in 1 .. n
          <6>1. k = n - from
            BY <2>1
          <6>2. from <= n
            BY <1>4
          <6> QED
            BY <5>2, <6>1, <6>2
        <5> QED
          BY <5>1, <5>2, <5>3
      <4> QED
        BY <4>1, <4>2
    <3> QED
      BY <3>1
  <2>11. \A i, j \in 1 .. o + k : i < j => got[i] < got[j]
    <3>1. ASSUME NEW i \in 1 .. o + k, NEW j \in 1 .. o + k, i < j  PROVE got[i] < got[j]
      <4>1. CASE j <= o
        <5>1. i \in DOMAIN old /\ j \in DOMAIN old
          BY <2>4, <3>1, <4>1
        <5>2. old[i] < old[j]
          BY <1>2, <2>2, <3>1, <5>1 DEF CursorInv
        <5> QED
          BY <2>4, <2>5, <5>1, <5>2
      <4>2. CASE i <= o /\ ~(j <= o)
        <5>1. i \in 1 .. o
          BY <4>2
        <5>2. got[i] \in 1 .. cursor
          BY <2>5, <5>1
        <5>3. j - o \in 1 .. k /\ got[j] = from + (j - o)
          BY <2>6, <4>2
        <5>4. PICK a \in Nat : got[i] = a /\ a <= cursor
          BY <5>2
        <5>5. PICK d \in Nat : d = j - o /\ 1 <= d
          BY <5>3
        <5>6. got[j] = from + d
          BY <5>3, <5>5
        <5>7. a < from + d
          BY <1>4, <5>4, <5>5, SMTT(30)
        <5> QED
          BY <5>4, <5>6, <5>7, Zenon
      <4>3. CASE ~(i <= o)
        <5>1. PICK b, d \in Nat : b = i - o /\ d = j - o /\ b < d /\ b \in 1 .. k /\ d \in 1 .. k
          BY <3>1, <4>3
        <5>2. got[i] = from + b /\ got[j] = from + d
          BY <2>6, <3>1, <4>3, <5>1
        <5>3. from + b < from + d
          BY <5>1
        <5> QED
          BY <5>2, <5>3
      <4> QED
        BY <4>1, <4>2, <4>3
    <3> QED
      BY <3>1
  <2>12. ~skipped => got = [i \in 1 .. n |-> i]
    <3>1. SUFFICES ASSUME ~skipped  PROVE got = [i \in 1 .. n |-> i]
      OBVIOUS
    <3>2. from = cursor /\ old = [i \in 1 .. cursor |-> i]
      BY <1>2, <1>3, <1>4, <2>2, <2>7, <3>1 DEF CursorInv
    <3>3. o = cursor
      BY <2>4, <3>2
    <3>4. o + k = n
      BY <2>1, <3>2, <3>3
    <3>5. \A i \in 1 .. n : got[i] = i
      BY <2>5, <2>6, <3>2, <3>3, <3>4
    <3>6. got = [i \in 1 .. n |-> got[i]]
      BY <2>4, <3>4, LenProperties
    <3> QED
      BY <3>5, <3>6
  <2>13. CursorInv(f, spool)
    <3>1. f.cursor = Len(spool.file) /\ f.cursor <= Len(spool.file)
      BY <1>3, <2>8
    <3>2. DOMAIN f.got = 1 .. o + k
      BY <2>4, <2>8
    <3>3. /\ \A i \in DOMAIN f.got : f.got[i] \in 1 .. f.cursor
          /\ \A i, j \in DOMAIN f.got : i < j => f.got[i] < f.got[j]
      BY <2>8, <2>10, <2>11, <3>2
    <3>4. ~f.skipped => f.got = [i \in 1 .. f.cursor |-> i]
      BY <2>8, <2>12
    <3> QED
      BY <3>1, <3>3, <3>4 DEF CursorInv
  <2>14. spool' = spool /\ spool \in Spooling /\ SpoolFine(spool)
    BY <1>1, LogTyped
  <2> QED
    BY <2>8, <2>9, <2>13, <2>14, LogIs
<1> QED
  BY <1>4, <1>5, <1>6 DEF Poll

LEMMA LogStep ==
  ASSUME LogInv, [LogNext]_logVars
  PROVE  LogInv'
<1>1. CASE LogNext
  BY <1>1, AppendChunkStep, WriteRecordStep, RecordWrittenStep, CloseSpoolStep, HostKilledStep, PollStep DEF LogNext
<1>2. CASE UNCHANGED logVars
  <2>1. spool' = spool /\ follower' = follower
    BY <1>2 DEF logVars
  <2> QED
    BY <2>1, LogTyped, LogIs
<1> QED
  BY <1>1, <1>2

(* However the device cuts what it sends, every byte of it is in the log or *)
(* waits for it, but for the newline of a line and one carriage return      *)
(* before it; the limits hold, and what a follower got are records of       *)
(* before its cursor (session-log-spool.ts, session-log-reader.ts).         *)
THEOREM LogInvariant == LogSpec => []LogInv
<1>1. LogInit => LogInv
  BY LogInitially
<1>2. LogInv /\ [LogNext]_logVars => LogInv'
  BY LogStep
<1> QED
  BY <1>1, <1>2, PTL DEF LogSpec

LEMMA LogIsExact ==
  ASSUME LogInv
  PROVE  LogExact
<1>1. ExactInv(spool) /\ WaitInv(spool) /\ LimitInv(spool) /\ EndsInv(spool) /\ CursorInv(follower, spool)
  BY LogTyped DEF SpoolFine
<1>2. Recorded = RecordedIn(spool.file)
  BY Zenon DEF Recorded, RecordedIn, BytesIn, BytesOf
<1>3. PICK recorded \in Seq(Byte), waits \in Seq(Byte), held \in Seq(Byte), raw \in Seq(Byte) :
        recorded = Recorded /\ waits = spool.pending /\ held = spool.held /\ raw = spool.raw
  BY <1>2, LogTyped, RecordedTyped
<1>4. PICK both \in Seq(Byte) : both = waits \o held
  BY ConcatProperties
<1>5. recorded \o both = raw
  BY <1>1, <1>2, <1>3, <1>4, Zenon DEF ExactInv
<1>6. IsPrefix(Recorded, spool.raw)
  <2>1. PICK m \in Nat, n \in Nat : m = Len(recorded) /\ n = Len(raw) /\ m <= n
    BY <1>5, ConcatProperties, LenProperties
  <2>2. \A i \in 1 .. m : raw[i] = recorded[i]
    BY <1>5, <2>1, ConcatProperties
  <2>3. SubSeq(recorded, 1, m) = SubSeq(raw, 1, m)
    BY <2>1, <2>2, LenProperties
  <2> QED
    BY <1>3, <2>1, <2>3 DEF IsPrefix
<1>7. Associates(recorded, waits, held)
  BY BytesAssociate
<1>8. Recorded \o spool.pending \o spool.held = spool.raw
  BY <1>3, <1>4, <1>5, <1>7, Zenon DEF Associates
<1>9. spool.state = "closed" => Recorded \o spool.held = spool.raw
  <2>1. SUFFICES ASSUME spool.state = "closed"  PROVE Recorded \o spool.held = spool.raw
    OBVIOUS
  <2>2. waits = <<>>
    BY <1>1, <1>3, <2>1 DEF WaitInv
  <2>3. recorded \o <<>> = recorded
    BY EmptyCat, Zenon
  <2> QED
    BY <1>3, <1>8, <2>2, <2>3, Zenon
<1>10. SpoolExact
  BY <1>1, <1>6, <1>8, <1>9 DEF SpoolExact, LimitInv, EndsInv
<1>11. FollowInOrder
  BY <1>1, <1>3 DEF FollowInOrder, CursorInv
<1> QED
  BY <1>10, <1>11 DEF LogExact

(* The log of a session has what the device sent and is read in order: the  *)
(* records repeat the raw capture but for the newline of each line and one  *)
(* carriage return before it, and a follower sees each record once, unless  *)
(* a poll found more than its tail.                                         *)
THEOREM LogIsExactly == LogSpec => []LogExact
<1>1. LogInv => LogExact
  BY LogIsExact
<1> QED
  BY <1>1, LogInvariant, PTL

-----------------------------------------------------------------------------
(* Sequences.                                                              *)

\* Induction on a sequence, for membership in a set.
LEMMA SequenceInduction ==
  ASSUME NEW T, NEW S, <<>> \in S, \A s \in Seq(T), e \in T : s \in S => Append(s, e) \in S
  PROVE  Seq(T) \subseteq S
<1> DEFINE N == {n \in Nat : \A s \in Seq(T) : Len(s) = n => s \in S}
<1>1. 0 \in N
  BY EmptySeq
<1>2. ASSUME NEW n \in Nat, n \in N  PROVE n + 1 \in N
  <2>1. ASSUME NEW s \in Seq(T), Len(s) = n + 1  PROVE s \in S
    <3>1. s # <<>>
      BY <2>1, EmptySeq
    <3>2. PICK before \in Seq(T), e \in T : s = Append(before, e)
      BY <3>1, SequenceEmptyOrAppend
    <3>3. Len(before) = n
      BY <2>1, <3>2, AppendProperties, LenProperties
    <3> QED
      BY <1>2, <3>2, <3>3
  <2> QED
    BY <2>1
<1> HIDE DEF N
<1>3. Nat \subseteq N
  BY <1>1, <1>2, Induction
<1> QED
  BY <1>3, LenProperties DEF N

\* What was appended last is the last.
LEMMA FrontAndLast ==
  ASSUME NEW T, NEW s \in Seq(T), NEW e \in T
  PROVE  Front(Append(s, e)) = s /\ Last(Append(s, e)) = e
<1>1. /\ Append(s, e) \in Seq(T) /\ Len(Append(s, e)) = Len(s) + 1 /\ Len(s) \in Nat
      /\ Append(s, e)[Len(s) + 1] = e /\ \A i \in 1 .. Len(s) : Append(s, e)[i] = s[i]
  BY AppendProperties, LenProperties
<1>2. Last(Append(s, e)) = e
  BY <1>1 DEF Last
<1> DEFINE long == Append(s, e)
<1>3. \A i \in 1 .. Len(s) : long[i] \in T
  BY <1>1, ElementOfSeq
<1>4. Front(long) = SubSeq(long, 1, Len(s))
  BY <1>1 DEF Front
<1> HIDE DEF long
<1>5. /\ SubSeq(long, 1, Len(s)) \in Seq(T) /\ Len(SubSeq(long, 1, Len(s))) = Len(s)
      /\ \A i \in 1 .. Len(s) : SubSeq(long, 1, Len(s))[i] = long[i]
  BY <1>1, <1>3, SubSeqProperties
<1>6. Front(long) = s
  BY <1>1, <1>4, <1>5, SeqEqual DEF long
<1> QED
  BY <1>2, <1>6 DEF long

LEMMA AppendFrontLast ==
  ASSUME NEW T, NEW s \in Seq(T), s # <<>>
  PROVE  /\ Front(s) \in Seq(T) /\ Last(s) \in T /\ s = Append(Front(s), Last(s))
         /\ Len(s) \in Nat \ {0} /\ Len(Front(s)) = Len(s) - 1
         /\ \A i \in 1 .. Len(s) - 1 : Front(s)[i] = s[i]
<1>1. PICK before \in Seq(T), e \in T : s = Append(before, e)
  BY SequenceEmptyOrAppend
<1>2. Front(s) = before /\ Last(s) = e
  BY <1>1, FrontAndLast
<1>3. Len(s) = Len(before) + 1 /\ Len(before) \in Nat /\ \A i \in 1 .. Len(before) : s[i] = before[i]
  BY <1>1, AppendProperties, LenProperties
<1>4. Len(s) \in Nat \ {0} /\ Len(before) = Len(s) - 1 /\ \A i \in 1 .. Len(s) - 1 : before[i] = s[i]
  BY <1>3
<1> QED
  BY <1>1, <1>2, <1>4

-----------------------------------------------------------------------------
(* ProcessOutput: the lines of a text, byte by byte.                       *)
Line == Seq(OutputByte)

LEMMA Lengthened == \A parts \in Seq(Line), u \in Line : Append(parts, u) \in Seq(Line) /\ Append(parts, u) # <<>>
<1>1. ASSUME NEW parts \in Seq(Line), NEW u \in Line  PROVE Append(parts, u) \in Seq(Line) /\ Append(parts, u) # <<>>
  BY AppendProperties
<1> QED
  BY <1>1

LEMMA ChompTyped == \A u \in Line : Chomp(u) \in Line
<1>1. SUFFICES ASSUME NEW u \in Seq(OutputByte)  PROVE Chomp(u) \in Seq(OutputByte)
  BY DEF Line
<1>2. CASE u = <<>>
  BY <1>2 DEF Chomp
<1>3. CASE u # <<>>
  <2>1. Front(u) \in Seq(OutputByte)
    BY <1>3, AppendFrontLast
  <2> QED
    BY <2>1 DEF Chomp
<1> QED
  BY <1>2, <1>3

\* One more byte, when the last line is u.
LEMMA WithByteIs ==
  ASSUME NEW before \in Seq(Line), NEW u \in Line, NEW b \in OutputByte
  PROVE  WithByte(Append(before, u), b) =
           IF b = "n" THEN Append(Append(before, Chomp(u)), <<>>) ELSE Append(before, Append(u, b))
<1>1. Front(Append(before, u)) = before /\ Last(Append(before, u)) = u
  BY FrontAndLast
<1> QED
  BY <1>1 DEF WithByte

LEMMA WithByteTyped ==
  ASSUME NEW parts \in Seq(Line), parts # <<>>, NEW b \in OutputByte
  PROVE  WithByte(parts, b) \in Seq(Line) /\ WithByte(parts, b) # <<>>
<1>1. PICK before \in Seq(Line), u \in Line : parts = Append(before, u)
  BY SequenceEmptyOrAppend
<1>2. Chomp(u) \in Line /\ <<>> \in Line /\ Append(u, b) \in Line
  BY ChompTyped, EmptySeq, AppendProperties DEF Line
<1>3. /\ Append(before, Chomp(u)) \in Seq(Line)
      /\ Append(before, Append(u, b)) \in Seq(Line) /\ Append(before, Append(u, b)) # <<>>
  BY <1>2, Lengthened, Zenon
<1>4. Append(Append(before, Chomp(u)), <<>>) \in Seq(Line) /\ Append(Append(before, Chomp(u)), <<>>) # <<>>
  BY <1>2, <1>3, Lengthened, Zenon
<1> QED
  BY <1>1, <1>3, <1>4, WithByteIs

\* What byte after byte makes of the lines read before.
LineReads(parts, text, n, f) == f = [i \in 0 .. n |-> IF i = 0 THEN parts ELSE WithByte(f[i - 1], text[i])]
LineReadsAt(parts, text, f, i) == f[i] = IF i = 0 THEN parts ELSE WithByte(f[i - 1], text[i])
After(parts, text) == (CHOOSE f : LineReads(parts, text, Len(text), f))[Len(text)]

LEMMA LineReadsAre ==
  ASSUME NEW parts, NEW text, NEW n \in Nat, NEW f
  PROVE  LineReads(parts, text, n, f) <=>
           f = [i \in 0 .. n |-> f[i]] /\ \A i \in 0 .. n : LineReadsAt(parts, text, f, i)
<1> DEFINE Value(i) == IF i = 0 THEN parts ELSE WithByte(f[i - 1], text[i])
<1>1. LineReads(parts, text, n, f) <=> f = [i \in 0 .. n |-> Value(i)]
  BY DEF LineReads
<1> HIDE DEF Value
<1>2. f = [i \in 0 .. n |-> Value(i)] <=> f = [i \in 0 .. n |-> f[i]] /\ \A i \in 0 .. n : f[i] = Value(i)
  OBVIOUS
<1> QED
  BY <1>1, <1>2 DEF Value, LineReadsAt

LEMMA LineReadsExist ==
  ASSUME NEW parts, NEW text
  PROVE  \A n \in Nat : \E f : LineReads(parts, text, n, f)
<1> DEFINE S == {n \in Nat : \E f : LineReads(parts, text, n, f)}
<1>1. 0 \in S
  <2> DEFINE f == [i \in 0 .. 0 |-> parts]
  <2>1. f = [i \in 0 .. 0 |-> f[i]] /\ \A i \in 0 .. 0 : i = 0 /\ f[i] = parts
    OBVIOUS
  <2> HIDE DEF f
  <2>2. LineReads(parts, text, 0, f)
    BY <2>1, LineReadsAre DEF LineReadsAt
  <2> QED
    BY <2>2
<1>2. ASSUME NEW n \in Nat, n \in S  PROVE n + 1 \in S
  <2>1. PICK f : LineReads(parts, text, n, f)
    BY <1>2
  <2>2. \A i \in 0 .. n : f[i] = IF i = 0 THEN parts ELSE WithByte(f[i - 1], text[i])
    BY <2>1, LineReadsAre DEF LineReadsAt
  <2> DEFINE last == WithByte(f[n], text[n + 1])
             g == [i \in 0 .. n + 1 |-> IF i = n + 1 THEN last ELSE f[i]]
  <2>3. ASSUME NEW i \in 0 .. n + 1
        PROVE  g[i] = IF i = 0 THEN parts ELSE WithByte(g[i - 1], text[i])
    <3>1. CASE i = n + 1
      <4>1. n \in 0 .. n + 1 /\ n # n + 1 /\ i # 0 /\ i - 1 = n
        BY <3>1
      <4>2. g[n] = f[n] /\ g[i] = WithByte(f[n], text[n + 1])
        BY <3>1, <4>1
      <4> QED
        BY <3>1, <4>1, <4>2
    <3>2. CASE i # n + 1
      <4>1. i \in 0 .. n /\ (i # 0 => i - 1 \in 0 .. n + 1 /\ i - 1 # n + 1)
        BY <3>2
      <4>2. g[i] = f[i] /\ (i # 0 => g[i - 1] = f[i - 1])
        BY <3>2, <4>1
      <4> QED
        BY <2>2, <4>1, <4>2
    <3> QED
      BY <3>1, <3>2
  <2>4. g = [i \in 0 .. n + 1 |-> g[i]]
    OBVIOUS
  <2> HIDE DEF g
  <2>5. PICK m \in Nat : m = n + 1
    OBVIOUS
  <2>6. g = [i \in 0 .. m |-> g[i]] /\ \A i \in 0 .. m : LineReadsAt(parts, text, g, i)
    BY <2>3, <2>4, <2>5 DEF LineReadsAt
  <2>7. LineReads(parts, text, m, g)
    BY <2>6, LineReadsAre
  <2> QED
    BY <2>5, <2>7
<1> HIDE DEF S
<1>3. Nat \subseteq S
  BY <1>1, <1>2, Induction
<1> QED
  BY <1>3 DEF S

\* Two readings agree as far as their texts do.
LEMMA LineReadsAgree ==
  ASSUME NEW parts, NEW m \in Nat, NEW n \in Nat, m <= n
  PROVE  \A one, two, f, g : (\A i \in 1 .. m : one[i] = two[i]) /\ LineReads(parts, one, m, f) /\ LineReads(parts, two, n, g)
                              => \A i \in 0 .. m : f[i] = g[i]
<1>0. SUFFICES ASSUME NEW one, NEW two, NEW f, NEW g,
                      \A i \in 1 .. m : one[i] = two[i], LineReads(parts, one, m, f), LineReads(parts, two, n, g)
               PROVE  \A i \in 0 .. m : f[i] = g[i]
  OBVIOUS
<1>1. /\ \A i \in 0 .. m : f[i] = IF i = 0 THEN parts ELSE WithByte(f[i - 1], one[i])
      /\ \A i \in 0 .. n : g[i] = IF i = 0 THEN parts ELSE WithByte(g[i - 1], two[i])
  <2>1. (\A i \in 0 .. m : LineReadsAt(parts, one, f, i)) /\ (\A i \in 0 .. n : LineReadsAt(parts, two, g, i))
    BY <1>0, LineReadsAre, Zenon
  <2> QED
    BY <2>1 DEF LineReadsAt
<1> DEFINE S == {k \in Nat : k \in 0 .. m => f[k] = g[k]}
<1>2. 0 \in S
  BY <1>1
<1>3. ASSUME NEW k \in Nat, k \in S  PROVE k + 1 \in S
  <2>1. CASE k + 1 \in 0 .. m
    <3>1. /\ k + 1 \in 0 .. n /\ k + 1 \in 1 .. m /\ k \in 0 .. m /\ (k + 1) - 1 = k /\ k + 1 # 0
      BY <2>1
    <3>2. f[k] = g[k]
      BY <1>3, <3>1
    <3>3. f[k + 1] = WithByte(f[k], one[k + 1]) /\ g[k + 1] = WithByte(g[k], two[k + 1])
      BY <1>1, <2>1, <3>1
    <3>4. one[k + 1] = two[k + 1]
      BY <1>0, <3>1
    <3>5. f[k + 1] = g[k + 1]
      BY <3>2, <3>3, <3>4, Zenon
    <3> QED
      BY <3>5
  <2> QED
    BY <2>1
<1> HIDE DEF S
<1>4. Nat \subseteq S
  BY <1>2, <1>3, Induction
<1> QED
  BY <1>4 DEF S

LEMMA AfterIs ==
  ASSUME NEW parts, NEW text, Len(text) \in Nat
  PROVE  \E f : LineReads(parts, text, Len(text), f) /\ After(parts, text) = f[Len(text)]
<1> DEFINE f == CHOOSE f : LineReads(parts, text, Len(text), f)
<1>1. LineReads(parts, text, Len(text), f)
  BY LineReadsExist
<1>2. After(parts, text) = f[Len(text)]
  BY Zenon DEF After
<1> HIDE DEF f
<1> QED
  BY <1>1, <1>2

LEMMA AfterNothing == \A parts : After(parts, <<>>) = parts
<1>1. SUFFICES ASSUME NEW parts  PROVE After(parts, <<>>) = parts
  OBVIOUS
<1>2. Len(<<>>) = 0
  BY EmptySeq
<1>3. PICK f : LineReads(parts, <<>>, Len(<<>>), f) /\ After(parts, <<>>) = f[Len(<<>>)]
  BY <1>2, AfterIs
<1>4. LineReads(parts, <<>>, 0, f) /\ After(parts, <<>>) = f[0]
  BY <1>2, <1>3
<1>5. f[0] = parts
  <2>1. \A i \in 0 .. 0 : LineReadsAt(parts, <<>>, f, i)
    <3>1. 0 \in Nat
      OBVIOUS
    <3> QED
      BY <1>4, <3>1, LineReadsAre, Zenon
  <2> QED
    BY <2>1 DEF LineReadsAt
<1> QED
  BY <1>4, <1>5

LEMMA AfterByte == \A parts : \A text \in Seq(OutputByte), b \in OutputByte :
                     After(parts, Append(text, b)) = WithByte(After(parts, text), b)
<1>1. SUFFICES ASSUME NEW parts, NEW text \in Seq(OutputByte), NEW b \in OutputByte
               PROVE  After(parts, Append(text, b)) = WithByte(After(parts, text), b)
  OBVIOUS
<1>2. PICK n \in Nat : n = Len(text)
  BY LenProperties
<1>3. PICK m \in Nat : m = n + 1
  OBVIOUS
<1>4. PICK long : /\ long = Append(text, b) /\ Len(long) = m /\ long[m] = b
                  /\ \A i \in 1 .. n : long[i] = text[i]
  <2>1. /\ Len(Append(text, b)) = Len(text) + 1 /\ Append(text, b)[Len(text) + 1] = b
        /\ \A i \in 1 .. Len(text) : Append(text, b)[i] = text[i]
    BY AppendProperties
  <2>2. Len(text) + 1 = m
    BY <1>2, <1>3
  <2> QED
    BY <1>2, <2>1, <2>2, Zenon
<1>5. PICK f : LineReads(parts, text, n, f) /\ After(parts, text) = f[n]
  BY <1>2, AfterIs
<1>6. PICK g : LineReads(parts, long, m, g) /\ After(parts, long) = g[m]
  <2>1. Len(long) \in Nat
    BY <1>4
  <2>2. PICK g : LineReads(parts, long, Len(long), g) /\ After(parts, long) = g[Len(long)]
    BY <2>1, AfterIs
  <2> QED
    BY <1>4, <2>2
<1>7. g[m] = WithByte(g[n], long[m])
  <2>1. \A i \in 0 .. m : LineReadsAt(parts, long, g, i)
    BY <1>6, LineReadsAre, Zenon
  <2>2. m \in 0 .. m /\ m # 0 /\ m - 1 = n
    BY <1>3
  <2>3. LineReadsAt(parts, long, g, m)
    BY <2>1, <2>2
  <2> QED
    BY <2>2, <2>3 DEF LineReadsAt
<1>8. f[n] = g[n]
  <2>1. n <= m /\ n \in 0 .. n /\ \A i \in 1 .. n : text[i] = long[i]
    BY <1>3, <1>4
  <2>2. \A i \in 0 .. n : f[i] = g[i]
    BY <1>5, <1>6, <2>1, LineReadsAgree
  <2> QED
    BY <2>1, <2>2
<1> QED
  BY <1>4, <1>5, <1>6, <1>7, <1>8, Zenon

LEMMA SplitIs == \A text : Split(text) = After(<<(<<>>)>>, text)
BY Zenon DEF Split, After, LineReads

LEMMA AfterTyped == \A parts \in Seq(Line) : parts # <<>> =>
                      \A text \in Line : After(parts, text) \in Seq(Line) /\ After(parts, text) # <<>>
<1>1. SUFFICES ASSUME NEW parts \in Seq(Line), parts # <<>>
               PROVE  \A text \in Line : After(parts, text) \in Seq(Line) /\ After(parts, text) # <<>>
  OBVIOUS
<1> DEFINE S == {text \in Line : After(parts, text) \in Seq(Line) /\ After(parts, text) # <<>>}
<1>2. <<>> \in S
  <2>1. <<>> \in Line
    BY EmptySeq DEF Line
  <2> QED
    BY <1>1, <2>1, AfterNothing
<1>3. ASSUME NEW text \in Seq(OutputByte), NEW b \in OutputByte, text \in S  PROVE Append(text, b) \in S
  <2>1. PICK one : one = After(parts, text)
    OBVIOUS
  <2>2. After(parts, Append(text, b)) = WithByte(one, b)
    BY <2>1, AfterByte
  <2>3. one \in Seq(Line) /\ one # <<>>
    BY <1>3, <2>1
  <2>4. WithByte(one, b) \in Seq(Line) /\ WithByte(one, b) # <<>>
    BY <2>3, WithByteTyped
  <2>5. Append(text, b) \in Line
    BY AppendProperties DEF Line
  <2> QED
    BY <2>2, <2>4, <2>5
<1> HIDE DEF S
<1>4. Line \subseteq S
  <2>1. Seq(OutputByte) \subseteq S
    BY <1>2, <1>3, SequenceInduction
  <2> QED
    BY <2>1 DEF Line
<1> QED
  BY <1>4 DEF S

\* Appending at the end of a concatenation.
LEMMA AppendMoves ==
  ASSUME NEW T, NEW s \in Seq(T), NEW t \in Seq(T), NEW e \in T
  PROVE  s \o Append(t, e) = Append(s \o t, e)
<1>1. <<e>> \in Seq(T) /\ s \o t \in Seq(T)
  BY IsASeq, ConcatProperties
<1>2. Append(t, e) = t \o <<e>> /\ Append(s \o t, e) = (s \o t) \o <<e>>
  BY <1>1, AppendIsConcat
<1>3. (s \o t) \o <<e>> = s \o (t \o <<e>>)
  BY <1>1, ConcatAssociative
<1> QED
  BY <1>2, <1>3, Zenon

ReadsOn(parts, one, two) == After(parts, one \o two) = After(After(parts, one), two)

\* Two chunks, or both at once.
LEMMA AfterBoth == \A parts : \A one, two \in Line : ReadsOn(parts, one, two)
<1>1. SUFFICES ASSUME NEW parts, NEW one \in Line  PROVE \A two \in Line : ReadsOn(parts, one, two)
  OBVIOUS
<1> DEFINE S == {two \in Line : ReadsOn(parts, one, two)}
<1>2. <<>> \in S
  <2>1. <<>> \in Line /\ one \o <<>> = one
    BY EmptySeq, ConcatEmptySeq DEF Line
  <2>2. After(parts, one \o <<>>) = After(After(parts, one), <<>>)
    BY <2>1, AfterNothing, Zenon
  <2> QED
    BY <2>1, <2>2 DEF ReadsOn
<1>3. ASSUME NEW two \in Seq(OutputByte), NEW b \in OutputByte, two \in S  PROVE Append(two, b) \in S
  <2>1. Append(two, b) \in Line
    BY AppendProperties DEF Line
  <2>2. one \o Append(two, b) = Append(one \o two, b)
    BY AppendMoves DEF Line
  <2>3. one \o two \in Seq(OutputByte)
    BY ConcatProperties DEF Line
  <2>4. After(parts, Append(one \o two, b)) = WithByte(After(parts, one \o two), b)
    BY <2>3, AfterByte, Zenon
  <2>5. After(After(parts, one), Append(two, b)) = WithByte(After(After(parts, one), two), b)
    BY AfterByte, Zenon
  <2>6. After(parts, one \o two) = After(After(parts, one), two)
    BY <1>3 DEF ReadsOn
  <2>7. ReadsOn(parts, one, Append(two, b))
    BY <2>2, <2>4, <2>5, <2>6, Zenon DEF ReadsOn
  <2> QED
    BY <2>1, <2>7
<1> HIDE DEF S
<1>4. Line \subseteq S
  <2>1. Seq(OutputByte) \subseteq S
    BY <1>2, <1>3, SequenceInduction
  <2> QED
    BY <2>1 DEF Line
<1> QED
  BY <1>4 DEF S

\* The lines before the last are not read again.
LEMMA AfterOlder == \A older, parts \in Seq(Line) : parts # <<>> =>
                      \A text \in Line : After(older \o parts, text) = older \o After(parts, text)
<1>1. SUFFICES ASSUME NEW older \in Seq(Line), NEW parts \in Seq(Line), parts # <<>>
               PROVE  \A text \in Line : After(older \o parts, text) = older \o After(parts, text)
  OBVIOUS
<1> DEFINE S == {text \in Line : After(older \o parts, text) = older \o After(parts, text)}
<1>2. <<>> \in S
  <2>1. <<>> \in Line
    BY EmptySeq DEF Line
  <2>2. After(older \o parts, <<>>) = older \o After(parts, <<>>)
    BY AfterNothing, Zenon
  <2> QED
    BY <2>1, <2>2
<1>3. ASSUME NEW text \in Seq(OutputByte), NEW b \in OutputByte, text \in S  PROVE Append(text, b) \in S
  <2>1. text \in Line /\ Append(text, b) \in Line
    BY AppendProperties DEF Line
  <2>2. PICK some : some = After(parts, text)
    OBVIOUS
  <2>3. some \in Seq(Line) /\ some # <<>>
    BY <1>1, <2>1, <2>2, AfterTyped, Zenon
  <2>4. PICK before \in Seq(Line), u \in Line : some = Append(before, u)
    BY <2>3, SequenceEmptyOrAppend
  <2>5. PICK longer \in Seq(Line) : longer = older \o before /\ older \o some = Append(longer, u)
    <3>1. older \o before \in Seq(Line) /\ older \o Append(before, u) = Append(older \o before, u)
      BY ConcatProperties, AppendMoves
    <3> QED
      BY <2>4, <3>1
  <2>6. /\ WithByte(Append(before, u), b) =
             IF b = "n" THEN Append(Append(before, Chomp(u)), <<>>) ELSE Append(before, Append(u, b))
        /\ WithByte(Append(longer, u), b) =
             IF b = "n" THEN Append(Append(longer, Chomp(u)), <<>>) ELSE Append(longer, Append(u, b))
    BY WithByteIs
  <2>7. Chomp(u) \in Line /\ <<>> \in Line /\ Append(u, b) \in Line
    BY ChompTyped, EmptySeq, AppendProperties DEF Line
  <2>8. older \o Append(before, Append(u, b)) = Append(longer, Append(u, b))
    BY <2>5, <2>7, AppendMoves
  <2>9. older \o Append(Append(before, Chomp(u)), <<>>) = Append(Append(longer, Chomp(u)), <<>>)
    <3>1. PICK mid \in Seq(Line) : mid = Append(before, Chomp(u))
      BY <2>7, Lengthened, Zenon
    <3>2. older \o mid = Append(longer, Chomp(u))
      BY <2>5, <2>7, <3>1, AppendMoves
    <3>3. older \o Append(mid, <<>>) = Append(older \o mid, <<>>)
      BY <2>7, AppendMoves
    <3> QED
      BY <3>1, <3>2, <3>3, Zenon
  <2>10. WithByte(older \o some, b) = older \o WithByte(some, b)
    <3>1. CASE b = "n"
      BY <2>4, <2>5, <2>6, <2>9, <3>1
    <3>2. CASE b # "n"
      BY <2>4, <2>5, <2>6, <2>8, <3>2
    <3> QED
      BY <3>1, <3>2
  <2>11. /\ After(older \o parts, Append(text, b)) = WithByte(After(older \o parts, text), b)
         /\ After(parts, Append(text, b)) = WithByte(After(parts, text), b)
    BY AfterByte, Zenon
  <2>12. After(older \o parts, text) = older \o After(parts, text)
    BY <1>3
  <2>13. After(older \o parts, Append(text, b)) = older \o After(parts, Append(text, b))
    BY <2>2, <2>10, <2>11, <2>12, Zenon
  <2> QED
    BY <2>1, <2>13
<1> HIDE DEF S
<1>4. Line \subseteq S
  <2>1. Seq(OutputByte) \subseteq S
    BY <1>2, <1>3, SequenceInduction
  <2> QED
    BY <2>1 DEF Line
<1> QED
  BY <1>4 DEF S

\* A text without a newline is one line.
Plain == Seq(OutputByte \ {"n"})

LEMMA PlainIsLine == Plain \subseteq Line
BY SeqMonotonic DEF Plain, Line

LEMMA AfterPlain == \A text \in Plain : After(Append(<<>>, <<>>), text) = Append(<<>>, text)
<1> DEFINE S == {text \in Plain : After(Append(<<>>, <<>>), text) = Append(<<>>, text)}
<1>1. <<>> \in S
  <2>1. <<>> \in Plain
    BY EmptySeq DEF Plain
  <2> QED
    BY <2>1, AfterNothing
<1>2. ASSUME NEW text \in Seq(OutputByte \ {"n"}), NEW b \in OutputByte \ {"n"}, text \in S
      PROVE  Append(text, b) \in S
  <2>1. Append(text, b) \in Plain
    BY AppendProperties DEF Plain
  <2>2. text \in Seq(OutputByte) /\ b \in OutputByte /\ b # "n"
    BY PlainIsLine DEF Plain, Line
  <2>3. After(Append(<<>>, <<>>), Append(text, b)) = WithByte(After(Append(<<>>, <<>>), text), b)
    BY <2>2, AfterByte, Zenon
  <2>4. After(Append(<<>>, <<>>), text) = Append(<<>>, text)
    BY <1>2
  <2>5. <<>> \in Seq(Line) /\ text \in Line
    BY <2>2, EmptySeq DEF Line
  <2>6. WithByte(Append(<<>>, text), b) = Append(<<>>, Append(text, b))
    BY <2>2, <2>5, WithByteIs
  <2>7. After(Append(<<>>, <<>>), Append(text, b)) = Append(<<>>, Append(text, b))
    BY <2>3, <2>4, <2>6, Zenon
  <2> QED
    BY <2>1, <2>7
<1> HIDE DEF S
<1>3. Plain \subseteq S
  <2>1. Seq(OutputByte \ {"n"}) \subseteq S
    BY <1>1, <1>2, SequenceInduction
  <2> QED
    BY <2>1 DEF Plain
<1> QED
  BY <1>3 DEF S

-----------------------------------------------------------------------------
(* The first and the last of a sequence.                                   *)
LEMMA FirstOfIs ==
  ASSUME NEW T, NEW s \in Seq(T), NEW n \in Nat
  PROVE  /\ FirstOf(s, n) \in Seq(T) /\ Len(FirstOf(s, n)) = IF n < Len(s) THEN n ELSE Len(s)
         /\ \A i \in 1 .. Len(FirstOf(s, n)) : FirstOf(s, n)[i] = s[i]
<1>1. PICK m \in Nat : m = IF n < Len(s) THEN n ELSE Len(s)
  BY LenProperties
<1>2. \A i \in 1 .. m : s[i] \in T
  BY <1>1, LenProperties, ElementOfSeq
<1>3. FirstOf(s, n) = SubSeq(s, 1, m)
  BY <1>1 DEF FirstOf
<1>4. /\ SubSeq(s, 1, m) \in Seq(T) /\ Len(SubSeq(s, 1, m)) = IF 1 <= m THEN m - 1 + 1 ELSE 0
      /\ \A i \in 1 .. m - 1 + 1 : SubSeq(s, 1, m)[i] = s[1 + i - 1]
  BY <1>2, SubSeqProperties
<1>5. Len(SubSeq(s, 1, m)) = m /\ \A i \in 1 .. m : SubSeq(s, 1, m)[i] = s[i]
  BY <1>4
<1> QED
  BY <1>1, <1>3, <1>4, <1>5

LEMMA LastOfIs ==
  ASSUME NEW T, NEW s \in Seq(T), NEW n \in Nat
  PROVE  /\ LastOf(s, n) \in Seq(T) /\ Len(LastOf(s, n)) = IF n < Len(s) THEN n ELSE Len(s)
         /\ \A i \in 1 .. Len(LastOf(s, n)) : LastOf(s, n)[i] = s[Len(s) - Len(LastOf(s, n)) + i]
<1>1. PICK m \in Nat : m = IF n < Len(s) THEN n ELSE Len(s)
  BY LenProperties
<1>2. PICK z \in Nat : z = Len(s) /\ m <= z
  BY <1>1, LenProperties
<1>3. \A i \in z - m + 1 .. z : s[i] \in T
  BY <1>1, <1>2, ElementOfSeq
<1>4. LastOf(s, n) = SubSeq(s, z - m + 1, z)
  BY <1>1, <1>2 DEF LastOf
<1>5. PICK a \in Nat : a = z - m + 1
  BY <1>2
<1>6. /\ SubSeq(s, a, z) \in Seq(T) /\ Len(SubSeq(s, a, z)) = IF a <= z THEN z - a + 1 ELSE 0
      /\ \A i \in 1 .. z - a + 1 : SubSeq(s, a, z)[i] = s[a + i - 1]
  BY <1>3, <1>5, SubSeqProperties
<1>7. PICK last : last = SubSeq(s, a, z)
  OBVIOUS
<1>8. last \in Seq(T) /\ Len(last) = m /\ \A i \in 1 .. m : last[i] = s[z - m + i]
  BY <1>2, <1>5, <1>6, <1>7
<1>9. LastOf(s, n) = last
  BY <1>4, <1>5, <1>7
<1>10. /\ last \in Seq(T) /\ Len(last) = IF n < Len(s) THEN n ELSE Len(s)
       /\ \A i \in 1 .. Len(last) : last[i] = s[Len(s) - Len(last) + i]
  BY <1>1, <1>2, <1>8
<1> QED
  BY <1>9, <1>10

-----------------------------------------------------------------------------
(* A line u of the stream, and what is held or published of it, t: all of  *)
(* it, or what it ends with, if that is long.                              *)
Ends(u, t) == Len(t) <= Len(u) /\ \A i \in 1 .. Len(t) : t[i] = u[Len(u) - Len(t) + i]
Held(u, t) == Ends(u, t) /\ (t = u \/ Len(t) >= LineLimit)
Fit(u, t) == Ends(u, t) /\ (t = u \/ (Len(u) >= LineLimit /\ Len(t) >= LineLimit - 1))
Matched(one, two) == Len(one) = Len(two) /\ \A k \in 1 .. Len(one) : Fit(one[k], two[k])
Follows(one, two) == Matched(Front(one), Front(two)) /\ Held(Last(one), Last(two))

LEMMA LineLength == \A u \in Line : Len(u) \in Nat
BY LenProperties DEF Line

LEMMA Longer == \A u \in Line, b \in OutputByte :
  /\ Append(u, b) \in Line /\ Len(Append(u, b)) = Len(u) + 1
  /\ Append(u, b)[Len(u) + 1] = b /\ \A i \in 1 .. Len(u) : Append(u, b)[i] = u[i]
<1>1. SUFFICES ASSUME NEW u \in Seq(OutputByte), NEW b \in OutputByte
      PROVE /\ Append(u, b) \in Seq(OutputByte) /\ Len(Append(u, b)) = Len(u) + 1
            /\ Append(u, b)[Len(u) + 1] = b /\ \A i \in 1 .. Len(u) : Append(u, b)[i] = u[i]
  BY DEF Line
<1> QED
  BY AppendProperties

LEMMA ChompIs == \A u \in Line : \/ Chomp(u) = u /\ (u = <<>> \/ u[Len(u)] # "r")
                                 \/ /\ u # <<>> /\ u[Len(u)] = "r" /\ Len(Chomp(u)) = Len(u) - 1 /\ Len(u) >= 1
                                    /\ \A i \in 1 .. Len(u) - 1 : Chomp(u)[i] = u[i]
<1>1. SUFFICES ASSUME NEW u \in Seq(OutputByte)
      PROVE  \/ Chomp(u) = u /\ (u = <<>> \/ u[Len(u)] # "r")
             \/ /\ u # <<>> /\ u[Len(u)] = "r" /\ Len(Chomp(u)) = Len(u) - 1 /\ Len(u) >= 1
                /\ \A i \in 1 .. Len(u) - 1 : Chomp(u)[i] = u[i]
  BY DEF Line
<1>2. CASE u = <<>> \/ Last(u) # "r"
  BY <1>2 DEF Chomp, Last
<1>3. CASE u # <<>> /\ Last(u) = "r"
  <2>1. Len(u) \in Nat \ {0} /\ Len(Front(u)) = Len(u) - 1 /\ \A i \in 1 .. Len(u) - 1 : Front(u)[i] = u[i]
    BY <1>3, AppendFrontLast
  <2> QED
    BY <1>3, <2>1 DEF Chomp, Last
<1> QED
  BY <1>2, <1>3

LEMMA HeldFits == \A u, t \in Line : Held(u, t) => Fit(u, t)
BY LimitAssumption, LineLength DEF Held, Fit, Ends

LEMMA HeldSame == \A u \in Line : Held(u, u)
BY LineLength DEF Held, Ends

LEMMA HeldByte == \A u, t \in Line, b \in OutputByte : Held(u, t) => Held(Append(u, b), Append(t, b))
<1>1. SUFFICES ASSUME NEW u \in Line, NEW t \in Line, NEW b \in OutputByte, Held(u, t)
               PROVE  Held(Append(u, b), Append(t, b))
  OBVIOUS
<1>2. PICK m \in Nat : m = Len(u)
  BY LineLength
<1>3. PICK n \in Nat : n = Len(t)
  BY LineLength
<1>4. PICK one : one = Append(u, b) /\ Len(one) = m + 1 /\ one[m + 1] = b /\ \A i \in 1 .. m : one[i] = u[i]
  <2>1. /\ Len(Append(u, b)) = Len(u) + 1 /\ Append(u, b)[Len(u) + 1] = b
        /\ \A i \in 1 .. Len(u) : Append(u, b)[i] = u[i]
    BY Longer
  <2> QED
    BY <1>2, <2>1, Zenon
<1>5. PICK two : two = Append(t, b) /\ Len(two) = n + 1 /\ two[n + 1] = b /\ \A i \in 1 .. n : two[i] = t[i]
  <2>1. /\ Len(Append(t, b)) = Len(t) + 1 /\ Append(t, b)[Len(t) + 1] = b
        /\ \A i \in 1 .. Len(t) : Append(t, b)[i] = t[i]
    BY Longer
  <2> QED
    BY <1>3, <2>1, Zenon
<1>6. n <= m /\ (\A i \in 1 .. n : t[i] = u[m - n + i]) /\ (t = u \/ n >= LineLimit)
  BY <1>1, <1>2, <1>3 DEF Held, Ends
<1>7. ASSUME NEW i \in 1 .. n + 1  PROVE two[i] = one[(m + 1) - (n + 1) + i]
  <2>1. CASE i = n + 1
    <3>1. (m + 1) - (n + 1) + i = m + 1
      BY <2>1
    <3> QED
      BY <1>4, <1>5, <2>1, <3>1
  <2>2. CASE i # n + 1
    <3>1. i \in 1 .. n /\ m - n + i \in 1 .. m /\ (m + 1) - (n + 1) + i = m - n + i
      BY <1>6, <2>2
    <3> QED
      BY <1>4, <1>5, <1>6, <3>1
  <2> QED
    BY <2>1, <2>2
<1>8. two = one \/ n + 1 >= LineLimit
  BY <1>4, <1>5, <1>6, LimitAssumption
<1>9. Ends(one, two)
  <2>1. Len(two) <= Len(one)
    BY <1>4, <1>5, <1>6
  <2>2. \A i \in 1 .. Len(two) : two[i] = one[Len(one) - Len(two) + i]
    BY <1>4, <1>5, <1>7
  <2> QED
    BY <2>1, <2>2 DEF Ends
<1>10. Held(one, two)
  BY <1>5, <1>8, <1>9 DEF Held
<1> QED
  BY <1>4, <1>5, <1>10

LEMMA HeldChomp == \A u, t \in Line : Held(u, t) => Fit(Chomp(u), Chomp(t))
<1>1. SUFFICES ASSUME NEW u \in Line, NEW t \in Line, Held(u, t), t # u
               PROVE  Fit(Chomp(u), Chomp(t))
  <2>1. \A u \in Line : Fit(Chomp(u), Chomp(u))
    BY ChompTyped, HeldSame, HeldFits
  <2> QED
    BY <1>1, <2>1
<1>2. PICK m \in Nat : m = Len(u)
  BY LineLength
<1>3. PICK n \in Nat : n = Len(t)
  BY LineLength
<1>4. n <= m /\ (\A i \in 1 .. n : t[i] = u[m - n + i]) /\ n >= LineLimit
  BY <1>1, <1>2, <1>3 DEF Held, Ends
<1>5. PICK one : one = Chomp(u) /\ one \in Line
  BY ChompTyped
<1>6. PICK two : two = Chomp(t) /\ two \in Line
  BY ChompTyped
<1>7. \/ one = u /\ (u = <<>> \/ u[m] # "r")
      \/ u[m] = "r" /\ Len(one) = m - 1 /\ m >= 1 /\ \A i \in 1 .. m - 1 : one[i] = u[i]
  BY <1>2, <1>5, ChompIs
<1>8. \/ two = t /\ (t = <<>> \/ t[n] # "r")
      \/ t[n] = "r" /\ t # <<>> /\ Len(two) = n - 1 /\ n >= 1 /\ \A i \in 1 .. n - 1 : two[i] = t[i]
  BY <1>3, <1>6, ChompIs
<1>9. n >= 1 => t[n] = u[m]
  BY <1>4
<1>10. (t = <<>> <=> n = 0) /\ (u = <<>> <=> m = 0)
  <2>1. (t = <<>> <=> Len(t) = 0) /\ (u = <<>> <=> Len(u) = 0)
    BY EmptySeq DEF Line
  <2> QED
    BY <1>2, <1>3, <2>1
<1>11. CASE n = 0
  <2>1. two = t
    BY <1>8, <1>11
  <2>2. LineLimit = 0 /\ Len(one) \in Nat
    BY <1>4, <1>5, <1>11, LimitAssumption, LineLength
  <2>3. Len(two) = 0
    BY <1>3, <1>11, <2>1
  <2>4. Ends(one, two)
    BY <2>2, <2>3 DEF Ends
  <2>5. Fit(one, two)
    BY <2>2, <2>3, <2>4 DEF Fit
  <2> QED
    BY <1>5, <1>6, <2>5
<1>12. CASE n >= 1 /\ u[m] # "r"
  <2>1. one = u /\ two = t
    BY <1>7, <1>8, <1>9, <1>12
  <2> QED
    BY <1>1, <1>5, <1>6, <2>1, HeldFits
<1>13. CASE n >= 1 /\ u[m] = "r"
  <2>1. /\ Len(one) = m - 1 /\ \A i \in 1 .. m - 1 : one[i] = u[i]
        /\ Len(two) = n - 1 /\ \A i \in 1 .. n - 1 : two[i] = t[i]
    BY <1>4, <1>7, <1>8, <1>9, <1>10, <1>13
  <2>2. ASSUME NEW i \in 1 .. n - 1  PROVE two[i] = one[(m - 1) - (n - 1) + i]
    <3>1. i \in 1 .. n /\ m - n + i \in 1 .. m - 1 /\ (m - 1) - (n - 1) + i = m - n + i
      BY <1>4
    <3> QED
      BY <1>4, <2>1, <3>1
  <2>3. Ends(one, two)
    BY <1>4, <2>1, <2>2 DEF Ends
  <2>4. two = one \/ Len(one) >= LineLimit
    <3>1. CASE m = n
      <4>1. \A i \in 1 .. n - 1 : two[i] = one[i]
        BY <2>2, <3>1
      <4>2. Len(one) = Len(two)
        BY <2>1, <3>1
      <4>3. one \in Seq(OutputByte) /\ two \in Seq(OutputByte)
        BY <1>5, <1>6 DEF Line
      <4> QED
        BY <2>1, <4>1, <4>2, <4>3, SeqEqual
    <3>2. CASE m # n
      BY <1>4, <2>1, <3>2, LimitAssumption
    <3> QED
      BY <3>1, <3>2
  <2>5. Fit(one, two)
    BY <1>4, <2>1, <2>3, <2>4, LimitAssumption DEF Fit
  <2> QED
    BY <1>5, <1>6, <2>5
<1> QED
  BY <1>11, <1>12, <1>13

LEMMA HeldCut == \A u \in Line, t \in Plain : Held(u, t) =>
                   LastOf(t, LineLimit) \in Plain /\ Held(u, LastOf(t, LineLimit))
<1>1. SUFFICES ASSUME NEW u \in Line, NEW t \in Plain, Held(u, t)
               PROVE  LastOf(t, LineLimit) \in Plain /\ Held(u, LastOf(t, LineLimit))
  OBVIOUS
<1>2. PICK m \in Nat : m = Len(u)
  BY LineLength
<1>3. PICK n \in Nat : n = Len(t)
  BY LineLength, PlainIsLine
<1>4. PICK cut : /\ cut = LastOf(t, LineLimit) /\ cut \in Plain
                 /\ Len(cut) = (IF LineLimit < n THEN LineLimit ELSE n)
                 /\ \A i \in 1 .. Len(cut) : cut[i] = t[n - Len(cut) + i]
  <2>1. t \in Seq(OutputByte \ {"n"}) /\ LineLimit \in Nat
    BY LimitAssumption DEF Plain
  <2>2. /\ LastOf(t, LineLimit) \in Seq(OutputByte \ {"n"})
        /\ Len(LastOf(t, LineLimit)) = IF LineLimit < Len(t) THEN LineLimit ELSE Len(t)
        /\ \A i \in 1 .. Len(LastOf(t, LineLimit)) : LastOf(t, LineLimit)[i] = t[Len(t) - Len(LastOf(t, LineLimit)) + i]
    BY <2>1, LastOfIs
  <2> QED
    BY <1>3, <2>2 DEF Plain
<1>5. n <= m /\ (\A i \in 1 .. n : t[i] = u[m - n + i]) /\ (t = u \/ n >= LineLimit)
  BY <1>1, <1>2, <1>3 DEF Held, Ends
<1>6. PICK z \in Nat : z = Len(cut) /\ z <= n /\ (z = n \/ z = LineLimit)
  BY <1>4, LimitAssumption
<1>7. ASSUME NEW i \in 1 .. z  PROVE cut[i] = u[m - z + i]
  <2>1. n - z + i \in 1 .. n /\ m - n + (n - z + i) = m - z + i
    BY <1>6
  <2>2. cut[i] = t[n - z + i]
    BY <1>4, <1>6
  <2>3. t[n - z + i] = u[m - n + (n - z + i)]
    BY <1>5, <2>1
  <2> QED
    BY <2>1, <2>2, <2>3
<1>8. cut = u \/ z >= LineLimit
  <2>1. CASE z = n /\ t = u
    <3>1. \A i \in 1 .. z : cut[i] = t[i]
      BY <1>4, <1>6, <2>1
    <3>2. cut \in Seq(OutputByte \ {"n"}) /\ t \in Seq(OutputByte \ {"n"}) /\ Len(cut) = Len(t)
      BY <1>3, <1>4, <1>6, <2>1 DEF Plain
    <3>3. cut = t
      BY <1>6, <3>1, <3>2, SeqEqual
    <3> QED
      BY <2>1, <3>3
  <2>2. CASE ~(z = n /\ t = u)
    BY <1>5, <1>6, <2>2, LimitAssumption
  <2> QED
    BY <2>1, <2>2
<1>9. Held(u, cut)
  BY <1>2, <1>5, <1>6, <1>7, <1>8 DEF Held, Ends
<1> QED
  BY <1>4, <1>9

LEMMA ListLength == \A one \in Seq(Line) : Len(one) \in Nat
BY LenProperties

LEMMA LongerList == \A one \in Seq(Line), u \in Line :
  /\ Append(one, u) \in Seq(Line) /\ Len(Append(one, u)) = Len(one) + 1
  /\ Append(one, u)[Len(one) + 1] = u /\ \A k \in 1 .. Len(one) : Append(one, u)[k] = one[k]
  /\ Front(Append(one, u)) = one /\ Last(Append(one, u)) = u
<1>1. SUFFICES ASSUME NEW one \in Seq(Line), NEW u \in Line
      PROVE /\ Append(one, u) \in Seq(Line) /\ Len(Append(one, u)) = Len(one) + 1
            /\ Append(one, u)[Len(one) + 1] = u /\ \A k \in 1 .. Len(one) : Append(one, u)[k] = one[k]
            /\ Front(Append(one, u)) = one /\ Last(Append(one, u)) = u
  OBVIOUS
<1>2. Front(Append(one, u)) = one /\ Last(Append(one, u)) = u
  BY FrontAndLast
<1> QED
  BY <1>2, AppendProperties

LEMMA MatchedMore == \A one, two \in Seq(Line), u, t \in Line :
                       Matched(one, two) /\ Fit(u, t) => Matched(Append(one, u), Append(two, t))
<1>1. SUFFICES ASSUME NEW one \in Seq(Line), NEW two \in Seq(Line), NEW u \in Line, NEW t \in Line,
                      Matched(one, two), Fit(u, t)
               PROVE  Matched(Append(one, u), Append(two, t))
  OBVIOUS
<1>2. PICK n \in Nat : n = Len(one) /\ n = Len(two)
  BY <1>1, ListLength DEF Matched
<1>3. PICK more : more = Append(one, u) /\ Len(more) = n + 1 /\ more[n + 1] = u /\ \A k \in 1 .. n : more[k] = one[k]
  <2>1. /\ Len(Append(one, u)) = Len(one) + 1 /\ Append(one, u)[Len(one) + 1] = u
        /\ \A k \in 1 .. Len(one) : Append(one, u)[k] = one[k]
    BY LongerList, Zenon
  <2> QED
    BY <1>2, <2>1, Zenon
<1>4. PICK most : most = Append(two, t) /\ Len(most) = n + 1 /\ most[n + 1] = t /\ \A k \in 1 .. n : most[k] = two[k]
  <2>1. /\ Len(Append(two, t)) = Len(two) + 1 /\ Append(two, t)[Len(two) + 1] = t
        /\ \A k \in 1 .. Len(two) : Append(two, t)[k] = two[k]
    BY LongerList, Zenon
  <2> QED
    BY <1>2, <2>1, Zenon
<1>5. \A k \in 1 .. n : Fit(one[k], two[k])
  BY <1>1, <1>2 DEF Matched
<1>6. ASSUME NEW k \in 1 .. n + 1  PROVE Fit(more[k], most[k])
  <2>1. CASE k = n + 1
    BY <1>1, <1>3, <1>4, <2>1
  <2>2. CASE k # n + 1
    <3>1. k \in 1 .. n
      BY <2>2
    <3> QED
      BY <1>3, <1>4, <1>5, <3>1
  <2> QED
    BY <2>1, <2>2
<1>7. Matched(more, most)
  BY <1>3, <1>4, <1>6 DEF Matched
<1> QED
  BY <1>3, <1>4, <1>7

\* A byte leaves the lines of the stream and those of its reader alike.
LEMMA FollowsByte == \A one, two \in Seq(Line), b \in OutputByte :
                       one # <<>> /\ two # <<>> /\ Follows(one, two) => Follows(WithByte(one, b), WithByte(two, b))
<1>1. SUFFICES ASSUME NEW one \in Seq(Line), NEW two \in Seq(Line), NEW b \in OutputByte,
                      one # <<>>, two # <<>>, Follows(one, two)
               PROVE  Follows(WithByte(one, b), WithByte(two, b))
  OBVIOUS
<1>2. PICK a \in Seq(Line), u \in Line : one = Append(a, u)
  BY <1>1, SequenceEmptyOrAppend
<1>3. PICK c \in Seq(Line), t \in Line : two = Append(c, t)
  BY <1>1, SequenceEmptyOrAppend
<1>4. Matched(a, c) /\ Held(u, t)
  BY <1>1, <1>2, <1>3, LongerList DEF Follows
<1>5. <<>> \in Line /\ Chomp(u) \in Line /\ Chomp(t) \in Line /\ Append(u, b) \in Line /\ Append(t, b) \in Line
  <2>1. <<>> \in Line
    BY EmptySeq DEF Line
  <2> QED
    BY <2>1, ChompTyped, Longer, Zenon
<1>6. CASE b = "n"
  <2>1. PICK a1 \in Seq(Line) : a1 = Append(a, Chomp(u))
    BY <1>5, LongerList, Zenon
  <2>2. PICK c1 \in Seq(Line) : c1 = Append(c, Chomp(t))
    BY <1>5, LongerList, Zenon
  <2>3. WithByte(one, b) = Append(a1, <<>>) /\ WithByte(two, b) = Append(c1, <<>>)
    BY <1>2, <1>3, <1>6, <2>1, <2>2, WithByteIs
  <2>4. Fit(Chomp(u), Chomp(t))
    BY <1>4, HeldChomp, Zenon
  <2>5. Matched(a1, c1)
    BY <1>4, <1>5, <2>1, <2>2, <2>4, MatchedMore, Zenon
  <2>6. Held(<<>>, <<>>)
    BY <1>5, HeldSame, Zenon
  <2>7. /\ Front(Append(a1, <<>>)) = a1 /\ Last(Append(a1, <<>>)) = <<>>
        /\ Front(Append(c1, <<>>)) = c1 /\ Last(Append(c1, <<>>)) = <<>>
    BY <1>5, LongerList, Zenon
  <2> QED
    BY <2>3, <2>5, <2>6, <2>7, Zenon DEF Follows
<1>7. CASE b # "n"
  <2>1. WithByte(one, b) = Append(a, Append(u, b)) /\ WithByte(two, b) = Append(c, Append(t, b))
    BY <1>2, <1>3, <1>7, WithByteIs
  <2>2. Held(Append(u, b), Append(t, b))
    BY <1>4, HeldByte, Zenon
  <2>3. /\ Front(Append(a, Append(u, b))) = a /\ Last(Append(a, Append(u, b))) = Append(u, b)
        /\ Front(Append(c, Append(t, b))) = c /\ Last(Append(c, Append(t, b))) = Append(t, b)
    BY <1>5, LongerList, Zenon
  <2> QED
    BY <1>4, <2>1, <2>2, <2>3, Zenon DEF Follows
<1> QED
  BY <1>6, <1>7

LEMMA FollowsAfter == \A one, two \in Seq(Line) : one # <<>> /\ two # <<>> /\ Follows(one, two) =>
                        \A text \in Line : Follows(After(one, text), After(two, text))
<1>1. SUFFICES ASSUME NEW one \in Seq(Line), NEW two \in Seq(Line), one # <<>>, two # <<>>, Follows(one, two)
               PROVE  \A text \in Line : Follows(After(one, text), After(two, text))
  OBVIOUS
<1> DEFINE S == {text \in Line : Follows(After(one, text), After(two, text))}
<1>2. <<>> \in S
  <2>1. <<>> \in Line
    BY EmptySeq DEF Line
  <2> QED
    BY <1>1, <2>1, AfterNothing
<1>3. ASSUME NEW text \in Seq(OutputByte), NEW b \in OutputByte, text \in S  PROVE Append(text, b) \in S
  <2>1. text \in Line /\ Append(text, b) \in Line
    BY AppendProperties DEF Line
  <2>2. PICK p \in Seq(Line) : p = After(one, text) /\ p # <<>>
    BY <1>1, <2>1, AfterTyped, Zenon
  <2>3. PICK q \in Seq(Line) : q = After(two, text) /\ q # <<>>
    BY <1>1, <2>1, AfterTyped, Zenon
  <2>4. Follows(p, q)
    BY <1>3, <2>2, <2>3
  <2>5. Follows(WithByte(p, b), WithByte(q, b))
    BY <2>2, <2>3, <2>4, FollowsByte, Zenon
  <2>6. After(one, Append(text, b)) = WithByte(p, b) /\ After(two, Append(text, b)) = WithByte(q, b)
    BY <2>2, <2>3, AfterByte, Zenon
  <2>7. Follows(After(one, Append(text, b)), After(two, Append(text, b)))
    BY <2>5, <2>6, Zenon
  <2> QED
    BY <2>1, <2>7
<1> HIDE DEF S
<1>4. Line \subseteq S
  <2>1. Seq(OutputByte) \subseteq S
    BY <1>2, <1>3, SequenceInduction
  <2> QED
    BY <2>1 DEF Line
<1> QED
  BY <1>4 DEF S

\* The last of the lines is without a newline, as it was before.
LEMMA LastIsPlain == \A parts \in Seq(Line) : parts # <<>> /\ Last(parts) \in Plain =>
                       \A text \in Line : Last(After(parts, text)) \in Plain
<1>1. SUFFICES ASSUME NEW parts \in Seq(Line), parts # <<>>, Last(parts) \in Plain
               PROVE  \A text \in Line : Last(After(parts, text)) \in Plain
  OBVIOUS
<1> DEFINE S == {text \in Line : Last(After(parts, text)) \in Plain}
<1>2. <<>> \in S
  <2>1. <<>> \in Line
    BY EmptySeq DEF Line
  <2> QED
    BY <1>1, <2>1, AfterNothing
<1>3. ASSUME NEW text \in Seq(OutputByte), NEW b \in OutputByte, text \in S  PROVE Append(text, b) \in S
  <2>1. text \in Line /\ Append(text, b) \in Line
    BY AppendProperties DEF Line
  <2>2. PICK p \in Seq(Line) : p = After(parts, text) /\ p # <<>>
    BY <1>1, <2>1, AfterTyped, Zenon
  <2>3. PICK a \in Seq(Line), u \in Line : p = Append(a, u)
    BY <2>2, SequenceEmptyOrAppend
  <2>4. u \in Plain
    <3>1. Last(p) = u
      BY <2>3, LongerList
    <3> QED
      BY <1>3, <2>2, <3>1
  <2>5. <<>> \in Line /\ <<>> \in Plain /\ Chomp(u) \in Line /\ Append(u, b) \in Line
    <3>1. <<>> \in Line /\ <<>> \in Plain
      BY EmptySeq DEF Line, Plain
    <3> QED
      BY <3>1, ChompTyped, Longer, Zenon
  <2>6. After(parts, Append(text, b)) = WithByte(p, b)
    BY <2>2, AfterByte, Zenon
  <2>7. Last(WithByte(p, b)) \in Plain
    <3>1. CASE b = "n"
      <4>1. PICK a1 \in Seq(Line) : a1 = Append(a, Chomp(u))
        BY <2>5, LongerList, Zenon
      <4>2. WithByte(p, b) = Append(a1, <<>>)
        BY <2>3, <3>1, <4>1, WithByteIs
      <4>3. Last(Append(a1, <<>>)) = <<>>
        BY <2>5, LongerList, Zenon
      <4> QED
        BY <2>5, <4>2, <4>3
    <3>2. CASE b # "n"
      <4>1. WithByte(p, b) = Append(a, Append(u, b))
        BY <2>3, <3>2, WithByteIs
      <4>2. Last(Append(a, Append(u, b))) = Append(u, b)
        BY <2>5, LongerList, Zenon
      <4>3. Append(u, b) \in Plain
        <5>1. u \in Seq(OutputByte \ {"n"}) /\ b \in OutputByte \ {"n"}
          BY <2>4, <3>2 DEF Plain
        <5> QED
          BY <5>1, AppendProperties DEF Plain
      <4> QED
        BY <4>1, <4>2, <4>3
    <3> QED
      BY <3>1, <3>2
  <2>8. Last(After(parts, Append(text, b))) \in Plain
    BY <2>6, <2>7
  <2> QED
    BY <2>1, <2>8
<1> HIDE DEF S
<1>4. Line \subseteq S
  <2>1. Seq(OutputByte) \subseteq S
    BY <1>2, <1>3, SequenceInduction
  <2> QED
    BY <2>1 DEF Line
<1> QED
  BY <1>4 DEF S

-----------------------------------------------------------------------------
(* The invariant.  The head and the tail of the capture are bytes of the   *)
(* stream at their places; and the lines of the stream, read in one piece, *)
(* are those that went out and the one that waits, each as far as it was   *)
(* kept.                                                                   *)
OutputTypeOK ==
  /\ stream \in Line
  /\ capture \in [head : Line, tail : Line, truncated : BOOLEAN]
  /\ lines \in [tail : Plain, published : Seq(Line), logged : Seq(Line), finished : BOOLEAN]

Captured(s, head, tail, truncated) ==
  /\ Len(head) = IF HeadRoom < Len(s) THEN HeadRoom ELSE Len(s)
  /\ \A i \in 1 .. Len(head) : head[i] = s[i]
  /\ Len(tail) = IF TailRoom < Len(s) - Len(head) THEN TailRoom ELSE Len(s) - Len(head)
  /\ \A i \in 1 .. Len(tail) : tail[i] = s[Len(s) - Len(tail) + i]
  /\ truncated <=> Len(s) > Limit

CaptureInv == Captured(stream, capture.head, capture.tail, capture.truncated)

LinesInv ==
  /\ ~lines.finished => /\ lines.logged = lines.published
                        /\ Follows(Split(stream), Append(lines.published, lines.tail))
  /\ lines.finished => /\ Matched(Split(stream), lines.published)
                       /\ Len(lines.logged) <= Len(lines.published)
                       /\ \A k \in 1 .. Len(lines.logged) : lines.logged[k] = lines.published[k]

OutputInv == OutputTypeOK /\ CaptureInv /\ LinesInv

LEMMA Rooms == HeadRoom \in Nat /\ TailRoom \in Nat /\ HeadRoom + TailRoom = Limit
<1>1. PICK q \in Nat : q = Limit \div 4 /\ q <= Limit
  BY LimitAssumption
<1>2. HeadRoom = IF q < HeadLimit THEN q ELSE HeadLimit
  BY <1>1 DEF HeadRoom
<1>3. HeadRoom \in Nat /\ HeadRoom <= Limit
  BY <1>1, <1>2, LimitAssumption
<1> QED
  BY <1>3, LimitAssumption DEF TailRoom

LEMMA Joined == \A one, two \in Line :
  /\ one \o two \in Line /\ Len(one \o two) = Len(one) + Len(two)
  /\ \A i \in 1 .. Len(one) : (one \o two)[i] = one[i]
  /\ \A i \in 1 .. Len(two) : (one \o two)[Len(one) + i] = two[i]
<1>1. SUFFICES ASSUME NEW one \in Seq(OutputByte), NEW two \in Seq(OutputByte)
      PROVE /\ one \o two \in Seq(OutputByte) /\ Len(one \o two) = Len(one) + Len(two)
            /\ \A i \in 1 .. Len(one) : (one \o two)[i] = one[i]
            /\ \A i \in 1 .. Len(two) : (one \o two)[Len(one) + i] = two[i]
  BY DEF Line
<1>2. PICK m \in Nat : m = Len(one)
  BY LenProperties
<1>3. PICK n \in Nat : n = Len(two)
  BY LenProperties
<1>4. PICK both : both = one \o two
  OBVIOUS
<1>5. /\ both \in Seq(OutputByte) /\ Len(both) = m + n
      /\ \A i \in 1 .. m + n : both[i] = IF i <= m THEN one[i] ELSE two[i - m]
  BY <1>2, <1>3, <1>4, ConcatProperties
<1>6. \A i \in 1 .. m : both[i] = one[i]
  BY <1>5
<1>7. ASSUME NEW i \in 1 .. n  PROVE both[m + i] = two[i]
  <2>1. m + i \in 1 .. m + n /\ ~(m + i <= m) /\ (m + i) - m = i
    OBVIOUS
  <2>2. both[m + i] = two[(m + i) - m]
    BY <1>5, <2>1
  <2> QED
    BY <2>1, <2>2
<1> QED
  BY <1>2, <1>3, <1>4, <1>5, <1>6, <1>7

LEMMA LineFirst == \A s \in Line, n \in Nat :
  /\ FirstOf(s, n) \in Line /\ Len(FirstOf(s, n)) = (IF n < Len(s) THEN n ELSE Len(s))
  /\ \A i \in 1 .. Len(FirstOf(s, n)) : FirstOf(s, n)[i] = s[i]
BY FirstOfIs DEF Line

LEMMA LineLast == \A s \in Line, n \in Nat :
  /\ LastOf(s, n) \in Line /\ Len(LastOf(s, n)) = (IF n < Len(s) THEN n ELSE Len(s))
  /\ \A i \in 1 .. Len(LastOf(s, n)) : LastOf(s, n)[i] = s[Len(s) - Len(LastOf(s, n)) + i]
BY LastOfIs DEF Line

\* How many bytes go where, of m more after n.
LEMMA Shares ==
  ASSUME NEW H \in Nat, NEW T \in Nat, NEW n \in Nat, NEW m \in Nat, NEW h \in Nat, NEW d \in Nat,
         NEW k \in Nat, NEW a \in Nat, NEW z \in Nat,
         h = (IF H < n THEN H ELSE n), d = (IF T < n - h THEN T ELSE n - h),
         k = (IF H - h < m THEN H - h ELSE m), a = d + (m - k), z = (IF T < a THEN T ELSE a)
  PROVE  /\ h + k = (IF H < n + m THEN H ELSE n + m)
         /\ z = (IF T < (n + m) - (h + k) THEN T ELSE (n + m) - (h + k))
         /\ (n > H + T \/ a > T) <=> n + m > H + T
<1>1. CASE n <= H
  <2>1. h = n /\ d = 0
    BY <1>1
  <2>2. CASE H - n < m
    BY <2>1, <2>2
  <2>3. CASE ~(H - n < m)
    BY <2>1, <2>3
  <2> QED
    BY <2>2, <2>3
<1>2. CASE n > H
  <2>1. h = H /\ k = 0
    BY <1>2
  <2>2. CASE T < n - H
    BY <1>2, <2>1, <2>2
  <2>3. CASE ~(T < n - H)
    BY <1>2, <2>1, <2>3
  <2> QED
    BY <2>2, <2>3
<1> QED
  BY <1>1, <1>2

\* What append() makes of a chunk: what the head takes, the tail with the rest, the mark.
Appends(c, head, tail, was, taken, all, marked) ==
  /\ taken = FirstOf(c, HeadRoom - Len(head))
  /\ all = tail \o SubSeq(c, Len(taken) + 1, Len(c))
  /\ marked <=> (was \/ Len(all) > TailRoom)

LEMMA Appended ==
  ASSUME NEW s \in Line, NEW c \in Line, NEW head \in Line, NEW tail \in Line, NEW b \in BOOLEAN,
         NEW taken, NEW all, NEW marked \in BOOLEAN,
         Captured(s, head, tail, b), Appends(c, head, tail, b, taken, all, marked)
  PROVE  /\ head \o taken \in Line /\ LastOf(all, TailRoom) \in Line
         /\ Captured(s \o c, head \o taken, LastOf(all, TailRoom), marked)
<1>0. taken = FirstOf(c, HeadRoom - Len(head)) /\ all = tail \o SubSeq(c, Len(taken) + 1, Len(c))
  BY DEF Appends
<1>1. PICK H \in Nat : H = HeadRoom
  BY Rooms
<1>2. PICK T \in Nat : T = TailRoom
  BY Rooms
<1>3. H + T = Limit
  BY <1>1, <1>2, Rooms
<1>4. PICK n \in Nat : n = Len(s)
  BY LineLength
<1>5. PICK m \in Nat : m = Len(c)
  BY LineLength
<1>6. PICK h \in Nat : h = Len(head)
  BY LineLength
<1>7. PICK d \in Nat : d = Len(tail)
  BY LineLength
<1>8. /\ h = (IF H < n THEN H ELSE n) /\ \A i \in 1 .. h : head[i] = s[i]
      /\ d = (IF T < n - h THEN T ELSE n - h) /\ \A i \in 1 .. d : tail[i] = s[n - d + i]
      /\ b <=> n > H + T
  BY <1>1, <1>2, <1>3, <1>4, <1>6, <1>7 DEF Captured
<1>9. PICK whole : /\ whole = s \o c /\ whole \in Line /\ Len(whole) = n + m
                   /\ \A i \in 1 .. n : whole[i] = s[i]
                   /\ \A i \in 1 .. m : whole[n + i] = c[i]
  <2>1. /\ s \o c \in Line /\ Len(s \o c) = Len(s) + Len(c)
        /\ \A i \in 1 .. Len(s) : (s \o c)[i] = s[i]
        /\ \A i \in 1 .. Len(c) : (s \o c)[Len(s) + i] = c[i]
    BY Joined, Zenon
  <2> QED
    BY <1>4, <1>5, <2>1, Zenon
<1>10. PICK k \in Nat : k = (IF H - h < m THEN H - h ELSE m) /\ k <= m /\ k <= H - h /\ H - h \in Nat
  <2>1. h <= H
    <3>1. h = IF H < n THEN H ELSE n
      BY <1>8
    <3> QED
      BY <3>1
  <2>2. PICK r \in Nat : r = H - h
    BY <2>1
  <2>3. PICK k \in Nat : k = IF r < m THEN r ELSE m
    OBVIOUS
  <2>4. k = (IF H - h < m THEN H - h ELSE m)
    BY <2>2, <2>3
  <2>5. k <= m /\ k <= H - h /\ H - h \in Nat
    BY <2>2, <2>3
  <2> QED
    BY <2>4, <2>5, Zenon
<1>11. /\ taken \in Line /\ Len(taken) = k /\ \A i \in 1 .. k : taken[i] = c[i]
  <2>1. PICK r \in Nat : r = H - h
    BY <1>10
  <2>2. taken = FirstOf(c, r)
    BY <1>0, <1>1, <1>6, <2>1
  <2>3. /\ FirstOf(c, r) \in Line /\ Len(FirstOf(c, r)) = (IF r < Len(c) THEN r ELSE Len(c))
        /\ \A i \in 1 .. Len(FirstOf(c, r)) : FirstOf(c, r)[i] = c[i]
    BY LineFirst, Zenon
  <2>4. /\ taken \in Line /\ Len(taken) = (IF r < Len(c) THEN r ELSE Len(c))
        /\ \A i \in 1 .. Len(taken) : taken[i] = c[i]
    BY <2>2, <2>3, Zenon
  <2>5. Len(taken) = k
    BY <1>5, <1>10, <2>1, <2>4
  <2> QED
    BY <2>4, <2>5
<1>12. PICK rest : /\ rest = SubSeq(c, Len(taken) + 1, Len(c)) /\ rest \in Line /\ Len(rest) = m - k
                   /\ \A i \in 1 .. m - k : rest[i] = c[k + i]
  <2>1. c \in Seq(OutputByte) /\ \A i \in k + 1 .. m : c[i] \in OutputByte
    <3>1. c \in Seq(OutputByte)
      BY DEF Line
    <3> QED
      BY <1>5, <3>1, ElementOfSeq
  <2>2. PICK l \in Nat : l = k + 1
    OBVIOUS
  <2>3. /\ SubSeq(c, l, m) \in Seq(OutputByte) /\ Len(SubSeq(c, l, m)) = IF l <= m THEN m - l + 1 ELSE 0
        /\ \A i \in 1 .. m - l + 1 : SubSeq(c, l, m)[i] = c[l + i - 1]
    BY <2>1, <2>2, SubSeqProperties
  <2>4. PICK rest : rest = SubSeq(c, l, m)
    OBVIOUS
  <2>5. rest = SubSeq(c, Len(taken) + 1, Len(c))
    BY <1>5, <1>11, <2>2, <2>4
  <2>6. Len(rest) = m - k /\ \A i \in 1 .. m - k : rest[i] = c[k + i]
    <3>1. Len(rest) = IF l <= m THEN m - l + 1 ELSE 0
      BY <2>3, <2>4
    <3>2. Len(rest) = m - k
      BY <1>10, <2>2, <3>1
    <3>3. ASSUME NEW i \in 1 .. m - k  PROVE rest[i] = c[k + i]
      <4>1. i \in 1 .. m - l + 1 /\ l + i - 1 = k + i
        BY <2>2
      <4>2. rest[i] = c[l + i - 1]
        BY <2>3, <2>4, <4>1
      <4> QED
        BY <4>1, <4>2
    <3> QED
      BY <3>2, <3>3
  <2>7. rest \in Line
    BY <2>3, <2>4 DEF Line
  <2> QED
    BY <2>5, <2>6, <2>7
<1>13. /\ all \in Line /\ Len(all) = d + (m - k)
       /\ \A i \in 1 .. d : all[i] = tail[i]
       /\ \A i \in 1 .. m - k : all[d + i] = rest[i]
  <2>1. all = tail \o rest
    BY <1>0, <1>12
  <2>2. /\ tail \o rest \in Line /\ Len(tail \o rest) = Len(tail) + Len(rest)
        /\ \A i \in 1 .. Len(tail) : (tail \o rest)[i] = tail[i]
        /\ \A i \in 1 .. Len(rest) : (tail \o rest)[Len(tail) + i] = rest[i]
    BY <1>12, Joined, Zenon
  <2>3. Len(rest) = m - k
    BY <1>12
  <2> QED
    BY <1>7, <2>1, <2>2, <2>3, Zenon
<1>14. PICK a \in Nat : a = d + (m - k) /\ a = Len(all)
  <2>1. d + (m - k) \in Nat
    BY <1>10
  <2> QED
    BY <1>13, <2>1
<1>15. PICK z \in Nat : z = IF T < a THEN T ELSE a
  OBVIOUS
<1> DEFINE last == LastOf(all, TailRoom)
<1>16. last \in Line /\ Len(last) = z /\ \A i \in 1 .. z : last[i] = all[a - z + i]
  <2>1. /\ LastOf(all, T) \in Line /\ Len(LastOf(all, T)) = (IF T < Len(all) THEN T ELSE Len(all))
        /\ \A i \in 1 .. Len(LastOf(all, T)) : LastOf(all, T)[i] = all[Len(all) - Len(LastOf(all, T)) + i]
    BY <1>13, LineLast, Zenon
  <2>2. PICK end : end = LastOf(all, T)
    OBVIOUS
  <2>3. /\ end \in Line /\ Len(end) = (IF T < a THEN T ELSE a)
        /\ \A i \in 1 .. Len(end) : end[i] = all[a - Len(end) + i]
    BY <1>14, <2>1, <2>2, Zenon
  <2>4. Len(end) = z
    BY <1>15, <2>3
  <2>5. end \in Line /\ Len(end) = z /\ \A i \in 1 .. z : end[i] = all[a - z + i]
    BY <2>3, <2>4, Zenon
  <2>6. last = end
    BY <1>2, <2>2
  <2> HIDE DEF last
  <2> QED
    BY <2>5, <2>6
<1> HIDE DEF last
<1>17. PICK top : /\ top = head \o taken /\ top \in Line /\ Len(top) = h + k
                  /\ \A i \in 1 .. h : top[i] = head[i]
                  /\ \A i \in 1 .. k : top[h + i] = taken[i]
  <2>1. /\ head \o taken \in Line /\ Len(head \o taken) = Len(head) + Len(taken)
        /\ \A i \in 1 .. Len(head) : (head \o taken)[i] = head[i]
        /\ \A i \in 1 .. Len(taken) : (head \o taken)[Len(head) + i] = taken[i]
    BY <1>11, Joined, Zenon
  <2>2. Len(taken) = k
    BY <1>11
  <2> QED
    BY <1>6, <2>1, <2>2, Zenon
<1>18. /\ h + k = (IF H < n + m THEN H ELSE n + m)
       /\ z = (IF T < (n + m) - (h + k) THEN T ELSE (n + m) - (h + k))
       /\ (n > H + T \/ a > T) <=> n + m > H + T
  <2>1. h = (IF H < n THEN H ELSE n) /\ d = (IF T < n - h THEN T ELSE n - h)
    BY <1>8
  <2>2. a = d + (m - k)
    BY <1>14
  <2> QED
    BY <1>10, <1>15, <2>1, <2>2, Shares
<1>19. ASSUME NEW i \in 1 .. h + k  PROVE top[i] = whole[i]
  <2>1. CASE i <= h
    <3>1. i \in 1 .. h /\ i \in 1 .. n
      BY <1>8, <2>1
    <3> QED
      BY <1>8, <1>9, <1>17, <3>1
  <2>2. CASE i > h
    <3>1. PICK j \in 1 .. k : i = h + j
      <4>1. i - h \in 1 .. k /\ i = h + (i - h)
        BY <2>2
      <4> QED
        BY <4>1
    <3>2. h = n /\ j \in 1 .. m
      BY <1>8, <1>10, <3>1
    <3>3. top[h + j] = c[j] /\ whole[n + j] = c[j]
      BY <1>9, <1>11, <1>17, <3>1, <3>2
    <3> QED
      BY <3>1, <3>2, <3>3
  <2> QED
    BY <2>1, <2>2
<1>21. ASSUME NEW i \in 1 .. z  PROVE last[i] = whole[(n + m) - z + i]
  <2>1. PICK j \in 1 .. a : j = a - z + i
    <3>1. z <= a
      BY <1>15
    <3>2. a - z + i \in 1 .. a
      BY <3>1
    <3> QED
      BY <3>2
  <2>2. last[i] = all[j]
    BY <1>16, <2>1
  <2>3. (n + m) - z + i = (n + m) - a + j
    BY <2>1
  <2>4. CASE j <= d
    <3>1. j \in 1 .. d /\ d > 0
      BY <2>4
    <3>2. k = 0
      BY <1>8, <1>10, <3>1
    <3>3. (n + m) - a + j = n - d + j /\ n - d + j \in 1 .. n
      BY <1>8, <1>14, <3>1, <3>2
    <3>4. all[j] = s[n - d + j]
      BY <1>8, <1>13, <3>1
    <3>5. whole[n - d + j] = s[n - d + j]
      BY <1>9, <3>3
    <3> QED
      BY <2>2, <2>3, <3>3, <3>4, <3>5
  <2>5. CASE j > d
    <3>1. PICK l \in 1 .. m - k : j = d + l
      <4>1. j - d \in 1 .. m - k /\ j = d + (j - d)
        BY <1>14, <2>5
      <4> QED
        BY <4>1
    <3>2. (n + m) - a + j = n + (k + l) /\ k + l \in 1 .. m
      BY <1>10, <1>14, <3>1
    <3>3. all[j] = c[k + l]
      BY <1>12, <1>13, <3>1
    <3>4. whole[n + (k + l)] = c[k + l]
      BY <1>9, <3>2
    <3> QED
      BY <2>2, <2>3, <3>2, <3>3, <3>4
  <2> QED
    BY <2>4, <2>5
<1>22. marked <=> n + m > Limit
  <2>1. marked <=> (b \/ a > T)
    BY <1>2, <1>14 DEF Appends
  <2> QED
    BY <1>3, <1>8, <1>18, <2>1
<1>23. Captured(whole, top, last, marked)
  <2>1. Len(top) = IF H < Len(whole) THEN H ELSE Len(whole)
    BY <1>9, <1>17, <1>18
  <2>2. \A i \in 1 .. Len(top) : top[i] = whole[i]
    BY <1>17, <1>19
  <2>3. Len(last) = IF T < Len(whole) - Len(top) THEN T ELSE Len(whole) - Len(top)
    BY <1>9, <1>16, <1>17, <1>18
  <2>4. \A i \in 1 .. Len(last) : last[i] = whole[Len(whole) - Len(last) + i]
    <3>1. Len(last) = z /\ Len(whole) = n + m
      BY <1>9, <1>16
    <3> QED
      BY <1>21, <3>1
  <2>5. marked <=> Len(whole) > Limit
    BY <1>9, <1>22
  <2> QED
    BY <1>1, <1>2, <2>1, <2>2, <2>3, <2>4, <2>5, Zenon DEF Captured
<1> QED
  BY <1>2, <1>9, <1>14, <1>16, <1>17, <1>23, Zenon DEF last

LEMMA OneLine == <<(<<>>)>> = Append(<<>>, <<>>) /\ Append(<<>>, <<>>) \in Seq(Line) /\ Append(<<>>, <<>>) # <<>>
<1>1. <<>> \in Seq(Line) /\ <<>> \in Line
  BY EmptySeq DEF Line
<1>2. Append(<<>>, <<>>) \in Seq(Line) /\ Append(<<>>, <<>>) # <<>>
  BY <1>1, Lengthened, Zenon
<1>3. <<(<<>>)>> = Append(<<>>, <<>>)
  OBVIOUS
<1> QED
  BY <1>2, <1>3

LEMMA SplitTyped == \A s \in Line : Split(s) \in Seq(Line) /\ Split(s) # <<>>
BY OneLine, SplitIs, AfterTyped, Zenon

LEMMA SplitBoth == \A s, c \in Line : Split(s \o c) = After(Split(s), c)
BY SplitIs, AfterBoth, Zenon DEF ReadsOn

LEMMA SplitHeld == \A t \in Plain, c \in Line : Split(t \o c) = After(Append(<<>>, t), c)
<1>1. SUFFICES ASSUME NEW t \in Plain, NEW c \in Line  PROVE Split(t \o c) = After(Append(<<>>, t), c)
  OBVIOUS
<1>2. t \in Line
  BY PlainIsLine
<1>3. Split(t \o c) = After(Split(t), c)
  BY <1>2, SplitBoth, Zenon
<1>4. Split(t) = Append(<<>>, t)
  <2>1. Split(t) = After(<<(<<>>)>>, t)
    BY SplitIs, Zenon
  <2>2. After(Append(<<>>, <<>>), t) = Append(<<>>, t)
    BY AfterPlain, Zenon
  <2> QED
    BY <2>1, <2>2, OneLine, Zenon
<1> QED
  BY <1>3, <1>4, Zenon

LineMoves(out, q, w) == out \o Append(q, w) = Append(out \o q, w)

LEMMA LinesMove == \A out, q \in Seq(Line), w \in Line : LineMoves(out, q, w)
BY AppendMoves DEF LineMoves

\* consume(): what goes out, and what waits, after one more chunk.
LEMMA Consumed ==
  ASSUME NEW s \in Line, NEW c \in Line, NEW out \in Seq(Line), NEW t \in Plain,
         Follows(Split(s), Append(out, t)), NEW parts, parts = Split(t \o c)
  PROVE  /\ out \o Front(parts) \in Seq(Line) /\ LastOf(Last(parts), LineLimit) \in Plain
         /\ Follows(Split(s \o c), Append(out \o Front(parts), LastOf(Last(parts), LineLimit)))
<1>1. t \in Line /\ <<>> \in Seq(Line)
  BY PlainIsLine, EmptySeq
<1>2. PICK one \in Seq(Line) : one = Append(<<>>, t) /\ one # <<>> /\ Last(one) = t
  <2>1. Append(<<>>, t) \in Seq(Line) /\ Append(<<>>, t) # <<>> /\ Last(Append(<<>>, t)) = t
    BY <1>1, Lengthened, LongerList, Zenon
  <2> QED
    BY <2>1
<1>3. parts = After(one, c)
  BY <1>2, SplitHeld
<1>4. parts \in Seq(Line) /\ parts # <<>>
  BY <1>2, <1>3, AfterTyped, Zenon
<1>5. Last(parts) \in Plain
  <2>1. Last(one) \in Plain
    BY <1>2
  <2> QED
    BY <1>2, <1>3, <2>1, LastIsPlain, Zenon
<1>6. PICK q \in Seq(Line), w \in Line : parts = Append(q, w)
  BY <1>4, SequenceEmptyOrAppend
<1>7. Front(parts) = q /\ Last(parts) = w
  BY <1>6, LongerList
<1>8. PICK sent \in Seq(Line) : sent = out \o q
  BY ConcatProperties
<1>9. PICK all \in Seq(Line) : all = Append(out, t) /\ all # <<>> /\ all = out \o one
  <2>1. Append(out, t) \in Seq(Line) /\ Append(out, t) # <<>>
    BY <1>1, Lengthened, Zenon
  <2>2. out \o Append(<<>>, t) = Append(out \o <<>>, t)
    BY <1>1, AppendMoves
  <2>3. out \o <<>> = out
    BY ConcatEmptySeq
  <2>4. Append(out, t) = out \o one
    BY <1>2, <2>2, <2>3, Zenon
  <2> QED
    BY <2>1, <2>4
<1>10. After(all, c) = Append(sent, w)
  <2>1. After(out \o one, c) = out \o After(one, c)
    BY <1>2, AfterOlder, Zenon
  <2>2. LineMoves(out, q, w)
    BY LinesMove, Zenon
  <2>3. After(all, c) = out \o parts
    BY <1>3, <1>9, <2>1
  <2>4. out \o parts = Append(sent, w)
    BY <1>6, <1>8, <2>2 DEF LineMoves
  <2> QED
    BY <2>3, <2>4
<1>11. PICK whole \in Seq(Line) : whole = Split(s) /\ whole # <<>>
  BY SplitTyped, Zenon
<1>12. PICK more \in Seq(Line) : more = Split(s \o c) /\ more # <<>> /\ more = After(whole, c)
  <2>1. After(whole, c) \in Seq(Line) /\ After(whole, c) # <<>>
    BY <1>11, AfterTyped, Zenon
  <2>2. Split(s \o c) = After(whole, c)
    BY <1>11, SplitBoth, Zenon
  <2> QED
    BY <2>1, <2>2
<1>13. Follows(more, Append(sent, w))
  <2>1. Follows(whole, all)
    BY <1>9, <1>11
  <2>2. Follows(After(whole, c), After(all, c))
    BY <1>9, <1>11, <2>1, FollowsAfter, Zenon
  <2> QED
    BY <1>10, <1>12, <2>2
<1>14. Matched(Front(more), sent) /\ Held(Last(more), w)
  <2>1. Front(Append(sent, w)) = sent /\ Last(Append(sent, w)) = w
    BY LongerList, Zenon
  <2> QED
    BY <1>13, <2>1, Zenon DEF Follows
<1>15. PICK cut : cut = LastOf(w, LineLimit) /\ cut \in Plain /\ Held(Last(more), cut)
  <2>1. Last(more) \in Line
    BY <1>12, AppendFrontLast
  <2>2. w \in Plain
    BY <1>5, <1>7
  <2>3. LastOf(w, LineLimit) \in Plain /\ Held(Last(more), LastOf(w, LineLimit))
    BY <1>14, <2>1, <2>2, HeldCut, Zenon
  <2> QED
    BY <2>3
<1>16. Follows(more, Append(sent, cut))
  <2>1. cut \in Line
    BY <1>15, PlainIsLine
  <2>2. Front(Append(sent, cut)) = sent /\ Last(Append(sent, cut)) = cut
    BY <2>1, LongerList, Zenon
  <2> QED
    BY <1>14, <1>15, <2>2, Zenon DEF Follows
<1> QED
  BY <1>7, <1>8, <1>12, <1>15, <1>16

\* finish(): what waits goes out last.
LEMMA Finished == \A whole, out \in Seq(Line), t \in Line :
                    whole # <<>> /\ Follows(whole, Append(out, t)) => Matched(whole, Append(out, t))
<1>1. SUFFICES ASSUME NEW whole \in Seq(Line), NEW out \in Seq(Line), NEW t \in Line,
                      whole # <<>>, Follows(whole, Append(out, t))
               PROVE  Matched(whole, Append(out, t))
  OBVIOUS
<1>2. PICK a \in Seq(Line), u \in Line : whole = Append(a, u)
  BY <1>1, SequenceEmptyOrAppend
<1>3. /\ Front(Append(a, u)) = a /\ Last(Append(a, u)) = u
      /\ Front(Append(out, t)) = out /\ Last(Append(out, t)) = t
  BY LongerList, Zenon
<1>4. Matched(a, out) /\ Held(u, t)
  BY <1>1, <1>2, <1>3, Zenon DEF Follows
<1>5. Fit(u, t)
  BY <1>4, HeldFits, Zenon
<1> QED
  BY <1>2, <1>4, <1>5, MatchedMore, Zenon

LEMMA OutputInitInv == OutputInit => OutputInv
<1>1. SUFFICES ASSUME OutputInit  PROVE OutputInv
  OBVIOUS
<1>2. <<>> \in Line /\ <<>> \in Plain /\ <<>> \in Seq(Line) /\ Len(<<>>) = 0
  BY EmptySeq DEF Line, Plain
<1>3. OutputTypeOK
  BY <1>1, <1>2 DEF OutputInit, OutputTypeOK
<1>4. CaptureInv
  <2>1. PICK H \in Nat : H = HeadRoom
    BY Rooms
  <2>2. PICK T \in Nat : T = TailRoom
    BY Rooms
  <2>3. ~(H < 0) /\ ~(T < 0 - 0) /\ 0 - 0 = 0 /\ ~(0 > Limit)
    BY LimitAssumption
  <2>4. Captured(<<>>, <<>>, <<>>, FALSE)
    BY <1>2, <2>1, <2>2, <2>3 DEF Captured
  <2> QED
    BY <1>1, <2>4 DEF OutputInit, CaptureInv
<1>5. LinesInv
  <2>1. Split(<<>>) = Append(<<>>, <<>>)
    <3>1. Split(<<>>) = After(<<(<<>>)>>, <<>>)
      BY SplitIs, Zenon
    <3> QED
      BY <3>1, AfterNothing, OneLine, Zenon
  <2>2. Front(Append(<<>>, <<>>)) = <<>> /\ Last(Append(<<>>, <<>>)) = <<>>
    BY <1>2, LongerList, Zenon
  <2>3. Matched(<<>>, <<>>)
    BY <1>2 DEF Matched
  <2>4. Held(<<>>, <<>>)
    BY <1>2, HeldSame, Zenon
  <2>5. Follows(Split(<<>>), Append(<<>>, <<>>))
    BY <2>1, <2>2, <2>3, <2>4, Zenon DEF Follows
  <2>6. lines.finished = FALSE /\ lines.logged = <<>> /\ lines.published = <<>> /\ lines.tail = <<>> /\ stream = <<>>
    BY <1>1 DEF OutputInit
  <2> QED
    BY <2>5, <2>6 DEF LinesInv
<1> QED
  BY <1>3, <1>4, <1>5 DEF OutputInv

LEMMA FeedKeeps == OutputInv /\ Feed => OutputInv'
<1>1. SUFFICES ASSUME OutputInv, Feed  PROVE OutputInv'
  OBVIOUS
<1>2. PICK c \in Pieces : /\ ~lines.finished /\ stream' = stream \o c /\ capture' = Capture(c)
                          /\ LET parts == Split(lines.tail \o c)
                             IN lines' = [lines EXCEPT !.published = lines.published \o Front(parts),
                                                       !.logged = lines.logged \o Front(parts),
                                                       !.tail = LastOf(Last(parts), LineLimit)]
  BY <1>1 DEF Feed
<1>3. c \in Line
  BY PiecesAssumption DEF Line
<1>4. stream \in Line /\ capture.head \in Line /\ capture.tail \in Line /\ capture.truncated \in BOOLEAN
  BY <1>1 DEF OutputInv, OutputTypeOK
<1>5. /\ lines \in [tail : Plain, published : Seq(Line), logged : Seq(Line), finished : BOOLEAN]
      /\ lines.tail \in Plain /\ lines.published \in Seq(Line) /\ lines.finished = FALSE
      /\ lines.logged = lines.published /\ Follows(Split(stream), Append(lines.published, lines.tail))
  BY <1>1, <1>2 DEF OutputInv, OutputTypeOK, LinesInv
<1>6. PICK taken : taken = FirstOf(c, HeadRoom - Len(capture.head))
  OBVIOUS
<1>7. PICK all : all = capture.tail \o SubSeq(c, Len(taken) + 1, Len(c))
  OBVIOUS
<1>8. PICK more \in BOOLEAN : more <=> (capture.truncated \/ Len(all) > TailRoom)
  OBVIOUS
<1>9. PICK head : head = capture.head \o taken
  OBVIOUS
<1>10. PICK tail : tail = LastOf(all, TailRoom)
  OBVIOUS
<1>11. capture' = [head |-> head, tail |-> tail, truncated |-> more]
  <2>1. capture' = [head |-> capture.head \o taken, tail |-> LastOf(all, TailRoom),
                    truncated |-> capture.truncated \/ Len(all) > TailRoom]
    BY <1>2, <1>6, <1>7 DEF Capture
  <2> QED
    BY <1>8, <1>9, <1>10, <2>1
<1>12. head \in Line /\ tail \in Line /\ Captured(stream \o c, head, tail, more)
  <2>1. Captured(stream, capture.head, capture.tail, capture.truncated)
    BY <1>1 DEF OutputInv, CaptureInv
  <2>2. PICK s \in Line : s = stream
    BY <1>4
  <2>3. PICK h \in Line : h = capture.head
    BY <1>4
  <2>4. PICK t \in Line : t = capture.tail
    BY <1>4
  <2>5. PICK b \in BOOLEAN : b <=> capture.truncated
    OBVIOUS
  <2>6. Captured(s, h, t, b)
    BY <1>4, <2>1, <2>2, <2>3, <2>4, <2>5
  <2>7. Appends(c, h, t, b, taken, all, more)
    BY <1>6, <1>7, <1>8, <2>3, <2>4, <2>5 DEF Appends
  <2>8. /\ h \o taken \in Line /\ LastOf(all, TailRoom) \in Line
        /\ Captured(s \o c, h \o taken, LastOf(all, TailRoom), more)
    BY <1>3, <2>6, <2>7, Appended
  <2> QED
    BY <1>9, <1>10, <2>2, <2>3, <2>8
<1>13. PICK parts : parts = Split(lines.tail \o c)
  OBVIOUS
<1>14. PICK sent : sent = lines.published \o Front(parts)
  OBVIOUS
<1>15. PICK waits : waits = LastOf(Last(parts), LineLimit)
  OBVIOUS
<1>16. sent \in Seq(Line) /\ waits \in Plain /\ Follows(Split(stream \o c), Append(sent, waits))
  <2>1. PICK s \in Line : s = stream
    BY <1>4
  <2>2. PICK out \in Seq(Line) : out = lines.published
    BY <1>5
  <2>3. PICK t \in Plain : t = lines.tail
    BY <1>5
  <2>4. Follows(Split(s), Append(out, t)) /\ parts = Split(t \o c)
    BY <1>5, <1>13, <2>1, <2>2, <2>3
  <2>5. /\ out \o Front(parts) \in Seq(Line) /\ LastOf(Last(parts), LineLimit) \in Plain
        /\ Follows(Split(s \o c), Append(out \o Front(parts), LastOf(Last(parts), LineLimit)))
    BY <1>3, <2>4, Consumed
  <2> QED
    BY <1>14, <1>15, <2>1, <2>2, <2>5
<1>17. /\ lines' \in [tail : Plain, published : Seq(Line), logged : Seq(Line), finished : BOOLEAN]
       /\ lines'.tail = waits /\ lines'.published = sent /\ lines'.logged = sent /\ lines'.finished = FALSE
  <2>1. lines' = [lines EXCEPT !.published = sent, !.logged = sent, !.tail = waits]
    BY <1>2, <1>5, <1>13, <1>14, <1>15
  <2> QED
    BY <1>5, <1>16, <2>1
<1>18. stream' = stream \o c /\ stream \o c \in Line
  BY <1>2, <1>3, <1>4, Joined
<1>19. OutputTypeOK'
  BY <1>11, <1>12, <1>17, <1>18 DEF OutputTypeOK
<1>20. CaptureInv'
  <2>1. capture'.head = head /\ capture'.tail = tail /\ capture'.truncated = more
    BY <1>11
  <2>2. Captured(stream', capture'.head, capture'.tail, capture'.truncated)
    BY <1>12, <1>18, <2>1
  <2> QED
    BY <2>2 DEF CaptureInv, Captured
<1>21. LinesInv'
  <2>1. Follows(Split(stream'), Append(lines'.published, lines'.tail))
    BY <1>16, <1>17, <1>18
  <2> QED
    BY <1>17, <2>1 DEF LinesInv
<1> QED
  BY <1>19, <1>20, <1>21 DEF OutputInv

LEMMA FinishKeeps == OutputInv /\ Finish => OutputInv'
<1>1. SUFFICES ASSUME OutputInv, Finish  PROVE OutputInv'
  OBVIOUS
<1>2. /\ stream \in Line /\ stream' = stream /\ capture' = capture
      /\ lines \in [tail : Plain, published : Seq(Line), logged : Seq(Line), finished : BOOLEAN]
      /\ lines.tail \in Plain /\ lines.published \in Seq(Line) /\ lines.finished = FALSE
      /\ lines.logged = lines.published /\ Follows(Split(stream), Append(lines.published, lines.tail))
  BY <1>1 DEF OutputInv, OutputTypeOK, LinesInv, Finish
<1>3. lines.tail \in Line
  BY <1>2, PlainIsLine
<1>4. PICK n \in Nat : n = Len(lines.published)
  BY <1>2, ListLength
<1>5. PICK sent : sent = Append(lines.published, lines.tail)
  OBVIOUS
<1>6. sent \in Seq(Line) /\ Len(sent) = n + 1 /\ \A k \in 1 .. n : sent[k] = lines.published[k]
  <2>1. PICK out \in Seq(Line) : out = lines.published
    BY <1>2
  <2>2. PICK t \in Line : t = lines.tail
    BY <1>3
  <2>3. /\ Append(out, t) \in Seq(Line) /\ Len(Append(out, t)) = Len(out) + 1
        /\ \A k \in 1 .. Len(out) : Append(out, t)[k] = out[k]
    BY LongerList, Zenon
  <2>4. sent = Append(out, t) /\ n = Len(out)
    BY <1>4, <1>5, <2>1, <2>2
  <2>5. sent \in Seq(Line) /\ Len(sent) = n + 1 /\ \A k \in 1 .. n : sent[k] = out[k]
    BY <2>3, <2>4, Zenon
  <2> QED
    BY <2>1, <2>5
<1>7. PICK noted : noted = IF lines.tail = <<>> THEN lines.logged ELSE Append(lines.logged, lines.tail)
  OBVIOUS
<1>8. noted = lines.published \/ noted = sent
  BY <1>2, <1>5, <1>7
<1>9. /\ lines' \in [tail : Plain, published : Seq(Line), logged : Seq(Line), finished : BOOLEAN]
      /\ lines'.published = sent /\ lines'.logged = noted /\ lines'.finished = TRUE
  <2>1. lines' = [lines EXCEPT !.finished = TRUE, !.tail = <<>>, !.published = sent, !.logged = noted]
    BY <1>1, <1>5, <1>7 DEF Finish
  <2>2. <<>> \in Plain /\ noted \in Seq(Line)
    <3>1. <<>> \in Plain
      BY EmptySeq DEF Plain
    <3> QED
      BY <1>2, <1>6, <1>8, <3>1
  <2> QED
    BY <1>2, <1>6, <2>1, <2>2
<1>10. Matched(Split(stream), sent)
  <2>1. Split(stream) \in Seq(Line) /\ Split(stream) # <<>>
    BY <1>2, SplitTyped, Zenon
  <2> QED
    BY <1>2, <1>3, <1>5, <2>1, Finished, Zenon
<1>11. Len(noted) <= Len(sent) /\ \A k \in 1 .. Len(noted) : noted[k] = sent[k]
  <2>1. CASE noted = sent
    BY <1>6, <2>1
  <2>2. CASE noted = lines.published
    BY <1>4, <1>6, <2>2
  <2> QED
    BY <1>8, <2>1, <2>2
<1>12. OutputTypeOK'
  BY <1>1, <1>2, <1>9 DEF OutputInv, OutputTypeOK
<1>13. CaptureInv'
  BY <1>1, <1>2 DEF OutputInv, CaptureInv, Captured
<1>14. LinesInv'
  <2>1. Matched(Split(stream'), lines'.published)
    BY <1>2, <1>9, <1>10
  <2> QED
    BY <1>9, <1>11, <2>1 DEF LinesInv
<1> QED
  BY <1>12, <1>13, <1>14 DEF OutputInv

LEMMA OutputStutter == OutputInv /\ UNCHANGED outputVars => OutputInv'
BY DEF OutputInv, OutputTypeOK, CaptureInv, Captured, LinesInv, outputVars

\* Of ProcessOutput: the capture and the lines, in every reachable state.
THEOREM OutputInvariant == OutputSpec => []OutputInv
<1>1. OutputInv /\ [OutputNext]_outputVars => OutputInv'
  BY FeedKeeps, FinishKeeps, OutputStutter DEF OutputNext
<1> QED
  BY <1>1, OutputInitInv, PTL DEF OutputSpec

\* What is published of a line of the stream is that line, or it has its end.
LEMMA FitShows == \A u, t \in Line : Fit(u, t) =>
                    IF Len(u) < LineLimit THEN t = u ELSE IsSuffix(LastOf(u, LineLimit - 1), t)
<1>1. SUFFICES ASSUME NEW u \in Line, NEW t \in Line, Fit(u, t)
               PROVE  IF Len(u) < LineLimit THEN t = u ELSE IsSuffix(LastOf(u, LineLimit - 1), t)
  OBVIOUS
<1>2. PICK m \in Nat : m = Len(u)
  BY LineLength
<1>3. PICK n \in Nat : n = Len(t)
  BY LineLength
<1>4. /\ n <= m /\ \A i \in 1 .. n : t[i] = u[m - n + i]
      /\ t = u \/ (m >= LineLimit /\ n >= LineLimit - 1)
  BY <1>1, <1>2, <1>3 DEF Fit, Ends
<1>5. CASE m < LineLimit
  BY <1>2, <1>4, <1>5, LimitAssumption
<1>6. CASE ~(m < LineLimit)
  <2> DEFINE end == LastOf(u, LineLimit - 1)
  <2>1. PICK z \in Nat : z = (IF LineLimit = 0 THEN 0 ELSE LineLimit - 1) /\ z <= n /\ z <= m
    <3>1. CASE LineLimit = 0
      BY <3>1
    <3>2. CASE LineLimit # 0
      <4>1. LineLimit - 1 \in Nat /\ LineLimit - 1 <= n /\ LineLimit - 1 <= m
        BY <1>2, <1>3, <1>4, <1>6, <3>2, LimitAssumption
      <4> QED
        BY <3>2, <4>1
    <3> QED
      BY <3>1, <3>2
  <2>2. Len(end) = z /\ \A i \in 1 .. z : end[i] = u[m - z + i]
    <3>1. CASE LineLimit = 0
      <4>1. end = SubSeq(u, m + 2, m)
        <5>1. end = SubSeq(u, m - (IF 0 - 1 < m THEN 0 - 1 ELSE m) + 1, m)
          BY <1>2, <3>1 DEF LastOf
        <5>2. m - (IF 0 - 1 < m THEN 0 - 1 ELSE m) + 1 = m + 2
          OBVIOUS
        <5> HIDE DEF end
        <5> QED
          BY <5>1, <5>2, Zenon
      <4>2. Len(SubSeq(u, m + 2, m)) = 0
        <5>1. \A i \in m + 2 .. m : u[i] \in OutputByte
          OBVIOUS
        <5>2. PICK l \in Nat : l = m + 2
          OBVIOUS
        <5>3. Len(SubSeq(u, l, m)) = IF l <= m THEN m - l + 1 ELSE 0
          BY <5>1, <5>2, SubSeqProperties
        <5> QED
          BY <5>2, <5>3
      <4> QED
        BY <2>1, <3>1, <4>1, <4>2
    <3>2. CASE LineLimit # 0
      <4>1. z = LineLimit - 1
        BY <2>1, <3>2
      <4>2. /\ Len(LastOf(u, z)) = (IF z < Len(u) THEN z ELSE Len(u))
            /\ \A i \in 1 .. Len(LastOf(u, z)) : LastOf(u, z)[i] = u[Len(u) - Len(LastOf(u, z)) + i]
        BY LineLast, Zenon
      <4>3. PICK some : some = LastOf(u, z)
        OBVIOUS
      <4>4. Len(some) = z /\ \A i \in 1 .. z : some[i] = u[m - z + i]
        <5>1. /\ Len(some) = (IF z < m THEN z ELSE m)
              /\ \A i \in 1 .. Len(some) : some[i] = u[m - Len(some) + i]
          BY <1>2, <4>2, <4>3, Zenon
        <5>2. Len(some) = z
          BY <2>1, <5>1
        <5> QED
          BY <5>1, <5>2, Zenon
      <4>5. end = some
        BY <4>1, <4>3
      <4> HIDE DEF end
      <4> QED
        BY <4>4, <4>5
    <3> QED
      BY <3>1, <3>2
  <2> HIDE DEF end
  <2>3. PICK one : one = Reverse(end)
    OBVIOUS
  <2>4. PICK two : two = Reverse(t)
    OBVIOUS
  <2>5. one = [i \in 1 .. z |-> end[(z - i) + 1]]
    BY <2>2, <2>3 DEF Reverse
  <2>6. two = [i \in 1 .. n |-> t[(n - i) + 1]]
    BY <1>3, <2>4 DEF Reverse
  <2>7. \A i \in 1 .. n : t[i] \in OutputByte
    <3>1. t \in Seq(OutputByte)
      BY DEF Line
    <3> QED
      BY <1>3, <3>1, ElementOfSeq
  <2>8. ASSUME NEW i \in 1 .. z  PROVE one[i] = two[i] /\ two[i] \in OutputByte
    <3>1. z - i + 1 \in 1 .. z /\ n - i + 1 \in 1 .. n /\ i \in 1 .. n
      BY <2>1
    <3>2. one[i] = end[z - i + 1] /\ two[i] = t[n - i + 1]
      BY <2>5, <2>6, <3>1
    <3>3. end[z - i + 1] = u[m - z + (z - i + 1)] /\ t[n - i + 1] = u[m - n + (n - i + 1)]
      BY <1>4, <2>2, <3>1
    <3>4. m - z + (z - i + 1) = m - n + (n - i + 1)
      BY <2>1
    <3>5. end[z - i + 1] = t[n - i + 1]
      BY <3>3, <3>4
    <3> QED
      BY <2>7, <3>1, <3>2, <3>5
  <2>9. Len(one) = z /\ Len(two) = n
    BY <2>5, <2>6
  <2>10. SubSeq(one, 1, z) = SubSeq(two, 1, z)
    <3>1. PICK a : a = SubSeq(one, 1, z)
      OBVIOUS
    <3>2. PICK b : b = SubSeq(two, 1, z)
      OBVIOUS
    <3>3. a \in Seq(OutputByte) /\ Len(a) = z /\ \A i \in 1 .. z : a[i] = one[i]
      <4>1. \A i \in 1 .. z : one[i] \in OutputByte
        BY <2>8
      <4>2. /\ SubSeq(one, 1, z) \in Seq(OutputByte) /\ Len(SubSeq(one, 1, z)) = IF 1 <= z THEN z - 1 + 1 ELSE 0
            /\ \A i \in 1 .. z - 1 + 1 : SubSeq(one, 1, z)[i] = one[1 + i - 1]
        BY <4>1, SubSeqProperties
      <4> QED
        BY <3>1, <4>2
    <3>4. b \in Seq(OutputByte) /\ Len(b) = z /\ \A i \in 1 .. z : b[i] = two[i]
      <4>1. \A i \in 1 .. z : two[i] \in OutputByte
        BY <2>8
      <4>2. /\ SubSeq(two, 1, z) \in Seq(OutputByte) /\ Len(SubSeq(two, 1, z)) = IF 1 <= z THEN z - 1 + 1 ELSE 0
            /\ \A i \in 1 .. z - 1 + 1 : SubSeq(two, 1, z)[i] = two[1 + i - 1]
        BY <4>1, SubSeqProperties
      <4> QED
        BY <3>2, <4>2
    <3>5. \A i \in 1 .. z : a[i] = b[i]
      BY <2>8, <3>3, <3>4
    <3>6. a = b
      BY <3>3, <3>4, <3>5, SeqEqual
    <3> QED
      BY <3>1, <3>2, <3>6
  <2>11. IsSuffix(end, t)
    BY <2>1, <2>3, <2>4, <2>9, <2>10 DEF IsSuffix, IsPrefix
  <2> QED
    BY <1>2, <1>6, <2>11 DEF end
<1> QED
  BY <1>5, <1>6

LEMMA SameBytes == \A one, two \in Line :
                     Len(one) = Len(two) /\ (\A i \in 1 .. Len(one) : one[i] = two[i]) => one = two
BY SeqEqual DEF Line

\* What the parser reads is what append() had to keep of the stream.
LEMMA CaptureShows ==
  ASSUME NEW s \in Line, NEW head \in Line, NEW tail \in Line, NEW b \in BOOLEAN, Captured(s, head, tail, b)
  PROVE  /\ b <=> Len(s) > Limit
         /\ head = FirstOf(s, HeadRoom)
         /\ head \o tail = IF b THEN FirstOf(s, HeadRoom) \o LastOf(s, TailRoom) ELSE s
<1>1. PICK H \in Nat : H = HeadRoom
  BY Rooms
<1>2. PICK T \in Nat : T = TailRoom
  BY Rooms
<1>3. H + T = Limit
  BY <1>1, <1>2, Rooms
<1>4. PICK n \in Nat : n = Len(s)
  BY LineLength
<1>5. PICK h \in Nat : h = Len(head)
  BY LineLength
<1>6. PICK d \in Nat : d = Len(tail)
  BY LineLength
<1>7. /\ h = (IF H < n THEN H ELSE n) /\ \A i \in 1 .. h : head[i] = s[i]
      /\ d = (IF T < n - h THEN T ELSE n - h) /\ \A i \in 1 .. d : tail[i] = s[n - d + i]
      /\ b <=> n > Limit
  BY <1>1, <1>2, <1>4, <1>5, <1>6 DEF Captured
<1>8. head = FirstOf(s, HeadRoom)
  <2>1. PICK first : first = FirstOf(s, H)
    OBVIOUS
  <2>2. /\ FirstOf(s, H) \in Line /\ Len(FirstOf(s, H)) = (IF H < Len(s) THEN H ELSE Len(s))
        /\ \A i \in 1 .. Len(FirstOf(s, H)) : FirstOf(s, H)[i] = s[i]
    BY LineFirst, Zenon
  <2>3. first \in Line /\ Len(first) = h /\ \A i \in 1 .. h : first[i] = s[i]
    BY <1>4, <1>7, <2>1, <2>2
  <2>4. \A i \in 1 .. Len(head) : head[i] = first[i]
    BY <1>5, <1>7, <2>3
  <2>5. head = first
    BY <1>5, <2>3, <2>4, SameBytes
  <2> QED
    BY <1>1, <2>1, <2>5
<1>9. CASE b
  <2>1. d = T /\ T < n
    <3>1. n > H + T
      BY <1>3, <1>7, <1>9
    <3>2. h = H
      <4>1. h = IF H < n THEN H ELSE n
        BY <1>7
      <4> QED
        BY <3>1, <4>1
    <3>3. d = IF T < n - h THEN T ELSE n - h
      BY <1>7
    <3> QED
      BY <3>1, <3>2, <3>3
  <2>2. PICK last : last = LastOf(s, T)
    OBVIOUS
  <2>3. /\ LastOf(s, T) \in Line /\ Len(LastOf(s, T)) = (IF T < Len(s) THEN T ELSE Len(s))
        /\ \A i \in 1 .. Len(LastOf(s, T)) : LastOf(s, T)[i] = s[Len(s) - Len(LastOf(s, T)) + i]
    BY LineLast, Zenon
  <2>4. last \in Line /\ Len(last) = d /\ \A i \in 1 .. d : last[i] = s[n - d + i]
    BY <1>4, <2>1, <2>2, <2>3
  <2>5. \A i \in 1 .. Len(tail) : tail[i] = last[i]
    BY <1>6, <1>7, <2>4
  <2>6. tail = last
    BY <1>6, <2>4, <2>5, SameBytes
  <2> QED
    BY <1>2, <1>4, <1>7, <1>8, <1>9, <2>2, <2>6
<1>10. CASE ~b
  <2>1. h + d = n
    <3>1. n <= H + T
      BY <1>3, <1>7, <1>10
    <3>2. h = (IF H < n THEN H ELSE n) /\ d = (IF T < n - h THEN T ELSE n - h)
      BY <1>7
    <3> QED
      BY <3>1, <3>2
  <2>2. PICK both : /\ both = head \o tail /\ both \in Line /\ Len(both) = h + d
                    /\ \A i \in 1 .. h : both[i] = head[i]
                    /\ \A i \in 1 .. d : both[h + i] = tail[i]
    <3>1. /\ head \o tail \in Line /\ Len(head \o tail) = Len(head) + Len(tail)
          /\ \A i \in 1 .. Len(head) : (head \o tail)[i] = head[i]
          /\ \A i \in 1 .. Len(tail) : (head \o tail)[Len(head) + i] = tail[i]
      BY Joined, Zenon
    <3> QED
      BY <1>5, <1>6, <3>1, Zenon
  <2>3. ASSUME NEW i \in 1 .. n  PROVE both[i] = s[i]
    <3>1. CASE i <= h
      BY <1>7, <2>2, <3>1
    <3>2. CASE i > h
      <4>1. PICK j \in 1 .. d : i = h + j
        <5>1. i - h \in 1 .. d /\ i = h + (i - h)
          BY <2>1, <3>2
        <5> QED
          BY <5>1
      <4>2. n - d + j = h + j
        BY <2>1
      <4>3. both[h + j] = tail[j] /\ tail[j] = s[n - d + j]
        BY <1>7, <2>2, <4>1
      <4> QED
        BY <4>1, <4>2, <4>3
    <3> QED
      BY <3>1, <3>2
  <2>4. both = s
    BY <1>4, <2>1, <2>2, <2>3, SameBytes
  <2> QED
    BY <1>4, <1>7, <1>8, <1>10, <2>2, <2>4
<1> QED
  BY <1>9, <1>10

LEMMA OutputInvShows == OutputInv => CutsDoNotMatter
<1>1. SUFFICES ASSUME OutputInv  PROVE CutsDoNotMatter
  OBVIOUS
<1>2. /\ stream \in Line /\ capture.head \in Line /\ capture.tail \in Line /\ capture.truncated \in BOOLEAN
      /\ lines.tail \in Line /\ lines.published \in Seq(Line) /\ lines.logged \in Seq(Line) /\ lines.finished \in BOOLEAN
  BY <1>1, PlainIsLine DEF OutputInv, OutputTypeOK
<1>3. /\ capture.truncated <=> Len(stream) > Limit
      /\ capture.head = FirstOf(stream, HeadRoom)
      /\ capture.head \o capture.tail = IF capture.truncated
           THEN FirstOf(stream, HeadRoom) \o LastOf(stream, TailRoom) ELSE stream
  <2>1. PICK s \in Line : s = stream
    BY <1>2
  <2>2. PICK head \in Line : head = capture.head
    BY <1>2
  <2>3. PICK tail \in Line : tail = capture.tail
    BY <1>2
  <2>4. PICK b \in BOOLEAN : b = capture.truncated
    BY <1>2
  <2>5. Captured(s, head, tail, b)
    BY <1>1, <2>1, <2>2, <2>3, <2>4 DEF OutputInv, CaptureInv
  <2>6. /\ b <=> Len(s) > Limit
        /\ head = FirstOf(s, HeadRoom)
        /\ head \o tail = IF b THEN FirstOf(s, HeadRoom) \o LastOf(s, TailRoom) ELSE s
    BY <2>5, CaptureShows
  <2> QED
    BY <2>1, <2>2, <2>3, <2>4, <2>6
<1>4. PICK whole \in Seq(Line) : whole = Split(stream) /\ whole # <<>>
  BY <1>2, SplitTyped, Zenon
<1>5. PICK seen : seen = IF lines.finished THEN whole ELSE Front(whole)
  OBVIOUS
<1>6. seen \in Seq(Line) /\ Matched(seen, lines.published)
  <2>1. CASE lines.finished
    BY <1>1, <1>4, <1>5, <2>1 DEF OutputInv, LinesInv
  <2>2. CASE ~lines.finished
    <3>1. Front(whole) \in Seq(Line)
      BY <1>4, AppendFrontLast
    <3>2. Follows(whole, Append(lines.published, lines.tail))
      BY <1>1, <1>4, <2>2 DEF OutputInv, LinesInv
    <3>3. Front(Append(lines.published, lines.tail)) = lines.published
      BY <1>2, LongerList, Zenon
    <3>4. Matched(Front(whole), lines.published)
      BY <3>2, <3>3, Zenon DEF Follows
    <3> QED
      BY <1>5, <2>2, <3>1, <3>4
  <2> QED
    BY <2>1, <2>2
<1>7. PICK n \in Nat : n = Len(seen) /\ n = Len(lines.published)
  BY <1>6, ListLength DEF Matched
<1>8. DOMAIN seen = 1 .. n
  BY <1>6, <1>7, LenProperties
<1>9. ASSUME NEW k \in DOMAIN seen
      PROVE  IF Len(seen[k]) < LineLimit THEN lines.published[k] = seen[k]
             ELSE IsSuffix(LastOf(seen[k], LineLimit - 1), lines.published[k])
  <2>1. k \in 1 .. n
    BY <1>8
  <2>2. Fit(seen[k], lines.published[k])
    BY <1>6, <1>7, <2>1 DEF Matched
  <2>3. seen[k] \in Line /\ lines.published[k] \in Line
    BY <1>2, <1>6, <1>7, <2>1, ElementOfSeq
  <2> QED
    BY <2>2, <2>3, FitShows, Zenon
<1>10. \A k \in DOMAIN lines.logged : lines.logged[k] = lines.published[k]
  <2>1. CASE lines.finished
    <3>1. DOMAIN lines.logged = 1 .. Len(lines.logged)
      BY <1>2, LenProperties
    <3> QED
      BY <1>1, <2>1, <3>1 DEF OutputInv, LinesInv
  <2>2. CASE ~lines.finished
    BY <1>1, <2>2 DEF OutputInv, LinesInv
  <2> QED
    BY <2>1, <2>2
<1>11. LET full == Split(stream)
           some == IF lines.finished THEN full ELSE Front(full)
       IN /\ Len(lines.published) = Len(some)
          /\ \A k \in DOMAIN some : IF Len(some[k]) < LineLimit THEN lines.published[k] = some[k]
                                    ELSE IsSuffix(LastOf(some[k], LineLimit - 1), lines.published[k])
          /\ \A k \in DOMAIN lines.logged : lines.logged[k] = lines.published[k]
  <2>1. seen = IF lines.finished THEN Split(stream) ELSE Front(Split(stream))
    BY <1>4, <1>5
  <2> QED
    BY <1>7, <1>9, <1>10, <2>1
<1> QED
  BY <1>3, <1>11 DEF CutsDoNotMatter

\* However the stream is cut into chunks, the parser reads the same text and every line is
\* seen once (process-runner.ts:170-214, process-executor.ts:67-78), for every limit.
THEOREM CutsMakeNoDifference == OutputSpec => []CutsDoNotMatter
<1>1. OutputInv => CutsDoNotMatter
  BY OutputInvShows
<1> QED
  BY <1>1, OutputInvariant, PTL

-----------------------------------------------------------------------------
\* The rules of a platform, of what its author wrote.
MergedOf(written, over) ==
  [s \in DOMAIN written |-> [i \in DOMAIN written[s] |-> [f \in DOMAIN written[s][i] |->
     IF <<s, i, f>> \in DOMAIN over THEN over[<<s, i, f>>] ELSE written[s][i][f]]]]

Allowed == {"not ready", "no handler", "no executor", "no run"}

\* An adapter that was accepted is still the one that was checked.
CheckedInv == job.at = "accepted" => \A p \in Platform : Semantics(MergedOf(rules, overlay[p]))

JobInv == job \in [at : {"written", "accepted", "rejected"}, changes : Nat] \/ job.at = "done"

\* There are finitely many tools.
FiniteInv == "tools" \in DOMAIN rules /\ IsFiniteSet(DOMAIN rules.tools)

AdapterInv == FiniteInv /\ JobInv /\ CheckedInv /\ AcceptedWorks

\* f collects the parents of t among the tools, k steps far.
Parents(tools, t, k, f) ==
  f = [n \in 0 .. k |-> IF n = 0 THEN {t} ELSE f[n - 1] \cup {tools[u].via : u \in f[n - 1] \cap DOMAIN tools}]

(* What the parents of tools lead to, step by step, is there.              *)
LEMMA LaunchExists ==
  ASSUME NEW tools, NEW t
  PROVE  \A k \in Nat : \E f : Parents(tools, t, k, f)
<1> DEFINE Next(s) == s \cup {tools[u].via : u \in s \cap DOMAIN tools}
           Up(f, k) == f = [n \in 0 .. k |-> IF n = 0 THEN {t} ELSE Next(f[n - 1])]
           S == {k \in Nat : \E f : Up(f, k)}
<1> HIDE DEF Next
<1>1. 0 \in S
  <2> DEFINE f == [n \in 0 .. 0 |-> {t}]
  <2>1. Up(f, 0)
    OBVIOUS
  <2> HIDE DEF f, Up
  <2>2. \E g : Up(g, 0)
    BY <2>1
  <2> QED
    BY <2>2
<1>2. ASSUME NEW k \in Nat, k \in S  PROVE k + 1 \in S
  <2>1. PICK f : Up(f, k)
    BY <1>2
  <2> DEFINE g == [n \in 0 .. k + 1 |-> IF n = k + 1 THEN Next(f[k]) ELSE f[n]]
  <2>2. ASSUME NEW n \in 0 .. k + 1  PROVE g[n] = IF n = 0 THEN {t} ELSE Next(g[n - 1])
    <3>1. CASE n = k + 1
      <4>1. g[n] = Next(f[k]) /\ n # 0 /\ n - 1 = k /\ k \in 0 .. k + 1 /\ k # k + 1
        BY <3>1
      <4>2. g[n - 1] = f[k]
        BY <4>1
      <4> QED
        BY <4>1, <4>2
    <3>2. CASE n # k + 1 /\ n # 0
      <4>1. n \in 0 .. k /\ n - 1 \in 0 .. k + 1 /\ n - 1 # k + 1
        BY <3>2
      <4>2. g[n] = f[n] /\ g[n - 1] = f[n - 1]
        BY <3>2, <4>1
      <4>3. f[n] = Next(f[n - 1])
        BY <2>1, <3>2, <4>1
      <4> QED
        BY <3>2, <4>2, <4>3
    <3>3. CASE n = 0
      <4>1. 0 \in 0 .. k /\ 0 \in 0 .. k + 1 /\ 0 # k + 1
        OBVIOUS
      <4>2. g[0] = f[0] /\ f[0] = {t}
        BY <2>1, <4>1
      <4> QED
        BY <3>3, <4>2
    <3> QED
      BY <3>1, <3>2, <3>3
  <2>3. g = [n \in 0 .. k + 1 |-> g[n]]
    OBVIOUS
  <2>4. Up(g, k + 1)
    <3> HIDE DEF g
    <3> QED
      BY <2>2, <2>3
  <2> HIDE DEF g, Up
  <2>5. \E h : Up(h, k + 1)
    BY <2>4
  <2> QED
    BY <2>5
<1>3. Nat \subseteq S
  <2> HIDE DEF S
  <2> QED
    BY <1>1, <1>2, Induction
<1>4. ASSUME NEW k \in Nat  PROVE \E f : Parents(tools, t, k, f)
  <2>1. PICK f : Up(f, k)
    BY <1>3
  <2>2. Parents(tools, t, k, f)
    BY <2>1, Zenon DEF Parents, Next
  <2> QED
    BY <2>2
<1> QED
  BY <1>4

LEMMA LaunchDeclared ==
  ASSUME NEW tools, NEW t \in DOMAIN tools, IsFiniteSet(DOMAIN tools),
         \A u \in DOMAIN tools : tools[u].via \in DOMAIN tools \cup {NoName}
  PROVE  LaunchOf(tools, t) \subseteq DOMAIN tools
<1>1. PICK k \in Nat : k = Cardinality(DOMAIN tools)
  BY FS_CardinalityType
<1> DEFINE upTo == CHOOSE f : Parents(tools, t, k, f)
<1>2. LaunchOf(tools, t) = upTo[k] \ {NoName}
  BY <1>1, Zenon DEF LaunchOf, Parents
<1>3. upTo = [n \in 0 .. k |->
             IF n = 0 THEN {t} ELSE upTo[n - 1] \cup {tools[u].via : u \in upTo[n - 1] \cap DOMAIN tools}]
  <2>1. Parents(tools, t, k, upTo)
    BY LaunchExists
  <2> HIDE DEF upTo
  <2> QED
    BY <2>1, Zenon DEF Parents
<1> DEFINE S == {n \in Nat : n <= k => upTo[n] \subseteq DOMAIN tools \cup {NoName}}
<1> HIDE DEF upTo
<1>4. 0 \in S
  <2>1. 0 \in 0 .. k
    BY <1>1
  <2>2. upTo[0] = {t}
    BY <1>3, <2>1
  <2> QED
    BY <2>2
<1>5. ASSUME NEW n \in Nat, n \in S  PROVE n + 1 \in S
  <2>1. SUFFICES ASSUME n + 1 <= k  PROVE upTo[n + 1] \subseteq DOMAIN tools \cup {NoName}
    OBVIOUS
  <2>2. n + 1 \in 0 .. k /\ n + 1 # 0 /\ (n + 1) - 1 = n /\ n <= k
    BY <1>1, <2>1
  <2>3. upTo[n + 1] = upTo[n] \cup {tools[u].via : u \in upTo[n] \cap DOMAIN tools}
    BY <1>3, <2>2
  <2>4. upTo[n] \subseteq DOMAIN tools \cup {NoName}
    BY <1>5, <2>2
  <2> QED
    BY <2>3, <2>4
<1>6. Nat \subseteq S
  <2> HIDE DEF S
  <2> QED
    BY <1>4, <1>5, Induction
<1> QED
  BY <1>1, <1>2, <1>6

(* What is looked up in rules that fit is there and sound.                 *)
LEMMA ToolIsFine ==
  ASSUME NEW r, Semantics(r), IsFiniteSet(DOMAIN r.tools), NEW tool \in DOMAIN r.tools
  PROVE  ToolTrouble(r, tool) = {}
<1>1. ToolsFit(r) /\ DiscoveriesFit(r) /\ EnvironmentsFit(r) /\ ParsersFit(r)
  BY DEF Semantics
<1>2. LaunchOf(r.tools, tool) \subseteq DOMAIN r.tools
  <2>1. \A u \in DOMAIN r.tools : r.tools[u].via \in DOMAIN r.tools \cup {NoName}
    BY <1>1 DEF ToolsFit, DeclaredIfAny, Declared
  <2> QED
    BY <2>1, LaunchDeclared
<1> DEFINE parser(t) == IF Declared(r.discoveries, r.tools[t].discovery)
                        THEN r.discoveries[r.tools[t].discovery].parser ELSE NoName
           found(t) == Lookup(r.tools, t) \cup Lookup(r.discoveries, r.tools[t].discovery)
                       \cup Lookup(r.environments, r.tools[t].environment)
                       \cup (IF parser(t) = NoName THEN {} ELSE Lookup(r.parsers, parser(t)))
                       \cup (IF InCycle(r.tools, t) THEN {"cycle"} ELSE {})
           each(t) == IF ~Declared(r.tools, t) THEN {"dangling"} ELSE found(t)
<1>3. ASSUME NEW t \in LaunchOf(r.tools, tool)  PROVE each(t) = {}
  <2>1. Declared(r.tools, t) /\ t \in DOMAIN r.tools
    BY <1>2 DEF Declared
  <2>2. Lookup(r.tools, t) = {}
    BY <1>1, <2>1 DEF Lookup, ToolsFit
  <2>3. Declared(r.discoveries, r.tools[t].discovery) /\ Lookup(r.discoveries, r.tools[t].discovery) = {}
    BY <1>1, <2>1 DEF Lookup, ToolsFit, DiscoveriesFit, Declared
  <2>4. Lookup(r.environments, r.tools[t].environment) = {}
    BY <1>1, <2>1 DEF Lookup, ToolsFit, EnvironmentsFit, Declared
  <2>5. parser(t) # NoName => Lookup(r.parsers, parser(t)) = {}
    <3>1. parser(t) = r.discoveries[r.tools[t].discovery].parser
      BY <2>3
    <3>2. DeclaredIfAny(r.parsers, parser(t))
      BY <1>1, <2>3, <3>1 DEF DiscoveriesFit, Declared
    <3> QED
      BY <1>1, <3>2 DEF DeclaredIfAny, Declared, Lookup, ParsersFit
  <2>6. ~InCycle(r.tools, t)
    BY <1>1, <2>1 DEF ToolsFit
  <2> HIDE DEF parser
  <2> QED
    BY <2>1, <2>2, <2>3, <2>4, <2>5, <2>6
<1>4. ToolTrouble(r, tool) = UNION {each(t) : t \in LaunchOf(r.tools, tool)}
  BY Zenon DEF ToolTrouble
<1> HIDE DEF each
<1> QED
  BY <1>3, <1>4

LEMMA ActionIsFine ==
  ASSUME NEW r, Semantics(r), IsFiniteSet(DOMAIN r.tools), NEW a, Declared(r.actions, a), NEW run
  PROVE  ActionTrouble(r, a, run) \subseteq {"no executor", "no run"}
<1>1. ActionsFit(r) /\ ParsersFit(r) /\ ArtifactsFit(r) /\ a \in DOMAIN r.actions
  BY DEF Semantics, Declared
<1> DEFINE action == r.actions[a]
<1>2. action.sound /\ DeclaredIfAny(r.parsers, action.parser) /\ DeclaredIfAny(r.artifacts, action.set)
  BY <1>1 DEF ActionsFit
<1>3. action.type = "process" => Declared(r.tools, action.tool)
  BY <1>1 DEF ActionsFit
<1>4. Lookup(r.actions, a) = {}
  BY <1>2 DEF Lookup
<1>5. action.type = "process" => ToolTrouble(r, action.tool) = {}
  BY <1>3, ToolIsFine DEF Declared
<1>6. action.parser # NoName => Lookup(r.parsers, action.parser) = {}
  BY <1>1, <1>2 DEF DeclaredIfAny, Declared, Lookup, ParsersFit
<1>7. action.set # NoName => Lookup(r.artifacts, action.set) = {}
  BY <1>1, <1>2 DEF DeclaredIfAny, Declared, Lookup, ArtifactsFit
<1>8. ActionTrouble(r, a, run) = Lookup(r.actions, a)
    \cup (IF action.type = "process" THEN ToolTrouble(r, action.tool) ELSE {})
    \cup (IF action.type = "serial-read" THEN {"no executor"} ELSE {})
    \cup (IF action.type = "process" /\ action.parser # NoName THEN Lookup(r.parsers, action.parser) ELSE {})
    \cup (IF action.set = NoName THEN {} ELSE IF run THEN Lookup(r.artifacts, action.set) ELSE {"no run"})
  BY DEF ActionTrouble
<1> HIDE DEF action
<1> QED
  BY <1>4, <1>5, <1>6, <1>7, <1>8

LEMMA WorkflowIsFine ==
  ASSUME NEW r, Semantics(r), IsFiniteSet(DOMAIN r.tools), NEW w, Declared(r.workflows, w), NEW run
  PROVE  WorkflowTrouble(r, w, run) \subseteq {"no executor", "no run"}
<1> DEFINE workflow == r.workflows[w]
<1>1. workflow.sound /\ DeclaredIfAny(workflow.steps, workflow.output)
  BY DEF Semantics, WorkflowsFit, Declared
<1>2. ASSUME NEW s \in DOMAIN workflow.steps
      PROVE  ActionTrouble(r, workflow.steps[s], run) \subseteq {"no executor", "no run"}
  <2>1. Declared(r.actions, workflow.steps[s])
    BY DEF Semantics, WorkflowsFit, Declared
  <2> QED
    BY <2>1, ActionIsFine
<1>3. Lookup(r.workflows, w) = {}
  BY <1>1 DEF Lookup
<1>4. WorkflowTrouble(r, w, run) = Lookup(r.workflows, w)
        \cup UNION {ActionTrouble(r, workflow.steps[s], run) : s \in DOMAIN workflow.steps}
  BY <1>1 DEF WorkflowTrouble
<1> HIDE DEF workflow
<1> QED
  BY <1>2, <1>3, <1>4

LEMMA SessionIsFine ==
  ASSUME NEW r, Semantics(r), NEW id, NEW c, Declared(r.sessions, c.target)
  PROVE  SessionTrouble(r, id, c) \subseteq {"not ready", "no handler"}
<1> DEFINE session == r.sessions[c.target]
<1>1. /\ DeclaredIfAny(r.outputs, session.telemetry)
      /\ \A m \in session.requests : Declared(r.inputs, m.request) /\ Declared(r.outputs, m.response)
  BY DEF Semantics, SessionsFit, Declared
<1> QED
  BY <1>1 DEF SessionTrouble

LEMMA ViewIsFine ==
  ASSUME NEW r, Semantics(r), NEW id
  PROVE  ViewTrouble(r, id, Both(r)[id]) = {}
<1> DEFINE c == Both(r)[id]
           output == r.outputs[c.output]
           view == r.views[id]
<1>1. SUFFICES ASSUME Declared(r.views, id), Declared(r.outputs, c.output)
               PROVE  ViewTrouble(r, id, c) = {}
  BY DEF ViewTrouble
<1>2. IF view.whole THEN output.secrets = {} ELSE view.selects \subseteq output.fields \ output.secrets
  BY <1>1 DEF Semantics, ViewsFit, Declared
<1>3. view.title \in {NoName} \cup r.messages["en"].keys
  <2>1. CASE view.title # NoName
    <3>1. view.title \in ShownKeys(r)
      BY <1>1, <2>1 DEF ShownKeys, Declared
    <3> QED
      BY <3>1 DEF Semantics, MessagesFit
  <2> QED
    BY <2>1
<1> DEFINE shown == IF view.whole THEN output.fields ELSE view.selects
<1>4. shown \subseteq output.fields /\ shown \cap output.secrets = {}
  BY <1>2
<1>5. ViewTrouble(r, id, c) =
        (IF shown \subseteq output.fields THEN {} ELSE {"dangling"})
        \cup (IF shown \cap output.secrets = {} THEN {} ELSE {"secret"})
        \cup (IF view.title \in {NoName} \cup r.messages["en"].keys THEN {} ELSE {"dangling"})
  BY <1>1 DEF ViewTrouble
<1> HIDE DEF shown, view, output
<1> QED
  BY <1>3, <1>4, <1>5

LEMMA CapabilityIsFine ==
  ASSUME NEW r, Semantics(r), IsFiniteSet(DOMAIN r.tools), NEW p, NEW id \in Offered(r, p)
  PROVE  Trouble(r, id) \subseteq Allowed
<1> DEFINE c == Both(r)[id]
<1>1. id \in DOMAIN Both(r) /\ c.enabled
  BY DEF Offered
<1>2. HandlerFits(r, c) /\ SchemasFit(r, id, c)
  BY <1>1 DEF Semantics, CapabilitiesFit
<1>3. c.kind \in {"session", "action", "workflow"} /\ Declared(Handlers(r, c.kind), c.target)
  BY <1>1, <1>2 DEF HandlerFits
<1>4. Declared(r.inputs, c.input) /\ Declared(r.outputs, c.output)
  BY <1>1, <1>2 DEF SchemasFit, DeclaredIfAny
<1> DEFINE handler == CASE c.kind = "session" -> SessionTrouble(r, id, c)
                        [] c.kind = "action" -> ActionTrouble(r, c.target, c.run)
                        [] c.kind = "workflow" -> WorkflowTrouble(r, c.target, c.run)
<1>5. handler \subseteq Allowed
  <2>1. CASE c.kind = "session"
    <3>1. Declared(r.sessions, c.target)
      BY <1>3, <2>1 DEF Handlers
    <3> QED
      BY <2>1, <3>1, SessionIsFine DEF Allowed
  <2>2. CASE c.kind = "action"
    <3>1. Declared(r.actions, c.target)
      BY <1>3, <2>2 DEF Handlers
    <3> QED
      BY <2>2, <3>1, ActionIsFine DEF Allowed
  <2>3. CASE c.kind = "workflow"
    <3>1. Declared(r.workflows, c.target)
      BY <1>3, <2>3 DEF Handlers
    <3> QED
      BY <2>3, <3>1, WorkflowIsFine DEF Allowed
  <2> QED
    BY <1>3, <2>1, <2>2, <2>3
<1>6. ViewTrouble(r, id, c) = {}
  BY ViewIsFine
<1>7. Trouble(r, id) = handler
        \cup (IF Declared(r.inputs, c.input) /\ Declared(r.outputs, c.output) THEN {} ELSE {"dangling"})
        \cup ViewTrouble(r, id, c)
  BY DEF Trouble
<1> HIDE DEF handler, c
<1> QED
  BY <1>4, <1>5, <1>6, <1>7

LEMMA MergedIs ==
  /\ \A p \in Platform : MergedRules(p) = MergedOf(rules, overlay[p])
  /\ \A p \in Platform : FiniteInv => IsFiniteSet(DOMAIN MergedOf(rules, overlay[p]).tools)
<1>1. \A p \in Platform : MergedRules(p) = MergedOf(rules, overlay[p])
  BY Zenon DEF MergedRules, MergedOf
<1>2. ASSUME NEW p \in Platform, FiniteInv
      PROVE  DOMAIN MergedOf(rules, overlay[p]).tools = DOMAIN rules.tools
  <2> DEFINE each(s) == [i \in DOMAIN rules[s] |-> [f \in DOMAIN rules[s][i] |->
         IF <<s, i, f>> \in DOMAIN overlay[p] THEN overlay[p][<<s, i, f>>] ELSE rules[s][i][f]]]
  <2>1. MergedOf(rules, overlay[p]) = [s \in DOMAIN rules |-> each(s)]
    BY Zenon DEF MergedOf
  <2>2. MergedOf(rules, overlay[p])["tools"] = each("tools")
    <3> HIDE DEF each
    <3> QED
      BY <1>2, <2>1 DEF FiniteInv
  <2>3. DOMAIN each("tools") = DOMAIN rules["tools"]
    OBVIOUS
  <2> HIDE DEF each
  <2> QED
    BY <2>2, <2>3
<1> QED
  BY <1>1, <1>2 DEF FiniteInv

LEMMA ChangeDeclarationStep ==
  ASSUME AdapterInv, ChangeDeclaration
  PROVE  AdapterInv'
<1>1. job.at = "written" /\ job \in [at : {"written", "accepted", "rejected"}, changes : Nat]
  BY DEF AdapterInv, JobInv, ChangeDeclaration, Edit
<1>2. job'.at = "written" /\ job' \in [at : {"written", "accepted", "rejected"}, changes : Nat]
  BY <1>1 DEF ChangeDeclaration, Edit
<1>3. PICK s, i, f, v : rules' = [rules EXCEPT ![s][i][f] = v]
  <2>1. PICK c \in Changes : rules' = [rules EXCEPT ![c[1]][c[2]][c[3]] = c[4]]
    BY DEF ChangeDeclaration
  <2> QED
    BY <2>1
<1>4. FiniteInv'
  <2>1. DOMAIN rules' = DOMAIN rules
    BY <1>3
  <2>2. DOMAIN rules'["tools"] = DOMAIN rules["tools"]
    BY <1>3 DEF AdapterInv, FiniteInv
  <2> QED
    BY <2>1, <2>2 DEF AdapterInv, FiniteInv
<1> QED
  BY <1>2, <1>4 DEF AdapterInv, JobInv, CheckedInv, AcceptedWorks

LEMMA RemoveDeclarationStep ==
  ASSUME AdapterInv, RemoveDeclaration
  PROVE  AdapterInv'
<1>1. job.at = "written" /\ job \in [at : {"written", "accepted", "rejected"}, changes : Nat]
  BY DEF AdapterInv, JobInv, RemoveDeclaration, Edit
<1>2. job'.at = "written" /\ job' \in [at : {"written", "accepted", "rejected"}, changes : Nat]
  BY <1>1 DEF RemoveDeclaration, Edit
<1>3. PICK r \in Removals : rules' = [rules EXCEPT ![r[1]] = [i \in DOMAIN rules[r[1]] \ {r[2]} |-> rules[r[1]][i]]]
  BY DEF RemoveDeclaration
<1>4. FiniteInv'
  <2>1. DOMAIN rules' = DOMAIN rules
    BY <1>3
  <2>2. DOMAIN rules'["tools"] \subseteq DOMAIN rules["tools"]
    BY <1>3 DEF AdapterInv, FiniteInv
  <2>3. IsFiniteSet(DOMAIN rules["tools"])
    BY DEF AdapterInv, FiniteInv
  <2>4. IsFiniteSet(DOMAIN rules'["tools"])
    BY <2>2, <2>3, FS_Subset
  <2> QED
    BY <2>1, <2>4 DEF AdapterInv, FiniteInv
<1> QED
  BY <1>2, <1>4 DEF AdapterInv, JobInv, CheckedInv, AcceptedWorks

LEMMA ChangeOverlayStep ==
  ASSUME AdapterInv, ChangeOverlay
  PROVE  AdapterInv'
<1>1. job.at = "written" /\ job \in [at : {"written", "accepted", "rejected"}, changes : Nat]
  BY DEF AdapterInv, JobInv, ChangeOverlay, Edit
<1>2. job'.at = "written" /\ job' \in [at : {"written", "accepted", "rejected"}, changes : Nat]
  BY <1>1 DEF ChangeOverlay, Edit
<1>3. rules' = rules
  BY DEF ChangeOverlay
<1> QED
  BY <1>2, <1>3 DEF AdapterInv, FiniteInv, JobInv, CheckedInv, AcceptedWorks

LEMMA ValidateStep ==
  ASSUME AdapterInv, ValidateAdapter
  PROVE  AdapterInv'
<1>1. job \in [at : {"written", "accepted", "rejected"}, changes : Nat] /\ rules' = rules /\ overlay' = overlay
  BY DEF AdapterInv, JobInv, ValidateAdapter
<1>2. job' = [at |-> IF RulesFit THEN "accepted" ELSE "rejected", changes |-> job.changes]
  BY DEF ValidateAdapter
<1>3. JobInv' /\ job'.at # "done" /\ (job'.at = "accepted" => RulesFit)
  BY <1>1, <1>2 DEF JobInv
<1>4. RulesFit => \A p \in Platform : Semantics(MergedOf(rules, overlay[p]))
  BY MergedIs DEF RulesFit
<1>5. CheckedInv'
  BY <1>1, <1>3, <1>4 DEF CheckedInv
<1> QED
  BY <1>1, <1>3, <1>5 DEF AdapterInv, FiniteInv, AcceptedWorks

LEMMA WorkedStep ==
  ASSUME AdapterInv, NEW p, NEW doing, NEW trouble \in SUBSET Allowed, Performs(p, doing, trouble),
         UNCHANGED <<rules, overlay>>
  PROVE  AdapterInv'
<1>1. job'.at = "done" /\ job'.trouble = trouble
  BY DEF Performs
<1> QED
  BY <1>1 DEF AdapterInv, FiniteInv, JobInv, CheckedInv, AcceptedWorks, Allowed

LEMMA UseCapabilityStep ==
  ASSUME AdapterInv, UseCapability
  PROVE  AdapterInv'
<1>0. PICK p \in Platform : \E r \in {MergedRules(p)} :
 \E id \in Offered(r, p) : Performs(p, id, Trouble(r, id))
  BY DEF UseCapability
<1>1. PICK r : r = MergedRules(p) /\
 \E id \in Offered(r, p) : Performs(p, id, Trouble(r, id))
  BY <1>0
<1>2. PICK id \in Offered(r, p) : Performs(p, id, Trouble(r, id))
  BY <1>1
<1>3. Semantics(r) /\ IsFiniteSet(DOMAIN r.tools)
  BY <1>1, MergedIs DEF AdapterInv, CheckedInv, UseCapability
<1>4. PICK trouble : trouble = Trouble(r, id)
  OBVIOUS
<1>5. trouble \in SUBSET Allowed
  BY <1>3, <1>4, CapabilityIsFine
<1> QED
  BY <1>2, <1>4, <1>5, WorkedStep DEF UseCapability

LEMMA ScanDevicesStep ==
  ASSUME AdapterInv, ScanDevices
  PROVE  AdapterInv'
<1>0. PICK p \in Platform : \E r \in {MergedRules(p)} :
 \E s \in r.devices["discovery"].sources :
       /\ s.action # NoName
       /\ Performs(p, "scan", (ActionTrouble(r, s.action, FALSE) \ {"no run"})
            \cup IF Declared(r.actions, s.action) /\ r.actions[s.action].type = "process"
                    /\ Declared(r.parsers, r.actions[s.action].parser)
                 THEN {} ELSE {"dangling"})
  BY DEF ScanDevices
<1>1. PICK r : r = MergedRules(p) /\
 \E s \in r.devices["discovery"].sources :
       /\ s.action # NoName
       /\ Performs(p, "scan", (ActionTrouble(r, s.action, FALSE) \ {"no run"})
            \cup IF Declared(r.actions, s.action) /\ r.actions[s.action].type = "process"
                    /\ Declared(r.parsers, r.actions[s.action].parser)
                 THEN {} ELSE {"dangling"})
  BY <1>0
<1>2. PICK s \in r.devices["discovery"].sources :
       /\ s.action # NoName
       /\ Performs(p, "scan", (ActionTrouble(r, s.action, FALSE) \ {"no run"})
            \cup IF Declared(r.actions, s.action) /\ r.actions[s.action].type = "process"
                    /\ Declared(r.parsers, r.actions[s.action].parser)
                 THEN {} ELSE {"dangling"})
  BY <1>1
<1>3. Semantics(r) /\ IsFiniteSet(DOMAIN r.tools)
  BY <1>1, MergedIs DEF AdapterInv, CheckedInv, ScanDevices
<1>4. /\ Declared(r.actions, s.action) /\ r.actions[s.action].type = "process"
      /\ Declared(r.parsers, r.actions[s.action].parser)
  BY <1>2, <1>3 DEF Semantics, DevicesFit
<1>5. ActionTrouble(r, s.action, FALSE) \subseteq {"no executor", "no run"}
  BY <1>3, <1>4, ActionIsFine
<1>6. PICK trouble : trouble = (ActionTrouble(r, s.action, FALSE) \ {"no run"})
            \cup IF Declared(r.actions, s.action) /\ r.actions[s.action].type = "process"
                    /\ Declared(r.parsers, r.actions[s.action].parser)
                 THEN {} ELSE {"dangling"}
  OBVIOUS
<1>7. trouble \in SUBSET Allowed
  BY <1>4, <1>5, <1>6 DEF Allowed
<1>8. Performs(p, "scan", trouble)
  BY <1>2, <1>6
<1> QED
  BY <1>7, <1>8, WorkedStep DEF ScanDevices

LEMMA DoctorStep ==
  ASSUME AdapterInv, Doctor
  PROVE  AdapterInv'
<1>0. PICK p \in Platform : \E r \in {MergedRules(p)} :
       Performs(p, "doctor", UNION {ToolTrouble(r, t) : t \in DOMAIN r.tools}
                             \cup UNION {Lookup(r.environments, e) : e \in DOMAIN r.environments})
  BY DEF Doctor
<1>1. PICK r : r = MergedRules(p) /\
       Performs(p, "doctor", UNION {ToolTrouble(r, t) : t \in DOMAIN r.tools}
                             \cup UNION {Lookup(r.environments, e) : e \in DOMAIN r.environments})
  BY <1>0
<1>2. Semantics(r) /\ IsFiniteSet(DOMAIN r.tools)
  BY <1>1, MergedIs DEF AdapterInv, CheckedInv, Doctor
<1>3. \A t \in DOMAIN r.tools : ToolTrouble(r, t) = {}
  BY <1>2, ToolIsFine
<1>4. \A e \in DOMAIN r.environments : Lookup(r.environments, e) = {}
  BY <1>2 DEF Semantics, EnvironmentsFit, Lookup, Declared
<1>5. PICK trouble : trouble = UNION {ToolTrouble(r, t) : t \in DOMAIN r.tools}
                               \cup UNION {Lookup(r.environments, e) : e \in DOMAIN r.environments}
  OBVIOUS
<1>6. trouble \in SUBSET Allowed
  BY <1>3, <1>4, <1>5
<1>7. Performs(p, "doctor", trouble)
  BY <1>1, <1>5
<1> QED
  BY <1>6, <1>7, WorkedStep DEF Doctor

LEMMA AdapterInitInv == AdapterInit => AdapterInv
  BY WrittenAssumption DEF AdapterInit, AdapterInv, FiniteInv, JobInv, CheckedInv, AcceptedWorks

LEMMA AdapterNextInv == AdapterInv /\ [AdapterNext]_adapterVars => AdapterInv'
<1> SUFFICES ASSUME AdapterInv, [AdapterNext]_adapterVars  PROVE AdapterInv'
  OBVIOUS
<1>1. CASE AdapterNext
  BY <1>1, ChangeDeclarationStep, RemoveDeclarationStep, ChangeOverlayStep, ValidateStep, UseCapabilityStep,
     ScanDevicesStep, DoctorStep DEF AdapterNext
<1>2. CASE UNCHANGED adapterVars
  BY <1>2 DEF adapterVars, AdapterInv, FiniteInv, JobInv, CheckedInv, AcceptedWorks
<1> QED
  BY <1>1, <1>2

(* The invariant behind the lookups of an accepted adapter.                *)
THEOREM AdapterInvariant == AdapterSpec => []AdapterInv
<1>1. AdapterInit => AdapterInv
  BY AdapterInitInv
<1>2. AdapterInv /\ [AdapterNext]_adapterVars => AdapterInv'
  BY AdapterNextInv
<1> QED
  BY <1>1, <1>2, PTL DEF AdapterSpec

(* Whatever the runtime looks up in the rules of an accepted adapter is    *)
(* there, sound and shows no secret: for any adapter, any overlays and any *)
(* number of changes (semantic-validator.ts).                              *)
THEOREM AcceptedAdaptersWork == AdapterSpec => []AcceptedWorks
<1>1. AdapterInv => AcceptedWorks
  BY DEF AdapterInv
<1> QED
  BY <1>1, AdapterInvariant, PTL

-----------------------------------------------------------------------------
Computer == [installed : SUBSET Tool, onPath : SUBSET Tool, strays : SUBSET Tool,
             project : [Tool -> Nat], global : [Tool -> Nat]]

\* A bundle is what was compiled, and only acceptable rules are accepted.
BundleInv ==
  /\ bundle = [state |-> "none"] \/
     \E declared \in Rules, state \in {"compiled", "accepted", "rejected"} : bundle = Built(declared, state)
  /\ bundle.state # "none" => computer \in Computer
  /\ Accepted => Acceptable

\* What a required tool has when its setup is through.
ToolReady(t) ==
  Own(t) /\ (IF setup.kind = "discover" THEN Kept1(t)
             ELSE \A u \in Chain(t) : computer.global[bundle.reads[u]] # None
                                      /\ computer.project[bundle.reads[u]] = None)
    => RunsWith(t)

\* A setup that resolved its tools has yet to write what they were found with.
ResolvedInv ==
  \/ setup = [at |-> "idle"]
  \/ \E at \in {"resolved", "failed", "done"}, kind \in {"discover", "configure"}, writes \in [Tool -> Nat] :
       /\ setup = [at |-> at, kind |-> kind, writes |-> writes] /\ Accepted
       /\ at = "resolved" /\ kind = "discover" =>
            writes = Kept(Merged) /\ \A t \in bundle.required : Ready(t, "discover", Merged)
       /\ at = "resolved" /\ kind = "configure" =>
            \A t \in bundle.required : Ready(t, "discover", Tried(writes))
       /\ at = "done" => \A t \in bundle.required : ToolReady(t)

SetupInv == BundleInv /\ ResolvedInv

LEMMA ToolsAre == /\ None \notin Tool /\ Tool \subseteq Nat
                  /\ \A t \in Tool : t \in 1 .. t
<1>1. Cardinality(Tool) \in Nat
  BY ToolAssumption, FS_CardinalityType
<1> QED
  BY <1>1, ToolAssumption DEF None

LEMMA BuiltTyped ==
  ASSUME NEW declared \in Rules, NEW state, NEW b, b = Built(declared, state)
  PROVE  /\ b.state = state /\ b.reads \in [Tool -> Tool] /\ b.keeps \in SUBSET Tool
         /\ b.script \in [Tool -> Tool \cup {None}] /\ b.required \in SUBSET Tool
BY RulesAssumption DEF Built

LEMMA BundleTyped ==
  ASSUME SetupInv, bundle.state # "none"
  PROVE  /\ bundle.reads \in [Tool -> Tool] /\ bundle.keeps \in SUBSET Tool
         /\ bundle.script \in [Tool -> Tool \cup {None}] /\ bundle.required \in SUBSET Tool
         /\ computer \in Computer /\ computer.installed \in SUBSET Tool /\ computer.onPath \in SUBSET Tool
         /\ computer.strays \in SUBSET Tool /\ computer.project \in [Tool -> Nat] /\ computer.global \in [Tool -> Nat]
<1>1. computer \in Computer
  BY DEF SetupInv, BundleInv
<1>2. bundle # [state |-> "none"]
  OBVIOUS
<1>3. PICK declared \in Rules, state \in {"compiled", "accepted", "rejected"} : bundle = Built(declared, state)
  BY <1>2, Zenon DEF SetupInv, BundleInv
<1> QED
  BY <1>1, <1>3, BuiltTyped DEF Computer

LEMMA SetupTyped ==
  ASSUME SetupInv
  PROVE  setup.at = "idle" \/
         /\ setup.at \in {"resolved", "failed", "done"} /\ setup.kind \in {"discover", "configure"}
         /\ setup.writes \in [Tool -> Nat] /\ Accepted
         /\ setup = [at |-> setup.at, kind |-> setup.kind, writes |-> setup.writes]
         /\ setup.at = "resolved" /\ setup.kind = "discover" =>
              setup.writes = Kept(Merged) /\ \A t \in bundle.required : Ready(t, "discover", Merged)
         /\ setup.at = "resolved" /\ setup.kind = "configure" =>
              \A t \in bundle.required : Ready(t, "discover", Tried(setup.writes))
         /\ setup.at = "done" => \A t \in bundle.required : ToolReady(t)
<1>1. CASE setup = [at |-> "idle"]
  BY <1>1
<1>2. CASE setup # [at |-> "idle"]
  <2>1. PICK at \in {"resolved", "failed", "done"}, kind \in {"discover", "configure"}, writes \in [Tool -> Nat] :
          /\ setup = [at |-> at, kind |-> kind, writes |-> writes] /\ Accepted
          /\ at = "resolved" /\ kind = "discover" =>
               writes = Kept(Merged) /\ \A t \in bundle.required : Ready(t, "discover", Merged)
          /\ at = "resolved" /\ kind = "configure" =>
               \A t \in bundle.required : Ready(t, "discover", Tried(writes))
          /\ at = "done" => \A t \in bundle.required : ToolReady(t)
    BY <1>2, Zenon DEF SetupInv, ResolvedInv
  <2>2. setup.at = at /\ setup.kind = kind /\ setup.writes = writes
    BY <2>1
  <2> QED
    BY <2>1, <2>2
<1> QED
  BY <1>1, <1>2

(* What a setup resolved a tool with is what an operation finds of it:      *)
(* the configuration has, for each member of the launch, the value that     *)
(* the resolution used, and its script needs a member only.                 *)
LEMMA RunsThen ==
  ASSUME NEW t, NEW known, NEW config, NEW kept, Resolves(t, known, "discover", config), Own(t),
         \A u \in Chain(t) : kept[bundle.reads[u]] = Located(u, "discover", config) /\ bundle.reads[u] # None,
         NEW b, NEW c, b = bundle, c.installed = computer.installed
  PROVE  /\ b.chain[t] \subseteq Tool /\ ~(b.via[t] \in Tool /\ t \in b.chain[b.via[t]])
         /\ \A u \in b.chain[t] :
              /\ kept[b.reads[u]] = b.reads[u] /\ b.reads[u] \in c.installed /\ b.reads[u] # None
              /\ b.script[u] \in b.chain[t] \cup {None}
<1>1. Chain(t) \subseteq Tool /\ ~Cyclic(t)
  BY DEF Resolves, Launches
<1>2. \A u \in Chain(t) : /\ kept[bundle.reads[u]] = bundle.reads[u] /\ bundle.reads[u] \in computer.installed
                          /\ bundle.reads[u] # None
  <2>1. ASSUME NEW u \in Chain(t)
        PROVE  /\ kept[bundle.reads[u]] = bundle.reads[u] /\ bundle.reads[u] \in computer.installed
               /\ bundle.reads[u] # None
    <3>1. Located(u, "discover", config) = bundle.reads[u] /\ bundle.reads[u] # None
      BY <2>1 DEF Resolves, Program
    <3>2. bundle.reads[u] \in computer.installed
      BY <3>1 DEF Located, Program
    <3> QED
      BY <2>1, <3>1, <3>2
  <2> QED
    BY <2>1
<1>3. \A u \in Chain(t) : bundle.script[u] \in Chain(t) \cup {None}
  BY DEF Own
<1> QED
  BY <1>1, <1>2, <1>3 DEF Chain, Cyclic

\* About the state after a step.
LEMMA RunsWithNext ==
  ASSUME NEW t, NEW kept, kept = Merged',
         /\ bundle'.chain[t] \subseteq Tool /\ ~(bundle'.via[t] \in Tool /\ t \in bundle'.chain[bundle'.via[t]])
         /\ \A u \in bundle'.chain[t] :
              /\ kept[bundle'.reads[u]] = bundle'.reads[u] /\ bundle'.reads[u] \in computer'.installed
              /\ bundle'.reads[u] # None
              /\ bundle'.script[u] \in bundle'.chain[t] \cup {None}
  PROVE  RunsWith(t)'
<1>1. \A u \in bundle'.chain[t] : Located(u, "configured", Merged)' = bundle'.reads[u]
  BY DEF Located
<1>2. Launches(t, "configured", Merged)'
  BY <1>1 DEF Launches, Chain, Cyclic
<1> QED
  BY <1>1, <1>2 DEF RunsWith, Resolves, Chain, Program

LEMMA SetupInitially ==
  ASSUME SetupInit
  PROVE  SetupInv
BY DEF SetupInit, SetupInv, BundleInv, ResolvedInv, Accepted

LEMMA CompileStep ==
  ASSUME SetupInv, Compile
  PROVE  SetupInv'
<1>1. setup = [at |-> "idle"]
  BY Zenon DEF SetupInv, ResolvedInv, Accepted, Compile
<1>2. PICK declared \in Rules : bundle' = Built(declared, "compiled")
  BY DEF Compile
<1>3. bundle'.state = "compiled"
  BY <1>2, BuiltTyped
<1>4. computer' \in Computer
  BY ComputersAssumption DEF Compile, Computer
<1>5. BundleInv'
  BY <1>2, <1>3, <1>4 DEF BundleInv, Accepted
<1>6. ResolvedInv'
  BY <1>1 DEF ResolvedInv, Compile
<1> QED
  BY <1>5, <1>6 DEF SetupInv

LEMMA AcceptStep ==
  ASSUME SetupInv, Accept
  PROVE  SetupInv'
<1>1. bundle.state = "compiled" /\ UNCHANGED <<computer, setup>>
  BY DEF Accept
<1>2. setup = [at |-> "idle"]
  BY <1>1, Zenon DEF SetupInv, ResolvedInv, Accepted
<1>3. bundle # [state |-> "none"]
  BY <1>1
<1>4. PICK declared \in Rules, state \in {"compiled", "accepted", "rejected"} : bundle = Built(declared, state)
  BY <1>3, Zenon DEF SetupInv, BundleInv
<1>5. PICK new \in {"accepted", "rejected"} : new = IF Acceptable THEN "accepted" ELSE "rejected"
  OBVIOUS
<1>6. bundle' = [bundle EXCEPT !.state = new]
  BY <1>5 DEF Accept
<1>7. bundle' = Built(declared, new)
  BY <1>4, <1>6 DEF Built
<1>8. bundle'.state = new /\ bundle'.via = bundle.via /\ bundle'.chain = bundle.chain
  BY <1>4, <1>7 DEF Built
<1>9. Acceptable' <=> Acceptable
  BY <1>8 DEF Acceptable, Chain, Cyclic
<1>10. BundleInv'
  BY <1>1, <1>5, <1>7, <1>8, <1>9 DEF SetupInv, BundleInv, Accepted
<1>11. ResolvedInv'
  BY <1>1, <1>2 DEF ResolvedInv
<1> QED
  BY <1>10, <1>11 DEF SetupInv

\* What is resolved depends on the bundle and the computer only.
LEMMA ResolutionKept ==
  ASSUME bundle' = bundle, computer' = computer
  PROVE  /\ Merged' = Merged /\ Kept(Merged)' = Kept(Merged)
         /\ \A t, config : Ready(t, "discover", config)' <=> Ready(t, "discover", config)
         /\ \A writes : Tried(writes)' = Tried(writes)
<1>1. Merged' = Merged
  BY DEF Merged
<1>2. \A t, config : Ready(t, "discover", config)' <=> Ready(t, "discover", config)
  <2>1. \A t, config : Launches(t, "discover", config)' <=> Launches(t, "discover", config)
    BY DEF Launches, Located, Chain, Cyclic, Program
  <2>2. \A t, config : Known(t, "discover", config)' = Known(t, "discover", config)
    BY <2>1 DEF Known, Chain
  <2> QED
    BY <2>1, <2>2 DEF Ready, Resolves, Located, Chain, Program
<1>3. Kept(Merged)' = Kept(Merged)
  BY <1>1, <1>2 DEF Kept, Chain
<1>4. \A writes : Tried(writes)' = Tried(writes)
  BY <1>1 DEF Tried, Over
<1> QED
  BY <1>1, <1>2, <1>3, <1>4

\* A resolution starts: what it decides is of the configuration as it is.
LEMMA StartsStep ==
  ASSUME SetupInv, NEW kind \in {"discover", "configure"}, NEW ok, NEW writes \in [Tool -> Nat],
         Starts(kind, ok, writes),
         kind = "discover" /\ ok => writes = Kept(Merged) /\ \A t \in bundle.required : Ready(t, "discover", Merged),
         kind = "configure" /\ ok => \A t \in bundle.required : Ready(t, "discover", Tried(writes))
  PROVE  SetupInv'
<1>1. Accepted /\ bundle' = bundle /\ computer' = computer
  BY DEF Starts
<1>2. PICK at \in {"resolved", "failed", "done"} : at = IF ok THEN "resolved" ELSE "failed"
  OBVIOUS
<1>3. setup' = [at |-> at, kind |-> kind, writes |-> writes]
  BY <1>2 DEF Starts
<1>4. at # "done" /\ (at = "resolved" => ok)
  BY <1>2
<1>5. BundleInv'
  BY <1>1 DEF SetupInv, BundleInv, Accepted, Acceptable, Chain, Cyclic
<1>6. /\ at = "resolved" /\ kind = "discover" =>
           writes = Kept(Merged)' /\ \A t \in bundle'.required : Ready(t, "discover", Merged)'
      /\ at = "resolved" /\ kind = "configure" =>
           \A t \in bundle'.required : Ready(t, "discover", Tried(writes))'
  BY <1>1, <1>4, ResolutionKept
<1>7. ResolvedInv'
  BY <1>1, <1>3, <1>4, <1>6 DEF ResolvedInv, Accepted
<1> QED
  BY <1>5, <1>7 DEF SetupInv

LEMMA DiscoverStep ==
  ASSUME SetupInv, Discover
  PROVE  SetupInv'
<1>1. Kept(Merged) \in [Tool -> Nat]
  BY ToolsAre DEF Kept, None
<1>2. Starts("discover", \A t \in bundle.required : Ready(t, "discover", Merged), Kept(Merged))
  BY DEF Discover
<1> QED
  BY <1>1, <1>2, StartsStep

LEMMA ConfigureStep ==
  ASSUME SetupInv, Configure
  PROVE  SetupInv'
<1>1. PICK values \in Values :
        Starts("configure", \A t \in bundle.required : Ready(t, "discover", Tried(values)), values)
  BY DEF Configure
<1>2. values \in [Tool -> Nat]
  BY ValuesAssumption
<1> QED
  BY <1>1, <1>2, StartsStep

LEMMA PersistStep ==
  ASSUME SetupInv, Persist
  PROVE  SetupInv'
<1>1. setup.at = "resolved" /\ bundle' = bundle
  BY DEF Persist
<1>2. /\ setup.kind \in {"discover", "configure"} /\ setup.writes \in [Tool -> Nat] /\ Accepted
      /\ setup = [at |-> setup.at, kind |-> setup.kind, writes |-> setup.writes]
      /\ setup.kind = "discover" =>
           setup.writes = Kept(Merged) /\ \A t \in bundle.required : Ready(t, "discover", Merged)
      /\ setup.kind = "configure" => \A t \in bundle.required : Ready(t, "discover", Tried(setup.writes))
  BY <1>1, SetupTyped
<1>3. bundle.state # "none"
  BY <1>2 DEF Accepted
<1>4. PICK global \in [Tool -> Nat] : global = Over(setup.writes, computer.global)
  BY <1>2, <1>3, BundleTyped DEF Over
<1> DEFINE c == [computer EXCEPT !.global = global]
<1>5. /\ c \in Computer /\ c.installed = computer.installed /\ c.onPath = computer.onPath
      /\ c.strays = computer.strays /\ c.project = computer.project /\ c.global = global
  BY <1>3, BundleTyped DEF Computer
<1>6. computer' = c
  BY <1>4 DEF Persist
<1> HIDE DEF c
<1>7. PICK kept \in [Tool -> Nat] :
        kept = [k \in Tool |-> IF computer.project[k] # None THEN computer.project[k] ELSE global[k]]
  BY <1>3, BundleTyped
<1>8. kept = Merged'
  BY <1>5, <1>6, <1>7 DEF Merged
<1>9. setup' = [at |-> "done", kind |-> setup.kind, writes |-> setup.writes]
  BY <1>2 DEF Persist
<1>10. BundleInv'
  BY <1>1, <1>3, <1>5, <1>6 DEF SetupInv, BundleInv, Accepted, Acceptable, Chain, Cyclic
<1>11. ASSUME NEW t \in bundle.required,
              Own(t),
              \A u \in Chain(t) :
                IF setup.kind = "discover"
                  THEN kept[bundle.reads[u]] # None \/ (u \in bundle.keeps /\ Program(u) \notin computer.strays)
                  ELSE global[bundle.reads[u]] # None /\ computer.project[bundle.reads[u]] = None
       PROVE  RunsWith(t)'
  <2>1. PICK config \in [Tool -> Nat] :
          config = IF setup.kind = "discover" THEN Merged ELSE Tried(setup.writes)
    BY <1>2, <1>3, BundleTyped DEF Merged, Tried, Over
  <2>2. Resolves(t, Known(t, "discover", config), "discover", config)
    BY <1>2, <2>1 DEF Ready
  <2>3. ASSUME NEW u \in Chain(t)
        PROVE  kept[bundle.reads[u]] = Located(u, "discover", config) /\ bundle.reads[u] # None
    <3>1. /\ Chain(t) \subseteq Tool /\ Located(u, "discover", config) = bundle.reads[u]
          /\ Located(u, "discover", config) # None
      BY <2>2, <2>3 DEF Resolves, Launches, Program
    <3>2. PICK k \in Tool : k = bundle.reads[u]
      BY <1>3, <2>3, <3>1, BundleTyped
    <3>3. k \in computer.installed /\ (config[k] # None => config[k] = k)
      BY <3>1, <3>2 DEF Located, Program
    <3>4. CASE setup.kind = "discover"
      <4>1. config = Merged /\ setup.writes = Kept(Merged)
        BY <1>2, <2>1, <3>4
      <4>2. config[k] = IF computer.project[k] # None THEN computer.project[k] ELSE computer.global[k]
        BY <4>1 DEF Merged
      <4>3. global[k] = IF setup.writes[k] # None THEN setup.writes[k] ELSE computer.global[k]
        BY <1>4 DEF Over
      <4>4. setup.writes[k] \in {k, None}
        BY <4>1 DEF Kept
      <4>5. u \in bundle.keeps /\ k \notin computer.strays => setup.writes[k] = k
        <5>1. Ready(t, "discover", Merged) /\ t \in Tool
          BY <1>2, <1>3, <3>4, BundleTyped
        <5> QED
          BY <2>3, <3>2, <4>1, <5>1 DEF Kept
      <4>6. kept[k] # None \/ setup.writes[k] = k
        BY <1>11, <2>3, <3>2, <3>4, <4>5 DEF Program
      <4>7. k # None
        BY ToolsAre
      <4>8. kept[k] = IF computer.project[k] # None THEN computer.project[k] ELSE global[k]
        BY <1>7
      <4>9. kept[k] = k
        BY <3>3, <4>2, <4>3, <4>4, <4>6, <4>7, <4>8
      <4> QED
        BY <3>1, <3>2, <4>7, <4>9
    <3>5. CASE setup.kind # "discover"
      <4>1. config = Tried(setup.writes) /\ global[k] # None /\ computer.project[k] = None
        BY <1>11, <2>1, <2>3, <3>2, <3>5
      <4>2. config[k] = global[k]
        BY <1>4, <4>1 DEF Tried, Over
      <4>3. kept[k] = global[k]
        BY <1>7, <4>1
      <4> QED
        BY <3>1, <3>2, <3>3, <4>1, <4>2, <4>3
    <3> QED
      BY <3>4, <3>5
  <2>4. /\ bundle'.chain[t] \subseteq Tool /\ ~(bundle'.via[t] \in Tool /\ t \in bundle'.chain[bundle'.via[t]])
        /\ \A u \in bundle'.chain[t] :
             /\ kept[bundle'.reads[u]] = bundle'.reads[u] /\ bundle'.reads[u] \in computer'.installed
             /\ bundle'.reads[u] # None
             /\ bundle'.script[u] \in bundle'.chain[t] \cup {None}
    <3>1. computer'.installed = computer.installed
      BY <1>5, <1>6
    <3>2. \A b, d : b = bundle /\ d.installed = computer.installed =>
            /\ b.chain[t] \subseteq Tool /\ ~(b.via[t] \in Tool /\ t \in b.chain[b.via[t]])
            /\ \A u \in b.chain[t] :
                 /\ kept[b.reads[u]] = b.reads[u] /\ b.reads[u] \in d.installed /\ b.reads[u] # None
                 /\ b.script[u] \in b.chain[t] \cup {None}
      BY <1>11, <2>2, <2>3, RunsThen
    <3> QED
      BY <1>1, <3>1, <3>2
  <2> QED
    BY <1>8, <2>4, RunsWithNext
<1>12. \A t \in bundle'.required : ToolReady(t)'
  <2>1. ASSUME NEW t \in bundle.required  PROVE ToolReady(t)'
    <3>1. Own(t)' <=> Own(t)
      BY <1>1 DEF Own, Chain
    <3>2. Kept1(t)' <=> \A u \in Chain(t) :
            kept[bundle.reads[u]] # None \/ (u \in bundle.keeps /\ Program(u) \notin computer.strays)
      BY <1>1, <1>5, <1>6, <1>8 DEF Kept1, Chain, Program
    <3>3. setup'.kind = setup.kind
      BY <1>9
    <3> QED
      BY <1>1, <1>5, <1>6, <1>11, <2>1, <3>1, <3>2, <3>3 DEF ToolReady, Chain
  <2> QED
    BY <1>1, <2>1
<1>13. ResolvedInv'
  BY <1>1, <1>2, <1>9, <1>12 DEF ResolvedInv, Accepted
<1> QED
  BY <1>10, <1>13 DEF SetupInv

LEMMA SetupStep ==
  ASSUME SetupInv, [SetupNext]_setupVars
  PROVE  SetupInv'
<1>1. CASE SetupNext
  BY <1>1, CompileStep, AcceptStep, DiscoverStep, ConfigureStep, PersistStep DEF SetupNext
<1>2. CASE UNCHANGED setupVars
  <2>1. bundle' = bundle /\ computer' = computer /\ setup' = setup
    BY <1>2 DEF setupVars
  <2> QED
    <3>1. BundleInv'
      BY <2>1 DEF SetupInv, BundleInv, Accepted, Acceptable, Chain, Cyclic
    <3>2. \A t : ToolReady(t)' <=> ToolReady(t)
      <4>1. Merged' = Merged
        BY <2>1 DEF Merged
      <4>2. \A t : RunsWith(t)' <=> RunsWith(t)
        BY <2>1, <4>1 DEF RunsWith, Resolves, Launches, Located, Chain, Cyclic, Program
      <4>3. \A t : (Own(t)' <=> Own(t)) /\ (Kept1(t)' <=> Kept1(t))
        BY <2>1, <4>1 DEF Own, Kept1, Chain, Program
      <4> QED
        BY <2>1, <4>2, <4>3 DEF ToolReady, Chain
    <3>3. CASE setup = [at |-> "idle"]
      BY <2>1, <3>1, <3>3 DEF SetupInv, ResolvedInv
    <3>4. CASE setup # [at |-> "idle"]
      <4>1. PICK at \in {"resolved", "failed", "done"}, kind \in {"discover", "configure"}, writes \in [Tool -> Nat] :
              /\ setup = [at |-> at, kind |-> kind, writes |-> writes] /\ Accepted
              /\ at = "resolved" /\ kind = "discover" =>
                   writes = Kept(Merged) /\ \A t \in bundle.required : Ready(t, "discover", Merged)
              /\ at = "resolved" /\ kind = "configure" =>
                   \A t \in bundle.required : Ready(t, "discover", Tried(writes))
              /\ at = "done" => \A t \in bundle.required : ToolReady(t)
        BY <3>4, Zenon DEF SetupInv, ResolvedInv
      <4>2. /\ setup' = [at |-> at, kind |-> kind, writes |-> writes] /\ Accepted'
            /\ at = "resolved" /\ kind = "discover" =>
                 writes = Kept(Merged)' /\ \A t \in bundle'.required : Ready(t, "discover", Merged)'
            /\ at = "resolved" /\ kind = "configure" =>
                 \A t \in bundle'.required : Ready(t, "discover", Tried(writes))'
            /\ at = "done" => \A t \in bundle'.required : ToolReady(t)'
        BY <2>1, <3>2, <4>1, ResolutionKept DEF Accepted
      <4> QED
        BY <3>1, <4>2 DEF SetupInv, ResolvedInv
    <3> QED
      BY <3>3, <3>4
<1> QED
  BY <1>1, <1>2

(* A setup that resolved its tools writes what they were resolved with      *)
(* (AdapterConfigurationUseCases).                                          *)
THEOREM SetupInvariant == SetupSpec => []SetupInv
<1>1. SetupInit => SetupInv
  BY SetupInitially
<1>2. SetupInv /\ [SetupNext]_setupVars => SetupInv'
  BY SetupStep
<1> QED
  BY <1>1, <1>2, PTL DEF SetupSpec

LEMMA ToolsDoRun ==
  ASSUME SetupInv
  PROVE  ToolsRun
<1>1. setup.at = "done" => \A t \in bundle.required : ToolReady(t)
  BY SetupTyped
<1>2. ASSUME Accepted, computer.onPath = Tool, computer.installed = Tool, Merged = [k \in Tool |-> None],
             NEW t \in Tool, Own(t)
      PROVE  Ready(t, "discover", Merged)
  <2>1. bundle.state # "none" /\ Acceptable
    BY <1>2 DEF SetupInv, BundleInv, Accepted
  <2>2. Chain(t) \subseteq Tool /\ ~Cyclic(t)
    BY <1>2, <2>1 DEF Acceptable
  <2>3. \A u \in Chain(t) : Located(u, "discover", Merged) = Program(u) /\ Program(u) # None
    <3>1. ASSUME NEW u \in Chain(t)  PROVE Located(u, "discover", Merged) = Program(u) /\ Program(u) # None
      <4>1. PICK k \in Tool : k = bundle.reads[u]
        BY <2>1, <2>2, BundleTyped
      <4>2. Merged[k] = None
        BY <1>2
      <4> QED
        BY <1>2, <4>1, <4>2, ToolsAre DEF Located, Program
    <3> QED
      BY <3>1
  <2>4. Launches(t, "discover", Merged)
    BY <2>2, <2>3 DEF Launches
  <2>5. Chain(t) \subseteq Known(t, "discover", Merged)
    BY <1>2, <2>4, ToolsAre DEF Known
  <2> QED
    BY <1>2, <2>3, <2>4, <2>5 DEF Ready, Resolves, Own
<1> QED
  BY <1>1, <1>2 DEF ToolsRun, ToolReady

(* A setup that succeeded leaves tools that run: after discover, each       *)
(* required tool whose rules keep what was found; after configure, each one *)
(* whose keys are all set, and not set otherwise in the project.  And what  *)
(* the compiler accepts resolves where every program is on the path         *)
(* (tools/resolver.ts, semantic-validator.ts).                              *)
THEOREM SetupLeavesToolsThatRun == SetupSpec => []ToolsRun
<1>1. SetupInv => ToolsRun
  BY ToolsDoRun
<1> QED
  BY <1>1, SetupInvariant, PTL
-----------------------------------------------------------------------------
(* Reading a command line, token by token.                                 *)
TokenReads(line, booleans, n, f) ==
  f = [i \in 0 .. n |-> IF i = 0 THEN NothingRead ELSE Reading(f[i - 1], line[i], booleans)]
TokenReadsAt(line, booleans, f, i) == f[i] = IF i = 0 THEN NothingRead ELSE Reading(f[i - 1], line[i], booleans)

LEMMA TokenReadsAre ==
  ASSUME NEW line, NEW booleans, NEW n \in Nat, NEW f
  PROVE  TokenReads(line, booleans, n, f) <=>
           f = [i \in 0 .. n |-> f[i]] /\ \A i \in 0 .. n : TokenReadsAt(line, booleans, f, i)
<1> DEFINE Value(i) == IF i = 0 THEN NothingRead ELSE Reading(f[i - 1], line[i], booleans)
<1>1. TokenReads(line, booleans, n, f) <=> f = [i \in 0 .. n |-> Value(i)]
  BY DEF TokenReads
<1> HIDE DEF Value
<1>2. f = [i \in 0 .. n |-> Value(i)] <=> f = [i \in 0 .. n |-> f[i]] /\ \A i \in 0 .. n : f[i] = Value(i)
  OBVIOUS
<1> QED
  BY <1>1, <1>2 DEF Value, TokenReadsAt

LEMMA TokenReadsExist ==
  ASSUME NEW line, NEW booleans
  PROVE  \A n \in Nat : \E f : TokenReads(line, booleans, n, f)
<1> DEFINE S == {n \in Nat : \E f : TokenReads(line, booleans, n, f)}
<1>1. 0 \in S
  <2> DEFINE f == [i \in 0 .. 0 |-> NothingRead]
  <2>1. f = [i \in 0 .. 0 |-> f[i]] /\ \A i \in 0 .. 0 : i = 0 /\ f[i] = NothingRead
    OBVIOUS
  <2> HIDE DEF f
  <2>2. \A i \in 0 .. 0 : TokenReadsAt(line, booleans, f, i)
    BY <2>1 DEF TokenReadsAt
  <2>3. TokenReads(line, booleans, 0, f)
    BY <2>1, <2>2, TokenReadsAre, Zenon
  <2> QED
    BY <2>3
<1>2. ASSUME NEW n \in Nat, n \in S  PROVE n + 1 \in S
  <2>1. PICK f : TokenReads(line, booleans, n, f)
    BY <1>2
  <2>2. \A i \in 0 .. n : f[i] = IF i = 0 THEN NothingRead ELSE Reading(f[i - 1], line[i], booleans)
    <3>1. \A i \in 0 .. n : TokenReadsAt(line, booleans, f, i)
      BY <2>1, TokenReadsAre, Zenon
    <3> QED
      BY <3>1 DEF TokenReadsAt
  <2> DEFINE last == Reading(f[n], line[n + 1], booleans)
             g == [i \in 0 .. n + 1 |-> IF i = n + 1 THEN last ELSE f[i]]
  <2>3. ASSUME NEW i \in 0 .. n + 1
        PROVE  g[i] = IF i = 0 THEN NothingRead ELSE Reading(g[i - 1], line[i], booleans)
    <3>1. CASE i = n + 1
      <4>1. n \in 0 .. n + 1 /\ n # n + 1 /\ i # 0 /\ i - 1 = n
        BY <3>1
      <4>2. g[n] = f[n] /\ g[i] = Reading(f[n], line[n + 1], booleans)
        BY <3>1, <4>1
      <4> QED
        BY <3>1, <4>1, <4>2
    <3>2. CASE i # n + 1
      <4>1. i \in 0 .. n /\ (i # 0 => i - 1 \in 0 .. n + 1 /\ i - 1 # n + 1)
        BY <3>2
      <4>2. g[i] = f[i] /\ (i # 0 => g[i - 1] = f[i - 1])
        BY <3>2, <4>1
      <4> QED
        BY <2>2, <4>1, <4>2
    <3> QED
      BY <3>1, <3>2
  <2>4. g = [i \in 0 .. n + 1 |-> g[i]]
    OBVIOUS
  <2> HIDE DEF g
  <2>5. PICK m \in Nat : m = n + 1
    OBVIOUS
  <2>6. g = [i \in 0 .. m |-> g[i]] /\ \A i \in 0 .. m : TokenReadsAt(line, booleans, g, i)
    BY <2>3, <2>4, <2>5 DEF TokenReadsAt
  <2>7. TokenReads(line, booleans, m, g)
    BY <2>6, TokenReadsAre
  <2> QED
    BY <2>5, <2>7
<1> HIDE DEF S
<1>3. Nat \subseteq S
  BY <1>1, <1>2, Induction
<1> QED
  BY <1>3 DEF S

LEMMA ReadsIs ==
  ASSUME NEW line, NEW booleans, Len(line) \in Nat
  PROVE  \E f : /\ f[0] = NothingRead
                /\ \A n \in Nat : n + 1 <= Len(line) => f[n + 1] = Reading(f[n], line[n + 1], booleans)
                /\ Reads(line, booleans) = f[Len(line)]
<1> DEFINE f == CHOOSE f : TokenReads(line, booleans, Len(line), f)
<1>1. TokenReads(line, booleans, Len(line), f)
  BY TokenReadsExist
<1>2. Reads(line, booleans) = f[Len(line)]
  BY Zenon DEF Reads, TokenReads
<1> HIDE DEF f
<1>3. \A i \in 0 .. Len(line) : f[i] = IF i = 0 THEN NothingRead ELSE Reading(f[i - 1], line[i], booleans)
  <2>1. \A i \in 0 .. Len(line) : TokenReadsAt(line, booleans, f, i)
    BY <1>1, TokenReadsAre, Zenon
  <2> QED
    BY <2>1 DEF TokenReadsAt
<1>4. f[0] = NothingRead
  BY <1>3
<1>5. ASSUME NEW n \in Nat, n + 1 <= Len(line)  PROVE f[n + 1] = Reading(f[n], line[n + 1], booleans)
  <2>1. n + 1 \in 0 .. Len(line) /\ n + 1 # 0 /\ (n + 1) - 1 = n
    BY <1>5
  <2> QED
    BY <1>3, <2>1
<1> QED
  BY <1>2, <1>4, <1>5

\* A sequence of whatever; the options that a line has up to a place.
Listed(s) == \E S : s \in Seq(S)
Heard(line, n) == {line[k].text : k \in {j \in 1 .. n : line[j].option}}

LEMMA ListedAppend == \A s, x : Listed(s) =>
  Listed(Append(s, x)) /\ Append(s, x) # <<>> /\ (s # <<>> => Append(s, x)[1] = s[1]) /\ (s = <<>> => Append(s, x)[1] = x)
<1>1. SUFFICES ASSUME NEW s, NEW x, Listed(s)
               PROVE  /\ Listed(Append(s, x)) /\ Append(s, x) # <<>>
                      /\ (s # <<>> => Append(s, x)[1] = s[1]) /\ (s = <<>> => Append(s, x)[1] = x)
  OBVIOUS
<1>2. PICK S : s \in Seq(S)
  BY <1>1 DEF Listed
<1> DEFINE T == S \cup {x}
<1>3. s \in Seq(T) /\ x \in T
  BY <1>2
<1> HIDE DEF T
<1>4. Append(s, x) \in Seq(T) /\ Append(s, x) # <<>>
  BY <1>3, AppendProperties
<1>5. s # <<>> => Len(s) \in Nat /\ Len(s) # 0
  BY <1>3, EmptySeq, LenProperties
<1>6. s # <<>> => Append(s, x)[1] = s[1]
  BY <1>3, <1>5, AppendProperties
<1>7. s = <<>> => Append(s, x)[1] = x
  BY <1>3
<1> QED
  BY <1>4, <1>6, <1>7 DEF Listed

LEMMA NamesAre == \A S : \A options \in Seq(S) : \A name :
  name \in Names(options) <=> \E k \in 1 .. Len(options) : options[k][1] = name
<1>1. SUFFICES ASSUME NEW S, NEW options \in Seq(S), NEW name
               PROVE  name \in Names(options) <=> \E k \in 1 .. Len(options) : options[k][1] = name
  OBVIOUS
<1>2. DOMAIN options = 1 .. Len(options)
  BY LenProperties
<1>3. name \in Names(options) <=> \E k \in DOMAIN options : options[k][1] = name
  BY Zenon DEF Names, Range
<1> QED
  BY <1>2, <1>3

LEMMA NamesAppend == \A options : Listed(options) => \A name, value :
  Names(Append(options, <<name, value>>)) = Names(options) \cup {name}
<1>1. SUFFICES ASSUME NEW options, Listed(options), NEW name, NEW value
               PROVE  Names(Append(options, <<name, value>>)) = Names(options) \cup {name}
  OBVIOUS
<1>2. PICK pair : pair = <<name, value>> /\ pair[1] = name
  <2>1. <<name, value>>[1] = name
    OBVIOUS
  <2> QED
    BY <2>1, Zenon
<1>3. PICK S : options \in Seq(S)
  BY <1>1 DEF Listed
<1> DEFINE T == S \cup {pair}
<1>4. options \in Seq(T) /\ pair \in T
  BY <1>3
<1> HIDE DEF T
<1>5. PICK more : more = Append(options, pair)
  BY Zenon
<1>6. PICK n \in Nat : n = Len(options)
  BY <1>4, LenProperties
<1>7. more \in Seq(T) /\ Len(more) = n + 1 /\ more[n + 1] = pair /\ \A k \in 1 .. n : more[k] = options[k]
  BY <1>4, <1>5, <1>6, AppendProperties
<1>8. ASSUME NEW x  PROVE x \in Names(more) <=> x \in Names(options) \/ x = name
  <2>1. x \in Names(more) <=> \E k \in 1 .. n + 1 : more[k][1] = x
    BY <1>7, NamesAre
  <2>2. x \in Names(options) <=> \E k \in 1 .. n : options[k][1] = x
    BY <1>4, <1>6, NamesAre
  <2>3. \A k : k \in 1 .. n + 1 <=> k \in 1 .. n \/ k = n + 1
    OBVIOUS
  <2> QED
    BY <1>2, <1>7, <2>1, <2>2, <2>3, Zenon
<1> QED
  BY <1>2, <1>5, <1>8

LEMMA NamesReplace == \A options : Listed(options) /\ options # <<>> => \A value :
  Names(Append(Front(options), <<Last(options)[1], value>>)) = Names(options)
<1>1. SUFFICES ASSUME NEW options, Listed(options), options # <<>>, NEW value
               PROVE  Names(Append(Front(options), <<Last(options)[1], value>>)) = Names(options)
  OBVIOUS
<1>2. PICK S : options \in Seq(S)
  BY <1>1 DEF Listed
<1>3. PICK before \in Seq(S), pair \in S : options = Append(before, pair)
  BY <1>1, <1>2, SequenceEmptyOrAppend
<1>4. PICK n \in Nat : n = Len(before)
  BY LenProperties
<1>5. Len(options) = n + 1 /\ options[n + 1] = pair /\ \A k \in 1 .. n : options[k] = before[k]
  BY <1>3, <1>4, AppendProperties
<1>6. Last(options) = pair
  BY <1>5 DEF Last
<1>7. Front(options) = before
  <2>1. Front(options) = SubSeq(options, 1, n)
    BY <1>5 DEF Front
  <2>2. SubSeq(options, 1, n) \in Seq(S) /\ Len(SubSeq(options, 1, n)) = n
        /\ \A k \in 1 .. n : SubSeq(options, 1, n)[k] = options[k]
    BY <1>2, <1>5, SubSeqProperties
  <2> QED
    BY <1>3, <1>4, <1>5, <2>1, <2>2, SeqEqual
<1>8. Listed(before)
  BY <1>3 DEF Listed
<1>9. Names(Append(before, <<pair[1], value>>)) = Names(before) \cup {pair[1]}
  BY <1>8, NamesAppend, Zenon
<1>10. Names(options) = Names(before) \cup {pair[1]}
  <2>1. ASSUME NEW x  PROVE x \in Names(options) <=> x \in Names(before) \/ x = pair[1]
    <3>1. x \in Names(options) <=> \E k \in 1 .. n + 1 : options[k][1] = x
      BY <1>2, <1>5, NamesAre
    <3>2. x \in Names(before) <=> \E k \in 1 .. n : before[k][1] = x
      BY <1>3, <1>4, NamesAre
    <3>3. \A k : k \in 1 .. n + 1 <=> k \in 1 .. n \/ k = n + 1
      OBVIOUS
    <3> QED
      BY <1>5, <3>1, <3>2, <3>3, Zenon
  <2> QED
    BY <2>1
<1> QED
  BY <1>6, <1>7, <1>9, <1>10, Zenon

LEMMA ListedFront == \A s : Listed(s) /\ s # <<>> => Listed(Front(s))
<1>1. SUFFICES ASSUME NEW s, NEW S, s \in Seq(S), s # <<>>  PROVE Front(s) \in Seq(S)
  BY DEF Listed
<1>2. Len(s) \in Nat /\ Len(s) # 0
  BY <1>1, EmptySeq, LenProperties
<1>3. SubSeq(s, 1, Len(s) - 1) \in Seq(S)
  BY <1>1, <1>2, SubSeqProperties
<1> QED
  BY <1>3 DEF Front

LEMMA HeardNothing == \A line : Heard(line, 0) = {}
BY DEF Heard

LEMMA HeardMore == \A line : \A n \in Nat :
  Heard(line, n + 1) = IF line[n + 1].option THEN Heard(line, n) \cup {line[n + 1].text} ELSE Heard(line, n)
<1>1. SUFFICES ASSUME NEW line, NEW n \in Nat
               PROVE  Heard(line, n + 1) = IF line[n + 1].option THEN Heard(line, n) \cup {line[n + 1].text} ELSE Heard(line, n)
  OBVIOUS
<1>2. \A k : k \in 1 .. n + 1 <=> k \in 1 .. n \/ k = n + 1
  OBVIOUS
<1>3. \A x : x \in Heard(line, n + 1) <=> \E k \in 1 .. n + 1 : line[k].option /\ x = line[k].text
  BY Zenon DEF Heard
<1>4. \A x : x \in Heard(line, n) <=> \E k \in 1 .. n : line[k].option /\ x = line[k].text
  BY Zenon DEF Heard
<1>5. CASE line[n + 1].option
  <2>1. \A x : x \in Heard(line, n + 1) <=> x \in Heard(line, n) \/ x = line[n + 1].text
    BY <1>2, <1>3, <1>4, <1>5, Zenon
  <2>2. Heard(line, n + 1) = Heard(line, n) \cup {line[n + 1].text}
    BY <2>1
  <2> QED
    BY <1>5, <2>2, Zenon
<1>6. CASE ~line[n + 1].option
  <2>1. \A x : x \in Heard(line, n + 1) <=> x \in Heard(line, n)
    <3>1. \A k : k \in 1 .. n + 1 /\ line[k].option <=> k \in 1 .. n /\ line[k].option
      BY <1>2, <1>6, Zenon
    <3>2. \A x : (\E k \in 1 .. n + 1 : line[k].option /\ x = line[k].text)
                 <=> (\E k \in 1 .. n : line[k].option /\ x = line[k].text)
      BY <3>1, Zenon
    <3> QED
      BY <1>3, <1>4, <3>2, Zenon
  <2>2. Heard(line, n + 1) = Heard(line, n)
    <3> DEFINE one == Heard(line, n + 1)
               two == Heard(line, n)
    <3>1. \A x : x \in one <=> x \in two
      BY <2>1, Zenon
    <3> HIDE DEF one, two
    <3>2. one = two
      BY <3>1
    <3> QED
      BY <3>2 DEF one, two
  <2> QED
    BY <1>6, <2>2, Zenon
<1> QED
  BY <1>5, <1>6

\* What was read of the first n tokens of a line.
ReadShaped(read) == read \in [words : {read.words}, options : {read.options}, waits : {read.waits}]
ReadSoFar(read, line, n) ==
  /\ ReadShaped(read) /\ Listed(read.words) /\ Listed(read.options)
  /\ Names(read.options) = Heard(line, n)
  /\ read.waits => read.options # <<>>
  /\ n = 0 => ~read.waits /\ read.words = <<>>
  /\ n # 0 /\ ~line[1].option => read.words # <<>> /\ read.words[1] = line[1].text

LEMMA NothingReadSoFar == \A line : ReadSoFar(NothingRead, line, 0)
<1>1. SUFFICES ASSUME NEW line  PROVE ReadSoFar(NothingRead, line, 0)
  OBVIOUS
<1>2. ReadShaped(NothingRead)
  BY DEF ReadShaped, NothingRead
<1>3. NothingRead.words = <<>> /\ NothingRead.options = <<>> /\ ~NothingRead.waits
  BY DEF NothingRead
<1>4. Listed(<<>>)
  <2>1. <<>> \in Seq({})
    OBVIOUS
  <2> QED
    BY <2>1 DEF Listed
<1>5. Names(<<>>) = Heard(line, 0)
  <2>1. <<>> \in Seq({}) /\ Len(<<>>) = 0
    OBVIOUS
  <2>2. \A name : name \in Names(<<>>) <=> \E k \in 1 .. Len(<<>>) : <<>>[k][1] = name
    BY <2>1, NamesAre, Zenon
  <2>3. \A k : k \notin 1 .. Len(<<>>)
    BY <2>1
  <2>4. \A name : name \notin Names(<<>>)
    BY <2>2, <2>3, Zenon
  <2> QED
    BY <2>4, HeardNothing
<1> QED
  BY <1>2, <1>3, <1>4, <1>5, Zenon DEF ReadSoFar

LEMMA ReadingOn ==
  ASSUME NEW line, NEW n \in Nat, NEW read, ReadSoFar(read, line, n), NEW booleans,
         NEW next, next = Reading(read, line[n + 1], booleans)
  PROVE  ReadSoFar(next, line, n + 1)
<1> DEFINE token == line[n + 1]
<1>0. /\ ReadShaped(read) /\ Listed(read.words) /\ Listed(read.options)
      /\ Names(read.options) = Heard(line, n)
      /\ read.waits => read.options # <<>>
      /\ n = 0 => ~read.waits /\ read.words = <<>>
      /\ n # 0 /\ ~line[1].option => read.words # <<>> /\ read.words[1] = line[1].text
  BY DEF ReadSoFar
<1>1. CASE token.option
  <2> DEFINE more == Append(read.options, <<token.text, "none">>)
             w == token.text \notin booleans
  <2>1. next = [read EXCEPT !.options = more, !.waits = w]
    BY <1>1, Zenon DEF Reading
  <2>2. Listed(more) /\ more # <<>> /\ Names(more) = Heard(line, n + 1)
    <3>1. Listed(more) /\ more # <<>>
      BY <1>0, ListedAppend, Zenon
    <3>2. Names(more) = Names(read.options) \cup {token.text}
      BY <1>0, NamesAppend, Zenon
    <3>3. Heard(line, n + 1) = Heard(line, n) \cup {token.text}
      BY <1>1, HeardMore, Zenon
    <3> QED
      BY <1>0, <3>1, <3>2, <3>3, Zenon
  <2> HIDE DEF more, w, token
  <2>3. ReadShaped(next) /\ next.words = read.words /\ next.options = more
    BY <1>0, <2>1 DEF ReadShaped
  <2>4. n + 1 # 0 /\ (n = 0 => n + 1 = 1)
    OBVIOUS
  <2>5. ~line[1].option => n # 0
    BY <1>1, <2>4 DEF token
  <2> QED
    BY <1>0, <2>2, <2>3, <2>4, <2>5, Zenon DEF ReadSoFar
<1>2. CASE ~token.option /\ read.waits
  <2> DEFINE more == Append(Front(read.options), <<Last(read.options)[1], token.text>>)
  <2>1. next = [read EXCEPT !.options = more, !.waits = FALSE]
    BY <1>2 DEF Reading
  <2>2. Listed(more) /\ Names(more) = Heard(line, n + 1)
    <3>1. Listed(Front(read.options))
      BY <1>0, <1>2, ListedFront, Zenon
    <3>2. Listed(more)
      BY <3>1, ListedAppend, Zenon
    <3>3. Names(more) = Names(read.options)
      BY <1>0, <1>2, NamesReplace, Zenon
    <3>4. Heard(line, n + 1) = Heard(line, n)
      BY <1>2, HeardMore, Zenon
    <3> QED
      BY <1>0, <3>2, <3>3, <3>4, Zenon
  <2> HIDE DEF more, token
  <2>3. ReadShaped(next) /\ next.words = read.words /\ next.options = more /\ ~next.waits
    BY <1>0, <2>1 DEF ReadShaped
  <2>4. n + 1 # 0
    OBVIOUS
  <2> QED
    BY <1>0, <1>2, <2>2, <2>3, <2>4, Zenon DEF ReadSoFar
<1>3. CASE ~token.option /\ ~read.waits
  <2> DEFINE more == Append(read.words, token.text)
  <2>1. next = [read EXCEPT !.words = more]
    BY <1>3 DEF Reading
  <2>2. /\ Listed(more) /\ more # <<>> /\ (read.words # <<>> => more[1] = read.words[1])
        /\ (read.words = <<>> => more[1] = token.text)
    BY <1>0, ListedAppend, Zenon
  <2>3. Heard(line, n + 1) = Heard(line, n)
    BY <1>3, HeardMore, Zenon
  <2> HIDE DEF more
  <2>4. ReadShaped(next) /\ next.words = more /\ next.options = read.options /\ (next.waits <=> read.waits)
    <3> HIDE DEF token
    <3> QED
      BY <1>0, <2>1 DEF ReadShaped
  <2>5. n + 1 # 0 /\ (n = 0 => token = line[1])
    OBVIOUS
  <2> HIDE DEF token
  <2>6. ~line[1].option => more[1] = line[1].text
    BY <1>0, <2>2, <2>5, Zenon
  <2> QED
    BY <1>0, <1>3, <2>2, <2>3, <2>4, <2>5, <2>6, Zenon DEF ReadSoFar
<1> QED
  BY <1>1, <1>2, <1>3

(* What any parser reads from a line: its words, and each of its options.  *)
LEMMA ReadsAll == \A line, booleans : Len(line) \in Nat => ReadSoFar(Reads(line, booleans), line, Len(line))
<1>1. SUFFICES ASSUME NEW line, NEW booleans, Len(line) \in Nat
               PROVE  ReadSoFar(Reads(line, booleans), line, Len(line))
  OBVIOUS
<1>2. PICK f : /\ f[0] = NothingRead
               /\ \A n \in Nat : n + 1 <= Len(line) => f[n + 1] = Reading(f[n], line[n + 1], booleans)
               /\ Reads(line, booleans) = f[Len(line)]
  BY <1>1, ReadsIs
<1> DEFINE S == {n \in Nat : n <= Len(line) => ReadSoFar(f[n], line, n)}
<1>3. 0 \in S
  BY <1>2, NothingReadSoFar, Zenon
<1>4. ASSUME NEW n \in Nat, n \in S  PROVE n + 1 \in S
  <2>1. n + 1 \in Nat /\ (n + 1 <= Len(line) => n <= Len(line))
    BY <1>1
  <2>2. ASSUME n + 1 <= Len(line)  PROVE ReadSoFar(f[n + 1], line, n + 1)
    <3>1. ReadSoFar(f[n], line, n)
      BY <1>4, <2>1, <2>2, Zenon
    <3>2. f[n + 1] = Reading(f[n], line[n + 1], booleans)
      BY <1>2, <2>2, Zenon
    <3> QED
      BY <3>1, <3>2, ReadingOn, Zenon
  <2> QED
    BY <2>1, <2>2, Zenon
<1> HIDE DEF S
<1>5. Nat \subseteq S
  BY <1>3, <1>4, Induction
<1>6. Len(line) \in S
  BY <1>1, <1>5, Zenon
<1>7. Len(line) <= Len(line)
  BY <1>1
<1> QED
  BY <1>2, <1>6, <1>7, Zenon DEF S

LEMMA SetToSeqTyped == \A T : IsFiniteSet(T) => SetToSeq(T) \in Seq(T)
<1>1. SUFFICES ASSUME NEW T, IsFiniteSet(T)  PROVE SetToSeq(T) \in Seq(T)
  OBVIOUS
<1>2. PICK n \in Nat : n = Cardinality(T)
  BY <1>1, FS_CardinalityType
<1>3. PICK g \in [1 .. n -> T] : IsInjective(g)
  <2>1. PICK h : h \in Bijection(1 .. n, T)
    BY <1>1, <1>2, FS_CardinalityType DEF ExistsBijection
  <2>2. h \in [1 .. n -> T] /\ IsInjective(h)
    BY <2>1 DEF Bijection, Injection
  <2> QED
    BY <2>2
<1>4. SetToSeq(T) \in [1 .. n -> T]
  BY <1>2, <1>3, Zenon DEF SetToSeq
<1> QED
  BY <1>4

\* A command line that is written has the options that it is written for.
LEMMA LineOfIs == \A words, names, values, N : Listed(words) /\ names \in Seq(N) =>
  LET line == LineOf(words, names, values)
  IN /\ Len(line) \in Nat /\ Heard(line, Len(line)) \subseteq N
     /\ words # <<>> => Len(line) # 0 /\ ~line[1].option /\ line[1].text = words[1]
<1>1. SUFFICES ASSUME NEW words, NEW names, NEW values, NEW N, Listed(words), names \in Seq(N), NEW line,
                      line = LineOf(words, names, values)
               PROVE  /\ Len(line) \in Nat /\ Heard(line, Len(line)) \subseteq N
                      /\ words # <<>> => Len(line) # 0 /\ ~line[1].option /\ line[1].text = words[1]
  BY ZenonT(60)
<1>2. PICK S : words \in Seq(S)
  BY <1>1 DEF Listed
<1> DEFINE T == {Word(x) : x \in S} \cup {Word(values[n]) : n \in N} \cup {Option(n) : n \in N}
           first == [k \in DOMAIN words |-> Word(words[k])]
           rest == [k \in DOMAIN names |-> Written(names[k], values[names[k]])]
<1>3. /\ \A x \in S : Word(x) \in T
      /\ \A n \in N : Word(values[n]) \in T /\ Option(n) \in T
  OBVIOUS
<1>4. \A t \in T : t.option => t.text \in N
  BY DEF Word, Option
<1> HIDE DEF T
<1>5. first \in Seq(T) /\ Len(first) = Len(words)
  <2>1. DOMAIN words = 1 .. Len(words) /\ Len(words) \in Nat
    BY <1>2, LenProperties
  <2>2. \A k \in 1 .. Len(words) : words[k] \in S
    BY <1>2
  <2>3. \A k \in 1 .. Len(words) : Word(words[k]) \in T
    BY <1>3, <2>2
  <2> QED
    BY <2>1, <2>3
<1>6. rest \in Seq(Seq(T))
  <2>1. DOMAIN names = 1 .. Len(names) /\ Len(names) \in Nat
    BY <1>1, LenProperties
  <2>2. ASSUME NEW k \in 1 .. Len(names)  PROVE Written(names[k], values[names[k]]) \in Seq(T)
    <3>1. names[k] \in N
      BY <1>1
    <3>2. PICK n \in N : n = names[k]
      BY <3>1
    <3>3. Option(n) \in T /\ Word(values[n]) \in T
      BY <1>3
    <3>4. Written(n, values[n]) = <<Option(n)>> \/ Written(n, values[n]) = <<Option(n), Word(values[n])>>
      BY Zenon DEF Written
    <3>5. \A a, b \in T : <<a>> \in Seq(T) /\ <<a, b>> \in Seq(T)
      OBVIOUS
    <3>6. Written(n, values[n]) \in Seq(T)
      BY <3>3, <3>4, <3>5, Zenon
    <3> QED
      BY <3>2, <3>6, Zenon
  <2> HIDE DEF rest
  <2>3. \A k \in DOMAIN names : Written(names[k], values[names[k]]) \in Seq(T)
    BY <2>1, <2>2, Zenon
  <2>4. \A k \in 1 .. Len(names) : rest[k] \in Seq(T)
    BY <2>1, <2>3, Zenon DEF rest
  <2>5. rest = [k \in 1 .. Len(names) |-> rest[k]]
    BY <2>1 DEF rest
  <2> DEFINE Q == Seq(T)
  <2> HIDE DEF Q
  <2>6. rest \in [1 .. Len(names) -> Q]
    BY <2>4, <2>5 DEF Q
  <2>7. rest \in Seq(Q)
    BY <2>1, <2>6
  <2> QED
    BY <2>7 DEF Q
<1>7. line = first \o FlattenSeq(rest)
  BY <1>1, Zenon DEF LineOf
<1>8. FlattenSeq(rest) \in Seq(T)
  BY <1>6, FlattenTyped
<1> HIDE DEF first, rest
<1>9. PICK more \in Seq(T) : more = FlattenSeq(rest)
  BY <1>8
<1>10. /\ line \in Seq(T) /\ Len(line) \in Nat /\ Len(line) = Len(first) + Len(more) /\ Len(more) \in Nat /\ Len(first) \in Nat
       /\ \A k \in 1 .. Len(line) : line[k] = IF k <= Len(first) THEN first[k] ELSE more[k - Len(first)]
  <2>1. Len(first) \in Nat /\ Len(more) \in Nat
    BY <1>5, <1>9, LenProperties
  <2>2. PICK one \in Seq(T) : one = first
    BY <1>5
  <2>3. /\ one \o more \in Seq(T) /\ Len(one \o more) = Len(one) + Len(more)
        /\ \A k \in 1 .. Len(one) + Len(more) : (one \o more)[k] = IF k <= Len(one) THEN one[k] ELSE more[k - Len(one)]
    BY <1>9, ConcatProperties
  <2>4. line = one \o more
    BY <1>7, <1>9, <2>2, Zenon
  <2>5. Len(line) \in Nat
    BY <2>1, <2>2, <2>3, <2>4
  <2> QED
    BY <2>1, <2>2, <2>3, <2>4, <2>5
<1>11. Heard(line, Len(line)) \subseteq N
  <2>1. \A k \in 1 .. Len(line) : line[k] \in T
    BY <1>10
  <2>2. \A x : x \in Heard(line, Len(line)) => \E k \in 1 .. Len(line) : line[k].option /\ x = line[k].text
    BY Zenon DEF Heard
  <2>3. \A x : x \in Heard(line, Len(line)) => x \in N
    BY <1>4, <2>1, <2>2, ZenonT(60)
  <2> QED
    BY <2>3
<1>12. ASSUME words # <<>>  PROVE Len(line) # 0 /\ ~line[1].option /\ line[1].text = words[1]
  <2>1. Len(words) # 0 /\ Len(words) \in Nat /\ DOMAIN words = 1 .. Len(words)
    BY <1>2, <1>12, EmptySeq, LenProperties
  <2>2. Len(line) # 0 /\ 1 \in 1 .. Len(line) /\ 1 <= Len(first) /\ 1 \in DOMAIN words
    BY <1>5, <1>10, <2>1
  <2>3. line[1] = first[1]
    BY <1>10, <2>2
  <2>4. first[1] = Word(words[1])
    BY <2>2 DEF first
  <2> QED
    BY <2>2, <2>3, <2>4 DEF Word
<1> QED
  BY <1>10, <1>11, <1>12

-----------------------------------------------------------------------------
(* What the parsers make of a line.                                        *)
Flags == {ClearActive, ClearQuarantined}

LEMMA FlagsAreSo == \A n : Canonical(n) \in Flags => n \in Flags /\ Canonical(n) = n
BY DEF Flags, Canonical, ClearActive, ClearQuarantined

\* (None of these sets is large, but each element takes a step.)
LEMMA FewAreFinite == \A a, b, c : IsFiniteSet({a, b, c})
<1>1. SUFFICES ASSUME NEW a, NEW b, NEW c  PROVE IsFiniteSet({a, b, c})
  OBVIOUS
<1>2. IsFiniteSet({a}) /\ IsFiniteSet({b}) /\ IsFiniteSet({c})
  BY FS_Singleton, Zenon
<1>3. IsFiniteSet({a} \cup {b})
  BY <1>2, FS_Union
<1>4. IsFiniteSet(({a} \cup {b}) \cup {c})
  BY <1>2, <1>3, FS_Union
<1>5. ({a} \cup {b}) \cup {c} = {a, b, c}
  OBVIOUS
<1> QED
  BY <1>4, <1>5

LEMMA GlobalsAreFinite == IsFiniteSet(GlobalOptions)
<1> DEFINE one == {"json", "jsonl", "quiet"}
           two == {"verbose", "dry-run", "agent"}
           three == {"color", "help", "version"}
           four == {"timeout", "config", "session"}
<1>1. IsFiniteSet(one) /\ IsFiniteSet(two) /\ IsFiniteSet(three) /\ IsFiniteSet(four)
  BY FewAreFinite, Zenon
<1>2. GlobalOptions = ((one \cup two) \cup three) \cup four
  BY DEF GlobalOptions, BooleanGlobals
<1> HIDE DEF one, two, three, four
<1>3. IsFiniteSet(one \cup two)
  BY <1>1, FS_Union
<1>4. IsFiniteSet((one \cup two) \cup three)
  BY <1>1, <1>3, FS_Union
<1>5. IsFiniteSet(((one \cup two) \cup three) \cup four)
  BY <1>1, <1>4, FS_Union
<1> QED
  BY <1>2, <1>5, Zenon

\* A command that is found is declared and fits the words.
LEMMA CommandFound == \A words : \A found : found = ResolvePath(words) =>
  \/ found.command = NoCommandFits
  \/ \E c \in Commands : Matches(c, words) /\ found.command = WithMetadata(c)
<1>1. SUFFICES ASSUME NEW words, NEW found, found = ResolvePath(words)
               PROVE  \/ found.command = NoCommandFits
                      \/ \E c \in Commands : Matches(c, words) /\ found.command = WithMetadata(c)
  BY Zenon
<1> DEFINE best == Foremost({c \in Commands : Matches(c, words)})
           c == CHOOSE c \in best : TRUE
<1>2. found = TheOne(best, words)
  BY <1>1, Zenon DEF ResolvePath
<1>3. \A x \in best : x \in Commands /\ Matches(x, words)
  BY DEF Foremost
<1> HIDE DEF best
<1>4. \A e, x : Found(e, x).command = x
  BY DEF Found
<1>5. CASE Cardinality(best) # 1
  <2>1. \E e : found = Found(e, NoCommandFits)
    BY <1>2, <1>5, Zenon DEF TheOne
  <2> QED
    BY <1>4, <2>1, Zenon
<1>6. CASE Cardinality(best) = 1
  <2>1. best # {}
    BY <1>6, FS_EmptySet
  <2>2. c \in best
    BY <2>1
  <2>3. found = IF IsDown(c, words) THEN Found("COMMAND_UNAVAILABLE", NoCommandFits) ELSE Found("none", WithMetadata(c))
    BY <1>2, <1>6, Zenon DEF TheOne
  <2> HIDE DEF c
  <2>4. found.command = NoCommandFits \/ found.command = WithMetadata(c)
    BY <1>4, <2>3, Zenon
  <2> QED
    BY <1>3, <2>2, <2>4, Zenon
<1> QED
  BY <1>5, <1>6

\* What the metadata of an adapter changes: nothing but its own options.
LEMMA MetadataIs == \A c \in Commands : \A d : d = WithMetadata(c) =>
  /\ d.id = c.id /\ d.path = c.path /\ IsFiniteSet(d.options)
  /\ c.id \notin {"adapter.configure", "adapter.install"} => d = c
  /\ IsFiniteSet(d.required)
<1>1. SUFFICES ASSUME NEW c \in Commands, NEW d, d = WithMetadata(c)
               PROVE  /\ d.id = c.id /\ d.path = c.path /\ IsFiniteSet(d.options)
                      /\ c.id \notin {"adapter.configure", "adapter.install"} => d = c
                      /\ IsFiniteSet(d.required)
  BY Zenon
<1>2. c \in CommandRecord /\ IsFiniteSet(c.options)
  BY CommandsAssumption
<1>3. CASE c.id = "adapter.configure"
  <2>1. d = [c EXCEPT !.options = ConfigFields, !.required = ConfigFields]
    BY <1>1, <1>3, Zenon DEF WithMetadata
  <2>2. d.id = c.id /\ d.path = c.path /\ d.options = ConfigFields /\ d.required = ConfigFields
    BY <1>2, <2>1 DEF CommandRecord
  <2> QED
    BY <1>3, <2>2, FieldsAssumption
<1>4. CASE c.id = "adapter.install"
  <2> DEFINE more == {"root"} \cup InstallFields
  <2>1. d = [c EXCEPT !.options = more, !.required = InstallFields]
    BY <1>1, <1>4 DEF WithMetadata
  <2>2. IsFiniteSet(more)
    BY FieldsAssumption, FS_Singleton, FS_Union
  <2> HIDE DEF more
  <2>3. d.id = c.id /\ d.path = c.path /\ d.options = more /\ d.required = InstallFields
    BY <1>2, <2>1 DEF CommandRecord
  <2> QED
    BY <1>4, <2>2, <2>3, FieldsAssumption
<1>5. CASE c.id \notin {"adapter.configure", "adapter.install"}
  <2>1. d = c
    BY <1>1, <1>5 DEF WithMetadata
  <2>2. c.required \subseteq c.options
    BY GraphAssumption DEF ValidGraph
  <2>3. IsFiniteSet(c.required)
    BY <1>2, <2>2, FS_Subset
  <2> QED
    BY <1>2, <1>5, <2>1, <2>3
<1> QED
  BY <1>3, <1>4, <1>5

\* Lock clear is found only for lines that begin with lock, and no command found
\* for such a line asks for an option that says how a lock is cleared.
LEMMA LockWords == \A words, found : Listed(words) /\ words # <<>> /\ found = ResolvePath(words) =>
  /\ found.command.id = "lock.clear" => words[1] = "lock"
  /\ IsFiniteSet(found.command.options) /\ IsFiniteSet(found.command.required)
  /\ \E S : found.command.path \in Seq(S)
  /\ words[1] = "lock" =>
       /\ found.command.required \cap Flags = {}
       /\ \A k \in 1 .. Len(found.command.path) : found.command.path[k].name \notin Flags
<1>1. SUFFICES ASSUME NEW words, Listed(words), words # <<>>, NEW found, found = ResolvePath(words)
               PROVE  /\ found.command.id = "lock.clear" => words[1] = "lock"
                      /\ IsFiniteSet(found.command.options) /\ IsFiniteSet(found.command.required)
                      /\ \E S : found.command.path \in Seq(S)
                      /\ words[1] = "lock" =>
                           /\ found.command.required \cap Flags = {}
                           /\ \A k \in 1 .. Len(found.command.path) : found.command.path[k].name \notin Flags
  BY Zenon
<1>2. CASE found.command = NoCommandFits
  <2>1. /\ found.command.id = "none" /\ found.command.options = {} /\ found.command.required = {}
        /\ found.command.path = <<>>
    BY <1>2 DEF NoCommandFits, Leaf
  <2>2. <<>> \in Seq({}) /\ Len(<<>>) = 0
    OBVIOUS
  <2> QED
    BY <2>1, <2>2, FS_EmptySet
<1>3. CASE found.command # NoCommandFits
  <2>1. PICK c \in Commands : Matches(c, words) /\ found.command = WithMetadata(c)
    BY <1>1, <1>3, CommandFound, Zenon
  <2>2. PICK d : d = WithMetadata(c)
    OBVIOUS
  <2>3. found.command = d
    BY <2>1, <2>2, Zenon
  <2>4. /\ d.id = c.id /\ d.path = c.path /\ IsFiniteSet(d.options) /\ IsFiniteSet(d.required)
        /\ c.id \notin {"adapter.configure", "adapter.install"} => d = c
    BY <2>2, MetadataIs, Zenon
  <2>5. c.path \in Seq(Segment) /\ c.path # <<>>
    BY CommandsAssumption, GraphAssumption DEF CommandRecord, ValidGraph
  <2>6. DOMAIN c.path = 1 .. Len(c.path) /\ 1 \in DOMAIN c.path
    BY <2>5, EmptySeq, LenProperties
  <2>7. 1 \in DOMAIN words
    <3>1. PICK S : words \in Seq(S)
      BY <1>1 DEF Listed
    <3>2. Len(words) \in Nat /\ Len(words) # 0 /\ DOMAIN words = 1 .. Len(words)
      BY <1>1, <3>1, EmptySeq, LenProperties
    <3> QED
      BY <3>2
  <2>8. FitsWord(c.path[1], words[1])
    BY <2>1, <2>6, <2>7 DEF Matches
  <2>9. /\ c.path[1].kind = 4
        /\ c.id = "lock.clear" => c.path[1] = Lit("lock")
        /\ c.id \in {"adapter.configure", "adapter.install"} => c.path[1] = Lit("adapter")
        /\ c.path[1] = Lit("lock") => Flags \cap (c.required \cup {c.path[k].name : k \in DOMAIN c.path}) = {}
    BY ClearAssumption DEF Flags
  <2>10. c.path[1].name = words[1]
    BY <2>8, <2>9 DEF FitsWord
  <2>11. c.path[1] = Lit(words[1])
    <3>1. c.path[1] \in Segment
      BY <2>5, <2>6
    <3> QED
      BY <2>9, <2>10, <3>1 DEF Segment, Lit
  <2>12. \A w : Lit(w).name = w
    BY DEF Lit
  <2>13. c.id = "lock.clear" => words[1] = "lock"
    BY <2>9, <2>10, <2>12, Zenon
  <2>14. ASSUME words[1] = "lock"
         PROVE  d.required \cap Flags = {} /\ \A k \in 1 .. Len(d.path) : d.path[k].name \notin Flags
    <3>1. c.path[1] = Lit("lock")
      BY <2>11, <2>14
    <3>2. c.id \notin {"adapter.configure", "adapter.install"}
      <4>1. Lit("lock").name = "lock" /\ Lit("adapter").name = "adapter" /\ "lock" # "adapter"
        BY <2>12
      <4> QED
        BY <2>9, <3>1, <4>1
    <3>3. d = c
      BY <2>4, <3>2
    <3>4. Flags \cap (c.required \cup {c.path[k].name : k \in DOMAIN c.path}) = {}
      BY <2>9, <3>1, Zenon
    <3>5. c.required \cap Flags = {} /\ \A k \in DOMAIN c.path : c.path[k].name \notin Flags
      BY <3>4
    <3> QED
      BY <2>6, <3>3, <3>5
  <2> QED
    BY <2>3, <2>4, <2>5, <2>13, <2>14, Zenon
<1> QED
  BY <1>2, <1>3

\* Each element of both is one of s or of t; what is missing of a command is one
\* of its required options or a segment; what a parsed line asks for.
FromEither(both, s, t) ==
  \A k \in 1 .. Len(both) : (\E j \in 1 .. Len(s) : both[k] = s[j]) \/ (\E j \in 1 .. Len(t) : both[k] = t[j])
BelongTo(c, all) ==
  \A k \in 1 .. Len(all) : all[k] \in c.required \/ \E j \in 1 .. Len(c.path) : all[k] = c.path[j].name
AsksFor(parsed, words, given) ==
  /\ Listed(words) /\ words # <<>>
  /\ parsed.command = ResolvePath(words).command
  /\ parsed.missing = MissingFields(parsed.command, words, given)

LEMMA ListedConcat == \A s, t, both : Listed(s) /\ Listed(t) /\ both = s \o t =>
  /\ Listed(both) /\ (s # <<>> => both # <<>> /\ both[1] = s[1])
  /\ FromEither(both, s, t)
<1>1. SUFFICES ASSUME NEW s, NEW t, NEW both, Listed(s), Listed(t), both = s \o t
               PROVE  /\ Listed(both) /\ (s # <<>> => both # <<>> /\ both[1] = s[1])
                      /\ FromEither(both, s, t)
  BY Zenon
<1>2. PICK S : s \in Seq(S)
  BY <1>1 DEF Listed
<1>3. PICK T : t \in Seq(T)
  BY <1>1 DEF Listed
<1> DEFINE Q == S \cup T
<1>4. s \in Seq(Q) /\ t \in Seq(Q)
  BY <1>2, <1>3
<1> HIDE DEF Q
<1>5. PICK m \in Nat, n \in Nat : m = Len(s) /\ n = Len(t)
  BY <1>4, LenProperties
<1>6. /\ both \in Seq(Q) /\ Len(both) = m + n
      /\ \A k \in 1 .. m + n : both[k] = IF k <= m THEN s[k] ELSE t[k - m]
  BY <1>1, <1>4, <1>5, ConcatProperties
<1>7. ASSUME s # <<>>  PROVE both # <<>> /\ both[1] = s[1]
  <2>1. m # 0
    BY <1>4, <1>5, <1>7, EmptySeq
  <2>2. Len(both) # 0
    BY <1>6, <2>1
  <2>3. both # <<>>
    BY <2>2, EmptySeq
  <2>4. 1 \in 1 .. m + n /\ 1 <= m
    BY <2>1
  <2> QED
    BY <1>6, <2>3, <2>4
<1>8. ASSUME NEW k \in 1 .. Len(both)
      PROVE  \/ \E j \in 1 .. Len(s) : both[k] = s[j]
             \/ \E j \in 1 .. Len(t) : both[k] = t[j]
  <2>1. k \in 1 .. m + n
    BY <1>6
  <2>2. CASE k <= m
    BY <1>5, <1>6, <2>1, <2>2
  <2>3. CASE ~(k <= m)
    <3>1. k - m \in 1 .. n
      BY <2>1, <2>3
    <3> QED
      BY <1>5, <1>6, <2>1, <2>3, <3>1
  <2> QED
    BY <2>2, <2>3
<1> QED
  BY <1>6, <1>7, <1>8 DEF Listed, FromEither

LEMMA MissingAre == \A c, words, given, all :
  (\E S : c.path \in Seq(S)) /\ IsFiniteSet(c.required) /\ Listed(words) /\ all = MissingFields(c, words, given) =>
    Listed(all) /\ BelongTo(c, all)
<1>1. SUFFICES ASSUME NEW c, NEW words, NEW given, NEW all, NEW S, c.path \in Seq(S), IsFiniteSet(c.required),
                      Listed(words), all = MissingFields(c, words, given)
               PROVE  Listed(all) /\ BelongTo(c, all)
  BY Zenon
<1> DEFINE first == MissingArguments(c, words)
           needed == {name \in c.required : name \notin given}
           rest == SetToSeq(needed)
<1>2. all = first \o rest
  BY <1>1, Zenon DEF MissingFields
<1>3. Listed(first) /\ \A k \in 1 .. Len(first) : \E j \in 1 .. Len(c.path) : first[k] = c.path[j].name
  <2>1. CASE c.rest = "optional"
    <3>1. first = <<>>
      BY <2>1 DEF MissingArguments
    <3>2. <<>> \in Seq({}) /\ Len(<<>>) = 0
      OBVIOUS
    <3> QED
      BY <3>1, <3>2 DEF Listed
  <2>2. CASE c.rest # "optional"
    <3>1. PICK W : words \in Seq(W)
      BY <1>1 DEF Listed
    <3>2. PICK m \in Nat, n \in Nat : m = Len(words) /\ n = Len(c.path)
      BY <1>1, <3>1, LenProperties
    <3>3. PICK least \in {m, n} : \A y \in {m, n} : least <= y
      OBVIOUS
    <3>4. Min({m, n}) \in {m, n} /\ \A y \in {m, n} : Min({m, n}) <= y
      BY <3>3, Zenon DEF Min
    <3>5. PICK k \in Nat : k = n - Min({m, n}) /\ (k # 0 => m + k = n)
      BY <3>4
    <3>6. first = [i \in 1 .. k |-> c.path[m + i].name]
      BY <2>2, <3>2, <3>5 DEF MissingArguments
    <3> HIDE DEF first
    <3>7. \A i \in 1 .. k : m + i \in 1 .. n /\ first[i] = c.path[m + i].name
      BY <3>5, <3>6
    <3> DEFINE V == {c.path[m + i].name : i \in 1 .. k}
    <3>8. first \in [1 .. k -> V]
      BY <3>6
    <3> HIDE DEF V
    <3>9. first \in Seq(V) /\ Len(first) = k
      BY <3>8
    <3>10. \A i \in 1 .. Len(first) : \E j \in 1 .. Len(c.path) : first[i] = c.path[j].name
      BY <3>2, <3>7, <3>9
    <3> QED
      BY <3>9, <3>10 DEF Listed
  <2> QED
    BY <2>1, <2>2
<1>4. Listed(rest) /\ \A k \in 1 .. Len(rest) : rest[k] \in c.required
  <2>1. IsFiniteSet(needed) /\ needed \subseteq c.required
    BY <1>1, FS_Subset
  <2> HIDE DEF needed
  <2>2. rest \in Seq(needed)
    BY <2>1, SetToSeqTyped
  <2> HIDE DEF rest
  <2>3. \A k \in 1 .. Len(rest) : rest[k] \in needed
    BY <2>2
  <2> QED
    BY <2>1, <2>2, <2>3 DEF Listed
<1> HIDE DEF first, rest, needed
<1>5. Listed(all) /\ FromEither(all, first, rest)
  BY <1>2, <1>3, <1>4, ListedConcat, Zenon
<1>6. BelongTo(c, all)
  BY <1>3, <1>4, <1>5 DEF FromEither, BelongTo
<1> QED
  BY <1>5, <1>6

\* What a reading of a line gives, and the names of the options in it.
LEMMA ParsedIs == \A line, parsed : Len(line) \in Nat /\ parsed = GraphParse(line) =>
  /\ Flags \cap DOMAIN parsed.values \subseteq Heard(line, Len(line))
  /\ Len(line) # 0 /\ ~line[1].option =>
       \E words, given : AsksFor(parsed, words, given) /\ words[1] = line[1].text
<1>1. SUFFICES ASSUME NEW line, NEW parsed, Len(line) \in Nat, parsed = GraphParse(line)
               PROVE  /\ Flags \cap DOMAIN parsed.values \subseteq Heard(line, Len(line))
                      /\ Len(line) # 0 /\ ~line[1].option =>
                           \E words, given : AsksFor(parsed, words, given) /\ words[1] = line[1].text
  BY Zenon
<1> DEFINE read == Reads(line, KnownBooleans)
           words == WordsRead(read)
           given == {Canonical(n) : n \in Names(read.options)}
<1>2. ReadSoFar(read, line, Len(line))
  BY <1>1, ReadsAll, Zenon
<1>3. parsed = Parsed(ResolvePath(words), words, read.options)
  BY <1>1, Zenon DEF GraphParse, ParsedAs
<1> HIDE DEF read, words
<1>4. /\ parsed.command = ResolvePath(words).command /\ parsed.values = ValuesRead(read.options)
      /\ parsed.missing = MissingFields(ResolvePath(words).command, words, given)
  BY <1>3 DEF Parsed
<1>5. DOMAIN parsed.values = given
  BY <1>4 DEF ValuesRead
<1>6. Flags \cap DOMAIN parsed.values \subseteq Heard(line, Len(line))
  <2>1. Names(read.options) = Heard(line, Len(line))
    BY <1>2, Zenon DEF ReadSoFar
  <2>2. ASSUME NEW f \in Flags, f \in given  PROVE f \in Names(read.options)
    <3>1. PICK n \in Names(read.options) : f = Canonical(n)
      BY <2>2
    <3> QED
      BY <3>1, FlagsAreSo
  <2> HIDE DEF given
  <2> QED
    BY <1>5, <2>1, <2>2
<1>7. ASSUME Len(line) # 0, ~line[1].option
      PROVE  Listed(words) /\ words # <<>> /\ words[1] = line[1].text
  <2>1. Listed(read.words) /\ read.words # <<>> /\ read.words[1] = line[1].text
    BY <1>2, <1>7, Zenon DEF ReadSoFar
  <2>2. words = read.words
    BY <2>1, Zenon DEF WordsRead, words
  <2> QED
    BY <2>1, <2>2, Zenon
<1> HIDE DEF given
<1>8. Listed(words) /\ words # <<>> => AsksFor(parsed, words, given)
  BY <1>4, Zenon DEF AsksFor
<1> QED
  BY <1>6, <1>7, <1>8, Zenon

\* What the menus completed, written as a line and parsed again.
LEMMA DraftIs == \A words, values, draft : Listed(words) /\ words # <<>> /\ draft = DraftParse(words, values) =>
  /\ Flags \cap DOMAIN draft.values \subseteq DOMAIN values
  /\ draft.command.id = "lock.clear" => words[1] = "lock"
  /\ Listed(draft.missing)
  /\ words[1] = "lock" => \A k \in 1 .. Len(draft.missing) : draft.missing[k] \notin Flags
<1>1. SUFFICES ASSUME NEW words, NEW values, NEW draft, Listed(words), words # <<>>, draft = DraftParse(words, values)
               PROVE  /\ Flags \cap DOMAIN draft.values \subseteq DOMAIN values
                      /\ draft.command.id = "lock.clear" => words[1] = "lock"
                      /\ Listed(draft.missing)
                      /\ words[1] = "lock" => \A k \in 1 .. Len(draft.missing) : draft.missing[k] \notin Flags
  BY Zenon
<1> DEFINE known == GlobalOptions \cup ResolvePath(words).command.options
           chosen == DOMAIN values \cap known
           names == SetToSeq(chosen)
           line == LineOf(words, names, values)
<1>2. names \in Seq(chosen)
  <2>1. IsFiniteSet(ResolvePath(words).command.options)
    BY <1>1, LockWords, Zenon
  <2>2. IsFiniteSet(known)
    BY <2>1, GlobalsAreFinite, FS_Union
  <2> HIDE DEF known
  <2>3. IsFiniteSet(chosen)
    BY <2>2, FS_Subset
  <2> HIDE DEF chosen
  <2> QED
    BY <2>3, SetToSeqTyped
<1>3. draft = GraphParse(line)
  BY <1>1, Zenon DEF DraftParse
<1>4. chosen \subseteq DOMAIN values
  OBVIOUS
<1> HIDE DEF known, chosen, names
<1>5. Len(line) \in Nat /\ Heard(line, Len(line)) \subseteq chosen /\ Len(line) # 0 /\ ~line[1].option /\ line[1].text = words[1]
  BY <1>1, <1>2, LineOfIs, Zenon
<1> HIDE DEF line
<1>6. Flags \cap DOMAIN draft.values \subseteq Heard(line, Len(line))
  BY <1>3, <1>5, ParsedIs, Zenon
<1>7. PICK w, given : AsksFor(draft, w, given) /\ w[1] = line[1].text
  BY <1>3, <1>5, ParsedIs, Zenon
<1>8. w[1] = words[1]
  BY <1>5, <1>7, Zenon
<1>9. /\ draft.command.id = "lock.clear" => w[1] = "lock"
      /\ IsFiniteSet(draft.command.required)
      /\ \E S : draft.command.path \in Seq(S)
      /\ w[1] = "lock" => /\ draft.command.required \cap Flags = {}
                          /\ \A k \in 1 .. Len(draft.command.path) : draft.command.path[k].name \notin Flags
  <2>1. PICK found : found = ResolvePath(w)
    BY Zenon
  <2>2. found.command = draft.command /\ Listed(w) /\ w # <<>>
    BY <1>7, <2>1, Zenon DEF AsksFor
  <2> QED
    BY <2>1, <2>2, LockWords, Zenon
<1>10. Listed(draft.missing) /\ BelongTo(draft.command, draft.missing)
  <2>1. Listed(w) /\ draft.missing = MissingFields(draft.command, w, given)
    BY <1>7, Zenon DEF AsksFor
  <2> QED
    BY <1>9, <2>1, MissingAre, Zenon
<1>11. ASSUME words[1] = "lock", NEW k \in 1 .. Len(draft.missing)  PROVE draft.missing[k] \notin Flags
  <2>1. draft.command.required \cap Flags = {} /\ \A j \in 1 .. Len(draft.command.path) : draft.command.path[j].name \notin Flags
    BY <1>8, <1>9, <1>11, Zenon
  <2>2. \A x \in draft.command.required : x \notin Flags
    BY <2>1
  <2> QED
    BY <1>10, <1>11, <2>1, <2>2, Zenon DEF BelongTo
<1>12. Flags \cap DOMAIN draft.values \subseteq DOMAIN values
  BY <1>4, <1>5, <1>6
<1> QED
  BY <1>8, <1>9, <1>10, <1>11, <1>12, Zenon

-----------------------------------------------------------------------------
(* What a person has agreed to.                                            *)

\* The options of the line, and those of them that say how a lock is cleared.
Told(c) == Heard(c.argv, Len(c.argv))
Clean(c) == Flags \cap DOMAIN c.values \subseteq Told(c)
Cautious(c) == Clean(c) \/ c.parts[1] # "lock"
Agreed(c) == Flags \cap DOMAIN c.values \subseteq Told(c) \cup {c.agreed}

Entry == {"read", "version", "help", "home"}
Course == {"home-chosen", "upgrade", "init", "steps", "initialize", "parse", "navigate", "navigated", "group", "recipe",
           "device-chosen", "name-device", "device", "system-chosen", "members", "member", "system", "decide", "operate",
           "final"}
Closing == {"lock.clear", "approval.approve", "approval.reject", "clear", "approve", "reject", "asked", "end"}

\* A prompt whose answer leads on, and the two that ask for consent.
LeadsOn(c, p) ==
  /\ p.kind \in {"menu", "value", "many"} /\ p.to \in Course
  /\ p.as \in {"path", "word", "words", "member", "flag", "found", "option"}
  /\ p.as = "path" => Clean(c)
  /\ p.as # "path" => Cautious(c)
  /\ p.as = "words" => p.kind = "many" /\ IsFiniteSet(p.choices)
  /\ p.as = "flag" => p.choices \cap Flags = {}
  /\ p.as = "option" => p.name \notin Flags \/ c.parts[1] # "lock"
AsksForClear(c, p) == p.kind = "confirm" /\ p.as = "option" /\ p.to = "clear" /\ p.name \in Flags /\ Clean(c)
AsksForDecision(p) == p.kind = "confirm" /\ p.as = "option" /\ p.to \in {"approve", "reject"} /\ p.to = Decision(p.name)
AskFits(c, p) == Listed(p.back) /\ (LeadsOn(c, p) \/ AsksForClear(c, p) \/ AsksForDecision(p))

\* Where an invocation may be, with the words and options that it has.
MayBeAt(c, stage) ==
  /\ stage \in Entry => Clean(c)
  /\ stage \notin {"read", "version", "help", "end"} => c.parts # <<>>
  /\ stage \in Course => Cautious(c)
  /\ stage = "lock.clear" => Clean(c)
  /\ stage = "clear" => Agreed(c)
  /\ stage \in {"approve", "reject"} => stage = Decision(c.agreed)
Shaped(c) ==
  c \in [argv : {c.argv}, can : {c.can}, fresh : {c.fresh}, at : {c.at}, parts : {c.parts}, values : {c.values},
         resumed : {c.resumed}, backs : {c.backs}, ask : {c.ask}, asked : {c.asked}, agreed : {c.agreed},
         seen : {c.seen}, expect : {c.expect}, turns : {c.turns}, did : {c.did}]
AllListed(backs) == \E S : backs \in Seq(S) /\ \A x \in S : Listed(x)
Good(c) ==
  /\ Shaped(c) /\ Len(c.argv) \in Nat /\ Listed(c.parts) /\ AllListed(c.backs)
  /\ c.at \in Entry \cup Course \cup Closing
  /\ MayBeAt(c, c.at)
  /\ c.at = "asked" => AskFits(c, c.ask)
LockOrApproval == resources \in [lock : LockStates, approval : {"pending", "approve", "reject", "expired"}]
ConsentInv == Good(cli) /\ LockOrApproval

\* What most steps leave as it is, and what then holds as before.
Keeps(c, d) ==
  /\ Shaped(d) /\ d.argv = c.argv /\ d.parts = c.parts /\ d.values = c.values /\ d.backs = c.backs /\ d.agreed = c.agreed

LEMMA KeptSo == \A c, d : Keeps(c, d) =>
  /\ \A stage : MayBeAt(c, stage) => MayBeAt(d, stage)
  /\ \A p : AskFits(c, p) => AskFits(d, p)
<1>1. SUFFICES ASSUME NEW c, NEW d, Keeps(c, d)
               PROVE  /\ \A stage : MayBeAt(c, stage) => MayBeAt(d, stage)
                      /\ \A p : AskFits(c, p) => AskFits(d, p)
  BY Zenon
<1>2. d.argv = c.argv /\ d.parts = c.parts /\ d.values = c.values /\ d.agreed = c.agreed
  BY <1>1 DEF Keeps
<1>3. Clean(c) <=> Clean(d)
  BY <1>2, Zenon DEF Clean, Told
<1>4. Agreed(c) <=> Agreed(d)
  BY <1>2, Zenon DEF Agreed, Told
<1>5. Cautious(c) <=> Cautious(d)
  BY <1>2, <1>3, Zenon DEF Cautious
<1>6. \A stage : MayBeAt(c, stage) => MayBeAt(d, stage)
  BY <1>2, <1>3, <1>4, <1>5, Zenon DEF MayBeAt
<1>7. ASSUME NEW p, AskFits(c, p)  PROVE AskFits(d, p)
  <2>1. LeadsOn(c, p) => LeadsOn(d, p)
    BY <1>2, <1>3, <1>5, Zenon DEF LeadsOn
  <2>2. AsksForClear(c, p) => AsksForClear(d, p)
    BY <1>3, Zenon DEF AsksForClear
  <2> QED
    BY <1>7, <2>1, <2>2, Zenon DEF AskFits
<1> QED
  BY <1>6, <1>7, Zenon

LEMMA GoodEnd == \A c, d : Good(c) /\ Keeps(c, d) /\ d.at = "end" => Good(d)
<1>1. SUFFICES ASSUME NEW c, NEW d, Good(c), Keeps(c, d), d.at = "end"  PROVE Good(d)
  BY Zenon
<1>2. Shaped(d) /\ Len(d.argv) \in Nat /\ Listed(d.parts) /\ AllListed(d.backs)
  BY <1>1, Zenon DEF Good, Keeps
<1>3. MayBeAt(d, d.at)
  BY <1>1 DEF MayBeAt, Entry, Course
<1>4. d.at \in Entry \cup Course \cup Closing /\ d.at # "asked"
  BY <1>1 DEF Closing
<1> QED
  BY <1>2, <1>3, <1>4, Zenon DEF Good

\* An invocation that fails, ends with a command, goes on or asks.
LEMMA GoodFails == \A c, d, error : Good(c) /\ d = Fails(error, c) => Good(d)
<1>1. SUFFICES ASSUME NEW c, NEW d, NEW error, Good(c), d = Fails(error, c)  PROVE Good(d)
  BY Zenon
<1>2. Shaped(c)
  BY <1>1 DEF Good
<1> DEFINE did == [NothingDone EXCEPT !.error = error]
<1>3. d = [c EXCEPT !.at = "end", !.did = did]
  BY <1>1, Zenon DEF Fails
<1> HIDE DEF did
<1>4. Keeps(c, d) /\ d.at = "end"
  BY <1>2, <1>3 DEF Keeps, Shaped
<1> QED
  BY <1>1, <1>4, GoodEnd, Zenon

LEMMA GoodDoes == \A c, d, id, words : Good(c) /\ d = Does(id, words, c) => Good(d)
<1>1. SUFFICES ASSUME NEW c, NEW d, NEW id, NEW words, Good(c), d = Does(id, words, c)  PROVE Good(d)
  BY Zenon
<1>2. Shaped(c)
  BY <1>1 DEF Good
<1> DEFINE did == [id |-> id, words |-> words, values |-> c.values, error |-> "none"]
<1>3. d = [c EXCEPT !.at = "end", !.did = did]
  BY <1>1, Zenon DEF Does
<1> HIDE DEF did
<1>4. Keeps(c, d) /\ d.at = "end"
  BY <1>2, <1>3 DEF Keeps, Shaped
<1> QED
  BY <1>1, <1>4, GoodEnd, Zenon

LEMMA GoodTo == \A c, d, stage :
  /\ Good(c) /\ stage \in (Entry \cup Course \cup Closing) \ {"asked"} /\ MayBeAt(c, stage)
  /\ d = To(stage, c)
  => Good(d)
<1>1. SUFFICES ASSUME NEW c, NEW d, NEW stage, Good(c), stage \in (Entry \cup Course \cup Closing) \ {"asked"},
                      MayBeAt(c, stage), d = To(stage, c)
               PROVE  Good(d)
  BY Zenon
<1>2. Shaped(c)
  BY <1>1 DEF Good
<1>3. d = [c EXCEPT !.at = stage]
  BY <1>1, Zenon DEF To
<1>4. Keeps(c, d) /\ d.at = stage
  BY <1>2, <1>3 DEF Keeps, Shaped
<1>5. MayBeAt(d, stage)
  BY <1>1, <1>4, KeptSo, Zenon
<1>6. Shaped(d) /\ Len(d.argv) \in Nat /\ Listed(d.parts) /\ AllListed(d.backs)
  BY <1>1, <1>4, Zenon DEF Good, Keeps
<1>7. d.at \in Entry \cup Course \cup Closing /\ d.at # "asked"
  BY <1>1, <1>4
<1> QED
  BY <1>4, <1>5, <1>6, <1>7, Zenon DEF Good

LEMMA GoodAsk == \A c, d, p : Good(c) /\ AskFits(c, p) /\ c.parts # <<>> /\ d = AskOrFail(p, c) => Good(d)
<1>1. SUFFICES ASSUME NEW c, NEW d, NEW p, Good(c), AskFits(c, p), c.parts # <<>>, d = AskOrFail(p, c)  PROVE Good(d)
  BY Zenon
<1>2. Shaped(c)
  BY <1>1 DEF Good
<1>3. (\E error : d = Fails(error, c)) \/ d = [c EXCEPT !.at = "asked", !.ask = p]
  <2> DEFINE asked == [c EXCEPT !.at = "asked", !.ask = p]
             alone == ~c.can
             empty == c.can /\ p.kind = "menu" /\ p.choices = {}
  <2>1. d = CASE alone -> Fails("INTERACTIVE_TERMINAL_REQUIRED", c)
              [] empty -> Fails("INTERACTION_CANCELLED", c)
              [] OTHER -> asked
    BY <1>1, Zenon DEF AskOrFail
  <2> HIDE DEF asked, alone, empty
  <2> QED
    BY <2>1 DEF asked
<1>4. CASE \E error : d = Fails(error, c)
  BY <1>1, <1>4, GoodFails, Zenon
<1>5. CASE d = [c EXCEPT !.at = "asked", !.ask = p]
  <2>1. Keeps(c, d) /\ d.at = "asked" /\ d.ask = p
    BY <1>2, <1>5 DEF Keeps, Shaped
  <2>2. AskFits(d, d.ask)
    BY <1>1, <2>1, KeptSo, Zenon
  <2>3. MayBeAt(d, d.at)
    <3>1. d.parts # <<>>
      BY <1>1, <2>1, Zenon DEF Keeps
    <3>2. d.at \notin Entry \cup Course \cup {"lock.clear", "clear", "approve", "reject"}
      BY <2>1 DEF Entry, Course
    <3> QED
      BY <3>1, <3>2 DEF MayBeAt
  <2>4. Shaped(d) /\ Len(d.argv) \in Nat /\ Listed(d.parts) /\ AllListed(d.backs)
    BY <1>1, <2>1, Zenon DEF Good, Keeps
  <2>5. d.at \in Entry \cup Course \cup Closing
    BY <2>1 DEF Closing
  <2> QED
    BY <2>2, <2>3, <2>4, <2>5, Zenon DEF Good
<1> QED
  BY <1>3, <1>4, <1>5

-----------------------------------------------------------------------------
(* Where the menus and questions lead.                                     *)
GoesOn(c, d) ==
  \/ \E error : d = Fails(error, c)
  \/ \E id, words : d = Does(id, words, c)
  \/ \E stage \in Course : d = To(stage, c)
  \/ \E p : AskFits(c, p) /\ d = AskOrFail(p, c)

LEMMA GoodOn == \A c, d : Good(c) /\ Cautious(c) /\ c.parts # <<>> /\ GoesOn(c, d) => Good(d)
<1>1. SUFFICES ASSUME NEW c, NEW d, Good(c), Cautious(c), c.parts # <<>>, GoesOn(c, d)  PROVE Good(d)
  BY Zenon
<1>2. CASE \E error : d = Fails(error, c)
  BY <1>1, <1>2, GoodFails, Zenon
<1>3. CASE \E id, words : d = Does(id, words, c)
  BY <1>1, <1>3, GoodDoes, Zenon
<1>4. CASE \E stage \in Course : d = To(stage, c)
  <2>1. PICK stage \in Course : d = To(stage, c)
    BY <1>4
  <2>2. stage \notin Entry \cup {"asked", "lock.clear", "clear", "approve", "reject"}
    BY <2>1 DEF Course, Entry
  <2>3. MayBeAt(c, stage)
    BY <1>1, <2>2 DEF MayBeAt
  <2> QED
    BY <1>1, <2>1, <2>2, <2>3, GoodTo
<1>5. CASE \E p : AskFits(c, p) /\ d = AskOrFail(p, c)
  BY <1>1, <1>5, GoodAsk, Zenon
<1> QED
  BY <1>1, <1>2, <1>3, <1>4, <1>5, Zenon DEF GoesOn

LEMMA NothingIsListed == Listed(<<>>)
<1>1. <<>> \in Seq({})
  OBVIOUS
<1> QED
  BY <1>1 DEF Listed

\* A menu that adds a word, a question for an option, and a menu to come back to.
LEMMA MenuFits == \A c, choices, as, to, p :
  Cautious(c) /\ as \in {"word", "member", "found"} /\ to \in Course /\ p = Menu(choices, as, to) => AskFits(c, p)
<1>1. SUFFICES ASSUME NEW c, NEW choices, NEW as, NEW to, NEW p,
                      Cautious(c), as \in {"word", "member", "found"}, to \in Course, p = Menu(choices, as, to)
               PROVE  AskFits(c, p)
  BY Zenon
<1>2. p.kind = "menu" /\ p.as = as /\ p.to = to /\ p.back = <<>>
  BY <1>1 DEF Menu, NoPrompt
<1>3. LeadsOn(c, p)
  BY <1>1, <1>2 DEF LeadsOn
<1> QED
  BY <1>2, <1>3, NothingIsListed DEF AskFits

LEMMA BackMenuFits == \A c, choices, as, to, p :
  /\ Listed(c.parts) /\ Cautious(c) /\ (as = "path" => Clean(c)) /\ as \in {"path", "word"} /\ to \in Course
  /\ p = MenuBackTo(c.parts, choices, as, to)
  => AskFits(c, p)
<1>1. SUFFICES ASSUME NEW c, NEW choices, NEW as, NEW to, NEW p,
                      Listed(c.parts), Cautious(c), as = "path" => Clean(c), as \in {"path", "word"}, to \in Course,
                      p = MenuBackTo(c.parts, choices, as, to)
               PROVE  AskFits(c, p)
  BY Zenon
<1>2. p.kind = "menu" /\ p.as = as /\ p.to = to /\ p.back = c.parts
  BY <1>1 DEF MenuBackTo, Menu, NoPrompt
<1>3. LeadsOn(c, p)
  BY <1>1, <1>2 DEF LeadsOn
<1> QED
  BY <1>1, <1>2, <1>3 DEF AskFits

LEMMA QuestionFits == \A c, kind, as, name, to, p :
  /\ Cautious(c) /\ kind \in {"value", "many"} /\ as \in {"word", "option"} /\ to \in Course
  /\ name \notin Flags \/ c.parts[1] # "lock"
  /\ p = Question(kind, as, name, to)
  => AskFits(c, p)
<1>1. SUFFICES ASSUME NEW c, NEW kind, NEW as, NEW name, NEW to, NEW p,
                      Cautious(c), kind \in {"value", "many"}, as \in {"word", "option"}, to \in Course,
                      name \notin Flags \/ c.parts[1] # "lock", p = Question(kind, as, name, to)
               PROVE  AskFits(c, p)
  BY Zenon
<1>2. p.kind = kind /\ p.as = as /\ p.to = to /\ p.back = <<>> /\ p.name = name
  BY <1>1 DEF Question, NoPrompt
<1>3. LeadsOn(c, p)
  BY <1>1, <1>2 DEF LeadsOn
<1> QED
  BY <1>2, <1>3, NothingIsListed DEF AskFits

LEMMA NamedMenuFits == \A c, choices, as, to, name, p :
  /\ Cautious(c) /\ as \in {"word", "option"} /\ to \in Course
  /\ name \notin Flags \/ c.parts[1] # "lock"
  /\ p = [Menu(choices, as, to) EXCEPT !.name = name]
  => AskFits(c, p)
<1>1. SUFFICES ASSUME NEW c, NEW choices, NEW as, NEW to, NEW name, NEW p,
                      Cautious(c), as \in {"word", "option"}, to \in Course,
                      name \notin Flags \/ c.parts[1] # "lock", p = [Menu(choices, as, to) EXCEPT !.name = name]
               PROVE  AskFits(c, p)
  BY Zenon
<1>2. p.kind = "menu" /\ p.as = as /\ p.to = to /\ p.back = <<>> /\ p.name = name
  BY <1>1 DEF Menu, NoPrompt
<1>3. LeadsOn(c, p)
  BY <1>1, <1>2 DEF LeadsOn
<1> QED
  BY <1>2, <1>3, NothingIsListed DEF AskFits

LEMMA FlagMenuFits == \A c, choices, to, p :
  Cautious(c) /\ to \in Course /\ choices \cap Flags = {} /\ p = Menu(choices, "flag", to) => AskFits(c, p)
<1>1. SUFFICES ASSUME NEW c, NEW choices, NEW to, NEW p,
                      Cautious(c), to \in Course, choices \cap Flags = {}, p = Menu(choices, "flag", to)
               PROVE  AskFits(c, p)
  BY Zenon
<1>2. p.kind = "menu" /\ p.as = "flag" /\ p.to = to /\ p.back = <<>> /\ p.choices = choices
  BY <1>1 DEF Menu, NoPrompt
<1>3. LeadsOn(c, p)
  BY <1>1, <1>2 DEF LeadsOn
<1> QED
  BY <1>2, <1>3, NothingIsListed DEF AskFits

-----------------------------------------------------------------------------
(* What the recipes ask for.                                               *)
Mild(step) == step.names \cap Flags = {} /\ step.names # {}
Fitting(step, c) == Mild(step) \/ (~step.one /\ step.names # {} /\ c.parts[1] # "lock")

LEMMA MildSteps ==
  /\ \A name : name \notin Flags => Mild(Field(name)) /\ Mild(Absent(name)) /\ \A when : Mild([Absent(name) EXCEPT !.when = when])
  /\ Mild(OneOf(ScopeOptions)) /\ Mild(OneOf(PruneModes))
<1>1. ASSUME NEW name, name \notin Flags
      PROVE  Mild(Field(name)) /\ Mild(Absent(name)) /\ \A when : Mild([Absent(name) EXCEPT !.when = when])
  BY <1>1 DEF Mild, Field, Absent
<1>2. \A names, step : step = OneOf(names) => step.names = names
  BY DEF OneOf, Field
<1>3. Mild(OneOf(ScopeOptions))
  <2>1. ScopeOptions \cap Flags = {} /\ ScopeOptions # {}
    BY DEF ScopeOptions, Flags, ClearActive, ClearQuarantined
  <2> QED
    BY <1>2, <2>1, Zenon DEF Mild
<1>4. Mild(OneOf(PruneModes))
  <2>1. PruneModes \cap Flags = {} /\ PruneModes # {}
    BY DEF PruneModes, Flags, ClearActive, ClearQuarantined
  <2> QED
    BY <1>2, <2>1, Zenon DEF Mild
<1> QED
  BY <1>1, <1>3, <1>4, Zenon

LEMMA RecipeIsMild == \A id : \E S : Recipe(id) \in Seq(S) /\ \A step \in S : Mild(step)
<1>1. SUFFICES ASSUME NEW id, NEW steps, steps = Recipe(id)
               PROVE  \E S : steps \in Seq(S) /\ \A step \in S : Mild(step)
  BY Zenon
<1> DEFINE S == {Absent("locale"), Field("project-name"), Absent("adapter"), Field("key"), OneOf(ScopeOptions), Field("value"),
                 Absent("root"), OneOf(PruneModes), [Absent("keep") EXCEPT !.when = "keep"],
                 [Absent("older-than") EXCEPT !.when = "older-than"]}
<1>2. \A name \in {"locale", "project-name", "adapter", "key", "value", "root", "keep", "older-than"} : name \notin Flags
  BY DEF Flags, ClearActive, ClearQuarantined
<1>3. \A step \in S : Mild(step)
  <2>1. \A name : name \notin Flags => Mild(Field(name))
    BY MildSteps, Zenon
  <2>2. \A name : name \notin Flags => Mild(Absent(name))
    BY MildSteps, Zenon
  <2>3. \A name, when : name \notin Flags => Mild([Absent(name) EXCEPT !.when = when])
    BY MildSteps, Zenon
  <2>4. Mild(OneOf(ScopeOptions)) /\ Mild(OneOf(PruneModes))
    BY MildSteps, Zenon
  <2>5. Mild(Field("project-name")) /\ Mild(Field("key")) /\ Mild(Field("value"))
    BY <1>2, <2>1, Zenon
  <2>6. Mild(Absent("locale")) /\ Mild(Absent("adapter")) /\ Mild(Absent("root"))
    BY <1>2, <2>2, Zenon
  <2>7. Mild([Absent("keep") EXCEPT !.when = "keep"]) /\ Mild([Absent("older-than") EXCEPT !.when = "older-than"])
    BY <1>2, <2>3, Zenon
  <2> QED
    BY <2>4, <2>5, <2>6, <2>7, Zenon
<1> DEFINE a == Absent("locale")
           b == Field("project-name")
           c == Absent("adapter")
           d == Field("key")
           e == OneOf(ScopeOptions)
           f == Field("value")
           g == Absent("root")
           h == OneOf(PruneModes)
           i == [Absent("keep") EXCEPT !.when = "keep"]
           j == [Absent("older-than") EXCEPT !.when = "older-than"]
<1>4. a \in S /\ b \in S /\ c \in S /\ d \in S /\ e \in S /\ f \in S /\ g \in S /\ h \in S /\ i \in S /\ j \in S
  BY Zenon
<1>5. steps = CASE id = "init" -> <<a, b, c>>
                [] id = "config.set" -> <<d, e, f>>
                [] id = "config.unset" -> <<d, e>>
                [] id = "adapter.install" -> <<g>>
                [] id = "run.prune" -> <<h, i, j>>
                [] OTHER -> <<>>
  BY <1>1, Zenon DEF Recipe
<1> HIDE DEF S, a, b, c, d, e, f, g, h, i, j
<1>6. steps \in Seq(S)
  BY <1>4, <1>5
<1> QED
  BY <1>3, <1>6

\* The steps of a command: those of its recipe, and one for whatever is missing.
LEMMA StepsFit == \A c, draft, steps :
  /\ Listed(draft.missing) /\ (c.parts[1] = "lock" => \A k \in 1 .. Len(draft.missing) : draft.missing[k] \notin Flags)
  /\ steps = StepsOf(draft)
  => Listed(steps) /\ \A k \in 1 .. Len(steps) : Fitting(steps[k], c)
<1>1. SUFFICES ASSUME NEW c, NEW draft, NEW steps, Listed(draft.missing), steps = StepsOf(draft),
                      c.parts[1] = "lock" => \A k \in 1 .. Len(draft.missing) : draft.missing[k] \notin Flags
               PROVE  Listed(steps) /\ \A k \in 1 .. Len(steps) : Fitting(steps[k], c)
  BY Zenon
<1>2. PICK recipe : recipe = Recipe(draft.command.id)
  BY Zenon
<1>3. PICK S : recipe \in Seq(S) /\ \A step \in S : Mild(step)
  BY <1>2, RecipeIsMild, Zenon
<1>4. PICK M : draft.missing \in Seq(M)
  BY <1>1 DEF Listed
<1>5. PICK missing \in Seq(M) : missing = draft.missing
  BY <1>4
<1>6. PICK n \in Nat : n = Len(missing) /\ DOMAIN missing = 1 .. n
  BY LenProperties
<1> DEFINE F == {Field(m) : m \in M}
           rest == [k \in DOMAIN missing |-> Field(missing[k])]
<1>7. steps = recipe \o rest
  BY <1>1, <1>2, <1>5, Zenon DEF StepsOf
<1>8. rest \in Seq(F) /\ Len(rest) = n /\ \A k \in 1 .. n : rest[k] = Field(missing[k])
  <2>1. \A k \in 1 .. n : missing[k] \in M
    BY <1>6
  <2>2. \A k \in 1 .. n : Field(missing[k]) \in F
    BY <2>1
  <2> HIDE DEF F
  <2> QED
    BY <1>6, <2>2
<1> HIDE DEF rest
<1>9. Listed(recipe) /\ Listed(rest)
  BY <1>3, <1>8 DEF Listed
<1>10. Listed(steps) /\ FromEither(steps, recipe, rest)
  BY <1>7, <1>9, ListedConcat, Zenon
<1>11. \A k \in 1 .. Len(recipe) : Fitting(recipe[k], c)
  <2>1. \A k \in 1 .. Len(recipe) : recipe[k] \in S
    BY <1>3
  <2> QED
    BY <1>3, <2>1, Zenon DEF Fitting
<1>12. ASSUME NEW k \in 1 .. n  PROVE Fitting(rest[k], c)
  <2>1. CASE c.parts[1] = "lock"
    <3>1. missing[k] \notin Flags
      BY <1>1, <1>5, <1>6, <2>1
    <3>2. Mild(Field(missing[k]))
      BY <3>1, MildSteps, Zenon
    <3> QED
      BY <1>8, <3>2, Zenon DEF Fitting
  <2>2. CASE c.parts[1] # "lock"
    <3>1. \A name, step : step = Field(name) => ~step.one /\ step.names # {}
      BY DEF Field
    <3> QED
      BY <1>8, <2>2, <3>1, Zenon DEF Fitting
  <2> QED
    BY <2>1, <2>2
<1> QED
  BY <1>8, <1>10, <1>11, <1>12 DEF FromEither

LEMMA PromptFits == \A c, step, command, p : Cautious(c) /\ Fitting(step, c) /\ p = Prompt(step, command) => AskFits(c, p)
<1>1. SUFFICES ASSUME NEW c, NEW step, NEW command, NEW p, Cautious(c), Fitting(step, c), p = Prompt(step, command)
               PROVE  AskFits(c, p)
  BY Zenon
<1> DEFINE name == NameOf(step)
           as == IF \E k \in DOMAIN command.path : command.path[k] = Arg(name) THEN "word" ELSE "option"
           choices == CASE name = "key" -> DOMAIN Configurable
                        [] name = "value" -> Configurable[cli.parts[3]]
                        [] name = "locale" -> {"en", "zh-CN"}
                        [] OTHER -> {}
           kind == IF name = "adapter" THEN "many" ELSE "value"
           first == Menu(step.names, "flag", "steps")
           second == [Menu(choices, as, "steps") EXCEPT !.name = name]
           third == Question(kind, as, name, "steps")
           many == ~step.one /\ choices # {}
<1>2. p = CASE step.one -> first [] many -> second [] OTHER -> third
  BY <1>1, Zenon DEF Prompt
<1>4. as \in {"word", "option"} /\ kind \in {"value", "many"}
  OBVIOUS
<1>5. name \in step.names
  <2>1. step.names # {}
    BY <1>1 DEF Fitting, Mild
  <2> QED
    BY <2>1, Zenon DEF NameOf
<1> HIDE DEF name, as, choices, kind
<1>6. (p = first /\ step.one) \/ (p = second /\ ~step.one) \/ (p = third /\ ~step.one)
  <2> HIDE DEF first, second, third
  <2>1. many => ~step.one
    OBVIOUS
  <2> HIDE DEF many
  <2> QED
    BY <1>2, <2>1
<1>7. name \notin Flags \/ (~step.one /\ c.parts[1] # "lock")
  BY <1>1, <1>5 DEF Fitting, Mild
<1>8. "steps" \in Course
  BY DEF Course
<1>9. CASE p = first /\ step.one
  <2>1. step.names \cap Flags = {}
    BY <1>1, <1>9 DEF Fitting, Mild
  <2> QED
    BY <1>1, <1>8, <1>9, <2>1, FlagMenuFits, Zenon
<1>10. CASE p = second /\ ~step.one
  BY <1>1, <1>4, <1>7, <1>8, <1>10, NamedMenuFits, Zenon
<1>11. CASE p = third /\ ~step.one
  BY <1>1, <1>4, <1>7, <1>8, <1>11, QuestionFits, Zenon
<1> QED
  BY <1>6, <1>9, <1>10, <1>11

-----------------------------------------------------------------------------
(* What an answer changes.                                                 *)
LEMMA OverlaidNames == \A first, second, values : values = Overlaid(first, second) => DOMAIN values = DOMAIN first \cup DOMAIN second
BY DEF Overlaid

\* The words and options with an answer, and nothing else of the invocation.
PutsIt(c, d) ==
  /\ Shaped(d) /\ d.argv = c.argv /\ d.backs = c.backs /\ d.ask = c.ask /\ d.agreed = c.agreed
  /\ Listed(d.parts) /\ d.parts # <<>> /\ Cautious(d)

LEMMA PutsWords == \A c, parts, d :
  /\ Shaped(c) /\ Listed(parts) /\ parts # <<>>
  /\ Clean(c) \/ parts[1] # "lock"
  /\ d = [c EXCEPT !.parts = parts]
  => PutsIt(c, d)
<1>1. SUFFICES ASSUME NEW c, NEW parts, NEW d, Shaped(c), Listed(parts), parts # <<>>,
                      Clean(c) \/ parts[1] # "lock", d = [c EXCEPT !.parts = parts]
               PROVE  PutsIt(c, d)
  BY Zenon
<1>2. /\ Shaped(d) /\ d.argv = c.argv /\ d.backs = c.backs /\ d.ask = c.ask /\ d.agreed = c.agreed
      /\ d.parts = parts /\ d.values = c.values
  BY <1>1 DEF Shaped
<1>3. Cautious(d)
  BY <1>1, <1>2, Zenon DEF Cautious, Clean, Told
<1> QED
  BY <1>1, <1>2, <1>3, Zenon DEF PutsIt

LEMMA PutsValues == \A c, given, values, d :
  /\ Shaped(c) /\ Listed(c.parts) /\ c.parts # <<>> /\ Cautious(c)
  /\ Flags \cap DOMAIN given = {} \/ c.parts[1] # "lock"
  /\ values = Overlaid(given, c.values) /\ d = [c EXCEPT !.values = values]
  => PutsIt(c, d)
<1>1. SUFFICES ASSUME NEW c, NEW given, NEW values, NEW d, Shaped(c), Listed(c.parts), c.parts # <<>>, Cautious(c),
                      Flags \cap DOMAIN given = {} \/ c.parts[1] # "lock",
                      values = Overlaid(given, c.values), d = [c EXCEPT !.values = values]
               PROVE  PutsIt(c, d)
  BY Zenon
<1>2. /\ Shaped(d) /\ d.argv = c.argv /\ d.backs = c.backs /\ d.ask = c.ask /\ d.agreed = c.agreed
      /\ d.parts = c.parts /\ d.values = values
  BY <1>1 DEF Shaped
<1>3. DOMAIN values = DOMAIN given \cup DOMAIN c.values
  BY <1>1, OverlaidNames, Zenon
<1>4. Cautious(d)
  <2>1. CASE c.parts[1] # "lock"
    BY <1>2, <2>1, Zenon DEF Cautious
  <2>2. CASE c.parts[1] = "lock"
    <3>1. Flags \cap DOMAIN given = {} /\ Clean(c)
      BY <1>1, <2>2 DEF Cautious
    <3>2. Flags \cap DOMAIN values \subseteq Flags \cap DOMAIN c.values
      BY <1>3, <3>1
    <3>3. Told(d) = Told(c)
      BY <1>2, Zenon DEF Told
    <3>4. Clean(d)
      BY <1>2, <3>1, <3>2, <3>3 DEF Clean
    <3> QED
      BY <3>4 DEF Cautious
  <2> QED
    BY <2>1, <2>2
<1> QED
  BY <1>1, <1>2, <1>4, Zenon DEF PutsIt

LEMMA PutsFits == \A c, answer, d :
  /\ Good(c) /\ c.parts # <<>> /\ LeadsOn(c, c.ask)
  /\ c.ask.as = "words" => answer \subseteq c.ask.choices
  /\ c.ask.as = "flag" => answer \in c.ask.choices
  /\ d = Puts(answer, c)
  => PutsIt(c, d)
<1>1. SUFFICES ASSUME NEW c, NEW answer, NEW d, Good(c), c.parts # <<>>, LeadsOn(c, c.ask),
                      c.ask.as = "words" => answer \subseteq c.ask.choices,
                      c.ask.as = "flag" => answer \in c.ask.choices,
                      d = Puts(answer, c)
               PROVE  PutsIt(c, d)
  BY Zenon
<1>2. PICK as : as = c.ask.as
  OBVIOUS
<1>3. Shaped(c) /\ Listed(c.parts)
  BY <1>1 DEF Good
<1>4. /\ as \in {"path", "word", "words", "member", "flag", "found", "option"}
      /\ as = "path" => Clean(c)
      /\ as # "path" => Cautious(c)
      /\ as = "words" => IsFiniteSet(c.ask.choices)
      /\ as = "flag" => c.ask.choices \cap Flags = {}
      /\ as = "option" => c.ask.name \notin Flags \/ c.parts[1] # "lock"
  BY <1>1, <1>2, Zenon DEF LeadsOn
<1> DEFINE Given(name, value) == [c EXCEPT !.values = Overlaid([n \in {name} |-> value], c.values)]
           word == [c EXCEPT !.parts = Append(c.parts, answer)]
           path == [c EXCEPT !.parts = <<answer>>]
           words == [c EXCEPT !.parts = c.parts \o SetToSeq(answer)]
           member == [c EXCEPT !.parts = <<"system", "member", c.parts[4], c.parts[2], answer>>]
           flag == Given(answer, "true")
           found == [c EXCEPT !.values = Overlaid([adapter |-> Scan[answer], identity |-> answer], c.values)]
           option == Given(c.ask.name, answer)
<1>5. d = CASE as = "word" -> word
            [] as = "path" -> path
            [] as = "words" -> words
            [] as = "member" -> member
            [] as = "flag" -> flag
            [] as = "found" -> found
            [] as = "option" -> option
  BY <1>1, <1>2, Zenon DEF Puts
<1> HIDE DEF word, path, words, member, flag, found, option
<1>6. CASE as = "word"
  <2>1. d = [c EXCEPT !.parts = Append(c.parts, answer)]
    BY <1>5, <1>6 DEF word
  <2>2. Listed(Append(c.parts, answer)) /\ Append(c.parts, answer) # <<>> /\ Append(c.parts, answer)[1] = c.parts[1]
    BY <1>1, <1>3, ListedAppend, Zenon
  <2>3. Clean(c) \/ Append(c.parts, answer)[1] # "lock"
    BY <1>4, <1>6, <2>2 DEF Cautious
  <2> QED
    BY <1>3, <2>1, <2>2, <2>3, PutsWords, Zenon
<1>7. CASE as = "path"
  <2>1. d = [c EXCEPT !.parts = <<answer>>]
    BY <1>5, <1>7 DEF path
  <2>2. Listed(<<answer>>) /\ <<answer>> # <<>>
    <3>1. <<answer>> \in Seq({answer})
      OBVIOUS
    <3> QED
      BY <3>1 DEF Listed
  <2> QED
    BY <1>3, <1>4, <1>7, <2>1, <2>2, PutsWords, Zenon
<1>8. CASE as = "words"
  <2>1. PICK parts : parts = c.parts \o SetToSeq(answer)
    OBVIOUS
  <2>2. d = [c EXCEPT !.parts = parts]
    BY <1>5, <1>8, <2>1 DEF words
  <2>3. IsFiniteSet(answer)
    BY <1>1, <1>2, <1>4, <1>8, FS_Subset
  <2>4. SetToSeq(answer) \in Seq(answer)
    BY <2>3, SetToSeqTyped, Zenon
  <2>5. Listed(SetToSeq(answer))
    BY <2>4 DEF Listed
  <2>6. Listed(parts) /\ parts # <<>> /\ parts[1] = c.parts[1]
    BY <1>1, <1>3, <2>1, <2>5, ListedConcat, Zenon
  <2>7. Clean(c) \/ parts[1] # "lock"
    BY <1>4, <1>8, <2>6 DEF Cautious
  <2> QED
    BY <1>3, <2>2, <2>6, <2>7, PutsWords, Zenon
<1>9. CASE as = "member"
  <2>1. PICK parts : parts = <<"system", "member", c.parts[4], c.parts[2], answer>>
    OBVIOUS
  <2>2. d = [c EXCEPT !.parts = parts]
    BY <1>5, <1>9, <2>1 DEF member
  <2>3. Listed(parts) /\ parts # <<>> /\ parts[1] # "lock"
    <3>1. \A x, y, z : LET s == <<"system", "member", x, y, z>>
                       IN s \in Seq({"system", "member", x, y, z}) /\ s # <<>> /\ s[1] # "lock"
      OBVIOUS
    <3> QED
      BY <2>1, <3>1, Zenon DEF Listed
  <2> QED
    BY <1>3, <2>2, <2>3, PutsWords, Zenon
<1>10. ASSUME NEW name, NEW value, name \notin Flags \/ c.parts[1] # "lock", Cautious(c), d = Given(name, value)
       PROVE  PutsIt(c, d)
  <2>1. PICK given : given = [n \in {name} |-> value]
    OBVIOUS
  <2>2. PICK values : values = Overlaid(given, c.values)
    OBVIOUS
  <2>3. d = [c EXCEPT !.values = values]
    BY <1>10, <2>1, <2>2
  <2>4. Flags \cap DOMAIN given = {} \/ c.parts[1] # "lock"
    BY <1>10, <2>1
  <2> QED
    BY <1>1, <1>3, <1>10, <2>2, <2>3, <2>4, PutsValues, Zenon
<1>11. CASE as = "flag"
  <2>1. d = Given(answer, "true")
    BY <1>5, <1>11 DEF flag
  <2>2. answer \notin Flags
    BY <1>1, <1>2, <1>4, <1>11
  <2> QED
    BY <1>4, <1>10, <1>11, <2>1, <2>2
<1>12. CASE as = "option"
  <2>1. d = Given(c.ask.name, answer)
    BY <1>5, <1>12 DEF option
  <2> QED
    BY <1>4, <1>10, <1>12, <2>1
<1>13. CASE as = "found"
  <2>1. PICK given : given = [adapter |-> Scan[answer], identity |-> answer]
    OBVIOUS
  <2>2. PICK values : values = Overlaid(given, c.values)
    OBVIOUS
  <2>3. d = [c EXCEPT !.values = values]
    BY <1>5, <1>13, <2>1, <2>2 DEF found
  <2>4. Flags \cap DOMAIN given = {}
    BY <2>1 DEF Flags, ClearActive, ClearQuarantined
  <2> QED
    BY <1>1, <1>3, <1>4, <1>13, <2>2, <2>3, <2>4, PutsValues, Zenon
<1> QED
  BY <1>4, <1>6, <1>7, <1>8, <1>9, <1>11, <1>12, <1>13

-----------------------------------------------------------------------------
(* The stages of main.                                                     *)
LEMMA AtCourse == \A c, stage : Good(c) /\ c.at = stage /\ stage \in Course => Cautious(c) /\ c.parts # <<>> /\ Listed(c.parts)
<1>1. \A stage : stage \in Course => stage \notin {"read", "version", "help", "end"}
  BY DEF Course
<1> QED
  BY <1>1, Zenon DEF Good, MayBeAt

\* (Each of the ways to go on.)
LEMMA OnFails == \A c, d, error : d = Fails(error, c) => GoesOn(c, d)
BY Zenon DEF GoesOn
LEMMA OnDoes == \A c, d, id, words : d = Does(id, words, c) => GoesOn(c, d)
BY Zenon DEF GoesOn
LEMMA OnTo == \A c, d, stage : stage \in Course /\ d = To(stage, c) => GoesOn(c, d)
BY Zenon DEF GoesOn
LEMMA OnMenu == \A c, d, choices, as, to :
  Cautious(c) /\ as \in {"word", "member", "found"} /\ to \in Course /\ d = AskOrFail(Menu(choices, as, to), c) => GoesOn(c, d)
BY MenuFits, Zenon DEF GoesOn
LEMMA OnBackMenu == \A c, d, choices, to :
  Cautious(c) /\ Listed(c.parts) /\ to \in Course /\ d = AskOrFail(MenuBackTo(c.parts, choices, "word", to), c) => GoesOn(c, d)
<1>1. "word" \in {"path", "word"} /\ "word" # "path"
  OBVIOUS
<1> QED
  BY <1>1, BackMenuFits, Zenon DEF GoesOn
LEMMA OnQuestion == \A c, d, kind, as, name, to :
  /\ Cautious(c) /\ kind \in {"value", "many"} /\ as \in {"word", "option"} /\ to \in Course /\ name \notin Flags
  /\ d = AskOrFail(Question(kind, as, name, to), c)
  => GoesOn(c, d)
BY QuestionFits, ZenonT(60) DEF GoesOn
LEMMA OnAmong == \A c, d, p, error : AskFits(c, p) /\ d = AskAmong(p, error, c) => GoesOn(c, d)
<1>1. SUFFICES ASSUME NEW c, NEW d, NEW p, NEW error, AskFits(c, p), d = AskAmong(p, error, c)  PROVE GoesOn(c, d)
  BY Zenon
<1>2. d = Fails(error, c) \/ d = AskOrFail(p, c)
  BY <1>1, Zenon DEF AskAmong
<1> QED
  BY <1>1, <1>2, Zenon DEF GoesOn
LEMMA OnAmongMenu == \A c, d, choices, as, to, error :
  Cautious(c) /\ as \in {"word", "member", "found"} /\ to \in Course /\ d = AskAmong(Menu(choices, as, to), error, c)
  => GoesOn(c, d)
<1>1. SUFFICES ASSUME NEW c, NEW d, NEW choices, NEW as, NEW to, NEW error,
                      Cautious(c), as \in {"word", "member", "found"}, to \in Course,
                      d = AskAmong(Menu(choices, as, to), error, c)
               PROVE  GoesOn(c, d)
  BY Zenon
<1>2. PICK p : p = Menu(choices, as, to)
  OBVIOUS
<1>3. AskFits(c, p)
  BY <1>1, <1>2, MenuFits, Zenon
<1>4. d = AskAmong(p, error, c)
  BY <1>1, <1>2, Zenon
<1> QED
  BY <1>3, <1>4, OnAmong, Zenon
LEMMA InCourse ==
  /\ {"upgrade", "init", "parse", "navigate", "navigated", "group", "recipe", "steps", "initialize", "device", "home-chosen"} \subseteq Course
  /\ {"device-chosen", "name-device", "system-chosen", "members", "member", "system", "decide", "operate", "final"} \subseteq Course
  /\ {"name", "adapter"} \cap Flags = {}
BY DEF Course, Flags, ClearActive, ClearQuarantined

LEMMA HomeChosenGoesOn == HomeChosen => GoesOn(cli, cli')
<1>1. "upgrade" \in Course
  BY InCourse
<1> QED
  BY <1>1, OnDoes, OnTo, Zenon DEF HomeChosen

LEMMA UpgradeGoesOn == Cautious(cli) /\ Listed(cli.parts) /\ Upgrade => GoesOn(cli, cli')
<1>1. "upgrade" \in Course /\ "init" \in Course
  BY InCourse
<1> QED
  BY <1>1, OnFails, OnDoes, OnTo, OnBackMenu, Zenon DEF Upgrade

LEMMA InitializeGoesOn == Initialize => GoesOn(cli, cli')
BY OnFails, OnDoes, Zenon DEF Initialize

LEMMA ActionMenuGoesOn == \A c, d : Cautious(c) /\ d = ActionMenu(c) => GoesOn(c, d)
<1>1. "group" \in Course /\ "word" \in {"word", "member", "found"}
  BY InCourse
<1> QED
  BY <1>1, OnMenu, Zenon DEF ActionMenu

LEMMA NavigateGoesOn == Cautious(cli) /\ Listed(cli.parts) /\ Navigate => GoesOn(cli, cli')
<1>1. "group" \in Course /\ "navigated" \in Course
  BY InCourse
<1> QED
  BY <1>1, OnTo, OnBackMenu, ActionMenuGoesOn, Zenon DEF Navigate

LEMMA NavigatedGoesOn == Cautious(cli) /\ Navigated => GoesOn(cli, cli')
<1>1. "group" \in Course /\ "steps" \in Course
  BY InCourse
<1> QED
  BY <1>1, OnTo, ActionMenuGoesOn, Zenon DEF Navigated

LEMMA GroupMenuGoesOn == Cautious(cli) /\ Listed(cli.parts) /\ GroupMenu => GoesOn(cli, cli')
<1>1. "recipe" \in Course /\ "device-chosen" \in Course /\ "system-chosen" \in Course
  BY InCourse
<1> QED
  BY <1>1, OnTo, OnBackMenu, Zenon DEF GroupMenu

LEMMA CompleteDeviceGoesOn == \A c, found, unable, d : Cautious(c) /\ d = CompleteDevice(c, found, unable) => GoesOn(c, d)
<1>1. SUFFICES ASSUME NEW c, NEW found, NEW unable, NEW d, Cautious(c), d = CompleteDevice(c, found, unable)
               PROVE  GoesOn(c, d)
  BY Zenon
<1>2. /\ "name-device" \in Course /\ "decide" \in Course /\ "adapter" \notin Flags
      /\ {"found", "word"} \subseteq {"word", "member", "found"} /\ "option" \in {"word", "option"}
  BY InCourse
<1>3. PICK p : p = [Menu(Of("adapters"), "option", "name-device") EXCEPT !.name = "adapter"]
  OBVIOUS
<1>4. AskFits(c, p)
  BY <1>1, <1>2, <1>3, NamedMenuFits, Zenon
<1>5. \/ d = AskOrFail(Menu(found, "found", "name-device"), c)
      \/ d = AskAmong(p, "UNKNOWN_ADAPTER", c)
      \/ d = AskAmong(Menu(Of("configured-devices"), "word", "decide"), "DEVICE_NOT_FOUND", c)
      \/ d = Fails("DEVICE_NOT_FOUND", c)
      \/ d = AskAmong(Menu(Of("device-capabilities"), "word", "decide"), unable, c)
  <2> DEFINE scanned == AskOrFail(Menu(found, "found", "name-device"), c)
             installs == AskAmong(p, "UNKNOWN_ADAPTER", c)
             removes == AskAmong(Menu(Of("configured-devices"), "word", "decide"), "DEVICE_NOT_FOUND", c)
             unknown == Fails("DEVICE_NOT_FOUND", c)
             runs == AskAmong(Menu(Of("device-capabilities"), "word", "decide"), unable, c)
  <2>1. d = IF c.parts[2] = "add" /\ found # {} THEN scanned
            ELSE IF c.parts[2] = "add" THEN installs
            ELSE IF c.parts[2] = "remove" THEN removes
            ELSE IF c.can /\ c.parts[2] \notin Of("configured-devices") THEN unknown
            ELSE runs
    BY <1>1, <1>3 DEF CompleteDevice
  <2> HIDE DEF scanned, installs, removes, unknown, runs
  <2>2. d = scanned \/ d = installs \/ d = removes \/ d = unknown \/ d = runs
    BY <2>1
  <2> QED
    BY <2>2 DEF scanned, installs, removes, unknown, runs
<1>6. "found" \in {"word", "member", "found"} /\ "word" \in {"word", "member", "found"}
  OBVIOUS
<1>7. CASE d = AskOrFail(Menu(found, "found", "name-device"), c)
  BY <1>1, <1>2, <1>6, <1>7, OnMenu, Zenon
<1>8. CASE d = AskAmong(p, "UNKNOWN_ADAPTER", c)
  BY <1>4, <1>8, OnAmong, Zenon
<1>9. CASE d = AskAmong(Menu(Of("configured-devices"), "word", "decide"), "DEVICE_NOT_FOUND", c)
  BY <1>1, <1>2, <1>6, <1>9, OnAmongMenu, Zenon
<1>10. CASE d = Fails("DEVICE_NOT_FOUND", c)
  BY <1>10, OnFails, Zenon
<1>11. CASE d = AskAmong(Menu(Of("device-capabilities"), "word", "decide"), unable, c)
  BY <1>1, <1>2, <1>6, <1>11, OnAmongMenu, Zenon
<1> QED
  BY <1>5, <1>7, <1>8, <1>9, <1>10, <1>11, Zenon

LEMMA DeviceChosenGoesOn == Cautious(cli) /\ DeviceChosen => GoesOn(cli, cli')
<1>1. "decide" \in Course
  BY InCourse
<1> QED
  BY <1>1, OnTo, CompleteDeviceGoesOn, Zenon DEF DeviceChosen

LEMMA NameDeviceGoesOn == Cautious(cli) /\ NameDevice => GoesOn(cli, cli')
<1>1. "decide" \in Course /\ "name" \notin Flags /\ "value" \in {"value", "many"} /\ "option" \in {"word", "option"}
  BY InCourse
<1> QED
  BY <1>1, OnQuestion, Zenon DEF NameDevice

LEMMA DeviceMenuGoesOn == Cautious(cli) /\ DeviceMenu => GoesOn(cli, cli')
<1>1. "system" \in Course
  BY InCourse
<1> QED
  BY <1>1, OnTo, CompleteDeviceGoesOn, Zenon DEF DeviceMenu

LEMMA CompleteSystemGoesOn == \A c, extra, d : Cautious(c) /\ d = CompleteSystem(c, extra) => GoesOn(c, d)
<1>1. SUFFICES ASSUME NEW c, NEW extra, NEW d, Cautious(c), d = CompleteSystem(c, extra)  PROVE GoesOn(c, d)
  BY Zenon
<1>2. /\ "members" \in Course /\ "decide" \in Course /\ "member" \in Course /\ "name" \notin Flags
      /\ "word" \in {"word", "member", "found"} /\ "word" \in {"word", "option"} /\ "value" \in {"value", "many"}
  BY InCourse
<1>3. \/ d = AskOrFail(Question("value", "word", "name", "members"), c)
      \/ \E choices : d = AskOrFail(Menu(choices, "word", "decide"), c)
      \/ \E choices : d = AskOrFail(Menu(choices, "word", "member"), c)
      \/ \E error : d = Fails(error, c)
  BY <1>1, Zenon DEF CompleteSystem
<1> QED
  BY <1>1, <1>2, <1>3, OnMenu, OnQuestion, OnFails, Zenon

LEMMA SystemChosenGoesOn == Cautious(cli) /\ SystemChosen => GoesOn(cli, cli')
<1>1. "decide" \in Course
  BY InCourse
<1> QED
  BY <1>1, OnTo, CompleteSystemGoesOn, Zenon DEF SystemChosen

LEMMA MembersGoesOn == Cautious(cli) /\ Members => GoesOn(cli, cli')
<1>1. SUFFICES ASSUME Cautious(cli), Members  PROVE GoesOn(cli, cli')
  OBVIOUS
<1>2. PICK p : p = [Menu(Of("configured-devices"), "words", "decide") EXCEPT !.kind = "many"]
  OBVIOUS
<1>3. /\ p.kind = "many" /\ p.as = "words" /\ p.to = "decide" /\ p.back = <<>> /\ p.choices = Of("configured-devices")
  BY <1>2 DEF Menu, NoPrompt
<1>4. IsFiniteSet(Of("configured-devices"))
  BY NamedAssumption DEF Of, Providers
<1>5. "decide" \in Course
  BY InCourse
<1>6. LeadsOn(cli, p)
  BY <1>1, <1>3, <1>4, <1>5 DEF LeadsOn
<1>7. AskFits(cli, p)
  BY <1>3, <1>6, NothingIsListed DEF AskFits
<1>8. cli' = AskOrFail(p, cli)
  BY <1>1, <1>2, Zenon DEF Members
<1> QED
  BY <1>7, <1>8, Zenon DEF GoesOn

LEMMA MemberMenuGoesOn == Cautious(cli) /\ MemberMenu => GoesOn(cli, cli')
<1>1. "decide" \in Course /\ "member" \in Course /\ "word" \in {"word", "member", "found"} /\ "member" \in {"word", "member", "found"}
  BY InCourse
<1>2. SUFFICES ASSUME Cautious(cli), MemberMenu  PROVE GoesOn(cli, cli')
  OBVIOUS
<1> DEFINE members == MembersOf[cli.parts[2]]
           choices == IF cli.parts[4] = "add" THEN Of("configured-devices") \ members ELSE members
           goes == To("decide", cli)
           offers == AskOrFail(Menu(MenuOf("system.member"), "word", "member"), cli)
           lists == AskAmong(Menu(choices, "member", "decide"), "USAGE_ERROR", cli)
<1>3. cli' = IF cli.parts[3] # "member" THEN goes ELSE IF Len(cli.parts) = 3 THEN offers ELSE lists
  BY <1>2 DEF MemberMenu
<1> HIDE DEF choices, goes, offers, lists
<1>4. cli' = goes \/ cli' = offers \/ cli' = lists
  BY <1>3
<1>5. GoesOn(cli, lists)
  BY <1>1, <1>2, OnAmongMenu, Zenon DEF lists
<1>6. GoesOn(cli, offers)
  BY <1>1, <1>2, OnMenu, Zenon DEF offers
<1>7. GoesOn(cli, goes)
  BY <1>1, OnTo, Zenon DEF goes
<1> QED
  BY <1>4, <1>5, <1>6, <1>7, Zenon

LEMMA SystemMenuGoesOn == Cautious(cli) /\ SystemMenu => GoesOn(cli, cli')
<1>1. "decide" \in Course
  BY InCourse
<1> QED
  BY <1>1, OnTo, CompleteSystemGoesOn, Zenon DEF SystemMenu

LEMMA StartRecipeGoesOn == StartRecipe => GoesOn(cli, cli')
<1>1. "device" \in Course /\ "steps" \in Course
  BY InCourse
<1> QED
  BY <1>1, OnTo, OnFails, Zenon DEF StartRecipe

LEMMA StepsOnGoesOn == Cautious(cli) /\ Listed(cli.parts) /\ cli.parts # <<>> /\ StepsOn => GoesOn(cli, cli')
<1>1. SUFFICES ASSUME Cautious(cli), Listed(cli.parts), cli.parts # <<>>, StepsOn  PROVE GoesOn(cli, cli')
  OBVIOUS
<1>2. PICK draft : /\ draft = Draft
                   /\ \E undone \in {Unanswered(draft, cli.values)} :
                        cli' = IF draft.error # "none" THEN Fails(draft.error, cli)
                               ELSE IF undone = {} THEN To(IF Root = "init" THEN "initialize" ELSE "device", cli)
                               ELSE AskOrFail(Prompt(StepsOf(draft)[Min(undone)], draft.command), cli)
  BY <1>1, Zenon DEF StepsOn
<1>3. PICK undone : undone = Unanswered(draft, cli.values)
  OBVIOUS
<1>4. cli' = IF draft.error # "none" THEN Fails(draft.error, cli)
             ELSE IF undone = {} THEN To(IF Root = "init" THEN "initialize" ELSE "device", cli)
             ELSE AskOrFail(Prompt(StepsOf(draft)[Min(undone)], draft.command), cli)
  BY <1>2, <1>3, Zenon
<1>5. "initialize" \in Course /\ "device" \in Course
  BY InCourse
<1>6. CASE draft.error # "none"
  BY <1>4, <1>6, OnFails, Zenon
<1>7. CASE draft.error = "none" /\ undone = {}
  BY <1>4, <1>5, <1>7, OnTo, Zenon
<1>8. CASE draft.error = "none" /\ undone # {}
  <2>1. PICK steps : steps = StepsOf(draft)
    OBVIOUS
  <2>2. Listed(draft.missing) /\ (cli.parts[1] = "lock" => \A k \in 1 .. Len(draft.missing) : draft.missing[k] \notin Flags)
    BY <1>1, <1>2, DraftIs, Zenon DEF Draft
  <2>3. Listed(steps) /\ \A k \in 1 .. Len(steps) : Fitting(steps[k], cli)
    BY <2>1, <2>2, StepsFit, Zenon
  <2>4. DOMAIN steps = 1 .. Len(steps)
    BY <2>3, LenProperties DEF Listed
  <2>5. undone \subseteq 1 .. Len(steps)
    BY <1>3, <2>1, <2>4 DEF Unanswered
  <2>6. PICK k \in undone : \A y \in undone : k <= y
    <3>1. Len(steps) \in Nat
      BY <2>3, LenProperties DEF Listed
    <3>2. undone \subseteq Nat
      BY <2>5, <3>1
    <3> QED
      BY <1>8, <3>2, LeastIs, Zenon
  <2>7. Min(undone) \in undone
    BY <2>6, Zenon DEF Min
  <2>8. PICK step : step = StepsOf(draft)[Min(undone)]
    OBVIOUS
  <2>9. Fitting(step, cli)
    BY <2>1, <2>3, <2>5, <2>7, <2>8
  <2>10. PICK p : p = Prompt(step, draft.command)
    OBVIOUS
  <2>11. AskFits(cli, p)
    BY <1>1, <2>9, <2>10, PromptFits, Zenon
  <2>12. cli' = AskOrFail(p, cli)
    BY <1>4, <1>8, <2>8, <2>10, Zenon
  <2> QED
    BY <2>11, <2>12, Zenon DEF GoesOn
<1> QED
  BY <1>6, <1>7, <1>8

LEMMA DecideGoesOn == Decide => GoesOn(cli, cli')
<1>1. "operate" \in Course /\ "final" \in Course
  BY InCourse
<1> QED
  BY <1>1, OnTo, OnFails, Zenon DEF Decide

LEMMA OperateGoesOn == Operate => GoesOn(cli, cli')
BY OnFails, OnDoes, Zenon DEF Operate

-----------------------------------------------------------------------------
(* The stages that change the words or the options.                        *)
LEMMA ToldIs == \A c : Len(c.argv) \in Nat => Told(c) = Names(FirstRead(c.argv).options)
<1>1. SUFFICES ASSUME NEW c, Len(c.argv) \in Nat  PROVE Told(c) = Names(FirstRead(c.argv).options)
  BY Zenon
<1>2. ReadSoFar(Reads(c.argv, BooleanGlobals), c.argv, Len(c.argv))
  BY <1>1, ReadsAll, Zenon
<1> QED
  BY <1>2, Zenon DEF ReadSoFar, Told, FirstRead

LEMMA FirstReadIs == \A line, read : Len(line) \in Nat /\ read = FirstRead(line) =>
  Listed(read.words) /\ DOMAIN FirstValues(read) = Heard(line, Len(line))
<1>1. SUFFICES ASSUME NEW line, NEW read, Len(line) \in Nat, read = FirstRead(line)
               PROVE  Listed(read.words) /\ DOMAIN FirstValues(read) = Heard(line, Len(line))
  BY Zenon
<1>2. ReadSoFar(read, line, Len(line))
  BY <1>1, ReadsAll, Zenon DEF FirstRead
<1>3. Listed(read.words) /\ Names(read.options) = Heard(line, Len(line))
  BY <1>2, Zenon DEF ReadSoFar
<1>4. DOMAIN FirstValues(read) = Names(read.options)
  BY DEF FirstValues, Names
<1> QED
  BY <1>3, <1>4

LEMMA ReadLineStaysGood == Good(cli) /\ ReadLine => Good(cli')
<1>1. SUFFICES ASSUME Good(cli), ReadLine  PROVE Good(cli')
  OBVIOUS
<1>2. PICK read : read = FirstRead(cli.argv)
  OBVIOUS
<1>3. PICK values : values = FirstValues(read)
  OBVIOUS
<1>4. \/ \E error : cli' = Fails(error, cli)
      \/ cli' = [cli EXCEPT !.parts = read.words, !.values = values, !.at = "version"]
  BY <1>1, <1>2, <1>3, Zenon DEF ReadLine
<1>5. Shaped(cli) /\ Len(cli.argv) \in Nat /\ AllListed(cli.backs)
  BY <1>1 DEF Good
<1>6. Listed(read.words) /\ DOMAIN values = Heard(cli.argv, Len(cli.argv))
  BY <1>2, <1>3, <1>5, FirstReadIs, Zenon
<1>7. CASE cli' = [cli EXCEPT !.parts = read.words, !.values = values, !.at = "version"]
  <2>1. PICK words : words = read.words
    OBVIOUS
  <2>2. PICK d : d = cli'
    OBVIOUS
  <2>3. d = [cli EXCEPT !.parts = words, !.values = values, !.at = "version"]
    BY <1>7, <2>1, <2>2
  <2>4. Shaped(d) /\ d.argv = cli.argv /\ d.backs = cli.backs /\ d.parts = words /\ d.values = values /\ d.at = "version"
    BY <1>5, <2>3 DEF Shaped
  <2>5. Clean(d)
    BY <1>6, <2>4 DEF Clean, Told
  <2>6. MayBeAt(d, d.at) /\ d.at # "asked" /\ d.at \in Entry \cup Course \cup Closing
    BY <2>4, <2>5 DEF MayBeAt, Entry, Course
  <2>7. Good(d)
    BY <1>5, <1>6, <2>1, <2>4, <2>6, Zenon DEF Good
  <2> QED
    BY <2>2, <2>7, Zenon
<1> QED
  BY <1>1, <1>4, <1>7, GoodFails, Zenon

LEMMA VersionTextStaysGood == Good(cli) /\ VersionText => Good(cli')
<1>1. SUFFICES ASSUME Good(cli), VersionText  PROVE Good(cli')
  OBVIOUS
<1>2. (\E id, words : cli' = Does(id, words, cli)) \/ (\E error : cli' = Fails(error, cli)) \/ cli' = To("help", cli)
  BY <1>1, Zenon DEF VersionText
<1>3. cli.at = "version"
  BY <1>1 DEF VersionText, AtStage
<1>4. Clean(cli)
  BY <1>1, <1>3 DEF Good, MayBeAt, Entry
<1>5. MayBeAt(cli, "help") /\ "help" \in (Entry \cup Course \cup Closing) \ {"asked"}
  BY <1>4 DEF MayBeAt, Entry, Course
<1> QED
  BY <1>1, <1>2, <1>5, GoodDoes, GoodFails, GoodTo, Zenon

LEMMA HelpTextStaysGood == Good(cli) /\ HelpText => Good(cli')
<1>1. SUFFICES ASSUME Good(cli), HelpText  PROVE Good(cli')
  OBVIOUS
<1>2. \/ \E id, words : cli' = Does(id, words, cli)
      \/ \E error : cli' = Fails(error, cli)
      \/ cli.parts # <<>> /\ cli' = To("home", cli)
  BY <1>1, Zenon DEF HelpText
<1>3. cli.at = "help"
  BY <1>1 DEF HelpText, AtStage
<1>4. Clean(cli)
  BY <1>1, <1>3 DEF Good, MayBeAt, Entry
<1>5. "home" \in (Entry \cup Course \cup Closing) \ {"asked"} /\ (cli.parts # <<>> => MayBeAt(cli, "home"))
  BY <1>4 DEF MayBeAt, Entry, Course
<1> QED
  BY <1>1, <1>2, <1>5, GoodDoes, GoodFails, GoodTo, Zenon

LEMMA HomePageStaysGood == Good(cli) /\ HomePage => Good(cli')
<1>1. SUFFICES ASSUME Good(cli), HomePage  PROVE Good(cli')
  OBVIOUS
<1>2. cli.at = "home"
  BY <1>1 DEF HomePage, AtStage
<1>3. Clean(cli) /\ cli.parts # <<>> /\ Listed(cli.parts)
  BY <1>1, <1>2 DEF Good, MayBeAt, Entry
<1>4. Cautious(cli)
  BY <1>3 DEF Cautious
<1>5. PICK p : p = MenuBackTo(cli.parts, HomeMenu, "path", "home-chosen")
  OBVIOUS
<1>6. AskFits(cli, p)
  <2>1. "home-chosen" \in Course /\ "path" \in {"path", "word"}
    BY InCourse
  <2> QED
    BY <1>3, <1>4, <1>5, <2>1, BackMenuFits, Zenon
<1>7. \/ cli' = To("upgrade", cli)
      \/ \E error : cli' = Fails(error, cli)
      \/ \E id, words : cli' = Does(id, words, cli)
      \/ cli' = AskOrFail(p, cli)
  BY <1>1, <1>5, Zenon DEF HomePage
<1>8. "upgrade" \in Course
  BY InCourse
<1>9. GoesOn(cli, cli')
  BY <1>6, <1>7, <1>8, Zenon DEF GoesOn
<1> QED
  BY <1>1, <1>3, <1>4, <1>9, GoodOn, Zenon

LEMMA InitProjectStaysGood == Good(cli) /\ InitProject => Good(cli')
<1>1. SUFFICES ASSUME Good(cli), InitProject  PROVE Good(cli')
  OBVIOUS
<1>2. cli.at = "init" /\ "init" \in Course /\ "parse" \in Course
  BY <1>1, InCourse DEF InitProject, AtStage
<1>3. Cautious(cli) /\ cli.parts # <<>> /\ Listed(cli.parts)
  BY <1>1, <1>2, AtCourse, Zenon
<1>4. PICK stage : stage = IF cli.can THEN "steps" ELSE "initialize"
  OBVIOUS
<1>5. \/ cli' = To("parse", cli)
      \/ \E id, words : cli' = Does(id, words, cli)
      \/ \E error : cli' = Fails(error, cli)
      \/ cli' = [cli EXCEPT !.parts = <<"init">>, !.at = stage]
  BY <1>1, <1>4, Zenon DEF InitProject
<1>6. CASE cli' = [cli EXCEPT !.parts = <<"init">>, !.at = stage]
  <2>1. PICK words : words = <<"init">>
    OBVIOUS
  <2>2. PICK d : d = cli'
    OBVIOUS
  <2>3. d = [cli EXCEPT !.parts = words, !.at = stage]
    BY <1>6, <2>1, <2>2
  <2>4. Shaped(cli) /\ Len(cli.argv) \in Nat /\ AllListed(cli.backs)
    BY <1>1 DEF Good
  <2>5. Shaped(d) /\ d.argv = cli.argv /\ d.backs = cli.backs /\ d.parts = words /\ d.at = stage
    BY <2>3, <2>4 DEF Shaped
  <2>6. Listed(words) /\ words # <<>> /\ words[1] # "lock"
    <3>1. words \in Seq({"init"}) /\ words # <<>> /\ words[1] # "lock"
      BY <2>1
    <3> QED
      BY <3>1 DEF Listed
  <2>7. stage \in {"steps", "initialize"} /\ stage \in Course
    BY <1>4, InCourse
  <2>8. MayBeAt(d, d.at)
    BY <2>5, <2>6, <2>7 DEF MayBeAt, Cautious, Entry
  <2>9. d.at \in Entry \cup Course \cup Closing /\ d.at # "asked"
    BY <2>5, <2>7
  <2>10. Good(d)
    BY <2>4, <2>5, <2>6, <2>8, <2>9, Zenon DEF Good
  <2> QED
    BY <2>2, <2>10, Zenon
<1>7. ASSUME cli' = To("parse", cli) \/ (\E id, words : cli' = Does(id, words, cli)) \/ (\E error : cli' = Fails(error, cli))
      PROVE  Good(cli')
  <2>1. GoesOn(cli, cli')
    BY <1>2, <1>7, Zenon DEF GoesOn
  <2> QED
    BY <1>1, <1>3, <2>1, GoodOn, Zenon
<1> QED
  BY <1>5, <1>6, <1>7

\* What a parsed line adds to the options was already known.
LEMMA ParsedStaysGood == \A c, d, given :
  /\ Good(c) /\ c.at \in Course /\ Cautious(c) /\ c.parts # <<>>
  /\ c.parts[1] = "lock" => Flags \cap DOMAIN given \subseteq Told(c)
  /\ d = [c EXCEPT !.values = Overlaid(given, c.values)]
  => Good(d) /\ Cautious(d) /\ d.parts = c.parts /\ (c.parts[1] = "lock" => Clean(d))
<1>1. SUFFICES ASSUME NEW c, NEW d, NEW given, Good(c), c.at \in Course, Cautious(c), c.parts # <<>>,
                      c.parts[1] = "lock" => Flags \cap DOMAIN given \subseteq Told(c),
                      d = [c EXCEPT !.values = Overlaid(given, c.values)]
               PROVE  Good(d) /\ Cautious(d) /\ d.parts = c.parts /\ (c.parts[1] = "lock" => Clean(d))
  BY Zenon
<1>2. PICK values : values = Overlaid(given, c.values)
  OBVIOUS
<1>3. d = [c EXCEPT !.values = values]
  BY <1>1, <1>2, Zenon
<1>4. Shaped(c) /\ Len(c.argv) \in Nat /\ Listed(c.parts) /\ AllListed(c.backs)
  BY <1>1 DEF Good
<1>5. Shaped(d) /\ d.argv = c.argv /\ d.backs = c.backs /\ d.parts = c.parts /\ d.values = values /\ d.at = c.at
  BY <1>3, <1>4 DEF Shaped
<1>6. DOMAIN values = DOMAIN given \cup DOMAIN c.values
  BY <1>2, OverlaidNames, Zenon
<1>7. Told(d) = Told(c)
  BY <1>5, Zenon DEF Told
<1>8. c.parts[1] = "lock" => Clean(d)
  BY <1>1, <1>5, <1>6, <1>7 DEF Cautious, Clean
<1>9. Cautious(d)
  BY <1>5, <1>8 DEF Cautious
<1>10. d.at \notin Entry \cup {"asked", "clear", "lock.clear", "approve", "reject"} /\ d.at \in Course
  BY <1>1, <1>5 DEF Entry, Course
<1>11. MayBeAt(d, d.at)
  BY <1>1, <1>5, <1>9, <1>10 DEF MayBeAt
<1> QED
  BY <1>4, <1>5, <1>8, <1>9, <1>10, <1>11 DEF Good

LEMMA ParseStaysGood == Good(cli) /\ Parse => Good(cli')
<1>1. SUFFICES ASSUME Good(cli), Parse  PROVE Good(cli')
  OBVIOUS
<1>2. cli.at = "parse" /\ "parse" \in Course /\ "navigate" \in Course /\ Len(cli.argv) \in Nat
  BY <1>1, InCourse DEF Parse, AtStage, Good
<1>3. Cautious(cli) /\ cli.parts # <<>> /\ Listed(cli.parts)
  BY <1>1, <1>2, AtCourse, Zenon
<1>4. PICK parsed : /\ parsed = IF Direct THEN GraphParse(cli.argv) ELSE DraftParse(cli.parts, cli.values)
                    /\ cli' = IF Operates \/ Decides THEN To("navigate", cli)
                              ELSE IF parsed.error # "none" THEN Fails(parsed.error, cli)
                              ELSE [cli EXCEPT !.values = Overlaid(parsed.values, cli.values), !.at = "navigate"]
  BY <1>1, Zenon DEF Parse
<1>5. cli.parts[1] = "lock" => Flags \cap DOMAIN parsed.values \subseteq Told(cli)
  <2>1. CASE parsed = GraphParse(cli.argv)
    <3>1. Flags \cap DOMAIN parsed.values \subseteq Heard(cli.argv, Len(cli.argv))
      BY <1>2, <2>1, ParsedIs, Zenon
    <3> QED
      BY <3>1 DEF Told
  <2>2. CASE parsed = DraftParse(cli.parts, cli.values)
    <3>1. Flags \cap DOMAIN parsed.values \subseteq DOMAIN cli.values
      BY <1>3, <2>2, DraftIs, Zenon
    <3> QED
      BY <1>3, <3>1 DEF Cautious, Clean
  <2> QED
    BY <1>4, <2>1, <2>2, Zenon
<1>6. PICK now : now = [cli EXCEPT !.values = Overlaid(parsed.values, cli.values)]
  OBVIOUS
<1>7. Good(now) /\ Cautious(now) /\ now.parts = cli.parts
  BY <1>1, <1>2, <1>3, <1>5, <1>6, ParsedStaysGood, Zenon
<1>8. cli' = To("navigate", cli) \/ (\E error : cli' = Fails(error, cli)) \/ cli' = To("navigate", now)
  <2>1. To("navigate", now) = [cli EXCEPT !.values = Overlaid(parsed.values, cli.values), !.at = "navigate"]
    BY <1>6, Zenon DEF To
  <2> QED
    BY <1>4, <2>1, Zenon
<1>9. CASE cli' = To("navigate", now)
  BY <1>2, <1>3, <1>7, <1>9, GoodOn, OnTo, Zenon
<1>10. CASE cli' = To("navigate", cli) \/ \E error : cli' = Fails(error, cli)
  BY <1>1, <1>2, <1>3, <1>10, GoodOn, OnTo, OnFails, Zenon
<1> QED
  BY <1>8, <1>9, <1>10

LEMMA FinalStaysGood == Good(cli) /\ Final => Good(cli')
<1>1. SUFFICES ASSUME Good(cli), Final  PROVE Good(cli')
  OBVIOUS
<1>2. cli.at = "final" /\ "final" \in Course
  BY <1>1, InCourse DEF Final, AtStage
<1>3. Cautious(cli) /\ cli.parts # <<>> /\ Listed(cli.parts)
  BY <1>1, <1>2, AtCourse, Zenon
<1>4. PICK draft, now : /\ draft = Draft /\ now = [cli EXCEPT !.values = Overlaid(draft.values, cli.values)]
                        /\ cli' = IF draft.error # "none" THEN Fails(draft.error, cli)
                                  ELSE IF draft.missing # <<>> THEN Fails("USAGE_ERROR", cli)
                                  ELSE IF draft.command.id \in Confirmed THEN To(draft.command.id, now)
                                  ELSE IF draft.command.handler \in Dispatched THEN Does(draft.command.id, cli.parts, now)
                                  ELSE Fails("UNKNOWN_COMMAND", cli)
  BY <1>1, Zenon DEF Final
<1>5. /\ Flags \cap DOMAIN draft.values \subseteq DOMAIN cli.values
      /\ draft.command.id = "lock.clear" => cli.parts[1] = "lock"
  BY <1>3, <1>4, DraftIs, Zenon DEF Draft
<1>6. cli.parts[1] = "lock" => Flags \cap DOMAIN draft.values \subseteq Told(cli)
  BY <1>3, <1>5 DEF Cautious, Clean
<1>7. Good(now) /\ Cautious(now) /\ now.parts = cli.parts /\ (cli.parts[1] = "lock" => Clean(now))
  <2>1. now = [cli EXCEPT !.values = Overlaid(draft.values, cli.values)]
    BY <1>4, Zenon
  <2>2. PICK given : given = draft.values
    OBVIOUS
  <2>3. now = [cli EXCEPT !.values = Overlaid(given, cli.values)] /\ (cli.parts[1] = "lock" => Flags \cap DOMAIN given \subseteq Told(cli))
    BY <1>6, <2>1, <2>2, Zenon
  <2> QED
    BY <1>1, <1>2, <1>3, <2>3, ParsedStaysGood, Zenon
<1>8. \/ \E error : cli' = Fails(error, cli)
      \/ \E id, words : cli' = Does(id, words, now)
      \/ draft.command.id \in Confirmed /\ cli' = To(draft.command.id, now)
  BY <1>4, Zenon
<1>9. CASE draft.command.id \in Confirmed /\ cli' = To(draft.command.id, now)
  <2>1. PICK id : id = draft.command.id
    OBVIOUS
  <2>2. /\ id \in {"lock.clear", "approval.approve", "approval.reject"}
        /\ id = "lock.clear" => Clean(now)
    BY <1>5, <1>7, <1>9, <2>1 DEF Confirmed
  <2>3. id \in (Entry \cup Course \cup Closing) \ {"asked"} /\ id \notin Entry \cup Course \cup {"clear", "approve", "reject"}
    BY <2>2 DEF Closing, Entry, Course
  <2>4. MayBeAt(now, id)
    BY <1>3, <1>7, <2>2, <2>3 DEF MayBeAt
  <2>5. cli' = To(id, now)
    BY <1>9, <2>1, Zenon
  <2> QED
    BY <1>7, <2>3, <2>4, <2>5, GoodTo, Zenon
<1> QED
  BY <1>1, <1>7, <1>8, <1>9, GoodFails, GoodDoes, Zenon

LEMMA ConfirmClearStaysGood == Good(cli) /\ ConfirmClear => Good(cli')
<1>1. SUFFICES ASSUME Good(cli), ConfirmClear  PROVE Good(cli')
  OBVIOUS
<1>2. cli.at = "lock.clear"
  BY <1>1 DEF ConfirmClear, AtStage
<1>3. Clean(cli) /\ cli.parts # <<>>
  BY <1>1, <1>2 DEF Good, MayBeAt
<1>4. PICK flag : flag = Flag(resources.lock)
  OBVIOUS
<1>5. PICK p : p = Question("confirm", "option", flag, "clear")
  OBVIOUS
<1>6. AskFits(cli, p)
  <2>1. p.kind = "confirm" /\ p.as = "option" /\ p.to = "clear" /\ p.name = flag /\ p.back = <<>>
    BY <1>5 DEF Question, NoPrompt
  <2>2. flag \in Flags
    BY <1>4 DEF Flag, Flags
  <2> QED
    BY <1>3, <2>1, <2>2, NothingIsListed DEF AskFits, AsksForClear
<1>7. cli' = To("clear", cli) \/ (\E error : cli' = Fails(error, cli)) \/ cli' = AskOrFail(p, cli)
  BY <1>1, <1>4, <1>5, Zenon DEF ConfirmClear
<1>8. MayBeAt(cli, "clear") /\ "clear" \in (Entry \cup Course \cup Closing) \ {"asked"}
  <2>1. Agreed(cli)
    BY <1>3 DEF Agreed, Clean
  <2> QED
    BY <1>3, <2>1 DEF MayBeAt, Entry, Course, Closing
<1> QED
  BY <1>1, <1>3, <1>6, <1>7, <1>8, GoodFails, GoodTo, GoodAsk, Zenon

LEMMA ConfirmDecisionStaysGood == Good(cli) /\ ConfirmDecision => Good(cli')
<1>1. SUFFICES ASSUME Good(cli), ConfirmDecision  PROVE Good(cli')
  OBVIOUS
<1>2. cli.at \in {"approval.approve", "approval.reject"}
  BY <1>1 DEF ConfirmDecision
<1>3. cli.parts # <<>>
  BY <1>1, <1>2 DEF Good, MayBeAt
<1>4. PICK p : p = Question("confirm", "option", cli.at, Decision(cli.at))
  OBVIOUS
<1>5. AskFits(cli, p)
  <2>1. p.kind = "confirm" /\ p.as = "option" /\ p.to = Decision(cli.at) /\ p.name = cli.at /\ p.back = <<>>
    BY <1>4 DEF Question, NoPrompt
  <2>2. Decision(cli.at) \in {"approve", "reject"}
    BY DEF Decision
  <2> QED
    BY <2>1, <2>2, NothingIsListed DEF AskFits, AsksForDecision
<1>6. cli' = AskOrFail(p, cli)
  BY <1>1, <1>4, Zenon DEF ConfirmDecision
<1> QED
  BY <1>1, <1>3, <1>5, <1>6, GoodAsk, Zenon

LEMMA ClearStaysGood == Good(cli) /\ Clear => Good(cli')
<1>1. Clear => (\E error : cli' = Fails(error, cli)) \/ (\E id, words : cli' = Does(id, words, cli))
  BY Zenon DEF Clear
<1> QED
  BY <1>1, GoodFails, GoodDoes, Zenon

LEMMA ResolveStaysGood == Good(cli) /\ ResolveApproval => Good(cli')
<1>1. ResolveApproval => (\E error : cli' = Fails(error, cli)) \/ (\E id, words : cli' = Does(id, words, cli))
  BY Zenon DEF ResolveApproval
<1> QED
  BY <1>1, GoodFails, GoodDoes, Zenon

-----------------------------------------------------------------------------
(* Answers, and going back.                                                *)
LEMMA AsksSo == Good(cli) /\ cli.at = "asked" => cli.parts # <<>> /\ AskFits(cli, cli.ask)
BY DEF Good, MayBeAt

\* A menu or a question that is no question for consent.
LEMMA LeadsSo == \A p : AskFits(cli, p) /\ p.kind \in {"menu", "value", "many"} => Listed(p.back) /\ LeadsOn(cli, p)
<1>1. "confirm" \notin {"menu", "value", "many"}
  OBVIOUS
<1> QED
  BY <1>1, Zenon DEF AskFits, AsksForClear, AsksForDecision

LEMMA AllListedAppend == \A backs, back : AllListed(backs) /\ Listed(back) => AllListed(Append(backs, back))
<1>1. SUFFICES ASSUME NEW backs, NEW back, AllListed(backs), Listed(back)  PROVE AllListed(Append(backs, back))
  BY Zenon
<1>2. PICK S : backs \in Seq(S) /\ \A x \in S : Listed(x)
  BY <1>1 DEF AllListed
<1> DEFINE T == S \cup {back}
<1>3. backs \in Seq(T) /\ back \in T /\ \A x \in T : Listed(x)
  BY <1>1, <1>2
<1> HIDE DEF T
<1>4. Append(backs, back) \in Seq(T)
  BY <1>3, AppendProperties
<1> QED
  BY <1>3, <1>4 DEF AllListed

LEMMA AllListedBack == \A backs : AllListed(backs) /\ backs # <<>> => AllListed(Front(backs)) /\ Listed(Last(backs))
<1>1. SUFFICES ASSUME NEW backs, AllListed(backs), backs # <<>>  PROVE AllListed(Front(backs)) /\ Listed(Last(backs))
  BY Zenon
<1>2. PICK S : backs \in Seq(S) /\ \A x \in S : Listed(x)
  BY <1>1 DEF AllListed
<1>3. Len(backs) \in Nat /\ Len(backs) # 0
  BY <1>1, <1>2, EmptySeq, LenProperties
<1>4. SubSeq(backs, 1, Len(backs) - 1) \in Seq(S)
  BY <1>2, <1>3, SubSeqProperties
<1>5. Last(backs) \in S
  BY <1>2, <1>3 DEF Last
<1> QED
  BY <1>2, <1>4, <1>5 DEF AllListed, Front

LEMMA AnswerStaysGood == \A answer :
  /\ Good(cli) /\ cli.at = "asked" /\ cli.ask.kind \in {"menu", "value", "many"}
  /\ cli.ask.as = "words" => answer \subseteq cli.ask.choices
  /\ cli.ask.as = "flag" => answer \in cli.ask.choices
  /\ Answers(answer)
  => Good(cli')
<1>1. SUFFICES ASSUME NEW answer, Good(cli), cli.at = "asked", cli.ask.kind \in {"menu", "value", "many"},
                      cli.ask.as = "words" => answer \subseteq cli.ask.choices,
                      cli.ask.as = "flag" => answer \in cli.ask.choices, Answers(answer)
               PROVE  Good(cli')
  BY Zenon
<1>2. PICK p : p = cli.ask
  OBVIOUS
<1>3. cli.parts # <<>> /\ Listed(p.back) /\ LeadsOn(cli, p)
  BY <1>1, <1>2, AsksSo, LeadsSo, Zenon
<1>4. PICK e : e = Puts(answer, cli)
  OBVIOUS
<1>5. PutsIt(cli, e)
  BY <1>1, <1>2, <1>3, <1>4, PutsFits, Zenon
<1>6. /\ Shaped(e) /\ e.argv = cli.argv /\ e.backs = cli.backs /\ e.ask = cli.ask
      /\ Listed(e.parts) /\ e.parts # <<>> /\ Cautious(e)
  BY <1>5 DEF PutsIt
<1> DEFINE backs == IF p.back = <<>> THEN e.backs ELSE Append(e.backs, p.back)
           seen == IF p.back = <<>> THEN e.seen ELSE Append(e.seen, p.choices)
<1>7. PICK d : d = cli'
  OBVIOUS
<1>8. d = [e EXCEPT !.at = p.to, !.ask = NoPrompt, !.asked = TRUE, !.expect = {}, !.backs = backs, !.seen = seen]
  BY <1>1, <1>2, <1>4, <1>7, Zenon DEF Answers
<1>9. AllListed(backs)
  <2>1. AllListed(e.backs)
    BY <1>1, <1>6 DEF Good
  <2> QED
    BY <1>3, <2>1, AllListedAppend, Zenon
<1> HIDE DEF backs, seen
<1>10. Shaped(d) /\ d.argv = e.argv /\ d.parts = e.parts /\ d.values = e.values /\ d.backs = backs /\ d.at = p.to
  BY <1>6, <1>8 DEF Shaped
<1>11. Cautious(d)
  BY <1>6, <1>10, Zenon DEF Cautious, Clean, Told
<1>12. d.at \in Course
  BY <1>3, <1>10 DEF LeadsOn
<1>13. d.at \notin Entry \cup {"asked", "clear", "lock.clear", "approve", "reject"}
  BY <1>12 DEF Entry, Course
<1>14. MayBeAt(d, d.at)
  BY <1>6, <1>10, <1>11, <1>13 DEF MayBeAt
<1>15. Len(d.argv) \in Nat /\ Listed(d.parts) /\ AllListed(d.backs)
  BY <1>1, <1>6, <1>9, <1>10 DEF Good
<1>16. d.at \in Entry \cup Course \cup Closing /\ d.at # "asked"
  BY <1>12, <1>13
<1>17. Good(d)
  BY <1>10, <1>14, <1>15, <1>16, Zenon DEF Good
<1> QED
  BY <1>7, <1>17, Zenon

LEMMA ChooseStaysGood == Good(cli) /\ Choose => Good(cli')
<1>1. SUFFICES ASSUME Good(cli), Choose  PROVE Good(cli')
  OBVIOUS
<1>2. /\ cli.at = "asked" /\ cli.ask.kind \in {"menu", "value"}
      /\ \E answer \in cli.ask.choices : Answers(answer)
  BY <1>1 DEF Choose, Asked, AtStage
<1>3. PICK answer \in cli.ask.choices : Answers(answer)
  BY <1>2
<1>4. cli.ask.as # "words"
  <2>1. LeadsOn(cli, cli.ask)
    BY <1>1, <1>2, AsksSo, LeadsSo
  <2> QED
    BY <1>2, <2>1 DEF LeadsOn
<1>5. cli.ask.kind \in {"menu", "value", "many"}
  BY <1>2
<1> QED
  BY <1>1, <1>2, <1>3, <1>4, <1>5, AnswerStaysGood, Zenon

LEMMA TickStaysGood == Good(cli) /\ Tick => Good(cli')
<1>1. SUFFICES ASSUME Good(cli), Tick  PROVE Good(cli')
  OBVIOUS
<1>2. /\ cli.at = "asked" /\ cli.ask.kind = "many"
      /\ \/ cli.ask.as = "option" /\ Answers(Typed)
         \/ cli.ask.as = "words" /\ \E answer \in SUBSET cli.ask.choices :
              IF answer = {} THEN cli' = Fails("INVALID_SYSTEM_CONFIG", cli) ELSE Answers(answer)
  BY <1>1, Zenon DEF Tick, Asked, AtStage
<1>3. cli.ask.kind \in {"menu", "value", "many"}
  BY <1>2
<1>4. "option" # "words" /\ "option" # "flag" /\ "words" # "flag"
  OBVIOUS
<1>5. CASE cli.ask.as = "option" /\ Answers(Typed)
  BY <1>1, <1>2, <1>3, <1>4, <1>5, AnswerStaysGood, Zenon
<1>6. CASE cli.ask.as = "words" /\ \E answer \in SUBSET cli.ask.choices :
             IF answer = {} THEN cli' = Fails("INVALID_SYSTEM_CONFIG", cli) ELSE Answers(answer)
  <2>1. PICK answer \in SUBSET cli.ask.choices :
          IF answer = {} THEN cli' = Fails("INVALID_SYSTEM_CONFIG", cli) ELSE Answers(answer)
    BY <1>6, Zenon
  <2>2. answer \subseteq cli.ask.choices /\ cli.ask.as # "flag"
    BY <1>6, <2>1
  <2> QED
    BY <1>1, <1>2, <1>3, <2>1, <2>2, AnswerStaysGood, GoodFails, Zenon
<1> QED
  BY <1>2, <1>5, <1>6

LEMMA ConfirmStaysGood == Good(cli) /\ Confirm => Good(cli')
<1>1. SUFFICES ASSUME Good(cli), Confirm  PROVE Good(cli')
  OBVIOUS
<1>2. PICK p : p = cli.ask
  OBVIOUS
<1>3. PICK e : e = Puts("true", cli)
  OBVIOUS
<1>4. /\ cli.at = "asked" /\ p.kind = "confirm"
      /\ \/ cli' = [e EXCEPT !.at = p.to, !.ask = NoPrompt, !.asked = TRUE, !.agreed = p.name]
         \/ \E error : cli' = Fails(error, cli)
  BY <1>1, <1>2, <1>3, Zenon DEF Confirm, Asked, AtStage
<1>5. cli.parts # <<>> /\ (AsksForClear(cli, p) \/ AsksForDecision(p))
  <2>1. cli.parts # <<>> /\ AskFits(cli, p)
    BY <1>1, <1>2, <1>4, AsksSo, Zenon
  <2>2. ~LeadsOn(cli, p)
    BY <1>4 DEF LeadsOn
  <2> QED
    BY <2>1, <2>2, Zenon DEF AskFits
<1>6. CASE cli' = [e EXCEPT !.at = p.to, !.ask = NoPrompt, !.asked = TRUE, !.agreed = p.name]
  <2>1. PICK name : name = p.name
    OBVIOUS
  <2>2. PICK given : given = [n \in {name} |-> "true"]
    OBVIOUS
  <2>3. PICK values : values = Overlaid(given, cli.values)
    OBVIOUS
  <2>4. e = [cli EXCEPT !.values = values]
    <3>1. p.as = "option"
      BY <1>5 DEF AsksForClear, AsksForDecision
    <3> DEFINE option == [cli EXCEPT !.values = Overlaid([n \in {p.name} |-> "true"], cli.values)]
               word == [cli EXCEPT !.parts = Append(cli.parts, "true")]
               path == [cli EXCEPT !.parts = <<"true">>]
               words == [cli EXCEPT !.parts = cli.parts \o SetToSeq("true")]
               member == [cli EXCEPT !.parts = <<"system", "member", cli.parts[4], cli.parts[2], "true">>]
               flag == [cli EXCEPT !.values = Overlaid([n \in {"true"} |-> "true"], cli.values)]
               found == [cli EXCEPT !.values = Overlaid([adapter |-> Scan["true"], identity |-> "true"], cli.values)]
    <3>2. e = CASE p.as = "word" -> word
                [] p.as = "path" -> path
                [] p.as = "words" -> words
                [] p.as = "member" -> member
                [] p.as = "flag" -> flag
                [] p.as = "found" -> found
                [] p.as = "option" -> option
      BY <1>2, <1>3, Zenon DEF Puts
    <3> HIDE DEF word, path, words, member, flag, found, option
    <3>3. e = option
      BY <3>1, <3>2
    <3> QED
      BY <2>1, <2>2, <2>3, <3>3, Zenon DEF option
  <2>5. PICK d : d = cli'
    OBVIOUS
  <2>6. d = [e EXCEPT !.at = p.to, !.ask = NoPrompt, !.asked = TRUE, !.agreed = p.name]
    BY <1>6, <2>5
  <2>7. Shaped(cli) /\ Len(cli.argv) \in Nat /\ Listed(cli.parts) /\ AllListed(cli.backs)
    BY <1>1 DEF Good
  <2>8. Shaped(e) /\ e.argv = cli.argv /\ e.parts = cli.parts /\ e.values = values /\ e.backs = cli.backs
    BY <2>4, <2>7 DEF Shaped
  <2>9. /\ Shaped(d) /\ d.argv = cli.argv /\ d.parts = cli.parts /\ d.values = values /\ d.backs = cli.backs
        /\ d.at = p.to /\ d.agreed = name
    BY <2>1, <2>6, <2>8 DEF Shaped
  <2>10. DOMAIN values = {name} \cup DOMAIN cli.values
    <3>1. DOMAIN given = {name}
      BY <2>2
    <3>2. DOMAIN values = DOMAIN given \cup DOMAIN cli.values
      BY <2>3, OverlaidNames, Zenon
    <3> QED
      BY <3>1, <3>2, Zenon
  <2>11. p.to \in {"clear", "approve", "reject"}
    BY <1>5 DEF AsksForClear, AsksForDecision
  <2>12. p.to = "clear" => Agreed(d)
    <3>1. ASSUME p.to = "clear"  PROVE Agreed(d)
      <4>1. Clean(cli)
        BY <1>5, <3>1 DEF AsksForClear, AsksForDecision
      <4>2. Told(d) = Told(cli)
        BY <2>9, Zenon DEF Told
      <4> QED
        BY <2>9, <2>10, <4>1, <4>2 DEF Agreed, Clean
    <3> QED
      BY <3>1
  <2>13. p.to \in {"approve", "reject"} => p.to = Decision(d.agreed)
    BY <1>5, <2>1, <2>9 DEF AsksForClear, AsksForDecision
  <2>14. MayBeAt(d, d.at)
    <3>1. d.at \notin Entry \cup Course \cup {"lock.clear"}
      BY <2>9, <2>11 DEF Entry, Course
    <3> QED
      BY <1>5, <2>9, <2>12, <2>13, <3>1 DEF MayBeAt
  <2>15. d.at \in Entry \cup Course \cup Closing /\ d.at # "asked"
    BY <2>9, <2>11 DEF Closing
  <2>16. Good(d)
    BY <2>7, <2>9, <2>14, <2>15, Zenon DEF Good
  <2> QED
    BY <2>5, <2>16, Zenon
<1> QED
  BY <1>1, <1>4, <1>6, GoodFails, Zenon

LEMMA BackStaysGood == Good(cli) /\ Back => Good(cli')
<1>1. SUFFICES ASSUME Good(cli), Back  PROVE Good(cli')
  OBVIOUS
<1>2. PICK values : values = FirstValues(FirstRead(cli.argv))
  OBVIOUS
<1>3. PICK parts, backs : parts = Last(cli.backs) /\ backs = Front(cli.backs)
  OBVIOUS
<1>4. PICK e : e = Beginning(cli.argv, cli.can, cli.fresh)
  OBVIOUS
<1>5. PICK seen, expect, turns : seen = Front(cli.seen) /\ expect = Last(cli.seen) /\ turns = cli.turns + 1
  OBVIOUS
<1>6. PICK d : d = cli'
  OBVIOUS
<1>7. d = [e EXCEPT !.at = "version", !.parts = parts, !.values = values, !.resumed = TRUE, !.backs = backs, !.asked = TRUE,
                    !.seen = seen, !.expect = expect, !.turns = turns]
  BY <1>1, <1>2, <1>3, <1>4, <1>5, <1>6, Zenon DEF Back
<1>8. Len(cli.argv) \in Nat /\ AllListed(backs) /\ Listed(parts)
  <2>1. Len(cli.argv) \in Nat /\ AllListed(cli.backs)
    BY <1>1 DEF Good
  <2>2. cli.backs # <<>>
    BY <1>1 DEF Back
  <2> QED
    BY <1>3, <2>1, <2>2, AllListedBack, Zenon
<1>9. DOMAIN values = Heard(cli.argv, Len(cli.argv))
  BY <1>2, <1>8, FirstReadIs, Zenon
<1>10. Shaped(e) /\ e.argv = cli.argv
  BY <1>4 DEF Beginning, Shaped
<1>11. Shaped(d) /\ d.argv = cli.argv /\ d.parts = parts /\ d.values = values /\ d.backs = backs /\ d.at = "version"
  BY <1>7, <1>10 DEF Shaped
<1>12. Clean(d)
  BY <1>9, <1>11 DEF Clean, Told
<1>13. MayBeAt(d, d.at) /\ d.at # "asked" /\ d.at \in Entry \cup Course \cup Closing
  BY <1>11, <1>12 DEF MayBeAt, Entry, Course
<1>14. Good(d)
  BY <1>8, <1>11, <1>13, Zenon DEF Good
<1> QED
  BY <1>6, <1>14, Zenon

LEMMA LeaveStaysGood == Good(cli) /\ LeavePrompt => Good(cli')
<1>1. SUFFICES ASSUME Good(cli), LeavePrompt  PROVE Good(cli')
  OBVIOUS
<1>2. PICK e : e = [cli EXCEPT !.expect = {}]
  OBVIOUS
<1>3. PICK d : d = cli'
  OBVIOUS
<1>4. PICK did : did = [NothingDone EXCEPT !.error = "INTERACTION_CANCELLED"]
  OBVIOUS
<1>5. d = [e EXCEPT !.at = "end", !.did = did]
  BY <1>1, <1>2, <1>3, <1>4, Zenon DEF LeavePrompt, Fails
<1>6. Shaped(cli)
  BY <1>1 DEF Good
<1>7. Shaped(e) /\ e.argv = cli.argv /\ e.parts = cli.parts /\ e.values = cli.values /\ e.backs = cli.backs /\ e.agreed = cli.agreed
  BY <1>2, <1>6 DEF Shaped
<1>8. Keeps(cli, d) /\ d.at = "end"
  BY <1>5, <1>7 DEF Keeps, Shaped
<1> QED
  BY <1>1, <1>3, <1>8, GoodEnd, Zenon

-----------------------------------------------------------------------------
(* The lines to begin with.                                                *)
LEMMA ArgvIs == \A words, names, line :
  /\ Listed(words) /\ IsFiniteSet(names)
  /\ \E values : DOMAIN values = names /\ line = Argv(words, values)
  => Len(line) \in Nat
<1>1. SUFFICES ASSUME NEW words, NEW names, NEW line, NEW values, Listed(words), IsFiniteSet(names),
                      DOMAIN values = names, line = Argv(words, values)
               PROVE  Len(line) \in Nat
  BY Zenon
<1>2. PICK s : s = SetToSeq(names)
  OBVIOUS
<1>3. s \in Seq(names)
  BY <1>1, <1>2, SetToSeqTyped, Zenon
<1>4. line = LineOf(words, s, values)
  BY <1>1, <1>2, Zenon DEF Argv
<1> QED
  BY <1>1, <1>3, <1>4, LineOfIs, Zenon

LEMMA DocumentedIs == \A d \in Documented : Listed(d.words) /\ Len(d.argv) \in Nat
<1>1. SUFFICES ASSUME NEW d \in Documented  PROVE Listed(d.words) /\ Len(d.argv) \in Nat
  OBVIOUS
<1>2. PICK e \in Commands : d \in DocumentedOf(WithMetadata(e))
  BY <1>1 DEF Documented
<1>3. PICK c : c = WithMetadata(e) /\ d \in DocumentedOf(c)
  BY <1>2, Zenon
<1>4. PICK names \in Givens(c), words \in WordsOf(c) : d = Entered(c, words, Chosen(names))
  BY <1>3 DEF DocumentedOf
<1>5. PICK values : values = Chosen(names) /\ DOMAIN values = names
  <2>1. DOMAIN Chosen(names) = names
    BY DEF Chosen
  <2> QED
    BY <2>1, Zenon
<1>6. d.words = words /\ d.argv = Argv(words, values)
  <2>1. d = Entered(c, words, values)
    BY <1>4, <1>5, Zenon
  <2> QED
    BY <2>1 DEF Entered
<1>7. Listed(words)
  <2>1. c.path = e.path /\ e.path \in Seq(Segment)
    <3>1. c.path = e.path
      BY <1>3, MetadataIs, Zenon
    <3>2. e.path \in Seq(Segment)
      BY CommandsAssumption DEF CommandRecord
    <3> QED
      BY <3>1, <3>2
  <2>2. DOMAIN c.path = 1 .. Len(c.path) /\ Len(c.path) \in Nat
    BY <2>1, LenProperties
  <2>3. PICK T : T = UNION {Texts(c.path[k]) : k \in DOMAIN c.path}
    OBVIOUS
  <2>4. words \in [DOMAIN c.path -> T]
    BY <1>4, <2>3, Zenon DEF WordsOf
  <2>5. words \in Seq(T)
    BY <2>2, <2>4
  <2> QED
    BY <2>5 DEF Listed
<1>8. IsFiniteSet(names)
  <2>1. IsFiniteSet(c.required)
    BY <1>3, MetadataIs, Zenon
  <2>2. names = c.required \/ \E name : names = c.required \cup {name}
    BY <1>4 DEF Givens
  <2>3. \A name : IsFiniteSet(c.required \cup {name})
    BY <2>1, FS_AddElement
  <2> QED
    BY <2>1, <2>2, <2>3
<1> QED
  BY <1>5, <1>6, <1>7, <1>8, ArgvIs, Zenon

LEMMA LinesAre == \A line \in Lines : Len(line) \in Nat
<1>1. SUFFICES ASSUME NEW line \in Lines  PROVE Len(line) \in Nat
  OBVIOUS
<1>2. PICK d \in Documented : line = d.argv \/ \E k \in 0 .. Len(d.words) : line = Argv(SubSeq(d.words, 1, k), <<>>)
  BY <1>1, Zenon DEF Lines
<1>3. CASE line = d.argv
  BY <1>3, DocumentedIs
<1>4. ASSUME NEW k \in 0 .. Len(d.words), line = Argv(SubSeq(d.words, 1, k), <<>>)
      PROVE  Len(line) \in Nat
  <2>1. PICK S : d.words \in Seq(S)
    BY DocumentedIs DEF Listed
  <2>2. PICK words \in Seq(S) : words = d.words
    BY <2>1
  <2>3. k \in Nat /\ k <= Len(words) /\ Len(words) \in Nat
    BY <1>4, <2>2, LenProperties
  <2>4. PICK part : part = SubSeq(words, 1, k)
    OBVIOUS
  <2>5. part \in Seq(S)
    BY <2>2, <2>3, <2>4, SubSeqProperties
  <2>6. Listed(part)
    BY <2>5 DEF Listed
  <2>7. DOMAIN <<>> = {} /\ IsFiniteSet({})
    BY FS_EmptySet
  <2>8. line = Argv(part, <<>>)
    BY <1>4, <2>2, <2>4, Zenon
  <2> QED
    BY <2>6, <2>7, <2>8, ArgvIs, Zenon
<1> QED
  BY <1>2, <1>3, <1>4

LEMMA ConsentInvInit == CliInit => ConsentInv
<1>1. SUFFICES ASSUME CliInit  PROVE ConsentInv
  OBVIOUS
<1>2. PICK argv \in Lines, can \in BOOLEAN, fresh \in BOOLEAN : cli = Beginning(argv, can, fresh)
  BY <1>1 DEF CliInit
<1>3. PICK c : c = cli
  OBVIOUS
<1>4. c = Beginning(argv, can, fresh)
  BY <1>2, <1>3
<1>5. Shaped(c) /\ c.argv = argv /\ c.at = "read" /\ c.parts = <<>> /\ c.values = <<>> /\ c.backs = <<>>
  BY <1>4 DEF Beginning, Shaped
<1>6. Len(argv) \in Nat
  BY <1>2, LinesAre
<1>7. Listed(<<>>) /\ AllListed(<<>>)
  <2>1. <<>> \in Seq({}) /\ \A x \in {} : Listed(x)
    OBVIOUS
  <2> QED
    BY <2>1, NothingIsListed DEF AllListed
<1>8. Clean(c)
  BY <1>5 DEF Clean
<1>9. MayBeAt(c, c.at) /\ c.at \in Entry \cup Course \cup Closing /\ c.at # "asked"
  BY <1>5, <1>8 DEF MayBeAt, Entry, Course
<1>10. Good(c)
  BY <1>5, <1>6, <1>7, <1>9, Zenon DEF Good
<1>11. LockOrApproval
  BY <1>1 DEF CliInit, LockOrApproval
<1> QED
  BY <1>3, <1>10, <1>11, Zenon DEF ConsentInv

LEMMA StaysGood == Good(cli) /\ CliNext => Good(cli')
<1>1. SUFFICES ASSUME Good(cli), CliNext  PROVE Good(cli')
  OBVIOUS
<1>2. ASSUME cli.at \in Course, GoesOn(cli, cli')  PROVE Good(cli')
  <2>1. Cautious(cli) /\ cli.parts # <<>>
    BY <1>1, <1>2, AtCourse, Zenon
  <2> QED
    BY <1>1, <1>2, <2>1, GoodOn, Zenon
<1>3. ASSUME cli.at \in Course  PROVE Cautious(cli) /\ Listed(cli.parts) /\ cli.parts # <<>>
  BY <1>1, <1>3, AtCourse, Zenon
<1>4. CASE HomeChosen
  BY <1>2, <1>4, HomeChosenGoesOn, InCourse DEF HomeChosen, AtStage
<1>5. CASE Upgrade
  <2>1. cli.at \in Course
    BY <1>5, InCourse DEF Upgrade, AtStage
  <2> QED
    BY <1>2, <1>3, <1>5, <2>1, UpgradeGoesOn, Zenon
<1>6. CASE Initialize
  <2>1. cli.at \in Course
    BY <1>6, InCourse DEF Initialize, AtStage
  <2> QED
    BY <1>2, <1>6, <2>1, InitializeGoesOn, Zenon
<1>7. CASE Navigate
  <2>1. cli.at \in Course
    BY <1>7, InCourse DEF Navigate, AtStage
  <2> QED
    BY <1>2, <1>3, <1>7, <2>1, NavigateGoesOn, Zenon
<1>8. CASE Navigated
  <2>1. cli.at \in Course
    BY <1>8, InCourse DEF Navigated, AtStage
  <2> QED
    BY <1>2, <1>3, <1>8, <2>1, NavigatedGoesOn, Zenon
<1>9. CASE GroupMenu
  <2>1. cli.at \in Course
    BY <1>9, InCourse DEF GroupMenu, AtStage
  <2> QED
    BY <1>2, <1>3, <1>9, <2>1, GroupMenuGoesOn, Zenon
<1>10. CASE DeviceChosen
  <2>1. cli.at \in Course
    BY <1>10, InCourse DEF DeviceChosen, AtStage
  <2> QED
    BY <1>2, <1>3, <1>10, <2>1, DeviceChosenGoesOn, Zenon
<1>11. CASE NameDevice
  <2>1. cli.at \in Course
    BY <1>11, InCourse DEF NameDevice, AtStage
  <2> QED
    BY <1>2, <1>3, <1>11, <2>1, NameDeviceGoesOn, Zenon
<1>12. CASE DeviceMenu
  <2>1. cli.at \in Course
    BY <1>12, InCourse DEF DeviceMenu, AtStage
  <2> QED
    BY <1>2, <1>3, <1>12, <2>1, DeviceMenuGoesOn, Zenon
<1>13. CASE SystemChosen
  <2>1. cli.at \in Course
    BY <1>13, InCourse DEF SystemChosen, AtStage
  <2> QED
    BY <1>2, <1>3, <1>13, <2>1, SystemChosenGoesOn, Zenon
<1>14. CASE Members
  <2>1. cli.at \in Course
    BY <1>14, InCourse DEF Members, AtStage
  <2> QED
    BY <1>2, <1>3, <1>14, <2>1, MembersGoesOn, Zenon
<1>15. CASE MemberMenu
  <2>1. cli.at \in Course
    BY <1>15, InCourse DEF MemberMenu, AtStage
  <2> QED
    BY <1>2, <1>3, <1>15, <2>1, MemberMenuGoesOn, Zenon
<1>16. CASE SystemMenu
  <2>1. cli.at \in Course
    BY <1>16, InCourse DEF SystemMenu, AtStage
  <2> QED
    BY <1>2, <1>3, <1>16, <2>1, SystemMenuGoesOn, Zenon
<1>17. CASE StartRecipe
  <2>1. cli.at \in Course
    BY <1>17, InCourse DEF StartRecipe, AtStage
  <2> QED
    BY <1>2, <1>17, <2>1, StartRecipeGoesOn, Zenon
<1>18. CASE StepsOn
  <2>1. cli.at \in Course
    BY <1>18, InCourse DEF StepsOn, AtStage
  <2> QED
    BY <1>2, <1>3, <1>18, <2>1, StepsOnGoesOn, Zenon
<1>19. CASE Decide
  <2>1. cli.at \in Course
    BY <1>19, InCourse DEF Decide, AtStage
  <2> QED
    BY <1>2, <1>19, <2>1, DecideGoesOn, Zenon
<1>20. CASE Operate
  <2>1. cli.at \in Course
    BY <1>20, InCourse DEF Operate, AtStage
  <2> QED
    BY <1>2, <1>20, <2>1, OperateGoesOn, Zenon
<1>21. CASE ReadLine \/ VersionText \/ HelpText \/ HomePage \/ InitProject \/ Parse \/ Final
  BY <1>1, <1>21, ReadLineStaysGood, VersionTextStaysGood, HelpTextStaysGood, HomePageStaysGood, InitProjectStaysGood,
     ParseStaysGood, FinalStaysGood, Zenon
<1>22. CASE ConfirmClear \/ ConfirmDecision \/ Clear \/ ResolveApproval
  BY <1>1, <1>22, ConfirmClearStaysGood, ConfirmDecisionStaysGood, ClearStaysGood, ResolveStaysGood, Zenon
<1>23. CASE Choose \/ Tick \/ Confirm \/ Back \/ LeavePrompt
  BY <1>1, <1>23, ChooseStaysGood, TickStaysGood, ConfirmStaysGood, BackStaysGood, LeaveStaysGood, Zenon
<1>24. CASE OthersWork
  <2>1. cli' = cli
    BY <1>24 DEF OthersWork
  <2> QED
    BY <1>1, <2>1, Zenon
<1> QED
  BY <1>1, <1>4, <1>5, <1>6, <1>7, <1>8, <1>9, <1>10, <1>11, <1>12, <1>13, <1>14, <1>15, <1>16, <1>17, <1>18, <1>19,
     <1>20, <1>21, <1>22, <1>23, <1>24, Zenon DEF CliNext

(* Who changes a lock or an approval.                                      *)
LEMMA ChangedBy == CliNext => resources' = resources \/ Clear \/ ResolveApproval \/ OthersWork
<1>1. ReadLine \/ VersionText \/ HelpText \/ HomePage \/ HomeChosen \/ Upgrade \/ InitProject \/ Initialize \/ Parse
      => resources' = resources
  BY DEF ReadLine, VersionText, HelpText, HomePage, HomeChosen, Upgrade, InitProject, Initialize, Parse, AtStage
<1>2. Navigate \/ Navigated \/ GroupMenu \/ DeviceChosen \/ NameDevice \/ DeviceMenu \/ SystemChosen \/ Members
      \/ MemberMenu \/ SystemMenu => resources' = resources
  BY DEF Navigate, Navigated, GroupMenu, DeviceChosen, NameDevice, DeviceMenu, SystemChosen, Members, MemberMenu, SystemMenu,
         AtStage
<1>3. StartRecipe \/ StepsOn \/ Decide \/ Final \/ Operate \/ ConfirmClear \/ ConfirmDecision => resources' = resources
  BY DEF StartRecipe, StepsOn, Decide, Final, Operate, ConfirmClear, ConfirmDecision, AtStage
<1>4. Choose \/ Tick \/ Confirm \/ Back \/ LeavePrompt => resources' = resources
  BY DEF Choose, Tick, Confirm, Back, LeavePrompt, Asked, AtStage
<1> QED
  BY <1>1, <1>2, <1>3, <1>4, Zenon DEF CliNext

LEMMA LocksAndApprovals == LockOrApproval /\ CliNext => LockOrApproval'
<1>1. SUFFICES ASSUME LockOrApproval, CliNext  PROVE LockOrApproval'
  OBVIOUS
<1>2. CASE resources' = resources
  BY <1>1, <1>2 DEF LockOrApproval
<1>3. CASE Clear
  BY <1>1, <1>3 DEF LockOrApproval, Clear, LockStates
<1>4. CASE ResolveApproval
  BY <1>1, <1>4 DEF LockOrApproval, ResolveApproval
<1>5. CASE OthersWork
  BY <1>1, <1>5 DEF LockOrApproval, OthersWork
<1> QED
  BY <1>1, <1>2, <1>3, <1>4, <1>5, ChangedBy, Zenon

\* What the proofs about an invocation of the program rest on: of the options
\* that say how a lock may be cleared, an invocation that leads to the clearing
\* of one has only those of its own line, and the one that a person agreed to.
THEOREM ConsentInvariant == CliSpec => []ConsentInv
<1>1. ConsentInv /\ [CliNext]_cliVars => ConsentInv'
  <2>1. SUFFICES ASSUME ConsentInv, [CliNext]_cliVars  PROVE ConsentInv'
    OBVIOUS
  <2>2. CASE CliNext
    <3>1. Good(cli') /\ LockOrApproval'
      BY <2>1, <2>2, StaysGood, LocksAndApprovals, Zenon DEF ConsentInv
    <3> QED
      BY <3>1, Zenon DEF ConsentInv
  <2>3. CASE UNCHANGED cliVars
    <3>1. cli' = cli /\ resources' = resources
      BY <2>3 DEF cliVars
    <3>2. Good(cli') /\ LockOrApproval'
      BY <2>1, <3>1, Zenon DEF ConsentInv, LockOrApproval
    <3> QED
      BY <3>2, Zenon DEF ConsentInv
  <2> QED
    BY <2>1, <2>2, <2>3
<1> QED
  BY ConsentInvInit, <1>1, PTL DEF CliSpec

\* A lock that is in use or in quarantine is cleared only if the line or a person
\* agreed to that for a lock in this state, whatever others did to it while the
\* question waited; an approval is decided as a person said, once: for any
\* commands, names and menus, and however often a person goes back.
THEOREM ClearedByConsent == CliSpec => Consented
<1> DEFINE Consent ==
             resources' # resources =>
               /\ cli.at = "clear" => Needed(resources.lock) \subseteq Names(FirstRead(cli.argv).options) \cup {cli.agreed}
               /\ cli.at \in {"approve", "reject"} =>
                    resources.approval = "pending" /\ resources'.approval = Decision(cli.agreed)
<1>1. ConsentInv /\ [CliNext]_cliVars => [Consent]_cliVars
  <2>1. SUFFICES ASSUME ConsentInv, CliNext, resources' # resources  PROVE Consent
    BY DEF cliVars
  <2>2. Good(cli) /\ LockOrApproval
    BY <2>1 DEF ConsentInv
  <2>3. CASE Clear
    <3>1. cli.at = "clear" /\ \A flag \in Needed(resources.lock) : On(flag, cli.values)
      BY <2>1, <2>3, Zenon DEF Clear
    <3>2. Needed(resources.lock) \subseteq DOMAIN cli.values
      BY <3>1 DEF On
    <3>3. Needed(resources.lock) \subseteq Flags
      BY DEF Needed, Flags
    <3>4. Agreed(cli) /\ Len(cli.argv) \in Nat
      BY <2>2, <3>1 DEF Good, MayBeAt
    <3>5. Told(cli) = Names(FirstRead(cli.argv).options)
      BY <3>4, ToldIs, Zenon
    <3>6. Needed(resources.lock) \subseteq Names(FirstRead(cli.argv).options) \cup {cli.agreed}
      BY <3>2, <3>3, <3>4, <3>5 DEF Agreed
    <3>7. cli.at \notin {"approve", "reject"}
      BY <3>1
    <3> QED
      BY <3>6, <3>7
  <2>4. CASE ResolveApproval
    <3>1. /\ cli.at \in {"approve", "reject"} /\ resources.approval = "pending"
          /\ resources' = [resources EXCEPT !.approval = cli.at]
      BY <2>1, <2>4, Zenon DEF ResolveApproval
    <3>2. cli.at = Decision(cli.agreed)
      BY <2>2, <3>1 DEF Good, MayBeAt
    <3>3. resources'.approval = cli.at
      BY <2>2, <3>1 DEF LockOrApproval
    <3>4. cli.at # "clear"
      BY <3>1
    <3> QED
      BY <3>1, <3>2, <3>3, <3>4
  <2>5. CASE OthersWork
    BY <2>5 DEF OthersWork
  <2> QED
    BY <2>1, <2>3, <2>4, <2>5, ChangedBy, Zenon
<1> QED
  BY <1>1, ConsentInvariant, PTL DEF CliSpec, Consented
==============================================================================
