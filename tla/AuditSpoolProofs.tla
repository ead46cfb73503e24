--------------------------- MODULE AuditSpoolProofs ---------------------------
(***************************************************************************)
(* Proofs about AuditSpool, for any set of goroutines, any distance        *)
(* between checkpoints and any number of writes.                           *)
(*                                                                         *)
(* An acked Sync record survives every crash, whichever way a write or an  *)
(* fsync fails.  That the file verifies and that every lost number is      *)
(* named needs the faults the code handles: a failed write that leaves     *)
(* nothing or an unreadable line, and none that fails for the gap only.    *)
(***************************************************************************)
EXTENDS AuditSpool, SequenceTheorems, WellFoundedInduction, TLAPS

\* A bounded set of numbers that is not empty has a maximum.
LEMMA MaxIn ==
    ASSUME NEW S, S \subseteq Nat, S # {}, NEW N \in Nat, \A x \in S : x <= N
    PROVE  Max(S) \in S /\ \A y \in S : Max(S) >= y
<1> DEFINE T == {u \in Nat : \A x \in S : x <= u}
           R == OpToRel(<, Nat)
<1>1. T \subseteq Nat /\ N \in T
    OBVIOUS
<1>2. PICK u \in T : \A y \in T : <<y, u>> \notin R
  <2>1. IsWellFoundedOn(R, Nat)
    BY NatLessThanWellFounded
  <2> HIDE DEF R, T
  <2> QED
    BY <1>1, <2>1, WFMin
<1>3. \A y \in T : ~(y < u)
    BY <1>1, <1>2 DEF OpToRel
<1>4. u \in S
  <2> SUFFICES ASSUME u \notin S PROVE FALSE
    OBVIOUS
  <2>1. PICK x \in S : TRUE
    OBVIOUS
  <2>2. u - 1 \in T
    BY <2>1
  <2> QED
    BY <1>3, <2>2
<1>5. u \in S /\ \A y \in S : u >= y
    BY <1>4
<1> QED
    BY <1>5 DEF Max

(***************************************************************************)
(* The file: an inductive description of what VerifySpool accepts.         *)
(***************************************************************************)

\* No line up to m reads; b is the last that does.
Blank(f, m) == \A i \in 1 .. m : f[i].k = "torn"
Tip(f, b, m) == f[b].k # "torn" /\ \A i \in b + 1 .. m : f[i].k = "torn"

\* Line l may come first, and after line a with nothing readable between.
Names(l, q) == l.seq = q \/ (l.lost # NoRange /\ q \in l.lost.from .. l.lost.to)
Opens(l) ==
    /\ l.prev = 0 /\ l.k # "checkpoint"
    /\ \A q \in 1 .. l.seq : Names(l, q)
Links(a, l, torn) ==
    LET gap == l.k = "gap" /\ l.lost # NoRange IN
    /\ l.prev = a.hash
    /\ gap => l.lost.from = a.seq + 1 /\ l.lost.to >= l.lost.from
    /\ l.seq = (IF gap THEN l.lost.to ELSE a.seq) + 1
    /\ torn => l.k = "gap"
    /\ l.k = "checkpoint" => l.signs = <<a.seq, a.hash>>

\* Line l fits behind the first m lines of f.
Fits(f, m, l) ==
    \/ Blank(f, m) /\ Opens(l)
    \/ \E b \in 1 .. m : Tip(f, b, m) /\ Links(f[b], l, b < m)

\* There is a last readable line in every prefix, each readable line fits
\* behind what is before it, numbers go up, and every number up to a line's own
\* is named by it or before it.
HasTips(f) == \A m \in 0 .. Len(f) : Blank(f, m) \/ \E b \in 1 .. m : Tip(f, b, m)
Chained(f) == \A j \in 1 .. Len(f) : f[j].k # "torn" => Fits(f, j - 1, f[j])
Ascends(f) == \A i, j \in 1 .. Len(f) : i < j /\ f[i].k # "torn" /\ f[j].k # "torn" => f[i].seq < f[j].seq
AllNamed(f) == \A j \in 1 .. Len(f) : f[j].k # "torn" =>
                  \A q \in 1 .. f[j].seq : \E i \in 1 .. j : Names(f[i], q)
FileOk(f) == HasTips(f) /\ Chained(f) /\ Ascends(f) /\ AllNamed(f)

\* f is the first lines of g.
Begins(f, g) == Len(f) <= Len(g) /\ \A i \in 1 .. Len(f) : g[i] = f[i]

\* A crash that cuts the file between two lines leaves a file that verifies.
LEMMA PrefixOk ==
    ASSUME NEW f \in Seq(LineType), NEW g \in Seq(LineType), FileOk(g), Begins(f, g)
    PROVE  FileOk(f)
<1> USE DEF Begins
<1>1. Len(f) \in Nat /\ Len(g) \in Nat
    OBVIOUS
<1>2. \A m \in 0 .. Len(f) : /\ Blank(f, m) <=> Blank(g, m)
                             /\ \A b \in 1 .. m : Tip(f, b, m) <=> Tip(g, b, m)
    BY <1>1 DEF Blank, Tip
<1>3. HasTips(f)
    BY <1>1, <1>2 DEF FileOk, HasTips
<1>4. Chained(f)
  <2> SUFFICES ASSUME NEW j \in 1 .. Len(f), f[j].k # "torn" PROVE Fits(f, j - 1, f[j])
    BY DEF Chained
  <2>1. Fits(g, j - 1, f[j])
    BY <1>1 DEF FileOk, Chained
  <2> QED
    BY <1>1, <1>2, <2>1 DEF Fits
<1>5. Ascends(f)
    BY <1>1 DEF FileOk, Ascends
<1>6. AllNamed(f)
  <2> SUFFICES ASSUME NEW j \in 1 .. Len(f), f[j].k # "torn", NEW q \in 1 .. f[j].seq
               PROVE  \E i \in 1 .. j : Names(f[i], q)
    BY DEF AllNamed
  <2>1. PICK i \in 1 .. j : Names(g[i], q)
    BY <1>1 DEF FileOk, AllNamed
  <2>2. g[i] = f[i]
    BY <1>1
  <2> QED
    BY <2>1, <2>2
<1> QED
    BY <1>3, <1>4, <1>5, <1>6 DEF FileOk

\* One more line, unreadable or one that fits.
LEMMA OneMore ==
    ASSUME NEW f \in Seq(LineType), NEW l \in LineType, FileOk(f),
           l.k # "torn" => Fits(f, Len(f), l)
    PROVE  FileOk(Append(f, l))
<1> DEFINE g == Append(f, l) z == Len(f) + 1
<1>1. /\ g \in Seq(LineType) /\ Len(g) = z /\ g[z] = l /\ Len(f) \in Nat
      /\ \A i \in 1 .. Len(f) : g[i] = f[i] /\ f[i] \in LineType
    BY AppendProperties
<1>0. \A x \in LineType : /\ x.seq \in Nat /\ x.hash \in Nat
                          /\ x.lost.from \in Nat /\ x.lost.to \in Nat
    BY DEF LineType, RangeType
<1> HIDE DEF g
<1>2. \A m \in 0 .. Len(f) : /\ Blank(f, m) <=> Blank(g, m)
                             /\ \A b \in 1 .. m : Tip(f, b, m) <=> Tip(g, b, m)
    BY <1>1 DEF Blank, Tip
<1>3. HasTips(g)
  <2>1. \A m \in 0 .. Len(f) : Blank(g, m) \/ \E b \in 1 .. m : Tip(g, b, m)
    BY <1>2 DEF FileOk, HasTips
  <2>2. Blank(g, z) \/ \E b \in 1 .. z : Tip(g, b, z)
    <3>1. CASE l.k # "torn"
      BY <1>1, <3>1 DEF Tip
    <3>2. CASE l.k = "torn"
      BY <1>1, <2>1, <3>2 DEF Tip, Blank
    <3> QED
      BY <3>1, <3>2
  <2> QED
    BY <1>1, <2>1, <2>2 DEF HasTips
<1>4. Chained(g)
  <2> SUFFICES ASSUME NEW j \in 1 .. z, g[j].k # "torn" PROVE Fits(g, j - 1, g[j])
    BY <1>1 DEF Chained
  <2>1. Fits(f, j - 1, g[j])
    BY <1>1 DEF FileOk, Chained
  <2> QED
    BY <1>1, <1>2, <2>1 DEF Fits
<1>5. Ascends(g)
  <2> SUFFICES ASSUME NEW i \in 1 .. Len(f), f[i].k # "torn", l.k # "torn" PROVE f[i].seq < l.seq
    BY <1>1 DEF FileOk, Ascends
  <2>1. PICK b \in 1 .. Len(f) : Tip(f, b, Len(f)) /\ Links(f[b], l, b < Len(f))
    BY <1>1 DEF Fits, Blank
  <2>2. i <= b
    BY <1>1, <2>1 DEF Tip
  <2>3. f[i].seq <= f[b].seq
    BY <1>0, <1>1, <2>1, <2>2 DEF Tip, FileOk, Ascends
  <2>4. f[b].seq < l.seq
    BY <1>0, <1>1, <2>1 DEF Links
  <2> QED
    BY <1>0, <1>1, <2>1, <2>3, <2>4
<1>6. AllNamed(g)
  <2> SUFFICES ASSUME NEW q \in 1 .. l.seq, l.k # "torn" PROVE \E i \in 1 .. z : Names(g[i], q)
    BY <1>1 DEF FileOk, AllNamed
  <2>1. CASE Names(l, q)
    BY <1>1, <2>1
  <2>2. CASE ~Names(l, q)
    <3>1. PICK b \in 1 .. Len(f) : Tip(f, b, Len(f)) /\ Links(f[b], l, b < Len(f))
      BY <1>1, <2>2 DEF Fits, Opens
    <3>2. q \in 1 .. f[b].seq
      BY <1>0, <1>1, <2>2, <3>1 DEF Links, Names
    <3>3. \E i \in 1 .. b : Names(f[i], q)
      BY <3>1, <3>2 DEF Tip, FileOk, AllNamed
    <3> QED
      BY <1>1, <3>3
  <2> QED
    BY <2>1, <2>2
<1> QED
    BY <1>3, <1>4, <1>5, <1>6 DEF FileOk, g

\* The description implies what VerifySpool checks.
LEMMA FileVerifies ==
    ASSUME NEW f \in Seq(LineType), FileOk(f) PROVE VerifySpool(f)
<1>1. Len(f) \in Nat /\ DOMAIN f = 1 .. Len(f)
    OBVIOUS
<1>2. Readable(f) = {i \in 1 .. Len(f) : f[i].k # "torn"}
    BY <1>1 DEF Readable
<1> SUFFICES ASSUME NEW j \in Readable(f)
             PROVE  IF \A i \in Readable(f) : i >= j
                    THEN f[j].prev = 0 /\ f[j].k # "checkpoint"
                    ELSE LET b == f[Before(f, j)]
                             gap == f[j].k = "gap" /\ f[j].lost # NoRange
                         IN /\ f[j].prev = b.hash
                            /\ gap => f[j].lost.from = b.seq + 1 /\ f[j].lost.to >= f[j].lost.from
                            /\ f[j].seq = (IF gap THEN f[j].lost.to ELSE b.seq) + 1
                            /\ TornBefore(f, j) => f[j].k = "gap"
                            /\ f[j].k = "checkpoint" => f[j].signs = <<b.seq, b.hash>>
    BY DEF VerifySpool
<1>3. j \in 1 .. Len(f) /\ f[j].k # "torn" /\ Fits(f, j - 1, f[j])
    BY <1>2 DEF FileOk, Chained
<1>4. CASE \A i \in Readable(f) : i >= j
  <2>1. \A b \in 1 .. j - 1 : ~Tip(f, b, j - 1)
    BY <1>1, <1>2, <1>3, <1>4 DEF Tip
  <2> QED
    BY <1>3, <1>4, <2>1 DEF Fits, Opens
<1>5. CASE ~(\A i \in Readable(f) : i >= j)
  <2>1. ~Blank(f, j - 1)
    BY <1>1, <1>2, <1>3, <1>5 DEF Blank
  <2>2. PICK b \in 1 .. j - 1 : Tip(f, b, j - 1) /\ Links(f[b], f[j], b < j - 1)
    BY <1>3, <2>1 DEF Fits
  <2>3. b \in {i \in Readable(f) : i < j} /\ \A i \in {i \in Readable(f) : i < j} : b >= i
    BY <1>1, <1>2, <1>3, <2>2 DEF Tip
  <2>4. Before(f, j) = b
    <3> DEFINE S == {i \in Readable(f) : i < j}
    <3>1. S \subseteq Nat /\ b \in S /\ \A i \in S : b >= i
      BY <1>1, <1>2, <2>3
    <3> HIDE DEF S
    <3>2. \A x \in S : (\A y \in S : x >= y) => x = b
      BY <3>1
    <3>3. Max(S) = b
      BY <3>1, <3>2 DEF Max
    <3> QED
      BY <3>3 DEF Before, S
  <2>5. TornBefore(f, j) => b < j - 1
    BY <1>1, <1>2, <1>3, <2>2, <2>3 DEF TornBefore
  <2> QED
    BY <1>5, <2>2, <2>4, <2>5 DEF Links
<1> QED
    BY <1>4, <1>5

(***************************************************************************)
(* The writes.                                                             *)
(***************************************************************************)

\* A spool whose numbers are bounded by the writes attempted, and one that has
\* the file open: it writes a newline before it goes on after a cut line.
Shape(s) ==
    /\ s \in SpoolType
    /\ s.seq <= s.ids /\ \A i \in 1 .. Len(s.file) : s.file[i].seq <= s.ids
Ready(s) == Shape(s) /\ (s.ragged => s.newline)

\* t is s after some writes.
Grows(s, t) == Ready(t) /\ Begins(s.file, t.file) /\ s.written <= t.written

Line(s, k, lost, signs) ==
    [k |-> k, seq |-> s.seq + 1, prev |-> s.prev, hash |-> s.ids + 1, lost |-> lost, signs |-> signs]

\* What a file has with one more line.
LEMMA Appended ==
    ASSUME NEW f \in Seq(LineType), NEW l \in LineType
    PROVE  /\ Append(f, l) \in Seq(LineType) /\ Len(Append(f, l)) = Len(f) + 1 /\ Len(f) \in Nat
           /\ Append(f, l)[Len(f) + 1] = l
           /\ \A i \in 1 .. Len(f) : Append(f, l)[i] = f[i]
    BY AppendProperties

\* An unreadable line is a line.
LEMMA TornLine == Torn \in LineType /\ Torn.k = "torn" /\ Torn.seq = 0 /\ NoRange \in RangeType
    BY DEF Torn, LineType, NoRange, RangeType

\* The parts of a spool.
LEMMA SpoolParts ==
    ASSUME NEW s \in SpoolType
    PROVE  /\ s.file \in Seq(LineType) /\ Len(s.file) \in Nat /\ s.ragged \in BOOLEAN /\ s.newline \in BOOLEAN
           /\ s.seq \in Nat /\ s.prev \in Nat /\ s.lost \in RangeType /\ s.since \in Nat
           /\ s.written \in Nat /\ s.ids \in Nat
    BY DEF SpoolType

\* What write assigns keeps the spool's type.
LEMMA WroteType ==
    ASSUME NEW s \in SpoolType, NEW f \in Seq(LineType), NEW a \in Nat, NEW b \in Nat, NEW c \in Nat,
           NEW d \in Nat
    PROVE  [s EXCEPT !.file = f, !.ragged = FALSE, !.newline = FALSE, !.seq = a, !.prev = b, !.ids = b,
                     !.since = c, !.written = d] \in SpoolType
    BY DEF SpoolType

\* What a failed write assigns does too.
LEMMA FailedType ==
    ASSUME NEW s \in SpoolType, NEW f \in Seq(LineType), NEW a \in Nat, NEW b \in Nat, NEW c \in BOOLEAN,
           NEW r \in RangeType
    PROVE  [s EXCEPT !.file = f, !.ragged = c, !.newline = TRUE, !.seq = a, !.ids = b, !.lost = r] \in SpoolType
    BY DEF SpoolType

\* write, by how it ends.
LEMMA WriteIs ==
    ASSUME NEW s, Ready(s), NEW k \in {"record", "gap", "checkpoint"}, NEW lost \in RangeType,
           NEW signs \in Seq(Nat), NEW o
    PROVE  /\ Line(s, k, lost, signs) \in LineType
           /\ o = "ok" => Write(s, k, lost, signs, o) =
                 [s EXCEPT !.file = Append(s.file, Line(s, k, lost, signs)), !.ragged = FALSE,
                           !.newline = FALSE, !.seq = s.seq + 1, !.prev = s.ids + 1, !.ids = s.ids + 1,
                           !.since = s.since + 1, !.written = s.written + 1]
           /\ o # "ok" => Write(s, k, lost, signs, o) =
                 [s EXCEPT !.file = CASE o = "clean" -> s.file
                                      [] o = "whole" -> Append(s.file, Line(s, k, lost, signs))
                                      [] OTHER -> Append(s.file, Torn),
                           !.ragged = s.ragged \/ o # "clean", !.newline = TRUE,
                           !.seq = s.seq + 1, !.ids = s.ids + 1, !.lost = Lose(s.lost, s.seq + 1)]
<1> USE SpoolParts DEF Ready, Shape
<1>1. Line(s, k, lost, signs) \in LineType
    BY DEF Line, LineType
<1>2. \A l : Put(s, l) = Append(s.file, l)
    BY DEF Put
<1>3. CASE o = "ok"
    BY <1>1, <1>2, <1>3 DEF Write, Line
<1>4. CASE o = "clean"
    BY <1>1, <1>4 DEF Write
<1>5. CASE o = "whole"
    BY <1>1, <1>2, <1>5 DEF Write, Line
<1>6. CASE o \notin {"ok", "clean", "whole"}
    BY <1>1, <1>2, <1>6 DEF Write
<1> QED
    BY <1>3, <1>4, <1>5, <1>6

\* A range stays one.
LEMMA LoseType == ASSUME NEW r \in RangeType, NEW q \in Nat PROVE Lose(r, q) \in RangeType
    BY DEF Lose, RangeType, NoRange

\* A write only adds to the file, and counts as written if it succeeds.
LEMMA WriteGrows ==
    ASSUME NEW s, Ready(s), NEW k \in {"record", "gap", "checkpoint"}, NEW lost \in RangeType,
           NEW signs \in Seq(Nat), NEW o
    PROVE  /\ Grows(s, Write(s, k, lost, signs, o))
           /\ o = "ok" => /\ Write(s, k, lost, signs, o).written = s.written + 1
                          /\ Len(Write(s, k, lost, signs, o).file) = Len(s.file) + 1
                          /\ Write(s, k, lost, signs, o).file[Len(s.file) + 1].hash
                                = Write(s, k, lost, signs, o).prev
<1> DEFINE t == Write(s, k, lost, signs, o) l == Line(s, k, lost, signs)
<1>0. s \in SpoolType /\ (s.ragged => s.newline) /\ s.seq <= s.ids
      /\ \A i \in 1 .. Len(s.file) : s.file[i].seq <= s.ids
    BY DEF Ready, Shape
<1>1. /\ s.file \in Seq(LineType) /\ Len(s.file) \in Nat /\ s.seq \in Nat /\ s.ids \in Nat
      /\ s.lost \in RangeType /\ s.written \in Nat /\ s.since \in Nat /\ s.ragged \in BOOLEAN
    BY <1>0, SpoolParts
<1>2. l \in LineType /\ l.seq = s.seq + 1 /\ l.hash = s.ids + 1
    BY WriteIs DEF Line
<1>3. \A i \in 1 .. Len(s.file) : s.file[i] \in LineType /\ s.file[i].seq \in Nat
  <2>1. \A i \in 1 .. Len(s.file) : s.file[i] \in LineType
    BY <1>1
  <2> QED
    BY <2>1 DEF LineType
<1>4. CASE o = "ok"
  <2>1. t = [s EXCEPT !.file = Append(s.file, l), !.ragged = FALSE,
                      !.newline = FALSE, !.seq = s.seq + 1, !.prev = s.ids + 1, !.ids = s.ids + 1,
                      !.since = s.since + 1, !.written = s.written + 1]
    BY <1>0, <1>1, <1>4 DEF Write, Put, Line
  <2>9. Append(s.file, l) \in Seq(LineType)
    BY <1>1, <1>2, Appended
  <2> HIDE DEF t, l
  <2>2. t \in SpoolType
    <3>1. s.seq + 1 \in Nat /\ s.ids + 1 \in Nat /\ s.since + 1 \in Nat /\ s.written + 1 \in Nat
      BY <1>1
    <3> QED
      BY <1>0, <2>1, <2>9, <3>1, WroteType
  <2>3. /\ t.file = Append(s.file, l) /\ ~t.ragged /\ t.seq = s.seq + 1 /\ t.ids = s.ids + 1
        /\ t.written = s.written + 1 /\ t.prev = s.ids + 1
    BY <1>0, <2>1 DEF SpoolType
  <2>4. /\ Len(t.file) = Len(s.file) + 1 /\ t.file[Len(s.file) + 1] = l
        /\ \A i \in 1 .. Len(s.file) : t.file[i] = s.file[i]
    BY <1>1, <1>2, <2>3, Appended
  <2>5. \A i \in 1 .. Len(t.file) : t.file[i].seq <= t.ids
    BY <1>0, <1>1, <1>2, <1>3, <2>3, <2>4
  <2>6. Ready(t)
    BY <1>0, <1>1, <2>2, <2>3, <2>5 DEF Ready, Shape
  <2>7. Grows(s, t)
    BY <1>1, <2>3, <2>4, <2>6 DEF Grows, Begins
  <2> QED
    BY <1>2, <1>4, <2>3, <2>4, <2>7 DEF t
<1>5. CASE o # "ok"
  <2> DEFINE f == CASE o = "clean" -> s.file
                    [] o = "whole" -> Append(s.file, l)
                    [] OTHER -> Append(s.file, Torn)
  <2>1. t = [s EXCEPT !.file = f, !.ragged = s.ragged \/ o # "clean", !.newline = TRUE,
                      !.seq = s.seq + 1, !.ids = s.ids + 1, !.lost = Lose(s.lost, s.seq + 1)]
    BY <1>0, <1>1, <1>5 DEF Write, Put, Line
  <2>2. /\ f \in Seq(LineType) /\ Len(f) \in {Len(s.file), Len(s.file) + 1}
        /\ \A i \in 1 .. Len(s.file) : f[i] = s.file[i]
        /\ Len(f) = Len(s.file) + 1 => f[Len(s.file) + 1] \in {l, Torn}
    BY <1>1, <1>2, Appended, TornLine
  <2>8. Lose(s.lost, s.seq + 1) \in RangeType
    BY <1>1, LoseType
  <2> HIDE DEF t, l, f
  <2>3. t \in SpoolType
    <3>1. s.seq + 1 \in Nat /\ s.ids + 1 \in Nat /\ (s.ragged \/ o # "clean") \in BOOLEAN
      BY <1>1
    <3> QED
      BY <1>0, <2>1, <2>2, <2>8, <3>1, FailedType
  <2>4. /\ t.file = f /\ t.newline /\ t.seq = s.seq + 1 /\ t.ids = s.ids + 1 /\ t.written = s.written
    BY <1>0, <2>1 DEF SpoolType
  <2>5. \A i \in 1 .. Len(t.file) : t.file[i].seq <= t.ids
    <3>1. \A i \in 1 .. Len(s.file) : t.file[i].seq <= t.ids
      <4>1. \A i \in 1 .. Len(s.file) : t.file[i] = s.file[i]
        BY <2>2, <2>4
      <4>2. \A i \in 1 .. Len(s.file) : s.file[i].seq <= s.ids + 1
        BY <1>0, <1>1, <1>3
      <4> QED
        BY <2>4, <4>1, <4>2
    <3>2. Len(f) = Len(s.file) + 1 => f[Len(s.file) + 1].seq <= t.ids
      BY <1>0, <1>1, <1>2, <2>2, <2>4, TornLine
    <3> QED
      BY <1>1, <2>2, <2>4, <3>1, <3>2
  <2>6. Ready(t)
    BY <1>0, <1>1, <2>3, <2>4, <2>5 DEF Ready, Shape
  <2>7. Grows(s, t)
    BY <1>1, <2>2, <2>4, <2>6 DEF Grows, Begins
  <2> QED
    BY <1>5, <2>7 DEF t
<1> QED
    BY <1>4, <1>5

\* Writes one after the other.
LEMMA GrowsOn ==
    ASSUME NEW s, NEW t, NEW u, Ready(s), Grows(s, t), Grows(t, u) PROVE Grows(s, u)
<1>1. /\ s \in SpoolType /\ t \in SpoolType /\ u \in SpoolType
    BY DEF Grows, Ready, Shape
<1>2. /\ Len(s.file) \in Nat /\ Len(t.file) \in Nat /\ Len(u.file) \in Nat
      /\ s.written \in Nat /\ t.written \in Nat /\ u.written \in Nat
    BY <1>1, SpoolParts
<1> QED
    BY <1>2 DEF Grows, Begins

\* writeGap only adds to the file.
LEMMA GapGrows == ASSUME NEW s, Ready(s), NEW o PROVE Grows(s, WriteGap(s, o))
<1> DEFINE z == [s EXCEPT !.lost = NoRange] t == Write(z, "gap", s.lost, <<>>, o)
<1>1. s \in SpoolType /\ Len(s.file) \in Nat /\ s.written \in Nat /\ s.lost \in RangeType
    BY SpoolParts DEF Ready, Shape
<1>2. CASE s.lost = NoRange
    BY <1>1, <1>2 DEF WriteGap, Grows, Begins
<1>3. CASE s.lost # NoRange
  <2>0. <<>> \in Seq(Nat)
    OBVIOUS
  <2>1. Ready(z) /\ z.file = s.file /\ z.written = s.written
    BY <1>1, TornLine DEF Ready, Shape, SpoolType
  <2>2. Grows(z, t)
    BY <1>1, <2>1, <2>0, WriteGrows
  <2>3. Grows(s, t)
    BY <2>1, <2>2 DEF Grows
  <2> HIDE DEF t
  <2>4. t \in SpoolType
    BY <2>3 DEF Grows, Ready, Shape
  <2>5. Grows(s, [t EXCEPT !.lost.from = s.lost.from])
    BY <1>1, <2>3, <2>4 DEF Grows, Ready, Shape, SpoolType, RangeType
  <2> QED
    BY <1>3, <2>3, <2>5 DEF WriteGap, t
<1> QED
    BY <1>2, <1>3

\* checkpoint only adds to the file.
LEMMA CheckpointGrows == ASSUME NEW s, Ready(s), NEW o PROVE Grows(s, Checkpoint(s, o))
<1> DEFINE t == Write(s, "checkpoint", NoRange, <<s.seq, s.prev>>, o)
<1>1. s.seq \in Nat /\ s.prev \in Nat
    BY SpoolParts DEF Ready, Shape
<1>0. <<s.seq, s.prev>> \in Seq(Nat)
    BY <1>1
<1>2. Grows(s, t)
    BY <1>0, WriteGrows, TornLine
<1> HIDE DEF t
<1>3. t \in SpoolType
    BY <1>2 DEF Grows, Ready, Shape
<1>4. Grows(s, [t EXCEPT !.since = 0])
    BY <1>2, <1>3 DEF Grows, Ready, Shape, SpoolType
<1> QED
    BY <1>2, <1>4 DEF Checkpoint, t

\* A write that succeeds leaves its line at the end of the file, and counts it.
LEMMA WriteOk ==
    ASSUME NEW s, Ready(s), NEW k \in {"record", "gap", "checkpoint"}, NEW lost \in RangeType,
           NEW signs \in Seq(Nat), NEW t, t = Write(s, k, lost, signs, "ok")
    PROVE  /\ t.written = s.written + 1 /\ Len(t.file) = Len(s.file) + 1
           /\ t.file[Len(s.file) + 1].hash = t.prev
<1>1. "ok" = "ok" =>
         /\ Write(s, k, lost, signs, "ok").written = s.written + 1
         /\ Len(Write(s, k, lost, signs, "ok").file) = Len(s.file) + 1
         /\ Write(s, k, lost, signs, "ok").file[Len(s.file) + 1].hash
                                = Write(s, k, lost, signs, "ok").prev
    BY WriteGrows, Zenon
<1> QED
    BY <1>1, Zenon

\* A line of f has hash h.
HasHash(f, h) == \E i \in 1 .. Len(f) : f[i].hash = h

\* The gap and the record of an Append only add to the file, and a record that is
\* written is on it and counted.
LEMMA RecordGrows ==
    ASSUME NEW s, Ready(s), NEW g, NEW o, NEW e \in Seq(Nat), NEW s1, NEW s2,
           s1 = WriteGap(s, g), s2 = Write(s1, "record", NoRange, e, o)
    PROVE  /\ Grows(s, s2)
           /\ o = "ok" => /\ s.written < s2.written
                          /\ HasHash(s2.file, s2.prev)
<1>1. Grows(s, s1) /\ Ready(s1)
    BY GapGrows DEF Grows
<1>2. NoRange \in RangeType /\ "record" \in {"record", "gap", "checkpoint"}
    BY TornLine
<1>3. Grows(s1, s2)
    BY <1>1, <1>2, WriteGrows
<1>4. ASSUME o = "ok"
      PROVE  /\ s2.written = s1.written + 1 /\ Len(s2.file) = Len(s1.file) + 1
             /\ s2.file[Len(s1.file) + 1].hash = s2.prev
  <2> DEFINE k == "record"
  <2>1. s2 = Write(s1, k, NoRange, e, "ok")
    BY <1>4
  <2>2. k \in {"record", "gap", "checkpoint"}
    OBVIOUS
  <2> HIDE DEF k
  <2> QED
    BY <1>1, <1>2, <2>1, <2>2, WriteOk
<1>5. Grows(s, s2)
    BY <1>1, <1>3, GrowsOn
<1>6. ASSUME o = "ok"
      PROVE  s.written < s2.written /\ HasHash(s2.file, s2.prev)
  <2>1. s.written \in Nat /\ s1.written \in Nat /\ Len(s1.file) \in Nat
    BY <1>1, SpoolParts DEF Ready, Shape
  <2>2. s.written <= s1.written
    BY <1>1 DEF Grows
  <2> QED
    BY <1>4, <1>6, <2>1, <2>2 DEF HasHash
<1> QED
    BY <1>5, <1>6

\* The checkpoint of an Append, if it writes one, only adds to that.
LEMMA AppendGrows ==
    ASSUME NEW s, NEW t, NEW u, NEW c, Ready(s), Grows(s, t), u \in {t, Checkpoint(t, c)}
    PROVE  /\ Grows(s, u) /\ u.written \in Nat /\ t.written \in Nat /\ t.prev \in Nat
           /\ t.written <= u.written
           /\ \A h : HasHash(t.file, h) => HasHash(u.file, h)
<1>1. Ready(t) /\ t \in SpoolType
    BY DEF Grows, Ready, Shape
<1>2. Grows(t, t)
    BY <1>1, SpoolParts DEF Grows, Begins
<1>3. Grows(t, u)
    BY <1>1, <1>2, CheckpointGrows
<1>4. Grows(s, u) /\ u \in SpoolType
    BY <1>3, GrowsOn DEF Grows, Ready, Shape
<1>5. /\ u.written \in Nat /\ t.written \in Nat /\ t.prev \in Nat
      /\ Len(t.file) \in Nat /\ Len(u.file) \in Nat
    BY <1>1, <1>4, SpoolParts
<1> QED
    BY <1>3, <1>4, <1>5 DEF Grows, Begins, HasHash

(***************************************************************************)
(* Sync appends.                                                           *)
(***************************************************************************)

\* A line with hash h is among the first m.
OnFile(h, m) == \E i \in 1 .. m : spool.file[i].hash = h

\* The process has the file open, or its memory is empty.
Opened ==
    /\ Shape(spool)
    /\ up # "down" => Ready(spool)
    /\ up = "down" => /\ spool.written = 0 /\ synced = 0 /\ ~syncing
                      /\ \A p \in Procs : pc[p] = "idle"

\* One fsync at a time, none once one has failed, and it began no later than
\* what it covers.
OneFsync ==
    /\ poison => ~syncing
    /\ \A p \in Procs : pc[p] \in {"lead", "closeLead"} => syncing
    /\ \A p, q \in Procs : pc[p] \in {"lead", "closeLead"} /\ pc[q] \in {"lead", "closeLead"} => p = q
    /\ synced <= spool.written
    /\ syncing => upto.w <= spool.written /\ durable <= upto.lines /\ upto.lines <= Len(spool.file)

\* A record that waits is on the file; among the durable lines once an fsync has
\* covered its number, and within the reach of the fsync that is to cover it.
Reached ==
    \A p \in Procs : pc[p] \in {"sync", "lead"} =>
       /\ OnFile(mine[p], Len(spool.file))
       /\ n[p] <= synced => OnFile(mine[p], durable)
       /\ syncing /\ n[p] <= upto.w => OnFile(mine[p], upto.lines)

SyncInv == TypeOK /\ Opened /\ OneFsync /\ Reached /\ AckedSurvive

\* What the first steps of the proof of each action need of the types.
LEMMA SyncTypes ==
    TypeOK => /\ spool.written \in Nat /\ spool.file \in Seq(LineType) /\ Len(spool.file) \in Nat
              /\ durable \in Nat /\ durable <= Len(spool.file)
              /\ synced \in Nat /\ upto.w \in Nat /\ upto.lines \in Nat
              /\ \A p \in Procs : n[p] \in Nat /\ mine[p] \in Nat
    BY SpoolParts DEF TypeOK

\* Writes keep what is known of the waiting records.
LEMMA GrowsKeeps ==
    ASSUME SyncInv, Grows(spool, spool')
    PROVE  /\ \A h : \A m \in 0 .. Len(spool.file) : OnFile(h, m) => OnFile(h, m)'
           /\ spool' \in SpoolType /\ Len(spool'.file) \in Nat /\ spool'.written \in Nat
           /\ Len(spool.file) <= Len(spool'.file) /\ spool.written <= spool'.written
<1>1. spool' \in SpoolType /\ Begins(spool.file, spool'.file) /\ spool.written <= spool'.written
    BY DEF Grows, Ready, Shape
<1>2. Len(spool'.file) \in Nat /\ spool'.written \in Nat /\ Len(spool.file) \in Nat
    BY <1>1, SpoolParts, SyncTypes DEF SyncInv
<1>3. \A h : \A m \in 0 .. Len(spool.file) : OnFile(h, m) => OnFile(h, m)'
  <2> SUFFICES ASSUME NEW h, NEW m \in 0 .. Len(spool.file), NEW i \in 1 .. m, spool.file[i].hash = h
               PROVE  \E j \in 1 .. m : spool'.file[j].hash = h
    BY DEF OnFile
  <2>1. spool'.file[i] = spool.file[i]
    BY <1>1, <1>2 DEF Begins
  <2> QED
    BY <2>1
<1> QED
    BY <1>1, <1>2, <1>3 DEF Begins

\* What is acked is among the durable lines.
LEMMA AckedOnFile ==
    /\ AckedSurvive <=> \A h \in acked : OnFile(h, durable)
    /\ AckedSurvive' <=> \A h \in acked' : OnFile(h, durable)'
    BY DEF AckedSurvive, OnFile

\* A step that only writes: who comes to wait has its record on the file, with a
\* number above all that was written before.
LEMMA WritesKeep ==
    ASSUME SyncInv, up = "open", Grows(spool, spool'), UNCHANGED <<up, syncVars, acked>>,
           closed' \in BOOLEAN, pc' \in [Procs -> {"idle", "sync", "lead", "close", "closeLead"}],
           n' \in [Procs -> Nat], mine' \in [Procs -> Nat],
           \A p \in Procs : pc'[p] \in {"lead", "closeLead"} => pc'[p] = pc[p],
           \A p \in Procs : pc'[p] \in {"sync", "lead"} =>
              \/ pc'[p] = pc[p] /\ n'[p] = n[p] /\ mine'[p] = mine[p]
              \/ OnFile(mine[p], Len(spool.file))' /\ spool.written < n'[p]
    PROVE  SyncInv'
<1> USE DEF syncVars
<1>1. /\ \A h : \A m \in 0 .. Len(spool.file) : OnFile(h, m) => OnFile(h, m)'
      /\ spool' \in SpoolType /\ Len(spool'.file) \in Nat /\ spool'.written \in Nat
      /\ Len(spool.file) <= Len(spool'.file) /\ spool.written <= spool'.written
    BY GrowsKeeps
<1>2. /\ spool.written \in Nat /\ Len(spool.file) \in Nat
      /\ durable \in Nat /\ durable <= Len(spool.file)
      /\ synced \in Nat /\ upto.w \in Nat /\ upto.lines \in Nat
    BY SyncTypes DEF SyncInv
<1>3. TypeOK'
    BY <1>1, <1>2 DEF SyncInv, TypeOK
<1>4. Opened'
    BY <1>1 DEF SyncInv, Opened, Grows, Ready
<1>5. OneFsync'
  <2>1. \A p \in Procs : pc'[p] \in {"lead", "closeLead"} => pc[p] \in {"lead", "closeLead"}
    OBVIOUS
  <2>2. /\ synced <= spool.written
        /\ syncing => upto.w <= spool.written /\ durable <= upto.lines /\ upto.lines <= Len(spool.file)
    BY DEF SyncInv, OneFsync
  <2>3. /\ synced <= spool'.written
        /\ syncing => upto.w <= spool'.written /\ durable <= upto.lines /\ upto.lines <= Len(spool'.file)
    BY <1>1, <1>2, <2>2
  <2> QED
    BY <2>1, <2>3 DEF SyncInv, OneFsync
<1>6. Reached'
  <2> SUFFICES ASSUME NEW p \in Procs, pc'[p] \in {"sync", "lead"}
               PROVE  /\ OnFile(mine[p], Len(spool.file))'
                      /\ n'[p] <= synced => OnFile(mine[p], durable)'
                      /\ syncing /\ n'[p] <= upto.w => OnFile(mine[p], upto.lines)'
    BY DEF Reached
  <2>0. n'[p] \in Nat
    OBVIOUS
  <2>1. CASE pc'[p] = pc[p] /\ n'[p] = n[p] /\ mine'[p] = mine[p]
    <3>1. /\ OnFile(mine[p], Len(spool.file))
          /\ n[p] <= synced => OnFile(mine[p], durable)
          /\ syncing /\ n[p] <= upto.w => OnFile(mine[p], upto.lines) /\ upto.lines <= Len(spool.file)
      BY <2>1 DEF SyncInv, Reached, OneFsync
    <3>2. \A m \in 0 .. Len(spool.file) : OnFile(mine[p], m) => \E i \in 1 .. m : spool'.file[i].hash = mine[p]
      BY <1>1 DEF OnFile
    <3>3. \E i \in 1 .. Len(spool'.file) : spool'.file[i].hash = mine[p]
      <4>1. \E i \in 1 .. Len(spool.file) : spool'.file[i].hash = mine[p]
        <5>1. Len(spool.file) \in 0 .. Len(spool.file)
          BY <1>2
        <5> QED
          BY <3>1, <3>2, <5>1
      <4> QED
        BY <1>1, <1>2, <4>1
    <3>4. n[p] <= synced => \E i \in 1 .. durable : spool'.file[i].hash = mine[p]
      BY <1>2, <3>1, <3>2
    <3>5. syncing /\ n[p] <= upto.w => \E i \in 1 .. upto.lines : spool'.file[i].hash = mine[p]
      BY <1>2, <3>1, <3>2
    <3> QED
      BY <2>1, <3>3, <3>4, <3>5 DEF OnFile
  <2>2. CASE OnFile(mine[p], Len(spool.file))' /\ spool.written < n'[p]
    BY <1>2, <2>0, <2>2 DEF SyncInv, OneFsync
  <2> QED
    BY <2>1, <2>2
<1>7. AckedSurvive'
  <2> SUFFICES ASSUME NEW h \in acked' PROVE OnFile(h, durable)'
    BY AckedOnFile
  <2>1. OnFile(h, durable)
    BY AckedOnFile DEF SyncInv
  <2>2. \A m \in 0 .. Len(spool.file) : OnFile(h, m) => \E i \in 1 .. m : spool'.file[i].hash = h
    BY <1>1 DEF OnFile
  <2>3. \E i \in 1 .. durable : spool'.file[i].hash = h
    BY <1>2, <2>1, <2>2
  <2> QED
    BY <2>3 DEF OnFile
<1> QED
    BY <1>3, <1>4, <1>5, <1>6, <1>7 DEF SyncInv

\* Append keeps the invariant.
LEMMA AppendSync ==
    ASSUME SyncInv, NEW p \in Procs, NEW d, AppendRecord(p, d) PROVE SyncInv'
<1>1. PICK g \in Outcomes, o \in Outcomes, c \in Outcomes :
          LET s1 == WriteGap(spool, g)
              s2 == Write(s1, "record", NoRange, <<>>, o)
              s3 == IF o = "ok" /\ s2.since >= Every THEN Checkpoint(s2, c) ELSE s2
          IN /\ spool' = s3
             /\ IF o = "ok" /\ d = "sync"
                THEN /\ pc' = [pc EXCEPT ![p] = "sync"]
                     /\ n' = [n EXCEPT ![p] = s3.written]
                     /\ mine' = [mine EXCEPT ![p] = s2.prev]
                ELSE UNCHANGED <<pc, n, mine>>
    BY DEF AppendRecord
<1> DEFINE s1 == WriteGap(spool, g)
           s2 == Write(s1, "record", NoRange, <<>>, o)
           s3 == IF o = "ok" /\ s2.since >= Every THEN Checkpoint(s2, c) ELSE s2
<1>2. /\ spool' = s3
      /\ \/ /\ o = "ok" /\ pc' = [pc EXCEPT ![p] = "sync"]
            /\ n' = [n EXCEPT ![p] = s3.written] /\ mine' = [mine EXCEPT ![p] = s2.prev]
         \/ UNCHANGED <<pc, n, mine>>
    BY <1>1
<1>3. up = "open" /\ UNCHANGED <<up, closed, syncVars, acked>>
    BY DEF AppendRecord
<1>4. Ready(spool)
    BY <1>3 DEF SyncInv, Opened
<1> DEFINE e == <<>>
<1>0. /\ s1 = WriteGap(spool, g) /\ s2 = Write(s1, "record", NoRange, e, o) /\ e \in Seq(Nat)
      /\ s3 \in {s2, Checkpoint(s2, c)}
    OBVIOUS
<1> HIDE DEF s1, s2, s3, e
<1>5. /\ Grows(spool, s3) /\ s3.written \in Nat /\ s2.prev \in Nat
      /\ o = "ok" => /\ spool.written < s3.written
                     /\ HasHash(s3.file, s2.prev)
  <2>1. /\ Grows(spool, s2)
        /\ o = "ok" => /\ spool.written < s2.written
                       /\ HasHash(s2.file, s2.prev)
    BY <1>0, <1>4, RecordGrows
  <2>2. /\ Grows(spool, s3) /\ s3.written \in Nat /\ s2.written \in Nat /\ s2.prev \in Nat
        /\ s2.written <= s3.written
        /\ \A h : HasHash(s2.file, h) => HasHash(s3.file, h)
    <3>1. Grows(spool, s2) /\ s3 \in {s2, Checkpoint(s2, c)}
      BY <1>0, <2>1
    <3> QED
      BY <1>4, <3>1, AppendGrows, Zenon
  <2>3. spool.written \in Nat
    BY SyncTypes DEF SyncInv
  <2> QED
    BY <2>1, <2>2, <2>3
<1>6. Grows(spool, spool')
    BY <1>2, <1>5
<1>7. closed \in BOOLEAN /\ pc \in [Procs -> {"idle", "sync", "lead", "close", "closeLead"}]
      /\ n \in [Procs -> Nat] /\ mine \in [Procs -> Nat]
    BY DEF SyncInv, TypeOK
<1>8. /\ pc' \in [Procs -> {"idle", "sync", "lead", "close", "closeLead"}]
      /\ n' \in [Procs -> Nat] /\ mine' \in [Procs -> Nat] /\ closed' \in BOOLEAN
    BY <1>2, <1>3, <1>5, <1>7
<1>9. \A q \in Procs : pc'[q] \in {"lead", "closeLead"} => pc'[q] = pc[q]
    BY <1>2, <1>7
<1>10. \A q \in Procs : pc'[q] \in {"sync", "lead"} =>
              \/ pc'[q] = pc[q] /\ n'[q] = n[q] /\ mine'[q] = mine[q]
              \/ OnFile(mine[q], Len(spool.file))' /\ spool.written < n'[q]
    BY <1>2, <1>5, <1>7 DEF OnFile, HasHash
<1> QED
    BY <1>3, <1>6, <1>8, <1>9, <1>10, WritesKeep

\* The writes of a Close only add to the file.
LEMMA CloseGrows ==
    ASSUME NEW s, Ready(s), NEW g, NEW c, NEW s1, NEW s2,
           s1 = WriteGap(s, g), s2 = IF s1.since > 0 THEN Checkpoint(s1, c) ELSE s1
    PROVE  Grows(s, s2) /\ s2.written \in Nat
<1>1. Grows(s, s1) /\ Ready(s1)
    BY GapGrows DEF Grows
<1>2. Grows(s1, Checkpoint(s1, c))
    BY <1>1, CheckpointGrows
<1>3. Grows(s, s2)
    BY <1>1, <1>2, GrowsOn
<1> QED
    BY <1>3, SpoolParts DEF Grows, Ready, Shape

\* So does Close.
LEMMA CloseSync == ASSUME SyncInv, NEW p \in Procs, CloseSpool(p) PROVE SyncInv'
<1>1. PICK g \in Outcomes, c \in Outcomes :
          LET s1 == WriteGap(spool, g)
              s2 == IF s1.since > 0 THEN Checkpoint(s1, c) ELSE s1
          IN spool' = s2 /\ n' = [n EXCEPT ![p] = s2.written]
    BY DEF CloseSpool
<1> DEFINE s1 == WriteGap(spool, g)
           s2 == IF s1.since > 0 THEN Checkpoint(s1, c) ELSE s1
<1>2. spool' = s2 /\ n' = [n EXCEPT ![p] = s2.written]
    BY <1>1
<1>3. /\ up = "open" /\ pc[p] = "idle" /\ closed' = TRUE /\ pc' = [pc EXCEPT ![p] = "close"]
      /\ UNCHANGED <<up, syncVars, mine, acked>>
    BY DEF CloseSpool
<1>4. Ready(spool)
    BY <1>3 DEF SyncInv, Opened
<1>5. Grows(spool, s2) /\ s2.written \in Nat
    BY <1>4, CloseGrows
<1> HIDE DEF s1, s2
<1>6. Grows(spool, spool')
    BY <1>2, <1>5
<1>7. pc \in [Procs -> {"idle", "sync", "lead", "close", "closeLead"}]
      /\ n \in [Procs -> Nat] /\ mine \in [Procs -> Nat]
    BY DEF SyncInv, TypeOK
<1>8. /\ pc' \in [Procs -> {"idle", "sync", "lead", "close", "closeLead"}]
      /\ n' \in [Procs -> Nat] /\ mine' \in [Procs -> Nat] /\ closed' \in BOOLEAN
    BY <1>2, <1>3, <1>5, <1>7
<1>9. \A q \in Procs : pc'[q] \in {"lead", "closeLead"} => pc'[q] = pc[q]
    BY <1>3, <1>7
<1>10. \A q \in Procs : pc'[q] \in {"sync", "lead"} =>
              \/ pc'[q] = pc[q] /\ n'[q] = n[q] /\ mine'[q] = mine[q]
              \/ OnFile(mine[q], Len(spool.file))' /\ spool.written < n'[q]
    BY <1>2, <1>3, <1>7
<1> QED
    BY <1>3, <1>6, <1>8, <1>9, <1>10, WritesKeep

\* The steps of syncThrough leave the file alone.
LEMMA GroupSync == ASSUME SyncInv, NEW p \in Procs, Sync(p) PROVE SyncInv'
<1> USE DEF syncVars
<1>1. /\ spool.written \in Nat /\ Len(spool.file) \in Nat
      /\ durable \in Nat /\ durable <= Len(spool.file)
      /\ synced \in Nat /\ upto.w \in Nat /\ upto.lines \in Nat
      /\ \A q \in Procs : n[q] \in Nat /\ mine[q] \in Nat
    BY SyncTypes DEF SyncInv
<1>2. \A h : \A m : \A k : OnFile(h, m) /\ m \in Nat /\ k \in Nat /\ m <= k => OnFile(h, k)
    BY DEF OnFile
<1>3. pc[p] # "idle" => up # "down"
    BY DEF SyncInv, Opened
<1>4. CASE Lead(p)
  <2>1. UNCHANGED <<up, spool, closed, synced, poison, n, mine, durable, acked>> /\ syncing' = TRUE
        /\ upto' = [w |-> spool.written, lines |-> Len(spool.file)] /\ ~poison /\ ~syncing
        /\ pc' = [pc EXCEPT ![p] = IF @ = "sync" THEN "lead" ELSE "closeLead"]
        /\ pc[p] \in {"sync", "close"}
    BY <1>4 DEF Lead
  <2>2. TypeOK'
    BY <1>1, <2>1 DEF SyncInv, TypeOK
  <2>3. Opened'
    BY <1>3, <2>1 DEF SyncInv, Opened
  <2>4. OneFsync'
    BY <1>1, <2>1 DEF SyncInv, OneFsync, TypeOK
  <2>5. Reached'
    BY <1>1, <2>1 DEF SyncInv, Reached, TypeOK, OnFile
  <2>6. AckedSurvive'
    BY <2>1 DEF SyncInv, AckedSurvive
  <2> QED
    BY <2>2, <2>3, <2>4, <2>5, <2>6 DEF SyncInv
<1>5. CASE FsyncOk(p)
  <2>1. /\ pc[p] \in {"lead", "closeLead"} /\ syncing' = FALSE /\ upto' = NoFsync
        /\ synced' = (IF synced > upto.w THEN synced ELSE upto.w)
        /\ durable' = (IF poison THEN durable ELSE upto.lines)
        /\ pc' = [pc EXCEPT ![p] = IF @ = "lead" THEN "sync" ELSE "close"]
        /\ UNCHANGED <<up, spool, closed, poison, n, mine, acked>>
    BY <1>5 DEF FsyncOk, Back
  <2>2. /\ syncing /\ ~poison /\ durable <= upto.lines /\ upto.lines <= Len(spool.file)
        /\ upto.w <= spool.written
    BY <2>1 DEF SyncInv, OneFsync
  <2>3. TypeOK'
    <3>1. synced' \in Nat /\ durable' \in 0 .. Len(spool.file)
      BY <1>1, <2>1, <2>2
    <3>2. upto' \in [w : Nat, lines : Nat] /\ syncing' \in BOOLEAN
      BY <2>1 DEF NoFsync
    <3>3. pc' \in [Procs -> {"idle", "sync", "lead", "close", "closeLead"}]
      BY <2>1 DEF SyncInv, TypeOK
    <3> QED
      BY <2>1, <3>1, <3>2, <3>3 DEF SyncInv, TypeOK
  <2>4. Opened'
    BY <1>3, <2>1 DEF SyncInv, Opened
  <2>5. OneFsync'
    BY <1>1, <2>1, <2>2 DEF SyncInv, OneFsync, TypeOK
  <2>6. Reached'
    <3> SUFFICES ASSUME NEW q \in Procs, pc'[q] \in {"sync", "lead"}
                 PROVE  OnFile(mine[q], Len(spool.file))' /\ (n'[q] <= synced' => OnFile(mine[q], durable)')
      BY <2>1 DEF Reached
    <3>1. pc[q] \in {"sync", "lead"}
      BY <2>1 DEF SyncInv, TypeOK
    <3>2. /\ OnFile(mine[q], Len(spool.file)) /\ (n[q] <= synced => OnFile(mine[q], durable))
          /\ n[q] <= upto.w => OnFile(mine[q], upto.lines)
      BY <2>2, <3>1 DEF SyncInv, Reached
    <3>3. n[q] <= synced' => OnFile(mine[q], upto.lines)
      BY <1>1, <1>2, <2>1, <2>2, <3>2
    <3> QED
      BY <2>1, <2>2, <3>2, <3>3 DEF OnFile
  <2>7. AckedSurvive'
    <3>1. \A h \in acked : OnFile(h, upto.lines)
      BY <1>1, <1>2, <2>2, AckedOnFile DEF SyncInv
    <3> QED
      BY <2>1, <2>2, <3>1, AckedOnFile DEF OnFile
  <2> QED
    BY <2>3, <2>4, <2>5, <2>6, <2>7 DEF SyncInv
<1>6. CASE FsyncFails(p)
  <2>1. /\ pc[p] \in {"lead", "closeLead"} /\ syncing' = FALSE /\ upto' = NoFsync /\ poison' = TRUE
        /\ pc' = [pc EXCEPT ![p] = IF @ = "lead" THEN "sync" ELSE "close"]
        /\ UNCHANGED <<up, spool, closed, synced, n, mine, durable, acked>>
    BY <1>6 DEF FsyncFails, Back
  <2>2. TypeOK'
    BY <1>1, <2>1 DEF SyncInv, TypeOK, NoFsync
  <2>3. Opened'
    BY <1>3, <2>1 DEF SyncInv, Opened
  <2>4. OneFsync'
    BY <1>1, <2>1 DEF SyncInv, OneFsync, TypeOK
  <2>5. Reached'
    BY <2>1 DEF SyncInv, Reached, TypeOK, OnFile
  <2>6. AckedSurvive'
    BY <2>1 DEF SyncInv, AckedSurvive
  <2> QED
    BY <2>2, <2>3, <2>4, <2>5, <2>6 DEF SyncInv
<1>7. ASSUME pc[p] \in {"sync", "close"}, Returns(p), UNCHANGED <<spool, closed, syncVars>>,
             up' = up \/ up' = "closed",
             acked' = acked \/ (pc[p] = "sync" /\ n[p] <= synced /\ acked' = acked \cup {mine[p]})
      PROVE  SyncInv'
  <2>1. /\ pc' = [pc EXCEPT ![p] = "idle"] /\ n' = [n EXCEPT ![p] = 0] /\ mine' = [mine EXCEPT ![p] = 0]
    BY <1>7 DEF Returns
  <2>2. TypeOK'
    BY <1>1, <1>7, <2>1 DEF SyncInv, TypeOK
  <2>3. Opened'
    BY <1>3, <1>7, <2>1 DEF SyncInv, Opened
  <2>4. OneFsync'
    BY <1>7, <2>1 DEF SyncInv, OneFsync, TypeOK
  <2>5. Reached'
    BY <1>7, <2>1 DEF SyncInv, Reached, TypeOK, OnFile
  <2>6. AckedSurvive'
    <3>1. \A h \in acked' : OnFile(h, durable)
      BY <1>7, AckedOnFile DEF SyncInv, Reached
    <3> QED
      BY <1>7, <3>1, AckedOnFile DEF OnFile
  <2> QED
    BY <2>2, <2>3, <2>4, <2>5, <2>6 DEF SyncInv
<1>8. CASE SyncDone(p)
    BY <1>1, <1>7, <1>8 DEF SyncDone
<1>9. CASE SyncRefused(p)
    BY <1>7, <1>9 DEF SyncRefused
<1>10. CASE CloseDone(p)
    BY <1>7, <1>10 DEF CloseDone
<1> QED
    BY <1>4, <1>5, <1>6, <1>8, <1>9, <1>10 DEF Sync

\* The first m lines of a file.
LEMMA FirstLines ==
    ASSUME NEW f \in Seq(LineType), NEW m \in 0 .. Len(f), NEW h, h = SubSeq(f, 1, m)
    PROVE  h \in Seq(LineType) /\ Len(h) = m /\ \A i \in 1 .. m : h[i] = f[i]
<1>1. Len(f) \in Nat /\ m \in Int /\ 1 \in Int /\ \A i \in 1 .. m : f[i] \in LineType
    OBVIOUS
<1>2. /\ SubSeq(f, 1, m) \in Seq(LineType)
      /\ Len(SubSeq(f, 1, m)) = IF 1 <= m THEN m - 1 + 1 ELSE 0
      /\ \A i \in 1 .. m - 1 + 1 : SubSeq(f, 1, m)[i] = f[1 + i - 1]
    BY <1>1, SubSeqProperties
<1> QED
    BY <1>1, <1>2

\* What a crash leaves: the file up to some line that is not durable, maybe a
\* part of the next, and no memory.
LEMMA CrashLeaves ==
    ASSUME TypeOK, Shape(spool), Crash
    PROVE  /\ Shape(spool') /\ spool'.written = 0
           /\ \E m \in durable .. Len(spool.file), h \in Seq(LineType) :
                 /\ Len(h) = m /\ \A i \in 1 .. m : h[i] = spool.file[i]
                 /\ spool'.file \in {h, Append(h, Torn)}
<1>1. PICK m \in durable .. Len(spool.file), cut \in BOOLEAN, r \in BOOLEAN :
          spool' = [spool EXCEPT
                !.file = IF cut THEN Append(SubSeq(@, 1, m), Torn) ELSE SubSeq(@, 1, m),
                !.ragged = IF cut THEN TRUE ELSE m > 0 /\ (r \/ (m = Len(spool.file) /\ @)),
                !.newline = FALSE, !.seq = 0, !.prev = 0,
                !.lost = NoRange, !.since = 0, !.written = 0]
    BY DEF Crash
<1> DEFINE h == SubSeq(spool.file, 1, m)
           f == IF cut THEN Append(h, Torn) ELSE h
           b == IF cut THEN TRUE ELSE m > 0 /\ (r \/ (m = Len(spool.file) /\ spool.ragged))
<1>2. /\ spool \in SpoolType /\ spool.file \in Seq(LineType) /\ Len(spool.file) \in Nat
      /\ spool.ids \in Nat /\ m \in 0 .. Len(spool.file)
      /\ \A i \in 1 .. Len(spool.file) : spool.file[i].seq <= spool.ids
    BY SpoolParts DEF TypeOK, Shape
<1>3. h \in Seq(LineType) /\ Len(h) = m /\ \A i \in 1 .. m : h[i] = spool.file[i]
    BY <1>2, FirstLines
<1>4. spool' = [spool EXCEPT !.file = f, !.ragged = b, !.newline = FALSE, !.seq = 0, !.prev = 0,
                             !.lost = NoRange, !.since = 0, !.written = 0]
    BY <1>1, <1>2 DEF SpoolType
<1>5. f \in {h, Append(h, Torn)} /\ b \in BOOLEAN
    OBVIOUS
<1> HIDE DEF h, f, b
<1>6. f \in Seq(LineType)
    BY <1>3, <1>5, Appended, TornLine
<1>7. spool' \in SpoolType
    BY <1>2, <1>4, <1>5, <1>6, TornLine DEF SpoolType
<1>8. spool'.file = f /\ spool'.written = 0 /\ spool'.seq = 0 /\ spool'.ids = spool.ids
    BY <1>2, <1>4 DEF SpoolType
<1>9. \A i \in 1 .. Len(f) : f[i].seq <= spool.ids
  <2>1. CASE f = h
    BY <1>2, <1>3, <2>1
  <2>2. CASE f = Append(h, Torn)
    <3>1. Len(f) = m + 1 /\ f[m + 1] = Torn /\ \A i \in 1 .. m : f[i] = spool.file[i]
      BY <1>3, <2>2, Appended, TornLine
    <3> QED
      BY <1>2, <3>1, TornLine
  <2> QED
    BY <1>5, <2>1, <2>2
<1>10. Shape(spool')
    BY <1>2, <1>7, <1>8, <1>9 DEF Shape
<1> QED
    BY <1>3, <1>5, <1>8, <1>10

\* A crash keeps the invariant: what is durable, and so all that is acked, is
\* left.
LEMMA CrashSync == ASSUME SyncInv, Crash PROVE SyncInv'
<1>1. /\ up' = "down" /\ closed' = FALSE /\ UNCHANGED <<durable, acked>>
      /\ pc' = [p \in Procs |-> "idle"] /\ n' = [p \in Procs |-> 0] /\ mine' = [p \in Procs |-> 0]
      /\ synced' = 0 /\ syncing' = FALSE /\ poison' = FALSE /\ upto' = NoFsync
    BY DEF Crash
<1>2. TypeOK /\ Shape(spool)
    BY DEF SyncInv, Opened
<1>3. Shape(spool') /\ spool'.written = 0
    BY <1>2, CrashLeaves
<1>4. PICK m \in durable .. Len(spool.file), h \in Seq(LineType) :
         /\ Len(h) = m /\ \A i \in 1 .. m : h[i] = spool.file[i]
         /\ spool'.file \in {h, Append(h, Torn)}
    BY <1>2, CrashLeaves
<1>5. m \in Nat /\ durable \in Nat /\ durable <= m
    BY <1>2, SyncTypes
<1>6. Len(spool'.file) \in Nat /\ m <= Len(spool'.file) /\ \A i \in 1 .. m : spool'.file[i] = spool.file[i]
  <2>1. CASE spool'.file = h
    BY <1>4, <1>5, <2>1
  <2>2. CASE spool'.file = Append(h, Torn)
    BY <1>4, <1>5, <2>2, Appended, TornLine
  <2> QED
    BY <1>4, <2>1, <2>2
<1>7. TypeOK'
  <2>1. durable \in 0 .. Len(spool'.file)
    BY <1>5, <1>6
  <2>2. upto' \in [w : Nat, lines : Nat]
    BY <1>1 DEF NoFsync
  <2> QED
    BY <1>1, <1>2, <1>3, <2>1, <2>2 DEF TypeOK, Shape
<1>8. Opened' /\ OneFsync' /\ Reached'
    BY <1>1, <1>3 DEF Opened, OneFsync, Reached
<1>9. AckedSurvive'
  <2> SUFFICES ASSUME NEW a \in acked PROVE \E i \in 1 .. durable : spool'.file[i].hash = a
    BY <1>1 DEF AckedSurvive
  <2>1. PICK i \in 1 .. durable : spool.file[i].hash = a
    BY DEF SyncInv, AckedSurvive
  <2>2. spool'.file[i] = spool.file[i]
    BY <1>5, <1>6
  <2> QED
    BY <2>1, <2>2
<1> QED
    BY <1>7, <1>8, <1>9 DEF SyncInv

\* The last readable line and the highest number of a file.
LastSeq(f) == Max({0} \cup {f[i].seq : i \in Readable(f)})
LastHash(f) == IF Readable(f) = {} THEN 0 ELSE f[Max(Readable(f))].hash

\* They are there, and bounded.
LEMMA LastLine ==
    ASSUME NEW f \in Seq(LineType), NEW N \in Nat, \A i \in 1 .. Len(f) : f[i].seq <= N
    PROVE  /\ LastSeq(f) \in Nat /\ LastSeq(f) <= N /\ LastHash(f) \in Nat
           /\ LastSeq(f) \in {0} \cup {f[i].seq : i \in Readable(f)}
           /\ \A i \in Readable(f) : f[i].seq <= LastSeq(f)
           /\ Readable(f) # {} => /\ Max(Readable(f)) \in Readable(f)
                                  /\ \A i \in Readable(f) : i <= Max(Readable(f))
<1> DEFINE R == Readable(f) S == {0} \cup {f[i].seq : i \in R}
<1>1. Len(f) \in Nat /\ DOMAIN f = 1 .. Len(f)
    OBVIOUS
<1>2. R \subseteq 1 .. Len(f)
    BY <1>1 DEF Readable
<1>3. \A i \in 1 .. Len(f) : f[i].seq \in Nat /\ f[i].hash \in Nat
  <2>1. \A i \in 1 .. Len(f) : f[i] \in LineType
    OBVIOUS
  <2> QED
    BY <2>1 DEF LineType
<1>4. Max(S) \in S /\ \A y \in S : Max(S) >= y
  <2>1. S \subseteq Nat /\ S # {} /\ \A x \in S : x <= N
    BY <1>2, <1>3
  <2> HIDE DEF S
  <2> QED
    BY <2>1, MaxIn
<1>5. Max(S) \in Nat /\ Max(S) <= N /\ \A i \in R : f[i].seq <= Max(S)
  <2>1. S \subseteq Nat /\ (\A x \in S : x <= N) /\ \A i \in R : f[i].seq \in S
    BY <1>2, <1>3
  <2> HIDE DEF S
  <2>2. Max(S) \in Nat /\ Max(S) <= N
    BY <1>4, <2>1
  <2> QED
    BY <1>4, <2>1, <2>2
<1>6. R # {} => Max(R) \in R /\ \A i \in R : i <= Max(R)
  <2> SUFFICES ASSUME R # {} PROVE Max(R) \in R /\ \A i \in R : i <= Max(R)
    OBVIOUS
  <2>1. R \subseteq Nat /\ \A x \in R : x <= Len(f)
    BY <1>1, <1>2
  <2> HIDE DEF R
  <2>2. Max(R) \in R /\ \A y \in R : Max(R) >= y
    BY <1>1, <2>1, MaxIn
  <2> QED
    BY <2>1, <2>2
<1>7. LastHash(f) \in Nat
    BY <1>2, <1>3, <1>6 DEF LastHash
<1> QED
    BY <1>4, <1>5, <1>6, <1>7 DEF LastSeq

\* The spool as OpenSpool finds it, before it writes.
Found == [spool EXCEPT !.newline = spool.ragged, !.seq = LastSeq(spool.file), !.prev = LastHash(spool.file),
                       !.lost = NoRange, !.since = 0, !.written = 0]
EndsTorn == Len(spool.file) > 0 /\ Len(spool.file) \notin Readable(spool.file)

\* It is ready to write, with the file as it was.
LEMMA FoundReady ==
    ASSUME Shape(spool)
    PROVE  /\ Ready(Found) /\ Found.file = spool.file /\ Found.written = 0 /\ Found.ids = spool.ids
           /\ Found.seq = LastSeq(spool.file) /\ Found.prev = LastHash(spool.file)
           /\ Found.lost = NoRange /\ Found.since = 0
<1>1. /\ spool \in SpoolType /\ spool.file \in Seq(LineType) /\ spool.ids \in Nat
      /\ spool.ragged \in BOOLEAN
    BY SpoolParts DEF Shape
<1>2. LastSeq(spool.file) \in Nat /\ LastSeq(spool.file) <= spool.ids /\ LastHash(spool.file) \in Nat
    BY <1>1, LastLine DEF Shape
<1>3. Found \in SpoolType
    BY <1>1, <1>2, TornLine DEF Found, SpoolType
<1>4. /\ Found.file = spool.file /\ Found.written = 0 /\ Found.ids = spool.ids
      /\ Found.seq = LastSeq(spool.file) /\ Found.prev = LastHash(spool.file)
      /\ Found.lost = NoRange /\ Found.since = 0 /\ Found.newline = spool.ragged
      /\ Found.ragged = spool.ragged
    BY <1>1 DEF Found, SpoolType
<1> QED
    BY <1>2, <1>3, <1>4 DEF Ready, Shape

\* OpenSpool, by whether the last line reads and whether the gap is written.
LEMMA OpenIs ==
    ASSUME OpenSpool
    PROVE  \/ ~EndsTorn /\ spool' = Found /\ up' = "open"
           \/ /\ EndsTorn
              /\ \E o \in Outcomes : /\ spool' = Write(Found, "gap", NoRange, <<>>, o)
                                     /\ up' = IF o = "ok" THEN "open" ELSE "down"
    BY DEF OpenSpool, EndsTorn, Found, LastSeq, LastHash

\* An open keeps the invariant.
LEMMA OpenSync == ASSUME SyncInv, OpenSpool PROVE SyncInv'
<1>1. up = "down" /\ UNCHANGED <<closed, syncVars, pc, n, mine, acked>>
    BY DEF OpenSpool
<1>2. TypeOK /\ Shape(spool) /\ synced = 0 /\ ~syncing /\ \A p \in Procs : pc[p] = "idle"
    BY <1>1 DEF SyncInv, Opened
<1>3. Ready(Found) /\ Found.file = spool.file /\ Found.written = 0
    BY <1>2, FoundReady
<1>4. Found \in SpoolType /\ Len(Found.file) \in Nat
    BY <1>3, SpoolParts DEF Ready, Shape
<1>5. Grows(Found, spool') /\ up' \in {"open", "down"} /\ (up' = "down" => spool'.written = 0)
  <2>1. CASE spool' = Found /\ up' = "open"
    BY <1>3, <1>4, <2>1 DEF Grows, Begins
  <2>2. ASSUME NEW o \in Outcomes, spool' = Write(Found, "gap", NoRange, <<>>, o),
               up' = IF o = "ok" THEN "open" ELSE "down"
        PROVE  Grows(Found, spool') /\ up' \in {"open", "down"} /\ (up' = "down" => spool'.written = 0)
    <3> DEFINE e == <<>> k == "gap"
    <3>1. spool' = Write(Found, k, NoRange, e, o) /\ e \in Seq(Nat) /\ k \in {"record", "gap", "checkpoint"}
      BY <2>2
    <3> HIDE DEF e, k
    <3>2. Grows(Found, spool')
      BY <1>3, <3>1, WriteGrows, TornLine
    <3>3. o # "ok" => spool'.written = 0
      <4>1. o # "ok" => spool'.written = Found.written
        BY <1>4, <3>1 DEF Write, SpoolType
      <4> QED
        BY <1>3, <4>1
    <3> QED
      BY <2>2, <3>2, <3>3
  <2> QED
    BY <2>1, <2>2, OpenIs
<1>6. /\ Ready(spool') /\ spool' \in SpoolType /\ Len(spool'.file) \in Nat /\ spool'.written \in Nat
      /\ Begins(spool.file, spool'.file)
    BY <1>3, <1>5, SpoolParts DEF Grows, Ready, Shape
<1>7. durable \in Nat /\ durable <= Len(spool.file) /\ Len(spool.file) \in Nat
    BY <1>2, SyncTypes
<1>8. TypeOK'
  <2>1. durable \in 0 .. Len(spool'.file)
    BY <1>6, <1>7 DEF Begins
  <2> QED
    BY <1>1, <1>2, <1>5, <1>6, <2>1 DEF TypeOK, syncVars
<1>9. Opened' /\ OneFsync' /\ Reached'
  <2>1. Opened'
    BY <1>1, <1>2, <1>5, <1>6 DEF Opened, Ready, syncVars
  <2>2. OneFsync'
    BY <1>1, <1>2, <1>6 DEF OneFsync, syncVars
  <2>3. Reached'
    BY <1>1, <1>2 DEF Reached
  <2> QED
    BY <2>1, <2>2, <2>3
<1>10. AckedSurvive'
  <2> SUFFICES ASSUME NEW a \in acked PROVE \E i \in 1 .. durable : spool'.file[i].hash = a
    BY <1>1 DEF AckedSurvive, syncVars
  <2>1. PICK i \in 1 .. durable : spool.file[i].hash = a
    BY DEF SyncInv, AckedSurvive
  <2>2. spool'.file[i] = spool.file[i]
    BY <1>6, <1>7 DEF Begins
  <2> QED
    BY <2>1, <2>2
<1> QED
    BY <1>8, <1>9, <1>10 DEF SyncInv

\* SyncInv is an invariant, whatever fails.
THEOREM AuditSyncInvariant == Spec => []SyncInv
<1>1. Init => SyncInv
  <2> SUFFICES ASSUME Init PROVE SyncInv
    OBVIOUS
  <2>1. spool \in SpoolType /\ spool.file = <<>> /\ Len(spool.file) = 0
    BY DEF Init, SpoolType, RangeType, NoRange
  <2>2. TypeOK
    <3>1. /\ upto \in [w : Nat, lines : Nat] /\ acked \subseteq Nat
          /\ synced \in Nat /\ durable \in 0 .. Len(spool.file)
      BY <2>1 DEF Init, NoFsync
    <3>2. /\ pc \in [Procs -> {"idle", "sync", "lead", "close", "closeLead"}]
          /\ n \in [Procs -> Nat] /\ mine \in [Procs -> Nat]
      BY DEF Init
    <3>3. closed \in BOOLEAN /\ syncing \in BOOLEAN /\ poison \in BOOLEAN /\ up \in {"down", "open", "closed"}
      BY DEF Init
    <3> QED
      BY <2>1, <3>1, <3>2, <3>3 DEF TypeOK
  <2>3. Opened
    BY <2>1 DEF Init, Opened, Shape
  <2>4. OneFsync /\ Reached /\ AckedSurvive
    BY <2>1 DEF Init, OneFsync, Reached, AckedSurvive
  <2> QED
    BY <2>2, <2>3, <2>4 DEF SyncInv
<1>2. SyncInv /\ [Next]_vars => SyncInv'
  <2> SUFFICES ASSUME SyncInv, [Next]_vars PROVE SyncInv'
    OBVIOUS
  <2>1. ASSUME NEW p \in Procs, NEW d \in {"sync", "best"}, AppendRecord(p, d) PROVE SyncInv'
    BY <2>1, AppendSync
  <2>2. ASSUME NEW p \in Procs, CloseSpool(p) PROVE SyncInv'
    BY <2>2, CloseSync
  <2>3. ASSUME NEW p \in Procs, Sync(p) PROVE SyncInv'
    BY <2>3, GroupSync
  <2>4. CASE Crash
    BY <2>4, CrashSync
  <2>5. CASE OpenSpool
    BY <2>5, OpenSync
  <2>6. CASE UNCHANGED vars
    BY <2>6 DEF vars, SyncInv, TypeOK, Opened, OneFsync, Reached, AckedSurvive, OnFile
  <2> QED
    BY <2>1, <2>2, <2>3, <2>4, <2>5, <2>6 DEF Next
<1> QED
    BY <1>1, <1>2, PTL DEF Spec

\* The spool's variables keep their types.
THEOREM AuditTypeOK == Spec => []TypeOK
<1>1. SyncInv => TypeOK
    BY DEF SyncInv
<1> QED
    BY <1>1, AuditSyncInvariant, PTL

\* An acked Sync record is among the durable lines for good, whichever fsync
\* covered it, whatever failed, and however often the machine crashed since.
THEOREM AuditAckedSurvive == Spec => []AckedSurvive
<1>1. SyncInv => AckedSurvive
    BY DEF SyncInv
<1> QED
    BY <1>1, AuditSyncInvariant, PTL

(***************************************************************************)
(* The chain.  A write that fails leaves nothing or an unreadable line, and the *)
(* write that follows a failed gap under the same hold of s.mu fails too.  *)
(***************************************************************************)

Handled == Faults \subseteq {"clean", "torn"}

\* The range holds the numbers above q that this spool has assigned, and the last
\* readable line is what the next one links to.
Above(s, q) ==
    \/ s.lost = NoRange /\ s.seq = q
    \/ s.lost # NoRange /\ s.lost.from = q + 1 /\ s.lost.to = s.seq /\ s.seq > q
Ends(s) ==
    \/ Blank(s.file, Len(s.file)) /\ s.prev = 0 /\ Above(s, 0)
    \/ \E b \in 1 .. Len(s.file) : /\ Tip(s.file, b, Len(s.file))
                                   /\ s.prev = s.file[b].hash /\ Above(s, s.file[b].seq)

\* Only an unreadable last line that a gap is due for is left standing, and there
\* is a line to sign when a checkpoint is due.
Whole(s) == s.lost = NoRange /\ Len(s.file) > 0 => s.file[Len(s.file)].k # "torn"
Signed(s) == s.since > 0 => ~Blank(s.file, Len(s.file))
Chain(s) == FileOk(s.file) /\ Ends(s) /\ Signed(s)

ChainInv ==
    /\ SyncInv /\ FileOk(spool.file)
    /\ up # "down" => Chain(spool) /\ Whole(spool)

\* The numbers of a spool and of its lines.
LEMMA ChainTypes ==
    ASSUME NEW s, Ready(s)
    PROVE  /\ s \in SpoolType /\ s.file \in Seq(LineType) /\ Len(s.file) \in Nat /\ s.seq \in Nat /\ s.ids \in Nat
           /\ s.lost \in RangeType /\ s.lost.from \in Nat /\ s.lost.to \in Nat /\ s.since \in Nat
           /\ s.prev \in Nat
           /\ \A i \in 1 .. Len(s.file) : s.file[i] \in LineType /\ s.file[i].seq \in Nat
<1>1. s \in SpoolType
    BY DEF Ready, Shape
<1>2. /\ s.file \in Seq(LineType) /\ Len(s.file) \in Nat /\ s.seq \in Nat /\ s.ids \in Nat
      /\ s.lost \in RangeType /\ s.since \in Nat /\ s.prev \in Nat
    BY <1>1, SpoolParts
<1>3. s.lost.from \in Nat /\ s.lost.to \in Nat
    BY <1>2 DEF RangeType
<1>4. \A i \in 1 .. Len(s.file) : s.file[i] \in LineType
    BY <1>2
<1>5. \A l \in LineType : l.seq \in Nat
    BY DEF LineType
<1> QED
    BY <1>1, <1>2, <1>3, <1>4, <1>5

\* A line that fits and is written becomes the last one.
LEMMA WriteFits ==
    ASSUME NEW s, Ready(s), FileOk(s.file), s.lost = NoRange,
           NEW k \in {"record", "gap", "checkpoint"}, NEW lost \in RangeType, NEW signs \in Seq(Nat),
           Fits(s.file, Len(s.file), Line(s, k, lost, signs)),
           NEW t, t = Write(s, k, lost, signs, "ok")
    PROVE  Ready(t) /\ Chain(t) /\ Whole(t) /\ t.lost = NoRange /\ ~Blank(t.file, Len(t.file))
<1> DEFINE l == Line(s, k, lost, signs)
<1>1. /\ s \in SpoolType /\ s.file \in Seq(LineType) /\ Len(s.file) \in Nat
      /\ s.seq \in Nat /\ s.ids \in Nat
    BY ChainTypes
<1>2. l \in LineType /\ l.k = k /\ l.seq = s.seq + 1 /\ l.hash = s.ids + 1
    BY WriteIs DEF Line
<1>3. Ready(t)
  <2>1. Grows(s, Write(s, k, lost, signs, "ok"))
    BY WriteGrows
  <2> QED
    BY <2>1 DEF Grows
<1>4. t = [s EXCEPT !.file = Append(s.file, l), !.ragged = FALSE,
                    !.newline = FALSE, !.seq = s.seq + 1, !.prev = s.ids + 1, !.ids = s.ids + 1,
                    !.since = s.since + 1, !.written = s.written + 1]
  <2>1. \A x : Put(s, x) = Append(s.file, x)
    BY DEF Put, Ready
  <2> QED
    BY <1>1, <2>1 DEF Write, Line
<1>5. FileOk(Append(s.file, l))
    BY <1>1, <1>2, OneMore
<1> HIDE DEF l
<1>6. t.file = Append(s.file, l) /\ t.seq = s.seq + 1 /\ t.prev = s.ids + 1 /\ t.lost = NoRange
    BY <1>1, <1>4 DEF SpoolType
<1>7. Len(t.file) = Len(s.file) + 1 /\ t.file[Len(s.file) + 1] = l
    BY <1>1, <1>2, <1>6, Appended
<1>8. k # "torn"
    OBVIOUS
<1>9. Tip(t.file, Len(t.file), Len(t.file)) /\ ~Blank(t.file, Len(t.file))
    BY <1>1, <1>2, <1>7, <1>8 DEF Tip, Blank
<1>10. Ends(t)
  <2>1. Len(t.file) \in 1 .. Len(t.file) /\ t.file[Len(t.file)] = l
    BY <1>1, <1>7
  <2>2. t.prev = t.file[Len(t.file)].hash /\ Above(t, t.file[Len(t.file)].seq)
    BY <1>2, <1>6, <2>1 DEF Above
  <2> QED
    BY <1>9, <2>1, <2>2 DEF Ends
<1> QED
    BY <1>3, <1>5, <1>6, <1>9, <1>10, <1>2, <1>7, <1>8 DEF Chain, Signed, Whole

\* A write that fails adds its number to the range, and at most an unreadable line
\* to the file.
LEMMA WriteFails ==
    ASSUME NEW s, Ready(s), Chain(s), NEW o \in {"clean", "torn"},
           NEW k \in {"record", "gap", "checkpoint"}, NEW lost \in RangeType, NEW signs \in Seq(Nat),
           NEW t, t = Write(s, k, lost, signs, o)
    PROVE  Ready(t) /\ Chain(t) /\ Whole(t) /\ t.lost # NoRange
<1>1. /\ s \in SpoolType /\ s.file \in Seq(LineType) /\ Len(s.file) \in Nat /\ s.seq \in Nat
      /\ s.lost \in RangeType /\ s.lost.from \in Nat /\ s.lost.to \in Nat
      /\ \A i \in 1 .. Len(s.file) : s.file[i] \in LineType /\ s.file[i].seq \in Nat
    BY ChainTypes
<1>2. Ready(t)
  <2>1. Grows(s, Write(s, k, lost, signs, o))
    BY WriteGrows
  <2> QED
    BY <2>1 DEF Grows
<1>3. o # "ok" /\ o # "whole"
    OBVIOUS
<1>4. /\ t.file = (IF o = "clean" THEN s.file ELSE Append(s.file, Torn))
      /\ t.seq = s.seq + 1 /\ t.prev = s.prev /\ t.since = s.since
      /\ t.lost = Lose(s.lost, s.seq + 1)
  <2>1. \A l : Put(s, l) = Append(s.file, l)
    BY DEF Put, Ready
  <2> QED
    BY <1>1, <1>3, <2>1 DEF Write, SpoolType
<1>5. FileOk(t.file)
  <2>1. FileOk(s.file)
    BY DEF Chain
  <2>2. FileOk(Append(s.file, Torn))
    BY <1>1, <2>1, OneMore, TornLine
  <2> QED
    BY <1>4, <2>1, <2>2
<1>6. /\ t.file \in Seq(LineType) /\ Len(t.file) \in Nat /\ Len(s.file) <= Len(t.file)
      /\ \A i \in 1 .. Len(s.file) : t.file[i] = s.file[i]
      /\ \A i \in Len(s.file) + 1 .. Len(t.file) : t.file[i].k = "torn"
  <2>1. CASE t.file = s.file
    BY <1>1, <2>1
  <2>2. CASE t.file = Append(s.file, Torn)
    BY <1>1, <2>2, Appended, TornLine
  <2> QED
    BY <1>4, <2>1, <2>2
<1>7. \A q \in Nat : Above(s, q) => Above(t, q) /\ t.lost # NoRange
  <2> SUFFICES ASSUME NEW q \in Nat, Above(s, q) PROVE Above(t, q) /\ t.lost # NoRange
    OBVIOUS
  <2>1. CASE s.lost = NoRange
    <3>1. t.lost = [from |-> q + 1, to |-> q + 1] /\ t.seq = q + 1
      BY <1>4, <2>1 DEF Lose, Above
    <3> QED
      BY <3>1 DEF Above, NoRange
  <2>2. CASE s.lost # NoRange
    <3>1. t.lost.from = q + 1 /\ t.lost.to = s.seq + 1 /\ s.seq > q
      BY <1>1, <1>4, <2>2 DEF Lose, Above, RangeType
    <3> QED
      BY <1>1, <1>4, <3>1 DEF Above, NoRange
  <2> QED
    BY <2>1, <2>2
<1>8. Ends(t) /\ t.lost # NoRange
  <2>1. CASE Blank(s.file, Len(s.file)) /\ s.prev = 0 /\ Above(s, 0)
    <3>1. Blank(t.file, Len(t.file))
      BY <1>1, <1>6, <2>1 DEF Blank
    <3> QED
      BY <1>4, <1>7, <2>1, <3>1 DEF Ends
  <2>2. ASSUME NEW b \in 1 .. Len(s.file), Tip(s.file, b, Len(s.file)),
               s.prev = s.file[b].hash, Above(s, s.file[b].seq)
        PROVE  Ends(t) /\ t.lost # NoRange
    <3>1. t.file[b] = s.file[b] /\ b \in 1 .. Len(t.file)
      BY <1>1, <1>6
    <3>2. Tip(t.file, b, Len(t.file))
      <4>1. ASSUME NEW i \in b + 1 .. Len(t.file) PROVE t.file[i].k = "torn"
        <5>1. i \in b + 1 .. Len(s.file) \/ i \in Len(s.file) + 1 .. Len(t.file)
          BY <1>1, <1>6
        <5>2. CASE i \in b + 1 .. Len(s.file)
          <6>1. t.file[i] = s.file[i]
            BY <1>1, <1>6, <5>2
          <6> QED
            BY <2>2, <5>2, <6>1 DEF Tip
        <5> QED
          BY <1>6, <5>1, <5>2
      <4> QED
        BY <2>2, <3>1, <4>1 DEF Tip
    <3>3. Above(t, t.file[b].seq) /\ t.lost # NoRange
      BY <1>1, <1>7, <2>2, <3>1
    <3> QED
      BY <1>4, <2>2, <3>1, <3>2, <3>3 DEF Ends
  <2> QED
    BY <2>1, <2>2 DEF Chain, Ends
<1>9. Signed(t)
    BY <1>1, <1>4, <1>6 DEF Chain, Signed, Blank
<1> QED
    BY <1>2, <1>5, <1>8, <1>9 DEF Chain, Whole

\* Above tells a spool with nothing lost from one with a range.
LEMMA AboveIs ==
    ASSUME NEW s, NEW q, Above(s, q)
    PROVE  /\ s.lost = NoRange => s.seq = q
           /\ s.lost # NoRange => s.lost.from = q + 1 /\ s.lost.to = s.seq /\ s.seq > q
    BY DEF Above

\* writeGap: the gap fits, or the range grows.
LEMMA GapChains ==
    ASSUME NEW s, Ready(s), Chain(s), Whole(s), NEW o \in {"ok", "clean", "torn"}, NEW t, t = WriteGap(s, o)
    PROVE  /\ Ready(t) /\ Chain(t) /\ Whole(t)
           /\ o = "ok" => t.lost = NoRange
<1>1. /\ s \in SpoolType /\ s.file \in Seq(LineType) /\ Len(s.file) \in Nat /\ s.seq \in Nat /\ s.ids \in Nat
      /\ s.lost \in RangeType /\ s.lost.from \in Nat /\ s.lost.to \in Nat /\ s.prev \in Nat
      /\ \A i \in 1 .. Len(s.file) : s.file[i] \in LineType /\ s.file[i].seq \in Nat
    BY ChainTypes
<1>2. CASE s.lost = NoRange
    BY <1>2 DEF WriteGap
<1> DEFINE z == [s EXCEPT !.lost = NoRange] e == <<>> k == "gap"
<1>3. e \in Seq(Nat) /\ k \in {"record", "gap", "checkpoint"} /\ k = "gap"
    OBVIOUS
<1>4. CASE s.lost # NoRange /\ o = "ok"
  <2>1. t = Write(z, k, s.lost, e, "ok")
    BY <1>4 DEF WriteGap
  <2>2. /\ Ready(z) /\ z.file = s.file /\ z.lost = NoRange /\ z.seq = s.seq /\ z.prev = s.prev
        /\ z.ids = s.ids
    BY <1>1, TornLine DEF Ready, Shape, SpoolType
  <2> HIDE DEF z, e, k
  <2> DEFINE l == Line(z, k, s.lost, e)
  <2>3. l.k = "gap" /\ l.seq = s.seq + 1 /\ l.prev = s.prev /\ l.lost = s.lost
    BY <1>3, <2>2 DEF Line
  <2> HIDE DEF l
  <2>4. Fits(s.file, Len(s.file), l)
    <3>1. CASE Blank(s.file, Len(s.file)) /\ s.prev = 0 /\ Above(s, 0)
      <4>1. s.lost.from = 1 /\ s.lost.to = s.seq
        BY <1>4, <3>1, AboveIs
      <4>2. Opens(l)
        BY <1>1, <1>4, <2>3, <3>1, <4>1 DEF Opens, Names
      <4> QED
        BY <3>1, <4>2 DEF Fits
    <3>2. ASSUME NEW b \in 1 .. Len(s.file), Tip(s.file, b, Len(s.file)),
                 s.prev = s.file[b].hash, Above(s, s.file[b].seq)
          PROVE  Fits(s.file, Len(s.file), l)
      <4>1. s.lost.from = s.file[b].seq + 1 /\ s.lost.to = s.seq /\ s.seq > s.file[b].seq
        BY <1>4, <3>2, AboveIs
      <4>2. Links(s.file[b], l, b < Len(s.file))
        BY <1>1, <1>4, <2>3, <3>2, <4>1 DEF Links
      <4> QED
        BY <3>2, <4>2 DEF Fits
    <3> QED
      BY <3>1, <3>2 DEF Chain, Ends
  <2>5. FileOk(z.file) /\ Fits(z.file, Len(z.file), Line(z, k, s.lost, e))
    BY <2>2, <2>4 DEF Chain, l
  <2> QED
    BY <1>1, <1>3, <2>1, <2>2, <2>5, WriteFits
<1>5. CASE s.lost # NoRange /\ o \in {"clean", "torn"}
  <2> DEFINE w == Write(z, k, s.lost, e, o)
  <2>1. t = [w EXCEPT !.lost.from = s.lost.from]
    BY <1>5 DEF WriteGap
  <2>2. t = Write(s, k, s.lost, e, o)
    <3>1. z \in SpoolType /\ z.file = s.file /\ z.ragged = s.ragged /\ z.newline = s.newline
          /\ z.seq = s.seq /\ z.lost = NoRange
      BY <1>1, TornLine DEF SpoolType
    <3>2. Put(z, Torn) = Put(s, Torn)
      BY <3>1 DEF Put
    <3>3. /\ w = [z EXCEPT !.file = IF o = "clean" THEN z.file ELSE Put(z, Torn),
                           !.ragged = z.ragged \/ o # "clean", !.newline = TRUE,
                           !.seq = z.seq + 1, !.ids = z.ids + 1, !.lost = Lose(z.lost, z.seq + 1)]
          /\ Write(s, k, s.lost, e, o) =
               [s EXCEPT !.file = IF o = "clean" THEN s.file ELSE Put(s, Torn),
                           !.ragged = s.ragged \/ o # "clean", !.newline = TRUE,
                           !.seq = s.seq + 1, !.ids = s.ids + 1, !.lost = Lose(s.lost, s.seq + 1)]
      BY <1>1, <1>5, <3>1 DEF Write
    <3>4. Lose(z.lost, z.seq + 1) = [from |-> s.seq + 1, to |-> s.seq + 1]
      BY <3>1 DEF Lose
    <3>5. Lose(s.lost, s.seq + 1) = [from |-> s.lost.from, to |-> s.seq + 1]
      BY <1>1, <1>5 DEF Lose, RangeType
    <3>6. z.prev = s.prev /\ z.since = s.since /\ z.written = s.written /\ z.ids = s.ids
      BY <1>1 DEF SpoolType
    <3>7. w = [s EXCEPT !.file = IF o = "clean" THEN s.file ELSE Put(s, Torn),
                        !.ragged = s.ragged \/ o # "clean", !.newline = TRUE,
                        !.seq = s.seq + 1, !.ids = s.ids + 1, !.lost = [from |-> s.seq + 1, to |-> s.seq + 1]]
      BY <1>1, <3>1, <3>2, <3>3, <3>4, <3>6 DEF SpoolType
    <3> HIDE DEF w
    <3>8. t = [s EXCEPT !.file = IF o = "clean" THEN s.file ELSE Put(s, Torn),
                        !.ragged = s.ragged \/ o # "clean", !.newline = TRUE,
                        !.seq = s.seq + 1, !.ids = s.ids + 1, !.lost = [from |-> s.lost.from, to |-> s.seq + 1]]
      BY <1>1, <2>1, <3>7 DEF SpoolType
    <3> QED
      BY <3>3, <3>5, <3>8
  <2> HIDE DEF e, k
  <2> QED
    BY <1>1, <1>3, <1>5, <2>2, WriteFails
<1> QED
    BY <1>2, <1>4, <1>5

\* A record is written behind a readable line, or first.
LEMMA RecordChains ==
    ASSUME NEW s, Ready(s), Chain(s), Whole(s), NEW e \in Seq(Nat), NEW o \in {"ok", "clean", "torn"},
           o = "ok" => s.lost = NoRange, NEW t, t = Write(s, "record", NoRange, e, o)
    PROVE  /\ Ready(t) /\ Chain(t) /\ Whole(t)
           /\ o = "ok" => t.lost = NoRange /\ ~Blank(t.file, Len(t.file))
<1>1. /\ s \in SpoolType /\ s.file \in Seq(LineType) /\ Len(s.file) \in Nat /\ s.seq \in Nat /\ s.ids \in Nat
      /\ \A i \in 1 .. Len(s.file) : s.file[i] \in LineType /\ s.file[i].seq \in Nat
    BY ChainTypes
<1> DEFINE k == "record"
<1>2. k \in {"record", "gap", "checkpoint"} /\ k = "record" /\ t = Write(s, k, NoRange, e, o)
      /\ NoRange \in RangeType
    BY TornLine
<1> HIDE DEF k
<1>3. CASE o # "ok"
  <2>1. o \in {"clean", "torn"}
    BY <1>3
  <2> QED
    BY <1>2, <1>3, <2>1, WriteFails
<1>4. CASE o = "ok"
  <2> DEFINE l == Line(s, k, NoRange, e)
  <2>1. l.k = "record" /\ l.seq = s.seq + 1 /\ l.prev = s.prev /\ l.lost = NoRange
    BY <1>2 DEF Line
  <2> HIDE DEF l
  <2>2. Fits(s.file, Len(s.file), l)
    <3>1. CASE Blank(s.file, Len(s.file)) /\ s.prev = 0 /\ Above(s, 0)
      <4>1. s.seq = 0
        BY <1>4, <3>1, AboveIs
      <4>2. Opens(l)
        BY <2>1, <3>1, <4>1 DEF Opens, Names
      <4> QED
        BY <3>1, <4>2 DEF Fits
    <3>2. ASSUME NEW b \in 1 .. Len(s.file), Tip(s.file, b, Len(s.file)),
                 s.prev = s.file[b].hash, Above(s, s.file[b].seq)
          PROVE  Fits(s.file, Len(s.file), l)
      <4>1. s.seq = s.file[b].seq
        BY <1>4, <3>2, AboveIs
      <4>2. ~(b < Len(s.file))
        BY <1>1, <1>4, <3>2 DEF Whole, Tip
      <4>3. Links(s.file[b], l, b < Len(s.file))
        BY <1>1, <2>1, <3>2, <4>1, <4>2 DEF Links
      <4> QED
        BY <3>2, <4>3 DEF Fits
    <3> QED
      BY <3>1, <3>2 DEF Chain, Ends
  <2>3. FileOk(s.file) /\ Fits(s.file, Len(s.file), Line(s, k, NoRange, e)) /\ s.lost = NoRange
    BY <1>4, <2>2 DEF Chain, l
  <2>4. t = Write(s, k, NoRange, e, "ok")
    BY <1>2, <1>4
  <2> QED
    BY <1>2, <2>3, <2>4, WriteFits
<1> QED
    BY <1>3, <1>4

\* A checkpoint signs the last readable line.
LEMMA CheckpointChains ==
    ASSUME NEW s, Ready(s), Chain(s), Whole(s), ~Blank(s.file, Len(s.file)), NEW o \in {"ok", "clean", "torn"},
           o = "ok" => s.lost = NoRange, NEW t, t = Checkpoint(s, o)
    PROVE  Ready(t) /\ Chain(t) /\ Whole(t)
<1>1. /\ s \in SpoolType /\ s.file \in Seq(LineType) /\ Len(s.file) \in Nat /\ s.seq \in Nat /\ s.ids \in Nat
      /\ s.prev \in Nat
      /\ \A i \in 1 .. Len(s.file) : s.file[i] \in LineType /\ s.file[i].seq \in Nat
    BY ChainTypes
<1> DEFINE k == "checkpoint" e == <<s.seq, s.prev>> w == Write(s, k, NoRange, e, o)
<1>2. /\ k \in {"record", "gap", "checkpoint"} /\ k = "checkpoint" /\ NoRange \in RangeType
      /\ e \in Seq(Nat)
    BY <1>1, TornLine
<1>3. t = IF o = "ok" THEN [w EXCEPT !.since = 0] ELSE w
    BY DEF Checkpoint
<1>4. CASE o # "ok"
  <2>1. o \in {"clean", "torn"} /\ t = Write(s, k, NoRange, e, o)
    BY <1>3, <1>4
  <2> HIDE DEF k, e, w
  <2> QED
    BY <1>2, <1>4, <2>1, WriteFails
<1>5. CASE o = "ok"
  <2> DEFINE l == Line(s, k, NoRange, e)
  <2>1. l.k = "checkpoint" /\ l.seq = s.seq + 1 /\ l.prev = s.prev /\ l.lost = NoRange
        /\ l.signs = <<s.seq, s.prev>>
    BY <1>2 DEF Line
  <2> HIDE DEF l
  <2>2. Fits(s.file, Len(s.file), l)
    <3>1. PICK b \in 1 .. Len(s.file) : /\ Tip(s.file, b, Len(s.file)) /\ s.prev = s.file[b].hash
                                        /\ Above(s, s.file[b].seq)
      BY DEF Chain, Ends
    <3>2. s.seq = s.file[b].seq
      BY <1>5, <3>1, AboveIs
    <3>3. ~(b < Len(s.file))
      BY <1>1, <1>5, <3>1 DEF Whole, Tip
    <3>4. Links(s.file[b], l, b < Len(s.file))
      BY <1>1, <2>1, <3>1, <3>2, <3>3 DEF Links
    <3> QED
      BY <3>1, <3>4 DEF Fits
  <2>3. FileOk(s.file) /\ Fits(s.file, Len(s.file), Line(s, k, NoRange, e)) /\ s.lost = NoRange
    BY <1>5, <2>2 DEF Chain, l
  <2>4. w = Write(s, k, NoRange, e, "ok")
    BY <1>5
  <2>5. t = [w EXCEPT !.since = 0]
    BY <1>3, <1>5
  <2> HIDE DEF k, e, w
  <2>6. Ready(w) /\ Chain(w) /\ Whole(w)
    BY <1>2, <2>3, <2>4, WriteFits
  <2>7. w \in SpoolType
    BY <2>6 DEF Ready, Shape
  <2>8. /\ t \in SpoolType /\ t.file = w.file /\ t.ragged = w.ragged /\ t.newline = w.newline
        /\ t.seq = w.seq /\ t.ids = w.ids /\ t.prev = w.prev /\ t.lost = w.lost /\ t.since = 0
    BY <2>5, <2>7 DEF SpoolType
  <2>9. Ready(t)
    BY <2>6, <2>8 DEF Ready, Shape
  <2>10. Ends(t)
    BY <2>6, <2>8 DEF Chain, Ends, Above
  <2> QED
    BY <2>6, <2>8, <2>9, <2>10 DEF Chain, Whole, Signed
<1> QED
    BY <1>4, <1>5

\* How the writes of one hold of s.mu may end.
LEMMA HandledOutcomes ==
    ASSUME Handled
    PROVE  /\ Outcomes \subseteq {"ok", "clean", "torn"}
           /\ \A g, o : Follows(g, o) <=> g = "ok" \/ o # "ok"
    BY DEF Handled, Outcomes, Follows

\* Append keeps the chain.
LEMMA AppendChain ==
    ASSUME Handled, ChainInv, NEW p \in Procs, NEW d, AppendRecord(p, d)
    PROVE  FileOk(spool'.file) /\ Chain(spool') /\ Whole(spool')
<1>1. PICK g \in Outcomes, o \in Outcomes, c \in Outcomes :
          LET s1 == WriteGap(spool, g)
              s2 == Write(s1, "record", NoRange, <<>>, o)
              s3 == IF o = "ok" /\ s2.since >= Every THEN Checkpoint(s2, c) ELSE s2
          IN Follows(g, o) /\ spool' = s3
    BY DEF AppendRecord
<1> DEFINE e == <<>>
           s1 == WriteGap(spool, g)
           s2 == Write(s1, "record", NoRange, e, o)
<1>2. /\ e \in Seq(Nat) /\ s1 = WriteGap(spool, g) /\ s2 = Write(s1, "record", NoRange, e, o)
      /\ spool' = s2 \/ (o = "ok" /\ spool' = Checkpoint(s2, c))
    BY <1>1
<1>3. /\ g \in {"ok", "clean", "torn"} /\ o \in {"ok", "clean", "torn"} /\ c \in {"ok", "clean", "torn"}
      /\ o = "ok" => g = "ok"
    BY <1>1, HandledOutcomes
<1> HIDE DEF e, s1, s2
<1>4. Ready(spool) /\ Chain(spool) /\ Whole(spool)
    BY DEF AppendRecord, ChainInv, SyncInv, Opened
<1>5. Ready(s1) /\ Chain(s1) /\ Whole(s1) /\ (o = "ok" => s1.lost = NoRange)
    BY <1>2, <1>3, <1>4, GapChains
<1>6. /\ Ready(s2) /\ Chain(s2) /\ Whole(s2)
      /\ o = "ok" => s2.lost = NoRange /\ ~Blank(s2.file, Len(s2.file))
    BY <1>2, <1>3, <1>5, RecordChains
<1>7. Chain(spool') /\ Whole(spool')
  <2>1. ASSUME o = "ok", NEW t, t = Checkpoint(s2, c) PROVE Chain(t) /\ Whole(t)
    BY <1>3, <1>6, <2>1, CheckpointChains
  <2> QED
    BY <1>2, <1>6, <2>1
<1> QED
    BY <1>7 DEF Chain

\* So does Close.
LEMMA CloseChain ==
    ASSUME Handled, ChainInv, NEW p \in Procs, CloseSpool(p)
    PROVE  FileOk(spool'.file) /\ Chain(spool') /\ Whole(spool')
<1>1. PICK g \in Outcomes, c \in Outcomes :
          LET s1 == WriteGap(spool, g)
              s2 == IF s1.since > 0 THEN Checkpoint(s1, c) ELSE s1
          IN Follows(g, c) /\ spool' = s2
    BY DEF CloseSpool
<1> DEFINE s1 == WriteGap(spool, g)
<1>2. s1 = WriteGap(spool, g) /\ (spool' = s1 \/ (s1.since > 0 /\ spool' = Checkpoint(s1, c)))
    BY <1>1
<1>3. g \in {"ok", "clean", "torn"} /\ c \in {"ok", "clean", "torn"} /\ (c = "ok" => g = "ok")
    BY <1>1, HandledOutcomes
<1> HIDE DEF s1
<1>4. Ready(spool) /\ Chain(spool) /\ Whole(spool)
    BY DEF CloseSpool, ChainInv, SyncInv, Opened
<1>5. Ready(s1) /\ Chain(s1) /\ Whole(s1) /\ (c = "ok" => s1.lost = NoRange)
    BY <1>2, <1>3, <1>4, GapChains
<1>6. Chain(spool') /\ Whole(spool')
  <2>1. ASSUME s1.since > 0, NEW t, t = Checkpoint(s1, c) PROVE Chain(t) /\ Whole(t)
    <3>1. ~Blank(s1.file, Len(s1.file))
      BY <1>5, <2>1 DEF Chain, Signed
    <3> QED
      BY <1>3, <1>5, <2>1, <3>1, CheckpointChains
  <2> QED
    BY <1>2, <1>5, <2>1
<1> QED
    BY <1>6 DEF Chain

\* A crash leaves a file that verifies.
LEMMA CrashChain == ASSUME ChainInv, Crash PROVE FileOk(spool'.file)
<1>1. TypeOK /\ Shape(spool) /\ FileOk(spool.file)
    BY DEF ChainInv, SyncInv, Opened
<1>2. PICK m \in durable .. Len(spool.file), h \in Seq(LineType) :
         /\ Len(h) = m /\ \A i \in 1 .. m : h[i] = spool.file[i]
         /\ spool'.file \in {h, Append(h, Torn)}
    BY <1>1, CrashLeaves
<1>3. spool.file \in Seq(LineType) /\ Len(spool.file) \in Nat /\ durable \in Nat
    BY <1>1, SyncTypes
<1>4. Begins(h, spool.file)
    BY <1>2, <1>3 DEF Begins
<1>5. FileOk(h)
    BY <1>1, <1>3, <1>4, PrefixOk
<1>6. FileOk(Append(h, Torn))
    BY <1>5, OneMore, TornLine
<1> QED
    BY <1>2, <1>5, <1>6

\* What OpenSpool reads is where the chain ends.
LEMMA FoundChains == ASSUME Shape(spool), FileOk(spool.file) PROVE Chain(Found)
<1>1. /\ spool.file \in Seq(LineType) /\ spool.ids \in Nat /\ Len(spool.file) \in Nat
      /\ \A i \in 1 .. Len(spool.file) : spool.file[i].seq <= spool.ids
    BY SpoolParts DEF Shape
<1>2. /\ Found.file = spool.file /\ Found.seq = LastSeq(spool.file) /\ Found.prev = LastHash(spool.file)
      /\ Found.lost = NoRange /\ Found.since = 0
    BY FoundReady
<1> DEFINE f == spool.file R == Readable(f)
<1>3. R = {i \in 1 .. Len(f) : f[i].k # "torn"}
    BY <1>1 DEF Readable
<1>4. \A i \in 1 .. Len(f) : f[i].seq \in Nat
  <2>1. \A i \in 1 .. Len(f) : f[i] \in LineType
    BY <1>1
  <2> QED
    BY <2>1 DEF LineType
<1>5. /\ LastSeq(f) \in Nat /\ LastSeq(f) \in {0} \cup {f[i].seq : i \in R}
      /\ \A i \in R : f[i].seq <= LastSeq(f)
      /\ R # {} => Max(R) \in R /\ \A i \in R : i <= Max(R)
    BY <1>1, LastLine
<1> HIDE DEF R, f
<1>6. Ends(Found)
  <2>1. CASE R = {}
    <3>1. Blank(f, Len(f))
      BY <1>3, <2>1 DEF Blank
    <3>2. LastSeq(f) = 0
      BY <1>5, <2>1
    <3>3. LastHash(f) = 0
      BY <2>1 DEF LastHash, R
    <3> QED
      BY <1>2, <3>1, <3>2, <3>3 DEF Ends, Above, f
  <2>2. CASE R # {}
    <3> DEFINE b == Max(R)
    <3>1. b \in 1 .. Len(f) /\ f[b].k # "torn" /\ b \in R /\ \A i \in R : i <= b
      BY <1>3, <1>5, <2>2
    <3>2. LastHash(f) = f[b].hash
      BY <2>2 DEF LastHash, R
    <3> HIDE DEF b
    <3>3. Tip(f, b, Len(f))
      BY <1>1, <1>3, <3>1 DEF Tip, f
    <3>4. \A i \in R : f[i].seq <= f[b].seq
      BY <1>1, <1>3, <1>4, <3>1 DEF FileOk, Ascends, f
    <3>5. LastSeq(f) = f[b].seq
      <4>1. f[b].seq \in Nat /\ f[b].seq <= LastSeq(f)
        BY <1>4, <1>5, <3>1
      <4>2. LastSeq(f) <= f[b].seq
        BY <1>5, <3>4, <4>1
      <4> QED
        BY <1>5, <4>1, <4>2
    <3> QED
      BY <1>2, <3>1, <3>2, <3>3, <3>5 DEF Ends, Above, f
  <2> QED
    BY <2>1, <2>2
<1> QED
    BY <1>2, <1>6 DEF Chain, Signed

\* An open that succeeds goes on with the chain, and one that fails leaves a file
\* that verifies.
LEMMA OpenChain ==
    ASSUME Handled, ChainInv, OpenSpool
    PROVE  FileOk(spool'.file) /\ (up' # "down" => Chain(spool') /\ Whole(spool'))
<1>1. Shape(spool) /\ FileOk(spool.file)
    BY DEF ChainInv, SyncInv, Opened
<1>2. /\ Ready(Found) /\ Found.file = spool.file /\ Found.lost = NoRange
      /\ Chain(Found)
    BY <1>1, FoundReady, FoundChains
<1>3. /\ Len(Found.file) \in Nat /\ Found.seq \in Nat /\ DOMAIN Found.file = 1 .. Len(Found.file)
      /\ \A i \in 1 .. Len(Found.file) : Found.file[i].seq \in Nat
    BY <1>2, ChainTypes
<1>4. CASE ~EndsTorn /\ spool' = Found
  <2>1. Whole(Found)
    BY <1>2, <1>3, <1>4 DEF Whole, EndsTorn, Readable
  <2> QED
    BY <1>2, <1>4, <2>1 DEF Chain
<1>5. ASSUME NEW o \in Outcomes, spool' = Write(Found, "gap", NoRange, <<>>, o),
             up' = IF o = "ok" THEN "open" ELSE "down"
      PROVE  FileOk(spool'.file) /\ (up' # "down" => Chain(spool') /\ Whole(spool'))
  <2> DEFINE e == <<>> k == "gap"
  <2>1. /\ spool' = Write(Found, k, NoRange, e, o) /\ e \in Seq(Nat) /\ k \in {"record", "gap", "checkpoint"}
        /\ k = "gap"
    BY <1>5
  <2> HIDE DEF e, k
  <2>2. o \in {"ok", "clean", "torn"}
    BY HandledOutcomes
  <2>3. CASE o \in {"clean", "torn"}
    <3>1. Chain(spool')
      BY <1>2, <2>1, <2>3, WriteFails, TornLine
    <3> QED
      BY <1>5, <2>3, <3>1 DEF Chain
  <2>4. CASE o = "ok"
    <3> DEFINE l == Line(Found, k, NoRange, e)
    <3>1. l.k = "gap" /\ l.seq = Found.seq + 1 /\ l.prev = Found.prev /\ l.lost = NoRange
      BY <2>1 DEF Line
    <3> HIDE DEF l
    <3>2. Fits(Found.file, Len(Found.file), l)
      <4>1. CASE Blank(Found.file, Len(Found.file)) /\ Found.prev = 0 /\ Above(Found, 0)
        <5>1. Found.seq = 0
          BY <1>2, <4>1, AboveIs
        <5>2. Opens(l)
          BY <3>1, <4>1, <5>1 DEF Opens, Names
        <5> QED
          BY <4>1, <5>2 DEF Fits
      <4>2. ASSUME NEW b \in 1 .. Len(Found.file), Tip(Found.file, b, Len(Found.file)),
                   Found.prev = Found.file[b].hash, Above(Found, Found.file[b].seq)
            PROVE  Fits(Found.file, Len(Found.file), l)
        <5>1. Found.seq = Found.file[b].seq
          BY <1>2, <4>2, AboveIs
        <5>2. Links(Found.file[b], l, b < Len(Found.file))
          BY <1>3, <3>1, <4>2, <5>1 DEF Links
        <5> QED
          BY <4>2, <5>2 DEF Fits
      <4> QED
        BY <1>2, <4>1, <4>2 DEF Chain, Ends
    <3>3. FileOk(Found.file) /\ Fits(Found.file, Len(Found.file), Line(Found, k, NoRange, e))
      BY <1>2, <3>2 DEF Chain, l
    <3>4. spool' = Write(Found, k, NoRange, e, "ok")
      BY <2>1, <2>4
    <3>5. Chain(spool') /\ Whole(spool')
      BY <1>2, <2>1, <3>3, <3>4, WriteFits, TornLine
    <3> QED
      BY <3>5 DEF Chain
  <2> QED
    BY <2>2, <2>3, <2>4
<1> QED
    BY <1>4, <1>5, OpenIs

\* ChainInv is an invariant under the failures the code handles.
THEOREM AuditChainInvariant == ASSUME Handled PROVE Spec => []ChainInv
<1>1. Init => FileOk(spool.file) /\ up = "down"
  <2> SUFFICES ASSUME Init PROVE FileOk(spool.file)
    BY DEF Init
  <2>1. spool.file = <<>> /\ Len(spool.file) = 0
    BY DEF Init
  <2> QED
    BY <2>1 DEF FileOk, HasTips, Blank, Chained, Ascends, AllNamed
<1>2. SyncInv /\ Init => ChainInv
    BY <1>1 DEF ChainInv
<1>3. SyncInv' /\ ChainInv /\ [Next]_vars => ChainInv'
  <2> SUFFICES ASSUME SyncInv', ChainInv, [Next]_vars
               PROVE  FileOk(spool'.file) /\ (up' # "down" => Chain(spool') /\ Whole(spool'))
    BY DEF ChainInv
  <2>1. ASSUME NEW p \in Procs, NEW d \in {"sync", "best"}, AppendRecord(p, d)
        PROVE  FileOk(spool'.file) /\ Chain(spool') /\ Whole(spool')
    BY <2>1, AppendChain
  <2>2. ASSUME NEW p \in Procs, CloseSpool(p)
        PROVE  FileOk(spool'.file) /\ Chain(spool') /\ Whole(spool')
    BY <2>2, CloseChain
  <2>3. ASSUME NEW p \in Procs, Sync(p)
        PROVE  spool' = spool /\ (up' # "down" => up # "down")
    <3>1. pc[p] # "idle"
      BY <2>3 DEF Sync, Lead, FsyncOk, FsyncFails, SyncDone, SyncRefused, CloseDone
    <3>2. up # "down"
      BY <3>1 DEF ChainInv, SyncInv, Opened
    <3> QED
      BY <2>3, <3>2 DEF Sync, Lead, FsyncOk, FsyncFails, SyncDone, SyncRefused, CloseDone
  <2>4. CASE Crash
    <3>1. up' = "down"
      BY <2>4 DEF Crash
    <3> QED
      BY <2>4, <3>1, CrashChain
  <2>5. CASE OpenSpool
    BY <2>5, OpenChain
  <2>6. CASE UNCHANGED vars
    BY <2>6 DEF vars, ChainInv
  <2> QED
    BY <2>1, <2>2, <2>3, <2>4, <2>5, <2>6 DEF Next, ChainInv
<1> QED
    BY <1>2, <1>3, AuditSyncInvariant, PTL DEF Spec

\* What is on disk always verifies: a chain from the first line on, with gaps that
\* name what failed and checkpoints that sign the line before them, after any
\* sequence of handled failures, crashes and opens.
THEOREM AuditSpoolVerifies == ASSUME Handled PROVE Spec => []SpoolVerifies
<1>1. ChainInv => SpoolVerifies
  <2> SUFFICES ASSUME ChainInv PROVE VerifySpool(spool.file)
    BY DEF SpoolVerifies
  <2>1. spool.file \in Seq(LineType) /\ FileOk(spool.file)
    BY SyncTypes DEF ChainInv, SyncInv
  <2> QED
    BY <2>1, FileVerifies
<1> QED
    BY <1>1, AuditChainInvariant, PTL

\* Every number an open spool has assigned is on disk, or named by a gap there, or
\* in the range its next gap names.
THEOREM AuditLostAreNamed == ASSUME Handled PROVE Spec => []LostAreNamed
<1>1. ChainInv => LostAreNamed
  <2> SUFFICES ASSUME ChainInv, up # "down", NEW q \in 1 .. spool.seq
               PROVE  \/ q \in spool.lost.from .. spool.lost.to
                      \/ \E i \in DOMAIN spool.file : Names(spool.file[i], q)
    BY DEF LostAreNamed, Names
  <2>1. Ready(spool) /\ Chain(spool)
    BY DEF ChainInv, SyncInv, Opened
  <2>2. /\ spool.file \in Seq(LineType) /\ Len(spool.file) \in Nat /\ DOMAIN spool.file = 1 .. Len(spool.file)
        /\ spool.seq \in Nat /\ spool.lost.from \in Nat /\ spool.lost.to \in Nat
        /\ \A i \in 1 .. Len(spool.file) : spool.file[i].seq \in Nat
    BY <2>1, ChainTypes
  <2>3. CASE Above(spool, 0)
    BY <2>2, <2>3 DEF Above
  <2>4. ASSUME NEW b \in 1 .. Len(spool.file), Tip(spool.file, b, Len(spool.file)),
               Above(spool, spool.file[b].seq)
        PROVE  \/ q \in spool.lost.from .. spool.lost.to
               \/ \E i \in DOMAIN spool.file : Names(spool.file[i], q)
    <3>1. CASE q <= spool.file[b].seq
      <4>1. q \in 1 .. spool.file[b].seq /\ spool.file[b].k # "torn"
        BY <2>2, <2>4, <3>1 DEF Tip
      <4>2. \E i \in 1 .. b : Names(spool.file[i], q)
        BY <2>1, <4>1 DEF Chain, FileOk, AllNamed
      <4> QED
        BY <2>2, <4>2
    <3>2. CASE ~(q <= spool.file[b].seq)
      BY <2>2, <2>4, <3>2 DEF Above
    <3> QED
      BY <3>1, <3>2
  <2> QED
    BY <2>1, <2>3, <2>4 DEF Chain, Ends
<1> QED
    BY <1>1, AuditChainInvariant, PTL
=============================================================================
