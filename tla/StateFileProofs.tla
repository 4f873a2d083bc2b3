-------------------------- MODULE StateFileProofs --------------------------
(***************************************************************************)
(* Proofs about StateFile, for any positions, lines and failures: no       *)
(* position is lost, a file of zeros has its spare, and the file           *)
(* operations implement the register of PositionRegister.  The files are   *)
(* those of this version: every line is written with three columns.        *)
(***************************************************************************)
EXTENDS StateFile, SequenceTheorems, TLAPS

USE LinesAssumption, MaxPosAssumption DEF LinesAssumption, MaxPosAssumption

(***************************************************************************)
(* Sequences.                                                              *)
(***************************************************************************)
LEMMA BoundedSequences ==
  ASSUME NEW S, NEW n \in Nat, NEW s
  PROVE  s \in SeqOf(S, n) <=> s \in Seq(S) /\ Len(s) <= n
<1>1. ASSUME s \in SeqOf(S, n) PROVE s \in Seq(S) /\ Len(s) <= n
  <2>1. PICK m \in 0 .. n : s \in [1 .. m -> S]
    BY <1>1 DEF SeqOf
  <2>2. s \in Seq(S) /\ Len(s) = m
    BY <2>1
  <2> QED
    BY <2>1, <2>2
<1>2. ASSUME s \in Seq(S), Len(s) <= n PROVE s \in SeqOf(S, n)
  <2>1. Len(s) \in 0 .. n /\ s \in [1 .. Len(s) -> S]
    BY <1>2, LenProperties
  <2> QED
    BY <2>1 DEF SeqOf
<1> QED
  BY <1>1, <1>2

LEMMA ElementsOf ==
  ASSUME NEW S, NEW s \in Seq(S)
  PROVE  /\ Len(s) \in Nat /\ DOMAIN s = 1 .. Len(s)
         /\ \A i \in 1 .. Len(s) : s[i] \in S
         /\ s = <<>> <=> Len(s) = 0
BY LenProperties, ElementOfSeq, EmptySeq

LEMMA Appended ==
  ASSUME NEW S, NEW s \in Seq(S), NEW x \in S
  PROVE  /\ Append(s, x) \in Seq(S)
         /\ Len(Append(s, x)) = Len(s) + 1
         /\ Append(s, x)[Len(s) + 1] = x
         /\ \A i \in 1 .. Len(s) : Append(s, x)[i] = s[i]
BY AppendProperties, LenProperties

LEMMA FirstLines ==
  ASSUME NEW S, NEW s \in Seq(S), NEW n \in 0 .. Len(s)
  PROVE  /\ SubSeq(s, 1, n) \in Seq(S) /\ Len(SubSeq(s, 1, n)) = n
         /\ \A i \in 1 .. n : SubSeq(s, 1, n)[i] = s[i]
<1>0. Len(s) \in Nat /\ n \in Int /\ 1 \in Int
  BY LenProperties
<1>1. \A i \in 1 .. n : s[i] \in S
  BY <1>0, ElementOfSeq
<1>2. /\ SubSeq(s, 1, n) \in Seq(S)
      /\ Len(SubSeq(s, 1, n)) = IF 1 <= n THEN n - 1 + 1 ELSE 0
      /\ \A i \in 1 .. n - 1 + 1 : SubSeq(s, 1, n)[i] = s[1 + i - 1]
  BY <1>0, <1>1, SubSeqProperties
<1> DEFINE k == SubSeq(s, 1, n)
<1> HIDE DEF k
<1>3. k \in Seq(S) /\ Len(k) = n /\ \A i \in 1 .. n : k[i] = s[i]
  BY <1>0, <1>2 DEF k
<1> QED
  BY <1>3 DEF k

(***************************************************************************)
(* Values and lines.                                                       *)
(***************************************************************************)
LEMMA Readings ==
  /\ Fresh \in Value /\ Fresh.pos = 0 /\ Fresh # Unreadable
  /\ Value \subseteq Seen /\ Reading = Seen \cup {Unreadable}
  /\ \A v \in Seen : v # Unreadable /\ v.pos \in Nat /\ (v.pos > 0 => v # Fresh)
  /\ \A v \in Saved : v \in Value /\ v \in Seen /\ v.pos > 0 /\ v # Fresh
BY DEF Fresh, Value, Seen, Unreadable, Position, Flag, Reading

\* What is left of a value is a value, of the same position or a smaller one.
LEMMA ShortOf ==
  ASSUME NEW v \in Seen
  PROVE  /\ \A u \in CutNumber(v) : u \in Seen /\ u.pos \in 1 .. v.pos
         /\ \A u \in CutFlag(v) : u \in Seen /\ u.pos = v.pos
         /\ \A u \in CutShort(v) : u \in Seen /\ u.pos \in Nat /\ u.pos <= v.pos
         /\ v \in CutFlag(v)
         /\ CutNumber(v) \subseteq CutShort(v) /\ CutFlag(v) \subseteq CutShort(v)
<1>0. v.pos \in 0 .. MaxPos /\ v.flag \in {"good", "reset", "cut"}
  BY DEF Seen, Position, Flag
<1>1. \A u \in CutNumber(v) : u \in Seen /\ u.pos \in 1 .. v.pos
  BY <1>0 DEF CutNumber, Seen, Position, Flag
<1>2. \A u \in CutFlag(v) : u \in Seen /\ u.pos = v.pos
  BY <1>0 DEF CutFlag, Seen, Position, Flag
<1>3. v.pos \in Nat /\ \A n \in 1 .. v.pos : n \in Nat /\ n <= v.pos
  BY <1>0
<1>4. \A u \in CutShort(v) : u \in Seen /\ u.pos \in Nat /\ u.pos <= v.pos
  BY <1>1, <1>2, <1>3 DEF CutShort
<1>5. v \in CutFlag(v)
  BY DEF CutFlag
<1> QED
  BY <1>1, <1>2, <1>4, <1>5 DEF CutShort

\* A part of a part is a part.
LEMMA ShortOfShort ==
  ASSUME NEW v \in Seen, NEW u \in CutShort(v)
  PROVE  /\ CutNumber(u) \subseteq CutShort(v)
         /\ u.pos = v.pos => CutFlag(u) \subseteq CutShort(v)
         /\ u.pos = v.pos => [u EXCEPT !.flag = "cut"] \in CutShort(v)
<1>0. /\ v.pos \in 0 .. MaxPos /\ u \in Seen /\ u.pos \in Nat /\ u.pos <= v.pos
  BY ShortOf DEF Seen, Position
<1>1. CutNumber(u) \subseteq CutNumber(v)
  BY <1>0 DEF CutNumber
<1>2. ASSUME u.pos = v.pos PROVE [u EXCEPT !.flag = "cut"] = [v EXCEPT !.flag = "cut"]
  <2>1. /\ [u EXCEPT !.flag = "cut"] = [pos |-> u.pos, flag |-> "cut"]
        /\ [v EXCEPT !.flag = "cut"] = [pos |-> v.pos, flag |-> "cut"]
    BY <1>0 DEF Seen
  <2> QED
    BY <1>2, <2>1
<1> QED
  BY <1>1, <1>2 DEF CutShort, CutFlag

LEMMA LineKinds ==
  /\ \A v \in Seen, c \in {2, 3} :
       /\ WholeLine(v, c) \in Line /\ WholeLine(v, c).kind = "whole"
       /\ WholeLine(v, c).val = v /\ WholeLine(v, c).cols = c
       /\ CutLine(v, c) \in Line /\ CutLine(v, c).kind = "cut"
       /\ CutLine(v, c).val = v /\ CutLine(v, c).cols = c
  /\ \A k \in {"null", "torn"} :
       /\ BadLine(k) \in Line /\ BadLine(k).kind = k /\ Proper(BadLine(k))
       /\ \A v : LineOf(BadLine(k), v)
BY Readings DEF WholeLine, CutLine, BadLine, Line, Proper, Written, LineOf

\* Parts of the line of v.
LEMMA CutsOf ==
  ASSUME NEW v \in Seen, v.pos > 0, NEW l \in Cuts(v)
  PROVE  /\ l \in Line /\ Proper(l) /\ l.kind \in {"cut", "torn"}
         /\ LineOf(l, v)
         /\ l.kind = "cut" => l.val \in CutShort(v) /\ l.cols \in {2, 3}
         /\ l.kind = "cut" /\ l.cols = 2 => l.val \in CutNumber(v)
         /\ l.kind = "cut" /\ l.cols = 3 => l.val \in CutFlag(v)
<1>0. v.pos \in Nat
  BY Readings
<1>1. ASSUME NEW u \in CutNumber(v), l = CutLine(u, 2)
      PROVE  /\ l \in Line /\ Proper(l) /\ l.kind = "cut" /\ LineOf(l, v)
             /\ l.cols = 2 /\ l.val \in CutNumber(v) /\ l.val \in CutShort(v)
  <2>1. u \in Seen /\ u.pos \in 1 .. v.pos /\ u \in CutShort(v)
    BY ShortOf
  <2>2. l \in Line /\ l.kind = "cut" /\ l.val = u /\ l.cols = 2
    BY <1>1, <2>1, LineKinds
  <2>3. u.pos > 0
    BY <1>0, <2>1
  <2> QED
    BY <2>1, <2>2, <2>3 DEF Proper, Written, LineOf
<1>2. ASSUME NEW u \in CutFlag(v), l = CutLine(u, 3)
      PROVE  /\ l \in Line /\ Proper(l) /\ l.kind = "cut" /\ LineOf(l, v)
             /\ l.cols = 3 /\ l.val \in CutFlag(v) /\ l.val \in CutShort(v)
  <2>1. u \in Seen /\ u.pos = v.pos /\ u \in CutShort(v)
    BY ShortOf
  <2>2. l \in Line /\ l.kind = "cut" /\ l.val = u /\ l.cols = 3
    BY <1>2, <2>1, LineKinds
  <2> QED
    BY <2>1, <2>2 DEF Proper, Written, LineOf
<1>3. ASSUME l = BadLine("torn")
      PROVE  l \in Line /\ Proper(l) /\ l.kind = "torn" /\ LineOf(l, v)
  BY <1>3, LineKinds
<1> QED
  BY <1>1, <1>2, <1>3 DEF Cuts

\* Parts of what is itself the line of v, or a part of it.
LEMMA PiecesOf ==
  ASSUME NEW v \in Seen, NEW l \in Line, Proper(l), LineOf(l, v), NEW c \in Pieces(l)
  PROVE  c \in Line /\ Proper(c) /\ LineOf(c, v)
<1>1. CASE c \in {BadLine("torn"), BadLine("null")}
  BY <1>1, LineKinds
<1>2. CASE c \in Cuts(l.val) /\ l.kind \in {"whole", "cut"} /\ c.cols <= l.cols
  <2>1. l.val \in Seen /\ l.val.pos > 0 /\ l.cols \in {2, 3}
    BY <1>2 DEF Line, Proper, Written
  <2>2. PICK u \in Seen : u = l.val
    BY <2>1
  <2>3. /\ c \in Line /\ Proper(c) /\ c.kind \in {"cut", "torn"}
        /\ LineOf(c, u)
        /\ c.kind = "cut" => c.val \in CutShort(u) /\ c.cols \in {2, 3}
        /\ c.kind = "cut" /\ c.cols = 2 => c.val \in CutNumber(u)
        /\ c.kind = "cut" /\ c.cols = 3 => c.val \in CutFlag(u)
    BY <1>2, <2>1, <2>2, CutsOf
  <2>4. CASE l.kind = "whole"
    BY <2>2, <2>3, <2>4 DEF LineOf
  <2>5. CASE l.kind = "cut"
    <3>1. u \in CutShort(v) /\ (l.cols = 3 => u.pos = v.pos)
      BY <2>2, <2>5 DEF LineOf
    <3>2. /\ CutNumber(u) \subseteq CutShort(v)
          /\ u.pos = v.pos => CutFlag(u) \subseteq CutShort(v)
      BY <3>1, ShortOfShort
    <3>3. \A w \in CutFlag(u) : w.pos = u.pos
      BY ShortOf
    <3>4. c.kind = "cut" /\ c.cols = 3 => l.cols = 3
      BY <1>2, <2>1
    <3>5. c.kind = "cut" => c.val \in CutShort(v) /\ (c.cols = 3 => c.val.pos = v.pos)
      BY <2>3, <3>1, <3>2, <3>3, <3>4
    <3> QED
      BY <2>3, <3>5 DEF LineOf
  <2> QED
    BY <1>2, <2>4, <2>5
<1> QED
  BY <1>1, <1>2 DEF Pieces

(***************************************************************************)
(* What a file reads as.                                                   *)
(***************************************************************************)
ProperLines(s) == \A i \in 1 .. Len(s) : Proper(s[i])

AllWritten(s) == \A i \in 1 .. Len(s) : Written(s[i])

\* What Parses asks of the lines.
Good(s) ==
  \A i \in 1 .. Len(s) :
    /\ s[i].kind = "whole" \/ (s[i].kind = "cut" /\ i = Len(s))
    /\ s[i].cols = s[1].cols

LEMMA NullIsUnreadable == ASSUME NEW f, AllNull(f) PROVE Read(f) = Unreadable
BY DEF AllNull, Read, Parses

LEMMA ReadOf ==
  ASSUME NEW f, f.lines \in Seq(Line), ProperLines(f.lines)
  PROVE  /\ f.lines = <<>> => Read(f) = Fresh /\ ~HasCut(f) /\ ~AllNull(f)
         /\ f.lines # <<>> /\ Good(f.lines) =>
              /\ Read(f) = f.lines[Len(f.lines)].val
              /\ Read(f) \in Seen /\ Read(f).pos > 0
              /\ Read(f) # Fresh /\ Read(f) # Unreadable
         /\ f.lines # <<>> /\ ~Good(f.lines) => Read(f) = Unreadable
         /\ Read(f) \in Reading
         /\ Read(f) # Unreadable => AllWritten(f.lines)
<1>0. PICK s \in Seq(Line) : s = f.lines
  OBVIOUS
<1>1. /\ Len(s) \in Nat /\ DOMAIN s = 1 .. Len(s)
      /\ \A i \in 1 .. Len(s) : s[i] \in Line
      /\ s = <<>> <=> Len(s) = 0
      /\ s # <<>> => 1 \in 1 .. Len(s) /\ Len(s) \in 1 .. Len(s)
  BY ElementsOf
<1>2. s = <<>> => Read(f) = Fresh /\ ~HasCut(f) /\ ~AllNull(f) /\ AllWritten(s)
  BY <1>0, <1>1 DEF Read, HasCut, AllNull, AllWritten
<1>3. s # <<>> => (Parses(f) <=> Good(s))
  BY <1>0, <1>1 DEF Parses, AllNull, Good
<1>4. ASSUME s # <<>>, Good(s)
      PROVE  /\ Read(f) = s[Len(s)].val
             /\ Read(f) \in Seen /\ Read(f).pos > 0
             /\ Read(f) # Fresh /\ Read(f) # Unreadable
             /\ AllWritten(s)
  <2>1. Read(f) = s[Len(s)].val
    BY <1>0, <1>3, <1>4 DEF Read, Last
  <2>2. AllWritten(s)
    BY <1>4 DEF Good, AllWritten, Written
  <2>3. s[Len(s)].val \in Seen /\ s[Len(s)].val.pos > 0
    BY <1>0, <1>1, <1>4, <2>2 DEF AllWritten, ProperLines, Proper, Line
  <2>4. Read(f) # Fresh /\ Read(f) # Unreadable
    BY <2>1, <2>3, Readings
  <2> QED
    BY <2>1, <2>2, <2>3, <2>4
<1>5. s # <<>> /\ ~Good(s) => Read(f) = Unreadable
  BY <1>0, <1>3 DEF Read
<1> QED
  BY <1>0, <1>2, <1>4, <1>5, Readings

LEMMA SameLines ==
  ASSUME NEW f, NEW g, f.lines = g.lines
  PROVE  /\ Read(f) = Read(g) /\ (AllNull(f) <=> AllNull(g))
         /\ (HasCut(f) <=> HasCut(g))
         /\ \A v : Holds(f, v) <=> Holds(g, v)
<1>1. /\ Read(f) = Read(g) /\ (AllNull(f) <=> AllNull(g))
      /\ (HasCut(f) <=> HasCut(g))
  BY DEF Read, Parses, AllNull, HasCut
<1> QED
  BY <1>1 DEF Holds

\* A file that ends in a whole line and has no zeros holds that line's value.
LEMMA EndsWhole ==
  ASSUME NEW f, f.lines \in Seq(Line), ProperLines(f.lines), AllWritten(f.lines),
         NEW v \in Saved, f.lines # <<>>, Last(f.lines) = WholeLine(v, 3)
  PROVE  /\ Holds(f, v) /\ ~AllNull(f)
         /\ HasCut(f) => Read(f) = Unreadable
         /\ ~HasCut(f) => Read(f) = v
<1>0. PICK s \in Seq(Line) : s = f.lines
  OBVIOUS
<1>1. /\ Len(s) \in Nat /\ DOMAIN s = 1 .. Len(s)
      /\ \A i \in 1 .. Len(s) : s[i] \in Line
      /\ 1 \in 1 .. Len(s) /\ Len(s) \in 1 .. Len(s)
  BY <1>0, ElementsOf
<1>2. s[Len(s)].kind = "whole" /\ s[Len(s)].val = v /\ v \in Value
  BY <1>0, LineKinds, Readings DEF Last
<1>3. ~HasCut(f) => Good(s)
  <2>1. ~HasCut(f) => \A i \in 1 .. Len(s) : s[i].kind = "whole"
    BY <1>0, <1>1 DEF HasCut, AllWritten, Written
  <2>2. \A i \in 1 .. Len(s) : s[i].kind = "whole" => s[i].cols = 3
    BY <1>0 DEF ProperLines, Proper, Written
  <2> QED
    BY <1>1, <2>1, <2>2 DEF Good
<1>4. HasCut(f) => ~Good(s)
  BY <1>0, <1>1, <1>2 DEF HasCut, Good
<1>5. ~AllNull(f)
  BY <1>0, <1>1, <1>2 DEF AllNull
<1>6. /\ HasCut(f) => Read(f) = Unreadable
      /\ ~HasCut(f) => Read(f) = v
  BY <1>0, <1>2, <1>3, <1>4, ReadOf
<1> QED
  BY <1>5, <1>6 DEF Holds

LEMMA HoldsReads ==
  ASSUME NEW f, f.lines \in Seq(Line), ProperLines(f.lines),
         NEW v \in Seen, Holds(f, v)
  PROVE  /\ f.lines # <<>> /\ ~AllNull(f) /\ Read(f) \in {v, Unreadable}
         /\ LineOf(f.lines[Len(f.lines)], v)
<1>0. PICK s \in Seq(Line) : s = f.lines
  OBVIOUS
<1>1. /\ Len(s) \in Nat /\ DOMAIN s = 1 .. Len(s)
      /\ 1 \in 1 .. Len(s) /\ Len(s) \in 1 .. Len(s)
  BY <1>0, ElementsOf DEF Holds
<1>2. s[Len(s)].kind = "whole" /\ s[Len(s)].val = v
  BY <1>0, LineKinds DEF Holds, Last
<1>3. f.lines # <<>> /\ ~AllNull(f)
  BY <1>0, <1>1, <1>2 DEF AllNull, Holds
<1>4. HasCut(f) => ~Good(s)
  BY <1>0, <1>1, <1>2 DEF HasCut, Good
<1>5. Read(f) \in {v, Unreadable}
  BY <1>0, <1>3, <1>4, ReadOf DEF Holds
<1> QED
  BY <1>0, <1>2, <1>3, <1>5 DEF LineOf

(***************************************************************************)
(* Files.                                                                  *)
(***************************************************************************)
LEMMA FileShape ==
  ASSUME NEW f \in File \cup {NoFile}, Sound(f)
  PROVE  /\ f.lines \in Seq(Line) /\ Len(f.lines) \in 0 .. MaxLines
         /\ f.synced \in 0 .. Len(f.lines) /\ f.synced \in Nat
         /\ ProperLines(f.lines)
         /\ f.synced < Len(f.lines) => \A i \in 1 .. f.synced : Written(f.lines[i])
         /\ f = NoFile => f.lines = <<>> /\ f.synced = 0
<1>1. f.lines \in SeqOf(Line, MaxLines) /\ f.synced \in 0 .. MaxLines
  <2>1. <<>> \in Seq(Line) /\ Len(<<>>) <= MaxLines
    BY EmptySeq
  <2>2. <<>> \in SeqOf(Line, MaxLines)
    BY <2>1, BoundedSequences
  <2> QED
    BY <2>2 DEF File, NoFile
<1>2. f.lines \in Seq(Line) /\ Len(f.lines) <= MaxLines /\ Len(f.lines) \in Nat
  BY <1>1, BoundedSequences, LenProperties
<1>3. DOMAIN f.lines = 1 .. Len(f.lines)
  BY <1>2, ElementsOf
<1> QED
  BY <1>1, <1>2, <1>3 DEF Sound, ProperLines, NoFile

LEMMA FileOf ==
  ASSUME NEW s \in Seq(Line), Len(s) <= MaxLines, NEW n \in 0 .. Len(s)
  PROVE  [lines |-> s, synced |-> n] \in File
<1>1. s \in SeqOf(Line, MaxLines) /\ Len(s) \in Nat
  BY BoundedSequences, LenProperties
<1> QED
  BY <1>1 DEF File

\* A file with other lines, or synced to another line, is that record.
LEMMA FileWith ==
  ASSUME NEW f \in File, NEW s, NEW n
  PROVE  /\ [f EXCEPT !.lines = s] = [lines |-> s, synced |-> f.synced]
         /\ [f EXCEPT !.synced = n] = [lines |-> f.lines, synced |-> n]
         /\ f = [lines |-> f.lines, synced |-> f.synced]
BY DEF File

LEMMA NotNoFile ==
  ASSUME NEW s, NEW n PROVE [lines |-> s, synced |-> n] # NoFile
<1>1. "none" \notin DOMAIN [lines |-> s, synced |-> n] /\ "none" \in DOMAIN NoFile
  BY DEF NoFile
<1> QED
  BY <1>1

LEMMA NoLines ==
  /\ Empty \in File /\ Empty # NoFile
  /\ Empty.lines = <<>> /\ NoFile.lines = <<>> /\ Empty.synced = 0 /\ NoFile.synced = 0
  /\ Len(Empty.lines) = 0 /\ Len(NoFile.lines) = 0
  /\ DOMAIN Empty.lines = {} /\ DOMAIN NoFile.lines = {}
  /\ Sound(Empty) /\ Settled(NoFile) /\ Sound(NoFile)
  /\ Read(Empty) = Fresh /\ Read(NoFile) = Fresh
  /\ ~AllNull(Empty) /\ ~AllNull(NoFile) /\ ~HasCut(Empty) /\ ~HasCut(NoFile)
  /\ \A V : Recent(Empty, V) /\ Recent(NoFile, V)
<1>1. <<>> \in Seq(Line) /\ Len(<<>>) = 0 /\ DOMAIN <<>> = {}
  BY EmptySeq
<1>2. Empty \in File
  <2>1. Len(<<>>) <= MaxLines /\ 0 \in 0 .. Len(<<>>)
    BY <1>1
  <2>2. [lines |-> <<>>, synced |-> 0] \in File
    BY <1>1, <2>1, FileOf
  <2> QED
    BY <2>2 DEF Empty
<1>3. Empty # NoFile
  BY NotNoFile DEF Empty
<1>4. Empty.lines = <<>> /\ NoFile.lines = <<>> /\ Empty.synced = 0 /\ NoFile.synced = 0
  BY DEF Empty, NoFile
<1>5. /\ Read(Empty) = Fresh /\ Read(NoFile) = Fresh /\ ~AllNull(Empty) /\ ~AllNull(NoFile)
      /\ ~HasCut(Empty) /\ ~HasCut(NoFile)
  BY <1>1, <1>4 DEF Read, AllNull, HasCut
<1>6. Sound(Empty) /\ Sound(NoFile)
  BY <1>1, <1>4 DEF Sound
<1>7. \A V : Recent(Empty, V) /\ Recent(NoFile, V)
  BY <1>1, <1>4 DEF Recent
<1> QED
  BY <1>1, <1>2, <1>3, <1>4, <1>5, <1>6, <1>7 DEF Settled

(***************************************************************************)
(* Lines behind lines.                                                     *)
(***************************************************************************)

\* t is s with the line l behind it.
Longer(t, s, l) ==
  /\ t \in Seq(Line) /\ Len(t) = Len(s) + 1
  /\ \A i \in 1 .. Len(s) : t[i] = s[i]
  /\ t[Len(s) + 1] = l

\* t is s, whose last line was cut in its status and has grown.
Grown(t, s) ==
  /\ t \in Seq(Line) /\ Len(t) = Len(s) /\ Len(s) \in 1 .. Len(s)
  /\ \A i \in 1 .. Len(s) : i # Len(s) => t[i] = s[i]
  /\ s[Len(s)].kind = "cut" /\ t[Len(s)].kind = "cut"
  /\ s[Len(s)].cols = 3 /\ t[Len(s)].cols = 3
  /\ t[Len(s)].val = [s[Len(s)].val EXCEPT !.flag = "cut"]

LEMMA SpoiltIs ==
  ASSUME NEW s \in Seq(Line), NEW ls, ls \subseteq Line, NEW t \in Spoilt(s, ls)
  PROVE  (\E l \in ls : Longer(t, s, l)) \/ Grown(t, s)
<1>1. CASE \E l \in ls : t = Append(s, l)
  <2>1. PICK l \in ls : t = Append(s, l)
    BY <1>1
  <2>2. Longer(t, s, l)
    BY <2>1, Appended DEF Longer
  <2> QED
    BY <2>2
<1>2. CASE EndsInStatus(s) /\ t = [s EXCEPT ![Len(s)].val.flag = "cut"]
  <2>1. /\ Len(s) \in Nat /\ DOMAIN s = 1 .. Len(s) /\ Len(s) \in 1 .. Len(s)
        /\ \A i \in 1 .. Len(s) : s[i] \in Line
        /\ s[Len(s)].kind = "cut" /\ s[Len(s)].cols = 3
    BY <1>2, ElementsOf DEF EndsInStatus, Last
  <2>2. PICK k : k = s[Len(s)]
    OBVIOUS
  <2>3. PICK m : m = [k EXCEPT !.val.flag = "cut"]
    OBVIOUS
  <2>4. k \in Line /\ k.kind = "cut" /\ k.cols = 3 /\ k.val \in Seen
    BY <2>1, <2>2 DEF Line
  <2>5. m = [kind |-> k.kind, val |-> [k.val EXCEPT !.flag = "cut"], cols |-> k.cols]
    BY <2>3, <2>4 DEF Line
  <2>6. [k.val EXCEPT !.flag = "cut"] \in Seen
    BY <2>4 DEF Seen
  <2>7. m \in Line /\ m.kind = "cut" /\ m.cols = 3 /\ m.val = [k.val EXCEPT !.flag = "cut"]
    BY <2>4, <2>5, <2>6 DEF Line
  <2>8. PICK n \in 1 .. Len(s) : n = Len(s)
    BY <2>1
  <2>9. t = [s EXCEPT ![n] = m]
    BY <1>2, <2>2, <2>3, <2>8
  <2>10. /\ t \in [1 .. Len(s) -> Line] /\ t[n] = m
         /\ \A i \in 1 .. Len(s) : i # n => t[i] = s[i]
    BY <2>1, <2>7, <2>9
  <2>11. t \in Seq(Line) /\ Len(t) = Len(s)
    BY <2>1, <2>10
  <2> QED
    BY <2>1, <2>2, <2>7, <2>8, <2>10, <2>11 DEF Grown
<1> QED
  BY <1>1, <1>2 DEF Spoilt

LEMMA GrownLines ==
  ASSUME NEW s \in Seq(Line), NEW t, Grown(t, s)
  PROVE  /\ \A i \in 1 .. Len(s) :
              /\ t[i].kind = s[i].kind /\ t[i].cols = s[i].cols
              /\ Proper(s[i]) => Proper(t[i])
              /\ \A v \in Seen : LineOf(s[i], v) => LineOf(t[i], v)
<1>1. SUFFICES ASSUME NEW i \in 1 .. Len(s)
               PROVE  /\ t[i].kind = s[i].kind /\ t[i].cols = s[i].cols
                      /\ Proper(s[i]) => Proper(t[i])
                      /\ \A v \in Seen : LineOf(s[i], v) => LineOf(t[i], v)
  OBVIOUS
<1>2. CASE i # Len(s)
  BY <1>2 DEF Grown
<1>3. CASE i = Len(s)
  <2>1. PICK u : u = s[i].val
    OBVIOUS
  <2>2. /\ s[i].kind = "cut" /\ t[i].kind = "cut" /\ s[i].cols = 3 /\ t[i].cols = 3
        /\ t[i].val = [u EXCEPT !.flag = "cut"]
    BY <1>3, <2>1 DEF Grown
  <2>3. u \in Seen
    <3>1. s[i] \in Line
      BY ElementsOf
    <3> QED
      BY <2>1, <3>1 DEF Line
  <2>4. t[i].val.pos = u.pos
    BY <2>2, <2>3 DEF Seen
  <2>5. Proper(s[i]) => Proper(t[i])
    BY <2>1, <2>2, <2>4 DEF Proper, Written
  <2>6. ASSUME NEW v \in Seen, LineOf(s[i], v) PROVE LineOf(t[i], v)
    <3>1. u \in CutShort(v) /\ u.pos = v.pos
      BY <2>1, <2>2, <2>6 DEF LineOf
    <3>2. [u EXCEPT !.flag = "cut"] \in CutShort(v)
      BY <3>1, ShortOfShort
    <3> QED
      BY <2>2, <2>4, <3>1, <3>2 DEF LineOf
  <2> QED
    BY <2>2, <2>5, <2>6
<1> QED
  BY <1>2, <1>3

\* A file with other lines, which keep what was synced, is a file.
LEMMA LinesPut ==
  ASSUME NEW f \in File, NEW s \in Seq(Line), Len(s) <= MaxLines,
         f.synced <= Len(s), NEW g
  PROVE  g = [f EXCEPT !.lines = s] =>
           g \in File /\ g # NoFile /\ g.lines = s /\ g.synced = f.synced
<1>1. f.synced \in 0 .. Len(s)
  BY LenProperties DEF File
<1>2. [lines |-> s, synced |-> f.synced] \in File
  BY <1>1, FileOf
<1>3. [f EXCEPT !.lines = s] = [lines |-> s, synced |-> f.synced]
  BY FileWith
<1>4. [lines |-> s, synced |-> f.synced] # NoFile
  BY NotNoFile
<1> QED
  BY <1>2, <1>3, <1>4

\* What a write leaves of a file that is open: g is f with more behind it.
Extends(g, f) ==
  /\ g \in File /\ g # NoFile /\ g.lines \in Seq(Line)
  /\ g.synced = f.synced /\ Sound(g)
  /\ Len(g.lines) \in {Len(f.lines), Len(f.lines) + 1}
  /\ \A i \in 1 .. Len(f.lines) : g.lines[i].kind = f.lines[i].kind

LEMMA Added ==
  ASSUME NEW f \in File, Sound(f), AllWritten(f.lines), Len(f.lines) < MaxLines,
         NEW s, NEW l \in Line, Proper(l), Longer(s, f.lines, l), NEW g
  PROVE  g = [f EXCEPT !.lines = s] => Extends(g, f) /\ g.lines = s
<1>g. SUFFICES ASSUME g = [f EXCEPT !.lines = s]
               PROVE  Extends(g, f) /\ g.lines = s
  OBVIOUS
<1>1. /\ f.lines \in Seq(Line) /\ Len(f.lines) \in Nat /\ f.synced \in Nat
      /\ f.synced <= Len(f.lines) /\ ProperLines(f.lines)
  BY FileShape
<1>2. /\ s \in Seq(Line) /\ Len(s) = Len(f.lines) + 1
      /\ \A i \in 1 .. Len(f.lines) : s[i] = f.lines[i]
      /\ s[Len(f.lines) + 1] = l
  BY DEF Longer
<1>3. Len(s) <= MaxLines /\ f.synced <= Len(s)
  BY <1>1, <1>2
<1>4. g \in File /\ g # NoFile /\ g.lines = s /\ g.synced = f.synced
  BY <1>g, <1>2, <1>3, LinesPut
<1>5. \A i \in 1 .. Len(s) : i \in 1 .. Len(f.lines) \/ i = Len(f.lines) + 1
  BY <1>1, <1>2
<1>6. \A i \in 1 .. f.synced : i \in 1 .. Len(f.lines)
  BY <1>1
<1>7. DOMAIN s = 1 .. Len(s)
  BY <1>2, ElementsOf
<1>8. \A i \in 1 .. Len(s) : Proper(s[i])
  BY <1>1, <1>2, <1>5 DEF ProperLines
<1>9. \A i \in 1 .. f.synced : Written(s[i])
  BY <1>2, <1>6 DEF AllWritten
<1>10. Sound(g)
  BY <1>3, <1>4, <1>7, <1>8, <1>9 DEF Sound
<1> QED
  BY <1>2, <1>4, <1>10 DEF Extends

LEMMA Lengthened ==
  ASSUME NEW f \in File, Sound(f), AllWritten(f.lines),
         NEW s, Grown(s, f.lines), NEW g
  PROVE  g = [f EXCEPT !.lines = s] => Extends(g, f) /\ g.lines = s
<1>g. SUFFICES ASSUME g = [f EXCEPT !.lines = s]
               PROVE  Extends(g, f) /\ g.lines = s
  OBVIOUS
<1>1. /\ f.lines \in Seq(Line) /\ Len(f.lines) \in 0 .. MaxLines /\ f.synced \in Nat
      /\ f.synced <= Len(f.lines) /\ ProperLines(f.lines)
  BY FileShape
<1>2. s \in Seq(Line) /\ Len(s) = Len(f.lines)
  BY DEF Grown
<1>3. Len(s) <= MaxLines /\ f.synced <= Len(s)
  BY <1>1, <1>2
<1>4. g \in File /\ g # NoFile /\ g.lines = s /\ g.synced = f.synced
  BY <1>g, <1>2, <1>3, LinesPut
<1>5. \A i \in 1 .. Len(f.lines) : s[i].kind = f.lines[i].kind /\ Proper(s[i])
  BY <1>1, GrownLines DEF ProperLines
<1>6. \A i \in 1 .. f.synced : i \in 1 .. Len(f.lines)
  BY <1>1
<1>7. DOMAIN s = 1 .. Len(s)
  BY <1>2, ElementsOf
<1>8. \A i \in 1 .. f.synced : Written(s[i])
  BY <1>5, <1>6 DEF AllWritten, Written
<1>9. Sound(g)
  BY <1>2, <1>3, <1>4, <1>5, <1>7, <1>8 DEF Sound
<1> QED
  BY <1>2, <1>4, <1>5, <1>9 DEF Extends

\* The recent lines, when there is one more or the last has grown.
LEMMA RecentAdded ==
  ASSUME NEW f, NEW g, f.lines \in Seq(Line), NEW V, NEW W, V \subseteq W, Recent(f, V),
         g.synced = f.synced, NEW l, Longer(g.lines, f.lines, l),
         \E w \in W : LineOf(l, w)
  PROVE  Recent(g, W)
<1>1. /\ Len(f.lines) \in Nat /\ DOMAIN f.lines = 1 .. Len(f.lines)
      /\ DOMAIN g.lines = 1 .. Len(g.lines) /\ Len(g.lines) = Len(f.lines) + 1
      /\ \A i \in 1 .. Len(f.lines) : g.lines[i] = f.lines[i]
      /\ g.lines[Len(f.lines) + 1] = l
  BY ElementsOf DEF Longer
<1>2. \A i \in DOMAIN g.lines : i \in DOMAIN f.lines \/ i = Len(f.lines) + 1
  BY <1>1
<1> QED
  BY <1>1, <1>2 DEF Recent

LEMMA RecentGrown ==
  ASSUME NEW f, NEW g, f.lines \in Seq(Line), NEW V, V \subseteq Seen, Recent(f, V),
         g.synced = f.synced, Grown(g.lines, f.lines)
  PROVE  Recent(g, V)
<1>1. /\ DOMAIN f.lines = 1 .. Len(f.lines) /\ DOMAIN g.lines = 1 .. Len(f.lines)
  BY ElementsOf DEF Grown
<1>2. \A i \in 1 .. Len(f.lines) :
        \A v \in Seen : LineOf(f.lines[i], v) => LineOf(g.lines[i], v)
  BY GrownLines
<1> QED
  BY <1>1, <1>2 DEF Recent

(***************************************************************************)
(* What a power failure leaves.                                            *)
(***************************************************************************)

\* g is left of f: its lines are recent when those of f were.
LeftOf(g, f) ==
  /\ g \in File \cup {NoFile} /\ Sound(g) /\ g.synced = Len(g.lines)
  /\ g.lines = <<>> => f.synced = 0
  /\ f.synced > 0 => g.synced > 0 /\ g.lines[1].kind = f.lines[1].kind
  /\ AllNull(g) => AllNull(f) \/ f.synced = 0
  /\ \A V : V \subseteq Seen /\ Recent(f, V) => Recent(g, V)

\* The lines of f up to the n-th, behind which nothing or something is left.
LEMMA LeftLines ==
  ASSUME NEW f \in File, Sound(f), f.synced < Len(f.lines),
         NEW n \in f.synced .. Len(f.lines), NEW s \in Seq(Line),
         Len(s) <= Len(f.lines), ProperLines(s),
         Len(s) \in {n, n + 1},
         \A i \in 1 .. n : s[i].kind = f.lines[i].kind,
         \A V : V \subseteq Seen /\ Recent(f, V) =>
                  \A i \in 1 .. Len(s) : i >= Len(s) => \E v \in V : LineOf(s[i], v),
         NEW g, g = [lines |-> s, synced |-> Len(s)]
  PROVE  LeftOf(g, f)
<1>1. /\ f.lines \in Seq(Line) /\ Len(f.lines) \in 0 .. MaxLines /\ f.synced \in Nat
      /\ \A i \in 1 .. f.synced : Written(f.lines[i])
  BY FileShape
<1>2. g.lines = s /\ g.synced = Len(s)
  OBVIOUS
<1>3. Len(s) \in Nat /\ DOMAIN s = 1 .. Len(s) /\ (s = <<>> <=> Len(s) = 0) /\ n \in Nat
  BY <1>1, ElementsOf
<1>4. Len(s) <= MaxLines /\ Len(s) \in 0 .. Len(s)
  BY <1>1, <1>3
<1>5. g \in File
  BY <1>4, FileOf
<1>6. Sound(g)
  BY <1>2, <1>3 DEF Sound, ProperLines
<1>7. s = <<>> => f.synced = 0
  BY <1>1, <1>3
<1>8. f.synced > 0 => Len(s) > 0 /\ s[1].kind = f.lines[1].kind /\ Written(f.lines[1])
  BY <1>1, <1>3
<1>9. AllNull(g) => f.synced = 0
  <2>1. AllNull(g) => s # <<>> /\ s[1].kind = "null"
    BY <1>2, <1>3 DEF AllNull
  <2>2. f.synced > 0 \/ f.synced = 0
    BY <1>1
  <2> QED
    BY <1>8, <2>1, <2>2 DEF Written
<1>10. \A V : V \subseteq Seen /\ Recent(f, V) => Recent(g, V)
  BY <1>2, <1>3 DEF Recent
<1> QED
  BY <1>2, <1>5, <1>6, <1>7, <1>8, <1>9, <1>10 DEF LeftOf

LEMMA SurvivorsOf ==
  ASSUME NEW f \in File \cup {NoFile}, Sound(f), NEW g \in Survivors(f)
  PROVE  LeftOf(g, f)
<1>0. /\ f.lines \in Seq(Line) /\ Len(f.lines) \in 0 .. MaxLines
      /\ f.synced \in 0 .. Len(f.lines) /\ ProperLines(f.lines)
      /\ f = NoFile => f.lines = <<>> /\ f.synced = 0
      /\ Len(f.lines) \in Nat /\ f.synced \in Nat
  BY FileShape
<1>e. /\ f.lines = <<>> <=> Len(f.lines) = 0
      /\ DOMAIN f.lines = 1 .. Len(f.lines)
      /\ \A i \in 1 .. Len(f.lines) : f.lines[i] \in Line
  BY <1>0, ElementsOf
<1>1. CASE f.synced = Len(f.lines)
  <2>1. g = f
    BY <1>1 DEF Survivors
  <2>2. LeftOf(f, f)
    BY <1>0, <1>e, <1>1 DEF LeftOf
  <2> QED
    BY <2>1, <2>2
<1>2. CASE f.synced # Len(f.lines)
  <2>0. f \in File /\ f.synced < Len(f.lines)
    <3>1. Len(f.lines) # 0
      BY <1>0, <1>2
    <3> QED
      BY <1>0, <1>2, <1>e, <3>1
  <2>1. PICK s : /\ g = [lines |-> s, synced |-> Len(s)]
                 /\ \/ \E n \in f.synced .. Len(f.lines) : s = SubSeq(f.lines, 1, n)
                    \/ \E n \in f.synced .. Len(f.lines) - 1 :
                         s \in Spoilt(SubSeq(f.lines, 1, n), Pieces(f.lines[n + 1]))
    BY <1>2 DEF Survivors
  <2>2. ASSUME NEW n \in f.synced .. Len(f.lines), s = SubSeq(f.lines, 1, n)
        PROVE  LeftOf(g, f)
    <3>1. n \in 0 .. Len(f.lines) /\ n \in Nat
      BY <1>0
    <3>2. s \in Seq(Line) /\ Len(s) = n /\ \A i \in 1 .. n : s[i] = f.lines[i]
      BY <1>0, <2>2, <3>1, FirstLines
    <3>3. ProperLines(s)
      BY <1>0, <3>1, <3>2 DEF ProperLines
    <3>4. ASSUME NEW V, V \subseteq Seen, Recent(f, V), NEW i \in 1 .. Len(s), i >= Len(s)
          PROVE  \E v \in V : LineOf(s[i], v)
      <4>1. i \in DOMAIN f.lines /\ i >= f.synced /\ s[i] = f.lines[i]
        BY <1>0, <1>e, <3>1, <3>2, <3>4
      <4> QED
        BY <3>4, <4>1 DEF Recent
    <3>5. \A i \in 1 .. n : s[i].kind = f.lines[i].kind
      BY <3>2
    <3>6. Len(s) <= Len(f.lines) /\ Len(s) \in {n, n + 1}
      BY <1>0, <3>1, <3>2
    <3> QED
      BY <2>0, <2>1, <3>2, <3>3, <3>4, <3>5, <3>6, LeftLines
  <2>3. ASSUME NEW n \in f.synced .. Len(f.lines) - 1,
               s \in Spoilt(SubSeq(f.lines, 1, n), Pieces(f.lines[n + 1]))
        PROVE  LeftOf(g, f)
    <3>1. n \in 0 .. Len(f.lines) /\ n \in Nat /\ n + 1 \in 1 .. Len(f.lines)
          /\ n \in f.synced .. Len(f.lines) /\ n + 1 >= f.synced
      BY <1>0
    <3>2. PICK b : b = SubSeq(f.lines, 1, n)
      OBVIOUS
    <3>3. b \in Seq(Line) /\ Len(b) = n /\ \A i \in 1 .. n : b[i] = f.lines[i]
      BY <1>0, <3>1, <3>2, FirstLines
    <3>4. PICK k : k = f.lines[n + 1]
      OBVIOUS
    <3>5. k \in Line /\ Proper(k)
      BY <1>0, <1>e, <3>1, <3>4 DEF ProperLines
    <3>6. ASSUME NEW V, V \subseteq Seen, Recent(f, V)
          PROVE  /\ \E v \in V : LineOf(k, v)
                 /\ \A i \in 1 .. n : i >= n => \E v \in V : LineOf(b[i], v)
      <4>1. \A i \in 1 .. Len(f.lines) : i >= f.synced => \E v \in V : LineOf(f.lines[i], v)
        BY <1>e, <3>6 DEF Recent
      <4>2. \E v \in V : LineOf(k, v)
        BY <3>1, <3>4, <4>1
      <4>3. \A i \in 1 .. n : i >= n => i \in 1 .. Len(f.lines) /\ i >= f.synced
        BY <1>0, <3>1
      <4> QED
        BY <3>3, <4>1, <4>2, <4>3
    <3>7. \A c \in Pieces(k) :
            c \in Line /\ Proper(c) /\ \A v \in Seen : LineOf(k, v) => LineOf(c, v)
      <4>1. ASSUME NEW c \in Pieces(k), NEW v \in Seen, LineOf(k, v)
            PROVE  c \in Line /\ Proper(c) /\ LineOf(c, v)
        BY <3>5, <4>1, PiecesOf
      <4>2. ASSUME NEW c \in Pieces(k) PROVE c \in Line /\ Proper(c)
        <5>1. CASE Written(k)
          <6>1. k.val \in Seen /\ k.val.pos > 0
            BY <3>5, <5>1 DEF Line, Proper
          <6>2. PICK u \in Seen : u = k.val
            BY <6>1
          <6>3. CASE c \in Cuts(u)
            BY <6>1, <6>2, <6>3, CutsOf
          <6>4. CASE c \in {BadLine("torn"), BadLine("null")}
            BY <6>4, LineKinds
          <6> QED
            BY <4>2, <6>2, <6>3, <6>4 DEF Pieces
        <5>2. CASE ~Written(k)
          <6>1. c \in {BadLine("torn"), BadLine("null")}
            BY <4>2, <5>2 DEF Pieces, Written
          <6> QED
            BY <6>1, LineKinds
        <5> QED
          BY <5>1, <5>2
      <4> QED
        BY <4>1, <4>2
    <3>8. (\E l \in Pieces(k) : Longer(s, b, l)) \/ Grown(s, b)
      BY <2>3, <3>2, <3>3, <3>4, <3>7, SpoiltIs
    <3>9. \A i \in 1 .. n : i \in 1 .. Len(f.lines) /\ Proper(b[i])
      BY <1>0, <3>1, <3>3 DEF ProperLines
    <3>10. ASSUME NEW l \in Pieces(k), Longer(s, b, l) PROVE LeftOf(g, f)
      <4>1. /\ s \in Seq(Line) /\ Len(s) = n + 1 /\ s[n + 1] = l
            /\ \A i \in 1 .. n : s[i] = b[i]
        BY <3>3, <3>10 DEF Longer
      <4>2. \A i \in 1 .. Len(s) : i \in 1 .. n \/ i = n + 1
        BY <3>1, <4>1
      <4>3. ProperLines(s)
        BY <3>7, <3>9, <4>1, <4>2 DEF ProperLines
      <4>4. \A i \in 1 .. n : s[i].kind = f.lines[i].kind
        BY <3>3, <4>1
      <4>5. ASSUME NEW V, V \subseteq Seen, Recent(f, V), NEW i \in 1 .. Len(s), i >= Len(s)
            PROVE  \E v \in V : LineOf(s[i], v)
        <5>1. i = n + 1
          BY <3>1, <4>1, <4>5
        <5>2. \E v \in V : LineOf(k, v)
          BY <3>6, <4>5
        <5> QED
          BY <3>7, <4>1, <4>5, <5>1, <5>2
      <4>6. Len(s) <= Len(f.lines)
        BY <1>0, <3>1, <4>1
      <4> QED
        BY <2>0, <2>1, <3>1, <4>1, <4>3, <4>4, <4>5, <4>6, LeftLines
    <3>11. ASSUME Grown(s, b) PROVE LeftOf(g, f)
      <4>1. s \in Seq(Line) /\ Len(s) = n
        BY <3>3, <3>11 DEF Grown
      <4>2. \A i \in 1 .. n : /\ s[i].kind = b[i].kind /\ Proper(s[i])
                              /\ \A v \in Seen : LineOf(b[i], v) => LineOf(s[i], v)
        BY <3>3, <3>9, <3>11, GrownLines
      <4>3. ProperLines(s)
        BY <4>1, <4>2 DEF ProperLines
      <4>4. \A i \in 1 .. n : s[i].kind = f.lines[i].kind
        BY <3>3, <4>2
      <4>5. ASSUME NEW V, V \subseteq Seen, Recent(f, V), NEW i \in 1 .. Len(s), i >= Len(s)
            PROVE  \E v \in V : LineOf(s[i], v)
        BY <3>6, <4>1, <4>2, <4>5
      <4>6. Len(s) <= Len(f.lines)
        BY <1>0, <3>1, <4>1
      <4> QED
        BY <2>0, <2>1, <3>1, <4>1, <4>3, <4>4, <4>5, <4>6, LeftLines
    <3> QED
      BY <3>8, <3>10, <3>11
  <2> QED
    BY <2>1, <2>2, <2>3
<1> QED
  BY <1>1, <1>2

(***************************************************************************)
(* The steps.                                                              *)
(***************************************************************************)
LEMMA Now == legacy = NoFile => Current = main /\ Spare = zero
BY DEF Current, Spare

LEMMA OpenIsMain ==
  ASSUME TakeOverInv, pc # "closed"
  PROVE  legacy = NoFile /\ Current = main /\ Spare = zero
BY Now DEF TakeOverInv

\* The values whose lines may be in the file.
LEMMA WrittenValues ==
  ASSUME TypeOK
  PROVE  /\ tried \cup {acked} \subseteq Seen
         /\ acked \in Seen /\ acked # Unreadable
         /\ want \in Seen
BY Readings DEF TypeOK

\* A session's own file, with what is known of it.
LEMMA MainShape ==
  ASSUME TypeOK, FilesInv
  PROVE  /\ main \in File \cup {NoFile} /\ Sound(main)
         /\ main.lines \in Seq(Line) /\ Len(main.lines) \in Nat
         /\ DOMAIN main.lines = 1 .. Len(main.lines)
         /\ main.synced \in Nat /\ ProperLines(main.lines)
<1>1. main \in File \cup {NoFile} /\ Sound(main)
  BY DEF TypeOK, FilesInv
<1>2. main.lines \in Seq(Line) /\ main.synced \in Nat /\ ProperLines(main.lines)
  BY <1>1, FileShape
<1> QED
  BY <1>1, <1>2, ElementsOf

LEMMA OpenShape ==
  ASSUME IInv, pc # "closed"
  PROVE  AllWritten(main.lines) /\ ~AllNull(main)
<1>1. DOMAIN main.lines = 1 .. Len(main.lines) /\ main.lines \in Seq(Line)
  BY MainShape DEF IInv
<1>2. AllWritten(main.lines)
  BY <1>1 DEF IInv, CallInv, AllWritten
<1>3. main.lines # <<>> => 1 \in DOMAIN main.lines
  BY <1>1, ElementsOf
<1> QED
  BY <1>1, <1>2, <1>3 DEF AllNull, AllWritten, Written

LEMMA SwitchV2Step ==
  ASSUME IInv, SwitchV2
  PROVE  IInv'
<1> USE DEF IInv
<1>1. /\ pc = "closed" /\ legacy # NoFile /\ main = NoFile /\ main' = legacy
      /\ legacy' = NoFile /\ moved' = TRUE
      /\ UNCHANGED <<zero, before, legacyZero, pc, op, want, acked, tried>>
  BY DEF SwitchV2
<1>2. /\ Current = legacy /\ Current' = legacy /\ Spare' = zero /\ zero = NoFile
      /\ legacy.synced > 0 /\ (~NullLegacy => legacy.lines[1].kind = "whole")
  BY <1>1 DEF Current, Spare, TakeOverInv
<1>3. TypeOK'
  BY <1>1 DEF TypeOK
<1>4. FilesInv'
  BY <1>1, NoLines DEF FilesInv
<1>5. TakeOverInv' /\ CallInv'
  BY <1>1, <1>2 DEF TakeOverInv, CallInv
<1>6. AckedInv'
  BY <1>1, <1>2 DEF AckedInv
<1>7. ~NullLegacy => NullFileHasSpare'
  <2>1. legacy.lines \in Seq(Line) /\ legacy.synced \in 0 .. Len(legacy.lines)
    BY FileShape DEF TypeOK, FilesInv
  <2>2. 1 \in DOMAIN legacy.lines
    BY <1>2, <2>1, ElementsOf
  <2>3. ~NullLegacy => ~AllNull(legacy)
    BY <1>2, <2>2 DEF AllNull
  <2> QED
    BY <1>2, <2>3 DEF NullFileHasSpare
<1> QED
  BY <1>3, <1>4, <1>5, <1>6, <1>7

LEMMA GetOffsetStep ==
  ASSUME IInv, GetOffset
  PROVE  IInv'
<1> USE DEF IInv
<1>1. /\ pc = "closed" /\ legacy = NoFile /\ Read(main) # Unreadable
      /\ main' = IF main = NoFile THEN Empty ELSE main
      /\ pc' = "open" /\ UNCHANGED <<zero, before, legacy, legacyZero, moved>>
      /\ UNCHANGED <<op, want, acked, tried>>
  BY DEF GetOffset, old
<1>2. /\ main' \in File /\ main' # NoFile /\ Sound(main')
      /\ main'.lines = main.lines /\ main'.synced = main.synced
  BY <1>1, NoLines DEF TypeOK, FilesInv
<1>a. /\ AllNull(main') <=> AllNull(main)
      /\ \A V : Recent(main', V) <=> Recent(main, V)
  BY <1>2 DEF AllNull, Recent
<1>3. /\ Current = main /\ Current' = main' /\ Spare = zero /\ Spare' = zero
      /\ legacy' = NoFile
  BY <1>1 DEF Current, Spare
<1>4. TypeOK'
  BY <1>1, <1>2 DEF TypeOK
<1>5. FilesInv'
  BY <1>1, <1>2 DEF FilesInv
<1>6. TakeOverInv'
  BY <1>1, <1>2, <1>3 DEF TakeOverInv
<1>7. CallInv'
  <2>1. AllWritten(main.lines) /\ DOMAIN main.lines = 1 .. Len(main.lines)
    BY <1>1, MainShape, ReadOf
  <2> QED
    BY <1>1, <1>2, <2>1 DEF CallInv, AllWritten
<1>8. AckedInv'
  BY <1>1, <1>2, <1>3, <1>a DEF AckedInv
<1>9. ~NullLegacy => NullFileHasSpare'
  BY <1>1, <1>3, <1>a DEF NullFileHasSpare
<1> QED
  BY <1>4, <1>5, <1>6, <1>7, <1>8, <1>9

\* g is the open file f with the whole line of v behind its lines.
PutWhole(g, f, v) ==
  /\ Extends(g, f) /\ AllWritten(g.lines)
  /\ g.lines # <<>> /\ Last(g.lines) = WholeLine(v, 3)
  /\ Len(g.lines) = Len(f.lines) + 1
  /\ HasCut(g) <=> HasCut(f)
  /\ \A V, W : V \subseteq W /\ v \in W /\ Recent(f, V) => Recent(g, W)

LEMMA WholeAdded ==
  ASSUME NEW f \in File, Sound(f), AllWritten(f.lines), Len(f.lines) < MaxLines,
         NEW v \in Saved, NEW g
  PROVE  g = [f EXCEPT !.lines = Append(f.lines, WholeLine(v, 3))] => PutWhole(g, f, v)
<1>0. PICK s : s = Append(f.lines, WholeLine(v, 3))
  OBVIOUS
<1>g. SUFFICES ASSUME g = [f EXCEPT !.lines = s]
               PROVE  PutWhole(g, f, v)
  BY <1>0
<1>1. PICK l : l = WholeLine(v, 3)
  OBVIOUS
<1>2. /\ l \in Line /\ l.kind = "whole" /\ l.val = v /\ l.cols = 3
      /\ Proper(l) /\ Written(l) /\ LineOf(l, v)
  BY <1>1, LineKinds, Readings DEF Proper, Written, LineOf
<1>3. f.lines \in Seq(Line) /\ Len(f.lines) \in Nat /\ DOMAIN f.lines = 1 .. Len(f.lines)
  BY FileShape, ElementsOf
<1>4. Longer(s, f.lines, l)
  BY <1>0, <1>1, <1>2, <1>3, Appended DEF Longer
<1>5. Extends(g, f) /\ g.lines = s
  <2>1. l \in Line /\ Proper(l)
    BY <1>2
  <2>2. g = [f EXCEPT !.lines = s] => Extends(g, f) /\ g.lines = s
    BY <1>4, <2>1, Added
  <2> QED
    BY <1>g, <2>2
<1>6. /\ g.lines \in Seq(Line) /\ Len(g.lines) = Len(f.lines) + 1
      /\ DOMAIN g.lines = 1 .. Len(g.lines) /\ g.lines # <<>>
      /\ \A i \in 1 .. Len(f.lines) : g.lines[i] = f.lines[i]
      /\ g.lines[Len(f.lines) + 1] = l
  BY <1>3, <1>4, <1>5, ElementsOf DEF Longer
<1>7. \A i \in 1 .. Len(g.lines) : i \in 1 .. Len(f.lines) \/ i = Len(f.lines) + 1
  BY <1>3, <1>6
<1>8. AllWritten(g.lines)
  BY <1>2, <1>6, <1>7 DEF AllWritten
<1>9. HasCut(g) <=> HasCut(f)
  <2>1. \A i \in 1 .. Len(f.lines) : i \in 1 .. Len(g.lines)
    BY <1>3, <1>6
  <2> QED
    BY <1>2, <1>3, <1>6, <1>7, <2>1 DEF HasCut
<1>10. \A V, W : V \subseteq W /\ v \in W /\ Recent(f, V) => Recent(g, W)
  <2>1. g.synced = f.synced /\ Longer(g.lines, f.lines, l)
    BY <1>4, <1>5 DEF Extends
  <2> QED
    BY <1>2, <1>3, <2>1, RecentAdded
<1>11. Last(g.lines) = WholeLine(v, 3)
  BY <1>1, <1>6 DEF Last
<1> QED
  BY <1>5, <1>6, <1>8, <1>9, <1>10, <1>11 DEF PutWhole

\* g is the open file f with a part of the line of v behind its lines.
PutPart(g, f, v) ==
  /\ Extends(g, f) /\ ~AllNull(g)
  /\ HasCut(f) => HasCut(g)
  /\ \A V, W : V \subseteq W /\ W \subseteq Seen /\ v \in W /\ Recent(f, V) =>
                 Recent(g, W)
  /\ \/ Read(g) = Unreadable
     \/ HasCut(g) /\ ~HasCut(f) /\ Read(g) \in CutShort(v)
     \/ HasCut(g) /\ HasCut(f) /\ Read(g) = [Read(f) EXCEPT !.flag = "cut"]

LEMMA PartAdded ==
  ASSUME NEW f \in File, Sound(f), AllWritten(f.lines), Len(f.lines) < MaxLines,
         NEW v \in Saved, NEW s \in Spoilt(f.lines, Cuts(v)), NEW g
  PROVE  g = [f EXCEPT !.lines = s] => PutPart(g, f, v)
<1>g. SUFFICES ASSUME g = [f EXCEPT !.lines = s]
               PROVE  PutPart(g, f, v)
  OBVIOUS
<1>1. /\ f.lines \in Seq(Line) /\ Len(f.lines) \in Nat /\ DOMAIN f.lines = 1 .. Len(f.lines)
      /\ ProperLines(f.lines)
  BY FileShape, ElementsOf
<1>2. v \in Seen /\ v.pos > 0
  BY Readings
<1>3. /\ Cuts(v) \subseteq Line
      /\ \A l \in Cuts(v) : /\ Proper(l) /\ l.kind \in {"cut", "torn"} /\ LineOf(l, v)
                            /\ l.kind = "cut" => l.val \in CutShort(v)
  BY <1>2, CutsOf
<1>4. (\E l \in Cuts(v) : Longer(s, f.lines, l)) \/ Grown(s, f.lines)
  BY <1>1, <1>3, SpoiltIs
<1>5. ASSUME NEW l \in Cuts(v), Longer(s, f.lines, l) PROVE PutPart(g, f, v)
  <2>1. /\ l \in Line /\ Proper(l) /\ l.kind \in {"cut", "torn"} /\ LineOf(l, v)
        /\ l.kind = "cut" => l.val \in CutShort(v)
    BY <1>3
  <2>2. Extends(g, f) /\ g.lines = s
    <3>0. l \in Line /\ Proper(l)
      BY <2>1
    <3>1. g = [f EXCEPT !.lines = s] => Extends(g, f) /\ g.lines = s
      BY <1>5, <3>0, Added
    <3> QED
      BY <1>g, <3>1
  <2>3. /\ g.lines \in Seq(Line) /\ Len(g.lines) = Len(f.lines) + 1
        /\ DOMAIN g.lines = 1 .. Len(g.lines) /\ g.lines # <<>>
        /\ \A i \in 1 .. Len(f.lines) : g.lines[i] = f.lines[i]
        /\ g.lines[Len(f.lines) + 1] = l
    BY <1>1, <1>5, <2>2, ElementsOf DEF Longer
  <2>4. /\ Len(g.lines) \in DOMAIN g.lines
        /\ \A i \in 1 .. Len(f.lines) : i \in DOMAIN g.lines /\ i # Len(g.lines)
        /\ g.lines[Len(g.lines)] = l
    BY <1>1, <2>3
  <2>5. ~AllNull(g)
    BY <2>1, <2>4 DEF AllNull
  <2>6. HasCut(f) => HasCut(g)
    BY <1>1, <2>3, <2>4 DEF HasCut
  <2>7. \A V, W : V \subseteq W /\ v \in W /\ Recent(f, V) => Recent(g, W)
    <3>1. g.synced = f.synced /\ Longer(g.lines, f.lines, l)
      BY <1>5, <2>2 DEF Extends
    <3> QED
      BY <1>1, <2>1, <3>1, RecentAdded
  <2>8. ProperLines(g.lines)
    <3>1. \A i \in 1 .. Len(g.lines) : i \in 1 .. Len(f.lines) \/ i = Len(f.lines) + 1
      BY <1>1, <2>3
    <3> QED
      BY <1>1, <2>1, <2>3, <3>1 DEF ProperLines
  <2>9. CASE ~Good(g.lines)
    BY <2>2, <2>3, <2>5, <2>6, <2>7, <2>8, <2>9, ReadOf DEF PutPart
  <2>10. CASE Good(g.lines)
    <3>1. Read(g) = l.val
      BY <2>3, <2>4, <2>8, <2>10, ReadOf
    <3>2. l.kind = "cut"
      BY <2>1, <2>3, <2>4, <2>10 DEF Good
    <3>3. HasCut(g)
      BY <2>4, <3>2 DEF HasCut
    <3>4. ~HasCut(f)
      BY <1>1, <2>3, <2>4, <2>10 DEF Good, HasCut
    <3> QED
      BY <2>1, <2>2, <2>5, <2>6, <2>7, <3>1, <3>2, <3>3, <3>4 DEF PutPart
  <2> QED
    BY <2>9, <2>10
<1>6. ASSUME Grown(s, f.lines) PROVE PutPart(g, f, v)
  <2>2. Extends(g, f) /\ g.lines = s
    <3>1. g = [f EXCEPT !.lines = s] => Extends(g, f) /\ g.lines = s
      BY <1>6, Lengthened
    <3> QED
      BY <1>g, <3>1
  <2>3. /\ g.lines \in Seq(Line) /\ Len(g.lines) = Len(f.lines)
        /\ DOMAIN g.lines = 1 .. Len(f.lines) /\ g.lines # <<>> /\ f.lines # <<>>
        /\ Len(f.lines) \in 1 .. Len(f.lines) /\ 1 \in 1 .. Len(f.lines)
        /\ f.lines[Len(f.lines)].kind = "cut" /\ g.lines[Len(f.lines)].kind = "cut"
        /\ g.lines[Len(f.lines)].val = [f.lines[Len(f.lines)].val EXCEPT !.flag = "cut"]
    BY <1>1, <1>6, <2>2, ElementsOf DEF Grown
  <2>4. HasCut(f) /\ HasCut(g) /\ ~AllNull(g)
    BY <1>1, <2>3 DEF HasCut, AllNull
  <2>5. \A i \in 1 .. Len(f.lines) :
          /\ g.lines[i].kind = f.lines[i].kind /\ g.lines[i].cols = f.lines[i].cols
          /\ Proper(g.lines[i])
    BY <1>1, <1>6, <2>2, GrownLines DEF ProperLines
  <2>6. ProperLines(g.lines) /\ (Good(g.lines) <=> Good(f.lines))
    BY <2>3, <2>5 DEF ProperLines, Good
  <2>7. \A V : V \subseteq Seen /\ Recent(f, V) => Recent(g, V)
    <3>1. g.synced = f.synced /\ Grown(g.lines, f.lines)
      BY <1>6, <2>2 DEF Extends
    <3> QED
      BY <1>1, <3>1, RecentGrown
  <2>8. \A V, W : V \subseteq W /\ W \subseteq Seen /\ v \in W /\ Recent(f, V) => Recent(g, W)
    <3>1. \A V, W : V \subseteq W /\ Recent(f, V) => Recent(f, W)
      BY DEF Recent
    <3> QED
      BY <2>7, <3>1
  <2>9. Read(g) = Unreadable \/ Read(g) = [Read(f) EXCEPT !.flag = "cut"]
    <3>1. CASE ~Good(g.lines)
      BY <2>3, <2>6, <3>1, ReadOf
    <3>2. CASE Good(g.lines)
      <4>1. Read(g) = g.lines[Len(f.lines)].val
        BY <2>3, <2>6, <3>2, ReadOf
      <4>2. Read(f) = f.lines[Len(f.lines)].val
        BY <1>1, <2>3, <2>6, <3>2, ReadOf
      <4> QED
        BY <2>3, <4>1, <4>2
    <3> QED
      BY <3>1, <3>2
  <2> QED
    BY <2>2, <2>4, <2>8, <2>9 DEF PutPart
<1> QED
  BY <1>4, <1>5, <1>6

\* The steps of a session that is open and stays it: what is written.
LEMMA BeginSaveStep ==
  ASSUME IInv, NEW o \in {"save", "done"}, NEW v \in Saved, BeginSave(o, v)
  PROVE  IInv'
<1> USE DEF IInv
<1>1. /\ pc = "open" /\ Len(main.lines) < MaxLines /\ op' = o /\ want' = v
      /\ main' = [main EXCEPT !.lines = Append(main.lines, WholeLine(v, 3))]
      /\ tried' = tried \cup {v}
      /\ pc' = "sync" /\ UNCHANGED <<zero, before, acked, legacy, legacyZero, moved>>
  BY DEF BeginSave, old
<1>2. /\ main \in File /\ Sound(main) /\ AllWritten(main.lines)
      /\ DOMAIN main.lines = 1 .. Len(main.lines) /\ main.synced \in 0 .. Len(main.lines)
  <2>1. main \in File /\ Sound(main) /\ AllWritten(main.lines)
    BY <1>1, OpenShape DEF CallInv, TypeOK, FilesInv
  <2> QED
    BY <2>1, MainShape, FileShape
<1>3. PutWhole(main', main, v)
  <2>1. PICK g : g = main'
    OBVIOUS
  <2>2. Len(main.lines) < MaxLines
    BY <1>1
  <2>3. g = [main EXCEPT !.lines = Append(main.lines, WholeLine(v, 3))] =>
          PutWhole(g, main, v)
    BY <1>2, <2>2, WholeAdded
  <2> QED
    BY <1>1, <2>1, <2>3
<1>4. /\ main' \in File /\ main' # NoFile /\ Sound(main') /\ main'.synced = main.synced
      /\ main.synced > 0 => main'.lines[1].kind = main.lines[1].kind
      /\ main'.lines # <<>> /\ Last(main'.lines) = WholeLine(v, 3)
      /\ AllWritten(main'.lines) /\ main'.lines \in Seq(Line)
  <2>1. main.synced > 0 => 1 \in 1 .. Len(main.lines)
    BY <1>2
  <2> QED
    BY <1>3, <2>1 DEF PutWhole, Extends
<1>5. /\ Current = main /\ Current' = main' /\ Spare = zero /\ Spare' = zero
      /\ legacy = NoFile
  BY <1>1, OpenIsMain DEF Current, Spare
<1>6. /\ DOMAIN main'.lines = 1 .. Len(main'.lines) /\ ~AllNull(main')
  <2>1. DOMAIN main'.lines = 1 .. Len(main'.lines) /\ 1 \in 1 .. Len(main'.lines)
    BY <1>4, ElementsOf
  <2> QED
    BY <1>4, <2>1 DEF AllNull, AllWritten, Written
<1>7. TypeOK'
  BY <1>1, <1>4 DEF TypeOK
<1>8. FilesInv'
  BY <1>1, <1>4 DEF FilesInv
<1>9. TakeOverInv'
  BY <1>1, <1>4, <1>5 DEF TakeOverInv
<1>10. CallInv'
  BY <1>1, <1>4, <1>6 DEF CallInv, AllWritten
<1>11. AckedInv'
  <2>1. PICK V : V = tried \cup {acked}
    OBVIOUS
  <2>2. PICK W : W = tried' \cup {acked'}
    OBVIOUS
  <2>3. V \subseteq W /\ v \in W /\ Recent(main, V)
    BY <1>1, <1>5, <2>1, <2>2 DEF AckedInv
  <2>4. Recent(main', W)
    BY <1>3, <2>3 DEF PutWhole
  <2> QED
    BY <1>1, <1>4, <1>5, <2>2, <2>4 DEF AckedInv
<1>12. NullFileHasSpare'
  BY <1>5, <1>6 DEF NullFileHasSpare
<1> QED
  BY <1>7, <1>8, <1>9, <1>10, <1>11, <1>12

\* f with all its lines synced, the last of which is the whole line of v.
LEMMA SyncedFile ==
  ASSUME NEW f \in File, Sound(f), AllWritten(f.lines), NEW v \in Saved,
         f.lines # <<>>, Last(f.lines) = WholeLine(v, 3), NEW g
  PROVE  g = [f EXCEPT !.synced = Len(f.lines)] =>
           /\ g \in File /\ g # NoFile /\ g.lines = f.lines
           /\ g.synced = Len(g.lines) /\ g.synced > 0 /\ Sound(g)
           /\ Recent(g, {v}) /\ ~AllNull(g)
<1>g. SUFFICES ASSUME g = [f EXCEPT !.synced = Len(f.lines)]
               PROVE  /\ g \in File /\ g # NoFile /\ g.lines = f.lines
                      /\ g.synced = Len(g.lines) /\ g.synced > 0 /\ Sound(g)
                      /\ Recent(g, {v}) /\ ~AllNull(g)
  OBVIOUS
<1>1. /\ f.lines \in Seq(Line) /\ Len(f.lines) \in 0 .. MaxLines /\ ProperLines(f.lines)
      /\ DOMAIN f.lines = 1 .. Len(f.lines) /\ Len(f.lines) # 0
  BY FileShape, ElementsOf
<1>2. g = [lines |-> f.lines, synced |-> Len(f.lines)]
  BY <1>g, FileWith
<1>3. /\ g \in File /\ g # NoFile /\ g.lines = f.lines /\ g.synced = Len(f.lines)
  <2>1. Len(f.lines) \in 0 .. Len(f.lines) /\ Len(f.lines) <= MaxLines
    BY <1>1
  <2>2. [lines |-> f.lines, synced |-> Len(f.lines)] \in File
    BY <1>1, <2>1, FileOf
  <2>3. [lines |-> f.lines, synced |-> Len(f.lines)] # NoFile
    BY NotNoFile
  <2> QED
    BY <1>2, <2>2, <2>3
<1>4. Sound(g) /\ g.synced > 0
  BY <1>1, <1>3 DEF Sound, ProperLines
<1>5. f.lines[Len(f.lines)].kind = "whole" /\ f.lines[Len(f.lines)].val = v
  BY LineKinds, Readings DEF Last
<1>6. Recent(g, {v})
  <2>1. LineOf(f.lines[Len(f.lines)], v)
    BY <1>5 DEF LineOf
  <2>2. \A i \in 1 .. Len(f.lines) : i >= Len(f.lines) => i = Len(f.lines)
    BY <1>1
  <2> QED
    BY <1>1, <1>3, <2>1, <2>2 DEF Recent
<1>7. ~AllNull(g)
  <2>1. Len(f.lines) \in 1 .. Len(f.lines)
    BY <1>1
  <2> QED
    BY <1>1, <1>3, <1>5, <2>1 DEF AllNull
<1> QED
  BY <1>3, <1>4, <1>6, <1>7

\* The line a call has written, with the file it stands in.
LEMMA WantWritten ==
  ASSUME IInv, pc \in {"sync", "rename", "resync"}
  PROVE  /\ main \in File /\ main # NoFile /\ Sound(main) /\ AllWritten(main.lines)
         /\ want \in Saved /\ main.lines # <<>> /\ Last(main.lines) = WholeLine(want, 3)
         /\ main.lines \in Seq(Line) /\ ProperLines(main.lines)
         /\ legacy = NoFile /\ Current = main /\ Spare = zero
<1>1. pc # "closed" /\ pc \notin {"closed", "open"}
  OBVIOUS
<1>2. /\ main # NoFile /\ main.lines # <<>> /\ Last(main.lines) = WholeLine(want, 3)
      /\ want \in Saved
  BY <1>1 DEF IInv, CallInv
<1> QED
  BY <1>1, <1>2, OpenShape, MainShape, OpenIsMain DEF IInv, TypeOK

LEMMA SyncedMain ==
  ASSUME IInv, pc \in {"sync", "resync"},
         main' = [main EXCEPT !.synced = Len(main.lines)]
  PROVE  /\ main' \in File /\ main' # NoFile /\ main'.lines = main.lines
         /\ main'.synced = Len(main'.lines) /\ main'.synced > 0 /\ Sound(main')
         /\ Recent(main', {want}) /\ ~AllNull(main')
<1>1. PICK g : g = main'
  OBVIOUS
<1>2. PICK v : v = want
  OBVIOUS
<1>3. /\ main \in File /\ Sound(main) /\ AllWritten(main.lines)
      /\ v \in Saved /\ main.lines # <<>> /\ Last(main.lines) = WholeLine(v, 3)
  BY <1>2, WantWritten
<1>4. g = [main EXCEPT !.synced = Len(main.lines)] =>
        /\ g \in File /\ g # NoFile /\ g.lines = main.lines
        /\ g.synced = Len(g.lines) /\ g.synced > 0 /\ Sound(g)
        /\ Recent(g, {v}) /\ ~AllNull(g)
  BY <1>3, SyncedFile
<1> QED
  BY <1>1, <1>2, <1>4

LEMMA SyncStep ==
  ASSUME IInv, Sync
  PROVE  IInv'
<1> USE DEF IInv
<1>1. /\ pc = "sync" /\ main' = [main EXCEPT !.synced = Len(main.lines)]
      /\ acked' = want /\ tried' = {} /\ moved' = FALSE
      /\ \/ pc' = "open" /\ op' = "none" /\ want' = Fresh
         \/ pc' = "rename" /\ UNCHANGED <<op, want>>
      /\ UNCHANGED <<zero, before, legacy, legacyZero>>
  BY DEF Sync, CallEnds
<1>2. /\ main' \in File /\ main' # NoFile /\ main'.lines = main.lines
      /\ main'.synced = Len(main'.lines) /\ main'.synced > 0 /\ Sound(main')
      /\ Recent(main', {want}) /\ ~AllNull(main')
  BY <1>1, SyncedMain
<1>3. /\ want \in Saved /\ main.lines # <<>> /\ Last(main.lines) = WholeLine(want, 3)
      /\ legacy = NoFile /\ op # "none"
      /\ \A i \in DOMAIN main.lines : Written(main.lines[i])
  BY <1>1, WantWritten DEF CallInv
<1>4. legacy' = NoFile /\ Current' = main'
  BY <1>1, <1>3 DEF Current
<1>5. TypeOK'
  BY <1>1, <1>2, <1>3 DEF TypeOK
<1>6. FilesInv'
  BY <1>1, <1>2 DEF FilesInv
<1>7. TakeOverInv'
  BY <1>1, <1>4 DEF TakeOverInv
<1>8. CallInv'
  BY <1>1, <1>2, <1>3 DEF CallInv
<1>9. AckedInv'
  <2>1. tried' \cup {acked'} = {want} /\ main'.synced # 0
    BY <1>1, <1>2
  <2> QED
    BY <1>2, <1>4, <2>1 DEF AckedInv
<1>10. NullFileHasSpare'
  BY <1>2, <1>4 DEF NullFileHasSpare
<1> QED
  BY <1>5, <1>6, <1>7, <1>8, <1>9, <1>10

LEMMA RenameStep ==
  ASSUME IInv, Rename
  PROVE  IInv'
<1> USE DEF IInv
<1>1. /\ pc = "rename" /\ before' = zero /\ zero' = main /\ main' = NoFile
      /\ pc' = "create"
      /\ UNCHANGED <<op, want, acked, tried, legacy, legacyZero, moved>>
  BY DEF Rename, old
<1>2. /\ main \in File /\ Sound(main) /\ main.synced = Len(main.lines) /\ acked = want
      /\ want \in Saved /\ op # "none" /\ Holds(main, want) /\ legacy = NoFile
  <2>1. PICK v : v = want
    OBVIOUS
  <2>2. /\ main \in File /\ Sound(main) /\ AllWritten(main.lines)
        /\ v \in Saved /\ main.lines # <<>> /\ Last(main.lines) = WholeLine(v, 3)
        /\ main.lines \in Seq(Line) /\ ProperLines(main.lines) /\ legacy = NoFile
    BY <1>1, <2>1, WantWritten
  <2>3. Holds(main, v)
    BY <2>2, EndsWhole
  <2> QED
    BY <1>1, <2>1, <2>2, <2>3 DEF CallInv
<1>3. Settled(main)
  BY <1>2, LineKinds, Readings DEF Settled, Holds
<1>4. /\ moved = FALSE /\ legacy' = NoFile /\ Current' = NoFile /\ Spare' = main
  BY <1>1, <1>2 DEF TakeOverInv, Current, Spare, TypeOK
<1>5. TypeOK' /\ FilesInv'
  BY <1>1, <1>2, <1>3, NoLines DEF TypeOK, FilesInv
<1>6. TakeOverInv' /\ CallInv'
  BY <1>1, <1>2, <1>4, NoLines DEF TakeOverInv, CallInv
<1>7. AckedInv' /\ NullFileHasSpare'
  BY <1>1, <1>2, <1>4, NoLines DEF AckedInv, NullFileHasSpare
<1> QED
  BY <1>5, <1>6, <1>7

LEMMA CreateStep ==
  ASSUME IInv, Create
  PROVE  IInv'
<1> USE DEF IInv
<1>1. /\ pc = "create" /\ main' = Empty /\ pc' = "rewrite"
      /\ UNCHANGED <<zero, before, op, want, acked, tried, legacy, legacyZero, moved>>
  BY DEF Create, old
<1>2. Holds(zero, want) /\ acked = want /\ want \in Saved /\ op # "none"
  BY <1>1 DEF CallInv
<1>4. /\ legacy = NoFile /\ moved = FALSE /\ legacy' = NoFile
      /\ Current' = Empty /\ Spare' = zero
  BY <1>1, OpenIsMain DEF TakeOverInv, Current, Spare, TypeOK
<1>5. TypeOK' /\ FilesInv'
  BY <1>1, NoLines DEF TypeOK, FilesInv
<1>6. TakeOverInv' /\ CallInv'
  BY <1>1, <1>2, <1>4, NoLines DEF TakeOverInv, CallInv
<1>7. AckedInv' /\ NullFileHasSpare'
  BY <1>1, <1>2, <1>4, NoLines DEF AckedInv, NullFileHasSpare
<1> QED
  BY <1>5, <1>6, <1>7

LEMMA RewriteStep ==
  ASSUME IInv, Rewrite
  PROVE  IInv'
<1> USE DEF IInv
<1>1. /\ pc = "rewrite" /\ pc' = "resync"
      /\ main' = [main EXCEPT !.lines = Append(main.lines, WholeLine(want, 3))]
      /\ UNCHANGED <<zero, before, op, want, acked, tried, legacy, legacyZero, moved>>
  BY DEF Rewrite, old
<1>2. /\ main = Empty /\ Holds(zero, want) /\ acked = want /\ want \in Saved
      /\ op # "none"
  BY <1>1 DEF CallInv
<1>3. PutWhole(main', main, want)
  <2>1. PICK g : g = main'
    OBVIOUS
  <2>2. PICK v : v = want
    OBVIOUS
  <2>3. PICK f : f = main
    OBVIOUS
  <2>4. /\ f \in File /\ Sound(f) /\ AllWritten(f.lines) /\ Len(f.lines) < MaxLines
        /\ v \in Saved
    BY <1>2, <2>2, <2>3, NoLines DEF AllWritten
  <2>5. g = [f EXCEPT !.lines = Append(f.lines, WholeLine(v, 3))] => PutWhole(g, f, v)
    BY <2>4, WholeAdded
  <2> QED
    BY <1>1, <2>1, <2>2, <2>3, <2>5
<1>4. /\ main' \in File /\ main' # NoFile /\ Sound(main') /\ main'.synced = 0
      /\ main'.lines # <<>> /\ Last(main'.lines) = WholeLine(want, 3)
      /\ AllWritten(main'.lines) /\ main'.lines \in Seq(Line) /\ Len(main'.lines) = 1
  BY <1>2, <1>3, NoLines DEF PutWhole, Extends
<1>5. /\ legacy = NoFile /\ moved = FALSE /\ legacy' = NoFile
      /\ Current' = main' /\ Spare' = zero
  BY <1>1, OpenIsMain DEF TakeOverInv, Current, Spare, TypeOK
<1>6. DOMAIN main'.lines = 1 .. Len(main'.lines) /\ ~AllNull(main')
  <2>1. DOMAIN main'.lines = 1 .. Len(main'.lines) /\ 1 \in 1 .. Len(main'.lines)
    BY <1>4, ElementsOf
  <2> QED
    BY <1>4, <2>1 DEF AllNull, AllWritten, Written
<1>7. TypeOK' /\ FilesInv'
  BY <1>1, <1>4 DEF TypeOK, FilesInv
<1>8. TakeOverInv'
  BY <1>1, <1>5 DEF TakeOverInv
<1>9. CallInv'
  BY <1>1, <1>2, <1>4, <1>6 DEF CallInv, AllWritten
<1>10. AckedInv'
  <2>1. PICK W : W = tried \cup {acked}
    OBVIOUS
  <2>2. W \subseteq W /\ want \in W /\ Recent(main, W)
    BY <1>2, <2>1, NoLines
  <2>3. Recent(main', W)
    BY <1>3, <2>2 DEF PutWhole
  <2> QED
    BY <1>1, <1>2, <1>5, <2>1, <2>3 DEF AckedInv
<1>11. NullFileHasSpare'
  BY <1>5, <1>6 DEF NullFileHasSpare
<1> QED
  BY <1>7, <1>8, <1>9, <1>10, <1>11

LEMMA ResyncStep ==
  ASSUME IInv, Resync
  PROVE  IInv'
<1> USE DEF IInv
<1>1. /\ pc = "resync" /\ main' = [main EXCEPT !.synced = Len(main.lines)]
      /\ before' = NoFile /\ acked' = want /\ tried' = {} /\ pc' = "closed"
      /\ op' = "none" /\ want' = Fresh
      /\ UNCHANGED <<zero, legacy, legacyZero, moved>>
  BY DEF Resync, old, CallEnds
<1>2. /\ main' \in File /\ main' # NoFile /\ main'.lines = main.lines
      /\ main'.synced = Len(main'.lines) /\ main'.synced > 0 /\ Sound(main')
      /\ Recent(main', {want}) /\ ~AllNull(main')
  BY <1>1, SyncedMain
<1>3. want \in Saved /\ legacy = NoFile
  BY <1>1, WantWritten
<1>4. legacy' = NoFile /\ moved' = FALSE /\ Current' = main'
  BY <1>1, <1>3 DEF Current, TakeOverInv, TypeOK
<1>5. TypeOK' /\ FilesInv'
  BY <1>1, <1>2, <1>3, NoLines DEF TypeOK, FilesInv
<1>6. TakeOverInv' /\ CallInv'
  BY <1>1, <1>4 DEF TakeOverInv, CallInv
<1>7. AckedInv'
  <2>1. tried' \cup {acked'} = {want} /\ main'.synced # 0
    BY <1>1, <1>2
  <2> QED
    BY <1>2, <1>4, <2>1 DEF AckedInv
<1>8. NullFileHasSpare'
  BY <1>2, <1>4 DEF NullFileHasSpare
<1> QED
  BY <1>5, <1>6, <1>7, <1>8

LEMMA ReturnStep ==
  ASSUME IInv, Return
  PROVE  IInv'
<1> USE DEF IInv
<1>1. /\ pc # "closed" /\ pc' = "closed" /\ before' = NoFile
      /\ op' = "none" /\ want' = Fresh
      /\ UNCHANGED <<main, zero, acked, tried, legacy, legacyZero, moved>>
  BY DEF Return, old, CallEnds
<1>2. UNCHANGED <<Current, Spare>>
  BY <1>1 DEF Current, Spare
<1>3. TypeOK' /\ FilesInv'
  BY <1>1, NoLines DEF TypeOK, FilesInv
<1>4. TakeOverInv' /\ CallInv'
  BY <1>1, <1>2 DEF TakeOverInv, CallInv
<1>5. AckedInv' /\ (~NullLegacy => NullFileHasSpare')
  BY <1>1, <1>2 DEF AckedInv, NullFileHasSpare
<1> QED
  BY <1>3, <1>4, <1>5

LEMMA MainPart ==
  ASSUME IInv, NEW v \in Saved, ShortWrite(v)
  PROVE  main \in File /\ AllWritten(main.lines) /\ PutPart(main', main, v)
<1>1. /\ pc \in {"open", "rewrite"} /\ Len(main.lines) < MaxLines
      /\ \E s \in Spoilt(main.lines, Cuts(v)) : main' = [main EXCEPT !.lines = s]
  BY DEF ShortWrite
<1>2. /\ main \in File /\ Sound(main) /\ AllWritten(main.lines)
  <2>1. main # NoFile
    BY <1>1, NoLines DEF IInv, CallInv
  <2> QED
    BY <1>1, <2>1, OpenShape DEF IInv, TypeOK, FilesInv
<1>3. PICK g : g = main'
  OBVIOUS
<1>4. PICK s \in Spoilt(main.lines, Cuts(v)) : g = [main EXCEPT !.lines = s]
  BY <1>1, <1>3
<1>5. Len(main.lines) < MaxLines
  BY <1>1
<1>6. g = [main EXCEPT !.lines = s] => PutPart(g, main, v)
  BY <1>2, <1>5, PartAdded
<1> QED
  BY <1>2, <1>3, <1>4, <1>6

LEMMA ShortWriteStep ==
  ASSUME IInv, NEW v \in Saved, ShortWrite(v)
  PROVE  IInv'
<1> USE DEF IInv
<1>1. /\ pc # "closed" /\ pc' = "closed" /\ before' = NoFile
      /\ op' = "none" /\ want' = Fresh /\ tried' = tried \cup {v}
      /\ UNCHANGED <<zero, acked, legacy, legacyZero, moved>>
  BY DEF ShortWrite, old, CallEnds
<1>2. PutPart(main', main, v)
  BY MainPart
<1>3. /\ main' \in File /\ main' # NoFile /\ Sound(main') /\ main'.synced = main.synced
      /\ main.synced > 0 => main'.lines[1].kind = main.lines[1].kind
      /\ ~AllNull(main')
  <2>1. main.synced > 0 => 1 \in 1 .. Len(main.lines)
    BY MainShape, FileShape
  <2> QED
    BY <1>2, <2>1 DEF PutPart, Extends
<1>4. /\ Current = main /\ Current' = main' /\ Spare = zero /\ Spare' = zero
      /\ legacy = NoFile /\ legacy' = NoFile
  BY <1>1, OpenIsMain DEF Current, Spare
<1>5. TypeOK' /\ FilesInv'
  BY <1>1, <1>3, NoLines, Readings DEF TypeOK, FilesInv
<1>6. TakeOverInv' /\ CallInv'
  BY <1>1, <1>3, <1>4 DEF TakeOverInv, CallInv
<1>7. AckedInv'
  <2>1. PICK V : V = tried \cup {acked}
    OBVIOUS
  <2>2. PICK W : W = tried' \cup {acked'}
    OBVIOUS
  <2>3. V \subseteq W /\ v \in W /\ Recent(main, V) /\ W \subseteq Seen
    BY <1>1, <1>4, <2>1, <2>2, WrittenValues, Readings DEF AckedInv
  <2>4. Recent(main', W)
    BY <1>2, <2>3 DEF PutPart
  <2> QED
    BY <1>1, <1>3, <1>4, <2>2, <2>4 DEF AckedInv
<1>8. NullFileHasSpare'
  BY <1>3, <1>4 DEF NullFileHasSpare
<1> QED
  BY <1>5, <1>6, <1>7, <1>8

\* A power failure while the session's own file is the one that counts, or
\* while the old one still is.
LEMMA FailureLeaves ==
  ASSUME IInv, PowerFailure, main' \in Survivors(main), UNCHANGED <<zero, legacy>>
  PROVE  IInv'
<1> USE DEF IInv
<1>1. /\ before' = NoFile /\ moved' = FALSE /\ pc' = "closed"
      /\ op' = "none" /\ want' = Fresh
      /\ UNCHANGED <<legacyZero, acked, tried>>
  BY DEF PowerFailure, CallEnds
<1>2. CallInv'
  BY <1>1 DEF CallInv
<1>3. PICK m : m = main'
  OBVIOUS
<1>4. LeftOf(m, main)
  BY <1>3, MainShape, SurvivorsOf
<1>5. TypeOK' /\ FilesInv'
  BY <1>1, <1>3, <1>4, NoLines, Readings DEF LeftOf, TypeOK, FilesInv
<1>6. CASE legacy = NoFile
  <2>1. /\ Current = main /\ Current' = m /\ Spare = zero /\ Spare' = zero
        /\ legacy' = NoFile
    BY <1>3, <1>6 DEF Current, Spare
  <2>2. m.synced = 0 => main.synced = 0
    <3>1. m.lines \in Seq(Line)
      BY <1>4, FileShape DEF LeftOf
    <3> QED
      BY <1>4, <3>1, ElementsOf DEF LeftOf
  <2>3. AckedInv'
    BY <1>1, <1>4, <2>1, <2>2, WrittenValues DEF LeftOf, AckedInv
  <2>4. ~NullLegacy => NullFileHasSpare'
    <3>1. AllNull(m) => AllNull(main) \/ main.synced = 0
      BY <1>4 DEF LeftOf
    <3> QED
      BY <1>1, <2>1, <3>1 DEF AckedInv, NullFileHasSpare
  <2>5. TakeOverInv'
    BY <1>1, <2>1 DEF TakeOverInv
  <2> QED
    BY <1>2, <1>5, <2>3, <2>4, <2>5
<1>7. CASE legacy # NoFile
  <2>1. main = NoFile /\ zero = NoFile
    BY <1>7 DEF TakeOverInv
  <2>2. main' = NoFile
    BY <2>1, NoLines DEF Survivors
  <2>3. /\ Current = legacy /\ Current' = legacy
        /\ Spare = legacyZero /\ Spare' = legacyZero
    BY <1>1, <1>7 DEF Current, Spare
  <2>4. AckedInv' /\ (~NullLegacy => NullFileHasSpare')
    BY <1>1, <2>3 DEF AckedInv, NullFileHasSpare
  <2>5. TakeOverInv'
    BY <1>1, <1>7, <2>1, <2>2, <2>3 DEF TakeOverInv
  <2> QED
    BY <1>2, <1>5, <2>4, <2>5
<1> QED
  BY <1>6, <1>7

LEMMA RenameUndone ==
  ASSUME IInv, PowerFailure, pc \in {"create", "rewrite", "resync"},
         main' = zero, zero' = before, UNCHANGED legacy
  PROVE  IInv'
<1> USE DEF IInv
<1>1. /\ before' = NoFile /\ moved' = FALSE /\ pc' = "closed"
      /\ op' = "none" /\ want' = Fresh
      /\ UNCHANGED <<legacyZero, acked, tried>>
  BY DEF PowerFailure, CallEnds
<1>2. Holds(zero, acked) /\ legacy = NoFile /\ legacy' = NoFile /\ Current' = zero
  BY OpenIsMain DEF CallInv, Current
<1>3. /\ zero \in File \cup {NoFile} /\ Sound(zero) /\ zero.synced = Len(zero.lines)
  BY DEF TypeOK, FilesInv, Settled
<1>4. /\ zero.lines # <<>> /\ ~AllNull(zero) /\ LineOf(zero.lines[Len(zero.lines)], acked)
      /\ zero.lines \in Seq(Line)
  <2>1. PICK v \in Seen : v = acked
    BY WrittenValues
  <2>2. Holds(zero, v) /\ zero.lines \in Seq(Line) /\ ProperLines(zero.lines)
    BY <1>2, <1>3, <2>1, FileShape
  <2> QED
    BY <2>1, <2>2, HoldsReads
<1>5. zero.synced # 0 /\ Recent(zero, tried \cup {acked})
  <2>1. /\ Len(zero.lines) \in Nat /\ Len(zero.lines) # 0
        /\ DOMAIN zero.lines = 1 .. Len(zero.lines)
    BY <1>4, ElementsOf
  <2>2. \A i \in DOMAIN zero.lines : i >= zero.synced => i = Len(zero.lines)
    BY <1>3, <2>1
  <2> QED
    BY <1>3, <1>4, <2>1, <2>2 DEF Recent
<1>6. TypeOK' /\ FilesInv'
  BY <1>1, <1>2, <1>3, NoLines, Readings DEF TypeOK, FilesInv
<1>7. TakeOverInv' /\ CallInv'
  BY <1>1, <1>2 DEF TakeOverInv, CallInv
<1>8. AckedInv'
  BY <1>1, <1>2, <1>5 DEF AckedInv
<1>9. NullFileHasSpare'
  BY <1>2, <1>4 DEF NullFileHasSpare
<1> QED
  BY <1>6, <1>7, <1>8, <1>9

LEMMA TakeOverUndone ==
  ASSUME IInv, PowerFailure, moved, legacy' \in Survivors(main), main' = NoFile,
         UNCHANGED zero
  PROVE  IInv'
<1> USE DEF IInv
<1>1. /\ before' = NoFile /\ moved' = FALSE /\ pc' = "closed"
      /\ op' = "none" /\ want' = Fresh
      /\ UNCHANGED <<legacyZero, acked, tried>>
  BY DEF PowerFailure, CallEnds
<1>2. /\ legacy = NoFile /\ Current = main /\ zero = NoFile /\ main.synced > 0
      /\ ~NullLegacy => main.lines[1].kind = "whole"
  BY DEF TakeOverInv, Current
<1>3. PICK g : g = legacy'
  OBVIOUS
<1>4. LeftOf(g, main)
  BY <1>3, MainShape, SurvivorsOf
<1>5. /\ g \in File \cup {NoFile} /\ Sound(g) /\ g.synced = Len(g.lines)
      /\ g.synced > 0 /\ g.lines[1].kind = main.lines[1].kind
      /\ g # NoFile /\ g.lines \in Seq(Line)
  BY <1>2, <1>4, FileShape, NoLines DEF LeftOf
<1>6. Current' = g
  BY <1>3, <1>5 DEF Current
<1>7. ~NullLegacy => ~AllNull(g)
  <2>1. 1 \in DOMAIN g.lines
    BY <1>5, ElementsOf
  <2> QED
    BY <1>2, <1>5, <2>1 DEF AllNull
<1>8. TypeOK' /\ FilesInv'
  BY <1>1, <1>2, <1>3, <1>5, NoLines, Readings DEF TypeOK, FilesInv
<1>9. TakeOverInv' /\ CallInv'
  BY <1>1, <1>2, <1>5, <1>6 DEF TakeOverInv, CallInv
<1>10. AckedInv'
  BY <1>1, <1>2, <1>4, <1>5, <1>6, WrittenValues DEF LeftOf, AckedInv
<1>11. ~NullLegacy => NullFileHasSpare'
  BY <1>6, <1>7 DEF NullFileHasSpare
<1> QED
  BY <1>8, <1>9, <1>10, <1>11

LEMMA PowerFailureStep ==
  ASSUME IInv, PowerFailure
  PROVE  IInv'
BY FailureLeaves, RenameUndone, TakeOverUndone DEF PowerFailure

\* What an operator puts back.
LEMMA SettledReads ==
  ASSUME NEW f \in File \cup {NoFile}, Settled(f), Read(f) # Unreadable
  PROVE  /\ f.lines \in Seq(Line) /\ Sound(f) /\ f.synced = Len(f.lines)
         /\ ~AllNull(f) /\ ~HasCut(f)
         /\ f.synced = 0 => Read(f) = Fresh
         /\ Read(f) \in Saved \cup {Fresh} /\ Recent(f, {Read(f)})
<1>1. /\ f.lines \in Seq(Line) /\ ProperLines(f.lines) /\ Sound(f)
      /\ f.synced = Len(f.lines)
  BY FileShape DEF Settled
<1>2. PICK s \in Seq(Line) : s = f.lines
  BY <1>1
<1>3. /\ Len(s) \in Nat /\ DOMAIN s = 1 .. Len(s) /\ (s = <<>> <=> Len(s) = 0)
  BY ElementsOf
<1>4. ~AllNull(f)
  BY NullIsUnreadable
<1>5. CASE s = <<>>
  <2>1. f.lines = <<>> /\ Read(f) = Fresh /\ ~HasCut(f)
    BY <1>1, <1>2, <1>5, ReadOf
  <2>2. DOMAIN f.lines = {}
    BY <1>2, <1>3, <1>5
  <2>3. Recent(f, {Read(f)})
    BY <2>2 DEF Recent
  <2> QED
    BY <1>1, <1>4, <2>1, <2>3
<1>6. CASE s # <<>>
  <2>1. s[Len(s)].kind = "whole" /\ Proper(s[Len(s)]) /\ Len(s) # 0
    BY <1>1, <1>2, <1>3, <1>6 DEF Settled, Last, ProperLines
  <2>2. Good(s) /\ Read(f) = s[Len(s)].val
    BY <1>1, <1>2, <1>6, ReadOf
  <2>3. Read(f) \in Saved /\ LineOf(s[Len(s)], Read(f))
    BY <2>1, <2>2 DEF Proper, Written, LineOf
  <2>4. \A i \in 1 .. Len(s) : i >= Len(s) => i = Len(s)
    <3>1. \A n \in Nat : \A i \in 1 .. n : i >= n => i = n
      OBVIOUS
    <3> QED
      BY <1>3, <3>1
  <2>5. Recent(f, {Read(f)})
    BY <1>1, <1>2, <1>3, <2>3, <2>4 DEF Recent
  <2>6. ~HasCut(f)
    BY <1>2, <1>3, <2>1, <2>2 DEF Good, HasCut
  <2> QED
    BY <1>1, <1>2, <1>4, <2>1, <2>3, <2>5, <2>6
<1> QED
  BY <1>5, <1>6

LEMMA RepairStep ==
  ASSUME IInv, Repair
  PROVE  IInv'
<1> USE DEF IInv
<1>1. /\ pc = "closed" /\ legacy = NoFile /\ main' \in {zero, NoFile}
      /\ Read(main') # Unreadable
      /\ acked' = Read(main') /\ tried' = {} /\ moved' = FALSE
      /\ UNCHANGED <<zero, before, legacy, legacyZero, pc, op, want>>
  BY DEF Repair
<1>2. PICK m : m = main'
  OBVIOUS
<1>3. m \in File \cup {NoFile} /\ Settled(m) /\ Read(m) # Unreadable
  BY <1>1, <1>2, NoLines DEF TypeOK, FilesInv
<1>4. /\ Sound(m) /\ ~AllNull(m) /\ (m.synced = 0 => Read(m) = Fresh)
      /\ Read(m) \in Saved \cup {Fresh} /\ Recent(m, {Read(m)})
  BY <1>3, SettledReads
<1>5. legacy' = NoFile /\ Current' = m
  BY <1>1, <1>2 DEF Current
<1>6. TypeOK' /\ FilesInv'
  BY <1>1, <1>2, <1>3, <1>4 DEF TypeOK, FilesInv
<1>7. TakeOverInv' /\ CallInv'
  BY <1>1, <1>5 DEF TakeOverInv, CallInv
<1>8. AckedInv'
  <2>1. tried' \cup {acked'} = {Read(m)} /\ acked' = Read(m)
    BY <1>1, <1>2
  <2> QED
    BY <1>4, <1>5, <2>1 DEF AckedInv
<1>9. NullFileHasSpare'
  BY <1>4, <1>5 DEF NullFileHasSpare
<1> QED
  BY <1>6, <1>7, <1>8, <1>9

(***************************************************************************)
(* The initial states, when files have three columns from their first line.*)
(***************************************************************************)
ThreeColumns == Columns = {3}

LEMMA OneLine ==
  ASSUME NEW l \in Line
  PROVE  /\ [lines |-> <<l>>, synced |-> 1] \in File
         /\ [lines |-> <<l>>, synced |-> 1] # NoFile
         /\ Len(<<l>>) = 1 /\ <<l>> \in Seq(Line) /\ <<l>> # <<>>
         /\ DOMAIN <<l>> = {1} /\ <<l>>[1] = l
<1>1. PICK s : s = <<l>>
  OBVIOUS
<1>2. s \in Seq(Line) /\ Len(s) = 1 /\ s[1] = l
  BY <1>1
<1>3. s # <<>> /\ DOMAIN s = {1}
  <2>1. DOMAIN s = 1 .. Len(s) /\ (s = <<>> <=> Len(s) = 0)
    BY <1>2, ElementsOf
  <2>2. 1 .. Len(s) = {1}
    BY <1>2
  <2> QED
    BY <1>2, <2>1, <2>2
<1>4. Len(s) <= MaxLines /\ 1 \in 0 .. Len(s)
  BY <1>2
<1>5. [lines |-> s, synced |-> 1] \in File
  BY <1>2, <1>4, FileOf
<1>6. [lines |-> s, synced |-> 1] # NoFile
  BY NotNoFile
<1> QED
  BY <1>1, <1>2, <1>3, <1>5, <1>6

LEMMA StartedFile ==
  ASSUME ThreeColumns, NEW f \in StartedFiles
  PROVE  /\ f \in File /\ f # NoFile /\ Settled(f) /\ f.synced = 1
         /\ f.lines[1].kind = "whole"
         /\ Read(f) \in Saved /\ ~HasCut(f) /\ ~AllNull(f) /\ Recent(f, {Read(f)})
<1>1. PICK v \in Saved : f = [lines |-> <<WholeLine(v, 3)>>, synced |-> 1]
  BY DEF StartedFiles, ThreeColumns
<1>2. PICK l : l = WholeLine(v, 3)
  OBVIOUS
<1>3. l \in Line /\ l.kind = "whole" /\ l.cols = 3 /\ l.val = v /\ v.pos > 0
  BY <1>2, LineKinds, Readings
<1>4. f = [lines |-> <<l>>, synced |-> 1]
  BY <1>1, <1>2
<1>5. PICK s : s = <<l>>
  OBVIOUS
<1>6. /\ f \in File /\ f # NoFile /\ f.lines = s /\ f.synced = 1
      /\ Len(s) = 1 /\ s \in Seq(Line) /\ s # <<>> /\ DOMAIN s = {1} /\ s[1] = l
  BY <1>3, <1>4, <1>5, OneLine
<1>7. Proper(l) /\ Written(l)
  BY <1>3 DEF Proper, Written
<1>8. Sound(f) /\ f.synced = Len(f.lines)
  BY <1>6, <1>7 DEF Sound
<1>9. Settled(f)
  BY <1>3, <1>6, <1>8 DEF Settled, Last
<1>10. ~HasCut(f)
  BY <1>3, <1>6 DEF HasCut
<1>11. Read(f) = v
  <2>1. f.lines # <<>> /\ Last(f.lines) = WholeLine(v, 3)
    BY <1>2, <1>6 DEF Last
  <2>2. f.lines \in Seq(Line) /\ ProperLines(f.lines) /\ AllWritten(f.lines)
    BY <1>6, <1>7 DEF ProperLines, AllWritten
  <2> QED
    BY <1>10, <2>1, <2>2, EndsWhole
<1>12. ~AllNull(f) /\ Recent(f, {Read(f)})
  <2>1. Read(f) # Unreadable
    BY <1>11, Readings
  <2> QED
    BY <1>6, <1>9, <2>1, SettledReads
<1> QED
  BY <1>3, <1>6, <1>9, <1>10, <1>11, <1>12

LEMMA NullFile ==
  ASSUME NEW f, f = [lines |-> <<BadLine("null")>>, synced |-> 1]
  PROVE  /\ f \in File /\ f # NoFile /\ Sound(f) /\ f.synced = 1
         /\ f.synced = Len(f.lines)
         /\ \A v : Recent(f, {v})
<1>2. PICK l : l = BadLine("null")
  OBVIOUS
<1>3. l \in Line /\ Proper(l) /\ \A v : LineOf(l, v)
  BY <1>2, LineKinds
<1>5. PICK s : s = <<l>>
  OBVIOUS
<1>6. /\ f \in File /\ f # NoFile /\ f.lines = s /\ f.synced = 1
      /\ Len(s) = 1 /\ s \in Seq(Line) /\ s # <<>> /\ DOMAIN s = {1} /\ s[1] = l
  BY <1>2, <1>3, <1>5, OneLine
<1>7. Sound(f) /\ f.synced = Len(f.lines)
  BY <1>3, <1>6 DEF Sound
<1>8. \A v : Recent(f, {v})
  BY <1>3, <1>6 DEF Recent
<1> QED
  BY <1>6, <1>7, <1>8

LEMMA InitInv ==
  ASSUME ThreeColumns, Init
  PROVE  IInv
<1>1. /\ zero = NoFile /\ before = NoFile /\ moved = FALSE /\ pc = "closed"
      /\ op = "none" /\ want = Fresh /\ tried = {}
      /\ acked = Read(IF legacy # NoFile THEN legacyZero ELSE main)
  BY DEF Init
<1>2. CallInv
  BY <1>1 DEF CallInv
<1>c. tried \cup {acked} = {acked}
  BY <1>1
<1>3. CASE main = NoFile /\ legacy = NoFile /\ legacyZero = NoFile
  <2>1. acked = Fresh /\ Current = NoFile
    BY <1>1, <1>3, NoLines DEF Current
  <2>2. TypeOK
    BY <1>1, <1>3, <2>1 DEF TypeOK
  <2>3. FilesInv
    BY <1>1, <1>3, NoLines, Readings DEF FilesInv
  <2>4. TakeOverInv
    BY <1>1, <1>3 DEF TakeOverInv
  <2>5. AckedInv /\ NullFileHasSpare
    BY <2>1, NoLines DEF AckedInv, NullFileHasSpare
  <2> QED
    BY <1>2, <2>2, <2>3, <2>4, <2>5 DEF IInv
<1>4. CASE main \in StartedFiles /\ legacy = NoFile /\ legacyZero = NoFile
  <2>1. /\ main \in File /\ Settled(main) /\ main.synced = 1 /\ ~AllNull(main)
        /\ Read(main) \in Saved /\ Recent(main, {Read(main)})
    BY <1>4, StartedFile
  <2>2. acked = Read(main) /\ Current = main
    BY <1>1, <1>4 DEF Current
  <2>3. TypeOK
    BY <1>1, <1>4, <2>1, <2>2 DEF TypeOK
  <2>4. FilesInv
    BY <1>1, <1>4, <2>1, NoLines, Readings DEF FilesInv, Settled
  <2>5. TakeOverInv
    BY <1>1, <1>4 DEF TakeOverInv
  <2>6. AckedInv /\ NullFileHasSpare
    BY <1>c, <2>1, <2>2 DEF AckedInv, NullFileHasSpare
  <2> QED
    BY <1>2, <2>3, <2>4, <2>5, <2>6 DEF IInv
<1>5. CASE /\ main = NoFile /\ legacyZero \in StartedFiles
           /\ \/ legacy = legacyZero
              \/ NullLegacy /\ legacy = [lines |-> <<BadLine("null")>>, synced |-> 1]
  <2>1. /\ legacyZero \in File /\ legacyZero # NoFile /\ Settled(legacyZero)
        /\ legacyZero.synced = 1 /\ legacyZero.lines[1].kind = "whole"
        /\ Read(legacyZero) \in Saved /\ ~AllNull(legacyZero)
        /\ Recent(legacyZero, {Read(legacyZero)})
    BY <1>5, StartedFile
  <2>2. /\ legacy \in File /\ legacy # NoFile /\ Sound(legacy) /\ legacy.synced = 1
        /\ legacy.synced = Len(legacy.lines)
        /\ Recent(legacy, {Read(legacyZero)})
        /\ ~NullLegacy => legacy.lines[1].kind = "whole" /\ ~AllNull(legacy)
    <3>1. CASE legacy = legacyZero
      BY <2>1, <3>1 DEF Settled
    <3>2. CASE NullLegacy /\ legacy = [lines |-> <<BadLine("null")>>, synced |-> 1]
      BY <3>2, NullFile
    <3> QED
      BY <1>5, <3>1, <3>2
  <2>3. acked = Read(legacyZero) /\ Current = legacy /\ Spare = legacyZero
    BY <1>1, <2>2 DEF Current, Spare
  <2>4. TypeOK
    BY <1>1, <1>5, <2>1, <2>2, <2>3 DEF TypeOK
  <2>5. FilesInv
    BY <1>1, <1>5, <2>1, <2>2, NoLines, Readings DEF FilesInv
  <2>6. TakeOverInv
    BY <1>1, <1>5, <2>2, <2>3 DEF TakeOverInv
  <2>7. AckedInv
    <3>1. Recent(Current, tried \cup {acked})
      BY <1>c, <2>2, <2>3
    <3>2. Current.synced # 0
      BY <2>2, <2>3
    <3> QED
      BY <3>1, <3>2 DEF AckedInv
  <2>8. ~NullLegacy => NullFileHasSpare
    BY <2>2, <2>3 DEF NullFileHasSpare
  <2> QED
    BY <1>2, <2>4, <2>5, <2>6, <2>7, <2>8 DEF IInv
<1> QED
  BY <1>3, <1>4, <1>5 DEF Init

LEMMA StutterStep ==
  ASSUME IInv, UNCHANGED vars
  PROVE  IInv'
<1>1. /\ UNCHANGED <<main, zero, before, legacy, legacyZero, moved>>
      /\ UNCHANGED <<pc, op, want, acked, tried>>
  BY DEF vars, old
<1>2. UNCHANGED <<Current, Spare>>
  BY <1>1 DEF Current, Spare
<1>3. TypeOK' /\ FilesInv' /\ CallInv'
  BY <1>1 DEF IInv, TypeOK, FilesInv, CallInv
<1>4. TakeOverInv' /\ AckedInv' /\ (~NullLegacy => NullFileHasSpare')
  BY <1>1, <1>2 DEF IInv, TakeOverInv, AckedInv, NullFileHasSpare
<1> QED
  BY <1>3, <1>4 DEF IInv

LEMMA InvariantStep ==
  ASSUME IInv, [Next]_vars
  PROVE  IInv'
<1>1. ASSUME NEW o \in {"save", "done"}, NEW v \in Saved, BeginSave(o, v)
      PROVE  IInv'
  BY <1>1, BeginSaveStep
<1>2. CASE SwitchV2 \/ GetOffset
  BY <1>2, SwitchV2Step, GetOffsetStep
<1>3. CASE Sync \/ Rename \/ Create \/ Rewrite \/ Resync
  BY <1>3, SyncStep, RenameStep, CreateStep, RewriteStep, ResyncStep
<1>4. ASSUME NEW v \in Saved, ShortWrite(v) PROVE IInv'
  BY <1>4, ShortWriteStep
<1>5. CASE Return \/ PowerFailure \/ Repair
  BY <1>5, ReturnStep, PowerFailureStep, RepairStep
<1>6. CASE UNCHANGED vars
  BY <1>6, StutterStep
<1> QED
  BY <1>1, <1>2, <1>3, <1>4, <1>5, <1>6 DEF Next

\* The file that counts, with what is known of it.
LEMMA CurrentShape ==
  ASSUME TypeOK, FilesInv
  PROVE  /\ Current \in File \cup {NoFile} /\ Sound(Current)
         /\ Current.lines \in Seq(Line) /\ ProperLines(Current.lines)
         /\ Len(Current.lines) \in Nat /\ DOMAIN Current.lines = 1 .. Len(Current.lines)
         /\ Current.synced \in 0 .. Len(Current.lines)
<1>1. Current \in File \cup {NoFile} /\ Sound(Current)
  BY DEF TypeOK, FilesInv, Current
<1>2. PICK f : f = Current
  OBVIOUS
<1>3. /\ f.lines \in Seq(Line) /\ ProperLines(f.lines) /\ f.synced \in 0 .. Len(f.lines)
  BY <1>1, <1>2, FileShape
<1> QED
  BY <1>1, <1>2, <1>3, ElementsOf

LEMMA Keeps ==
  ASSUME IInv
  PROVE  PositionKept
<1>1. PICK f : f = Current
  OBVIOUS
<1>2. PICK s : s = f.lines
  OBVIOUS
<1>3. PICK W : W = tried \cup {acked}
  OBVIOUS
<1>4. /\ s \in Seq(Line) /\ ProperLines(s) /\ Len(s) \in Nat /\ DOMAIN s = 1 .. Len(s)
      /\ f.synced \in 0 .. Len(s) /\ (s = <<>> <=> Len(s) = 0)
  BY <1>1, <1>2, CurrentShape, ElementsOf DEF IInv
<1>5. /\ f.synced = 0 => acked = Fresh \/ Holds(Spare, acked)
      /\ Recent(f, W)
  BY <1>1, <1>3 DEF IInv, AckedInv
<1>6. SUFFICES \/ Read(f) \in W \cup {Unreadable}
               \/ HasCut(f) /\ \E v \in W : Read(f) \in CutShort(v) /\
                                            (Read(f).pos = v.pos \/ Len(f.lines) = 1)
               \/ Read(f) = Fresh /\ Holds(Spare, acked)
  BY <1>1, <1>3 DEF PositionKept
<1>7. CASE s = <<>>
  <2>1. Read(f) = Fresh
    BY <1>2, <1>4, <1>7, ReadOf
  <2>2. f.synced = 0
    BY <1>4, <1>7
  <2> QED
    BY <1>3, <1>5, <2>1, <2>2
<1>8. CASE s # <<>> /\ ~Good(s)
  BY <1>2, <1>4, <1>8, ReadOf
<1>9. CASE s # <<>> /\ Good(s)
  <2>1. PICK l : l = s[Len(s)]
    OBVIOUS
  <2>2. Read(f) = l.val
    BY <1>2, <1>4, <1>9, <2>1, ReadOf
  <2>3. Len(s) \in 1 .. Len(s) /\ Len(s) >= f.synced /\ 1 \in 1 .. Len(s)
    BY <1>4, <1>9
  <2>4. PICK v \in W : LineOf(l, v)
    BY <1>2, <1>4, <1>5, <2>1, <2>3 DEF Recent
  <2>5. CASE l.kind = "whole"
    BY <2>2, <2>4, <2>5 DEF LineOf
  <2>6. CASE l.kind = "cut"
    <3>1. HasCut(f)
      BY <1>2, <1>4, <2>1, <2>3, <2>6 DEF HasCut
    <3>2. l.val \in CutShort(v) /\ (l.cols = 3 => l.val.pos = v.pos)
      BY <2>4, <2>6 DEF LineOf
    <3>3. CASE Len(s) = 1
      BY <1>2, <2>2, <3>1, <3>2, <3>3
    <3>4. CASE Len(s) # 1
      <4>1. s[1].kind = "whole" /\ l.cols = s[1].cols
        BY <1>9, <2>1, <2>3, <3>4 DEF Good
      <4>2. s[1].cols = 3
        BY <1>4, <2>3, <4>1 DEF ProperLines, Proper, Written
      <4> QED
        BY <2>2, <3>1, <3>2, <4>1, <4>2
    <3> QED
      BY <3>3, <3>4
  <2> QED
    BY <1>9, <2>1, <2>3, <2>5, <2>6 DEF Good
<1> QED
  BY <1>7, <1>8, <1>9

(***************************************************************************)
(* IInv is an invariant of any session whose files have three columns:     *)
(* whatever fails between two file operations, and however much of a line  *)
(* is on the disk then (status.go, writeState, Done and SwitchV2).         *)
(***************************************************************************)
THEOREM InvariantHolds ==
  ASSUME ThreeColumns
  PROVE  Spec => []IInv
<1>1. Init => IInv
  BY InitInv
<1>2. IInv /\ [Next]_vars => IInv'
  BY InvariantStep
<1> QED
  BY <1>1, <1>2, PTL DEF Spec

\* Files, calls and positions stay what they are meant to be.
THEOREM TypeCorrect ==
  ASSUME ThreeColumns
  PROVE  Spec => []TypeOK
<1>1. IInv => TypeOK
  BY DEF IInv
<1> QED
  BY <1>1, InvariantHolds, PTL

(***************************************************************************)
(* A readable state file holds the last acknowledged position, one whose   *)
(* line was begun since, or what GetOffset accepts of such a line when it  *)
(* was cut short; an empty one has the acknowledged position in .0.        *)
(***************************************************************************)
THEOREM PositionKeptHolds ==
  ASSUME ThreeColumns
  PROVE  Spec => []PositionKept
<1>1. IInv => PositionKept
  BY Keeps
<1> QED
  BY <1>1, InvariantHolds, PTL

\* The advice of checkNullFile is good, unless zeros are taken over from the
\* old directory: their .0 file is removed.
THEOREM NullFileHasSpareHolds ==
  ASSUME ThreeColumns, ~NullLegacy
  PROVE  Spec => []NullFileHasSpare
<1>1. IInv => NullFileHasSpare
  BY DEF IInv
<1> QED
  BY <1>1, InvariantHolds, PTL

(***************************************************************************)
(* The file operations implement the register.                             *)
(***************************************************************************)
LEMMA SameValues ==
  /\ Register!Value = Value /\ Register!Fresh = Fresh
  /\ Register!Unreadable = Unreadable /\ Register!Reading = Reading
  /\ \A v : Register!CutShort(v) = CutShort(v)
  /\ \A v \in Saved : v \in Value /\ v # Register!NoCall
BY Readings
DEF Register!Value, Value, Register!Position, Position, Register!Flag, Flag,
    Register!Fresh, Fresh, Register!Unreadable, Unreadable, Register!Reading, Reading,
    Register!Seen, Seen, Register!CutShort, CutShort, Register!CutNumber, CutNumber,
    Register!CutFlag, CutFlag, Register!NoCall

LEMMA RegisterInit ==
  ASSUME ThreeColumns, ~NullLegacy, Init
  PROVE  Register!Init
<1>1. /\ zero = NoFile /\ pc = "closed" /\ tried = {}
      /\ acked = Read(IF legacy # NoFile THEN legacyZero ELSE main)
  BY DEF Init
<1>2. /\ Read(Current) \in Value /\ Read(Spare) \in {Fresh, Read(Current)}
      /\ acked = Read(Current) /\ ~HasCut(Current)
  <2>1. CASE main = NoFile /\ legacy = NoFile /\ legacyZero = NoFile
    BY <1>1, <2>1, NoLines, Readings DEF Current, Spare
  <2>2. CASE main \in StartedFiles /\ legacy = NoFile /\ legacyZero = NoFile
    BY <1>1, <2>2, StartedFile, NoLines, Readings DEF Current, Spare
  <2>3. CASE main = NoFile /\ legacyZero \in StartedFiles /\ legacy = legacyZero
    BY <1>1, <2>3, StartedFile, Readings DEF Current, Spare
  <2> QED
    BY <2>1, <2>2, <2>3 DEF Init
<1>3. HasCut(Current) = FALSE
  BY <1>2 DEF HasCut
<1> QED
  BY <1>1, <1>2, <1>3, SameValues DEF Register!Init, Register!NoCall

\* The reading and its spare, of a step of an open session.
LEMMA OpenReadings ==
  ASSUME IInv, pc # "closed", UNCHANGED legacy
  PROVE  /\ Read(Current) = Read(main) /\ Read(Current)' = Read(main')
         /\ Read(Spare) = Read(zero) /\ Read(Spare)' = Read(zero')
         /\ HasCut(Current) = HasCut(main) /\ HasCut(Current)' = HasCut(main')
<1>1. legacy = NoFile /\ legacy' = NoFile
  BY OpenIsMain DEF IInv
<1> QED
  BY <1>1 DEF Current, Spare

\* Only a line cut short makes an open file unreadable.
LEMMA OpenReads ==
  ASSUME IInv, pc # "closed", main \in File
  PROVE  Read(main) # Unreadable \/ HasCut(main)
<1>1. PICK s : s = main.lines
  OBVIOUS
<1>2. /\ s \in Seq(Line) /\ ProperLines(s) /\ AllWritten(s) /\ DOMAIN s = 1 .. Len(s)
      /\ Len(s) \in Nat
  BY <1>1, OpenShape, MainShape DEF IInv
<1>3. SUFFICES ASSUME ~HasCut(main) PROVE Read(main) # Unreadable
  OBVIOUS
<1>4. \A i \in 1 .. Len(s) : s[i].kind = "whole" /\ s[i].cols = 3
  BY <1>1, <1>2, <1>3 DEF HasCut, AllWritten, ProperLines, Proper, Written
<1>5. \A i \in 1 .. Len(s) : 1 \in 1 .. Len(s)
  BY <1>2
<1>6. Good(s)
  BY <1>4, <1>5 DEF Good
<1> QED
  BY <1>1, <1>2, <1>6, ReadOf, Readings

LEMMA WritingStep ==
  ASSUME IInv, IInv', NEW o \in {"save", "done"}, NEW v \in Saved, BeginSave(o, v)
  PROVE  Register!Write(v)
<1>1. /\ pc = "open" /\ pc' = "sync" /\ want' = v /\ UNCHANGED <<zero, acked, legacy>>
      /\ tried' = tried \cup {v}
  BY DEF BeginSave, old
<1>2. /\ main \in File /\ Sound(main) /\ AllWritten(main.lines)
  <2>1. main # NoFile
    BY <1>1 DEF IInv, CallInv
  <2> QED
    BY <1>1, <2>1, OpenShape DEF IInv, TypeOK, FilesInv
<1>3. PutWhole(main', main, v)
  <2>1. PICK g : g = main'
    OBVIOUS
  <2>2. Len(main.lines) < MaxLines
    BY DEF BeginSave
  <2>3. g = [main EXCEPT !.lines = Append(main.lines, WholeLine(v, 3))]
    BY <2>1 DEF BeginSave
  <2>4. g = [main EXCEPT !.lines = Append(main.lines, WholeLine(v, 3))] =>
          PutWhole(g, main, v)
    BY <1>2, <2>2, WholeAdded
  <2> QED
    BY <2>1, <2>3, <2>4
<1>4. /\ HasCut(main) => Read(main') = Unreadable
      /\ ~HasCut(main) => Read(main') = v
  <2>1. PICK g : g = main'
    OBVIOUS
  <2>2. /\ g.lines \in Seq(Line) /\ AllWritten(g.lines) /\ g.lines # <<>>
        /\ Last(g.lines) = WholeLine(v, 3) /\ (HasCut(g) <=> HasCut(main))
        /\ g \in File /\ Sound(g)
    BY <1>3, <2>1 DEF PutWhole, Extends
  <2>3. ProperLines(g.lines)
    BY <2>2, FileShape
  <2> QED
    BY <2>1, <2>2, <2>3, EndsWhole
<1>5. HasCut(main') = HasCut(main)
  BY <1>3 DEF PutWhole, HasCut
<1>6. Read(main) # Unreadable \/ HasCut(main)
  BY <1>1, <1>2, OpenReads
<1>7. /\ Read(Current) = Read(main) /\ Read(Current)' = Read(main')
      /\ Read(Spare)' = Read(Spare)
      /\ HasCut(Current) = HasCut(main) /\ HasCut(Current)' = HasCut(main')
  BY <1>1, OpenReadings
<1> QED
  BY <1>1, <1>4, <1>5, <1>6, <1>7, SameValues DEF Register!Write, Register!NoCall

\* A file in which a call has written its line.
LEMMA WantReads ==
  ASSUME IInv, pc \in {"sync", "rename", "resync"}
  PROVE  /\ Read(Current) = want \/ HasCut(Current)
         /\ want \in Saved /\ want # Register!NoCall
<1>1. PICK v : v = want
  OBVIOUS
<1>2. /\ AllWritten(main.lines) /\ v \in Saved /\ main.lines # <<>>
      /\ Last(main.lines) = WholeLine(v, 3)
      /\ main.lines \in Seq(Line) /\ ProperLines(main.lines) /\ Current = main
  BY <1>1, WantWritten
<1>3. Read(main) = v \/ HasCut(main)
  BY <1>2, EndsWhole
<1> QED
  BY <1>1, <1>2, <1>3, SameValues

LEMMA SyncingSteps ==
  ASSUME IInv, IInv', Sync \/ Resync
  PROVE  Register!Acknowledge
<1>1. /\ pc \in {"sync", "resync"} /\ UNCHANGED <<zero, legacy>>
      /\ acked' = want /\ tried' = {}
      /\ pc' \in {"open", "closed"} \/ (pc' = "rename" /\ want' = want)
      /\ main' = [main EXCEPT !.synced = Len(main.lines)]
  BY DEF Sync, Resync, old
<1>2. main'.lines = main.lines
  BY <1>1, SyncedMain
<1>3. Read(main') = Read(main) /\ HasCut(main') = HasCut(main)
  BY <1>2 DEF Read, Parses, AllNull, HasCut
<1>4. /\ Read(Current) = Read(main) /\ Read(Current)' = Read(main')
      /\ Read(Spare)' = Read(Spare)
      /\ HasCut(Current) = HasCut(main) /\ HasCut(Current)' = HasCut(main')
  BY <1>1, OpenReadings
<1>5. /\ Read(Current) = want \/ HasCut(Current)
      /\ want # Register!NoCall
  BY <1>1, WantReads
<1> QED
  BY <1>1, <1>3, <1>4, <1>5, SameValues DEF Register!Acknowledge, Register!NoCall

LEMMA DoneSteps ==
  ASSUME IInv, IInv'
  PROVE  /\ Rename => Register!SetAside
         /\ Rewrite => Register!WriteAgain
         /\ Create => UNCHANGED Register!vars
<1>1. ASSUME Rename PROVE Register!SetAside
  <2>1. /\ pc = "rename" /\ pc' = "create" /\ UNCHANGED <<want, acked, tried, legacy>>
        /\ zero' = main /\ main' = NoFile
    BY <1>1 DEF Rename, old
  <2>2. /\ Read(Current) = want \/ HasCut(Current)
        /\ want # Register!NoCall /\ acked = want
    BY <2>1, WantReads DEF IInv, CallInv
  <2>3. /\ Read(Current) = Read(main) /\ Read(Current)' = Read(main')
        /\ Read(Spare)' = Read(zero')
        /\ HasCut(Current) = HasCut(main) /\ HasCut(Current)' = HasCut(main')
    BY <2>1, OpenReadings
  <2>4. Read(main') = Fresh /\ HasCut(main') = FALSE
    BY <2>1, NoLines DEF HasCut
  <2> QED
    BY <2>1, <2>2, <2>3, <2>4, SameValues DEF Register!SetAside, Register!NoCall
<1>2. ASSUME Rewrite PROVE Register!WriteAgain
  <2>1. /\ pc = "rewrite" /\ pc' = "resync"
        /\ UNCHANGED <<want, acked, tried, zero, legacy>>
    BY <1>2 DEF Rewrite, old
  <2>2. /\ Read(main) = Fresh /\ HasCut(main) = FALSE /\ want \in Saved
        /\ main = Empty
    BY <2>1, NoLines DEF IInv, CallInv, HasCut
  <2>3. /\ Read(Current) = Read(main) /\ Read(Current)' = Read(main')
        /\ Read(Spare)' = Read(Spare)
        /\ HasCut(Current) = HasCut(main) /\ HasCut(Current)' = HasCut(main')
    BY <2>1, OpenReadings
  <2>4. Read(main') = want /\ HasCut(main') = FALSE
    <3>1. PICK v : v = want
      OBVIOUS
    <3>2. PICK g : g = main'
      OBVIOUS
    <3>3. PICK f : f = main
      OBVIOUS
    <3>4. /\ f \in File /\ Sound(f) /\ AllWritten(f.lines) /\ Len(f.lines) < MaxLines
          /\ v \in Saved
      BY <2>2, <3>1, <3>3, NoLines DEF AllWritten
    <3>5. g = [f EXCEPT !.lines = Append(f.lines, WholeLine(v, 3))] => PutWhole(g, f, v)
      BY <3>4, WholeAdded
    <3>6. g = [f EXCEPT !.lines = Append(f.lines, WholeLine(v, 3))]
      BY <1>2, <3>1, <3>2, <3>3 DEF Rewrite
    <3>7. /\ g.lines \in Seq(Line) /\ AllWritten(g.lines) /\ g.lines # <<>>
          /\ Last(g.lines) = WholeLine(v, 3) /\ ~HasCut(g) /\ g \in File /\ Sound(g)
      BY <2>2, <3>3, <3>5, <3>6 DEF PutWhole, Extends
    <3>8. ProperLines(g.lines)
      BY <3>7, FileShape
    <3>9. Read(g) = v
      BY <3>4, <3>7, <3>8, EndsWhole
    <3> QED
      BY <3>1, <3>2, <3>7, <3>9 DEF HasCut
  <2> QED
    BY <2>1, <2>2, <2>3, <2>4, SameValues DEF Register!WriteAgain, Register!NoCall
<1>3. ASSUME Create PROVE UNCHANGED Register!vars
  <2>1. /\ pc = "create" /\ pc' = "rewrite"
        /\ UNCHANGED <<want, acked, tried, zero, legacy>>
        /\ main' = Empty
    BY <1>3 DEF Create, old
  <2>2. /\ Read(main) = Fresh /\ Read(main') = Fresh
        /\ HasCut(main) = FALSE /\ HasCut(main') = FALSE
    BY <2>1, NoLines DEF IInv, CallInv, HasCut
  <2>3. /\ Read(Current) = Read(main) /\ Read(Current)' = Read(main')
        /\ Read(Spare)' = Read(Spare)
        /\ HasCut(Current) = HasCut(main) /\ HasCut(Current)' = HasCut(main')
    BY <2>1, OpenReadings
  <2> QED
    BY <2>1, <2>2, <2>3 DEF Register!vars
<1> QED
  BY <1>1, <1>2, <1>3

LEMMA PartStep ==
  ASSUME IInv, IInv', NEW v \in Saved, ShortWrite(v)
  PROVE  Register!WritePart(v)
<1>1. /\ pc = "open" \/ (pc = "rewrite" /\ v = want)
      /\ pc' = "closed" /\ UNCHANGED <<zero, legacy, acked>> /\ tried' = tried \cup {v}
  BY DEF ShortWrite, old
<1>2. main \in File /\ PutPart(main', main, v)
  BY MainPart
<1>3. /\ Read(Current) = Read(main) /\ Read(Current)' = Read(main')
      /\ Read(Spare)' = Read(Spare)
      /\ HasCut(Current) = HasCut(main) /\ HasCut(Current)' = HasCut(main')
  BY <1>1, OpenReadings
<1>4. Read(main) # Unreadable \/ HasCut(main)
  BY <1>1, <1>2, OpenReads
<1>5. /\ HasCut(main) \in BOOLEAN /\ HasCut(main') \in BOOLEAN
      /\ HasCut(main) => HasCut(main')
  BY <1>2 DEF PutPart, HasCut
<1>6. /\ Read(main') # Unreadable => HasCut(main')
      /\ HasCut(main) => Read(main') \in {Unreadable, [Read(main) EXCEPT !.flag = "cut"]}
      /\ ~HasCut(main) => Read(main') \in {Unreadable} \cup CutShort(v)
  BY <1>2 DEF PutPart
<1>a. (IF pc \in {"closed", "open"} THEN [pos |-> 0, flag |-> "none"] ELSE want)
        \in {Register!NoCall, v}
  BY <1>1 DEF Register!NoCall
<1>7. HasCut(main') \in {HasCut(main), TRUE}
  BY <1>5
<1>8. Read(main') \in {Unreadable} \cup
        IF HasCut(main) THEN {[Read(main) EXCEPT !.flag = "cut"]} ELSE CutShort(v)
  BY <1>5, <1>6
<1> QED
  BY <1>1, <1>3, <1>4, <1>6, <1>7, <1>8, <1>a, SameValues
  DEF Register!WritePart, Register!NoCall

LEMMA OpeningSteps ==
  ASSUME IInv, IInv'
  PROVE  /\ SwitchV2 => Register!TakeOver
         /\ GetOffset => UNCHANGED Register!vars
         /\ UNCHANGED vars => UNCHANGED Register!vars
         /\ Return => Register!Abandon
<1>1. ASSUME SwitchV2 PROVE Register!TakeOver
  <2>1. /\ pc = "closed" /\ legacy # NoFile /\ main' = legacy /\ legacy' = NoFile
        /\ UNCHANGED <<zero, pc, acked, tried, want>>
    BY <1>1 DEF SwitchV2
  <2>2. zero = NoFile
    BY <2>1 DEF IInv, TakeOverInv
  <2>3. /\ Read(Current)' = Read(Current) /\ Read(Spare)' = Fresh
        /\ HasCut(Current)' = HasCut(Current)
    BY <2>1, <2>2, NoLines DEF Current, Spare
  <2> QED
    BY <2>1, <2>3, SameValues DEF Register!TakeOver, Register!NoCall
<1>2. ASSUME GetOffset PROVE UNCHANGED Register!vars
  <2>1. /\ pc = "closed" /\ pc' = "open" /\ legacy = NoFile
        /\ UNCHANGED <<zero, acked, tried, legacy>>
        /\ main' = IF main = NoFile THEN Empty ELSE main
    BY <1>2 DEF GetOffset, old
  <2>2. main'.lines = main.lines
    BY <2>1, NoLines
  <2>3. Read(main') = Read(main) /\ HasCut(main') = HasCut(main)
    BY <2>2 DEF Read, Parses, AllNull, HasCut
  <2>4. /\ Read(Current)' = Read(Current) /\ Read(Spare)' = Read(Spare)
        /\ HasCut(Current)' = HasCut(Current)
    BY <2>1, <2>3 DEF Current, Spare
  <2> QED
    BY <2>1, <2>4 DEF Register!vars
<1>3. ASSUME UNCHANGED vars PROVE UNCHANGED Register!vars
  <2>1. UNCHANGED <<main, zero, legacy, legacyZero, pc, want, acked, tried>>
    BY <1>3 DEF vars, old
  <2>2. /\ Read(Current)' = Read(Current) /\ Read(Spare)' = Read(Spare)
        /\ HasCut(Current)' = HasCut(Current)
    BY <2>1 DEF Current, Spare
  <2> QED
    BY <2>1, <2>2 DEF Register!vars
<1>4. ASSUME Return PROVE Register!Abandon
  <2>1. pc' = "closed" /\ UNCHANGED <<main, zero, legacy, legacyZero, acked, tried>>
    BY <1>4 DEF Return, old
  <2>2. /\ Read(Current)' = Read(Current) /\ Read(Spare)' = Read(Spare)
        /\ HasCut(Current)' = HasCut(Current)
    BY <2>1 DEF Current, Spare
  <2> QED
    BY <2>1, <2>2, SameValues DEF Register!Abandon, Register!NoCall
<1> QED
  BY <1>1, <1>2, <1>3, <1>4

LEMMA RepairingStep ==
  ASSUME IInv, IInv', Repair
  PROVE  Register!Repair
<1>1. /\ pc = "closed" /\ legacy = NoFile /\ Read(main) = Unreadable
      /\ main' \in {zero, NoFile} /\ Read(main') # Unreadable
      /\ acked' = Read(main') /\ tried' = {}
      /\ UNCHANGED <<zero, legacy, pc, want>>
  BY DEF Repair
<1>2. PICK m : m = main'
  OBVIOUS
<1>3. m \in File \cup {NoFile} /\ Settled(m) /\ Read(m) # Unreadable
  BY <1>1, <1>2, NoLines DEF IInv, TypeOK, FilesInv
<1>4. ~HasCut(m) /\ HasCut(m) \in BOOLEAN
  BY <1>3, SettledReads DEF HasCut
<1>5. Read(main') \in {Read(zero), Fresh} \ {Unreadable} /\ HasCut(main') = FALSE
  BY <1>1, <1>2, <1>4, NoLines
<1>6. /\ Read(Current) = Read(main) /\ Read(Current)' = Read(main')
      /\ Read(Spare) = Read(zero) /\ Read(Spare)' = Read(zero)
      /\ HasCut(Current)' = HasCut(main')
  BY <1>1 DEF Current, Spare
<1> QED
  BY <1>1, <1>5, <1>6, SameValues DEF Register!Repair, Register!NoCall

\* The .0 file that holds a value reads as that value, or not at all.
LEMMA ZeroReads ==
  ASSUME IInv, Holds(zero, acked)
  PROVE  Read(zero) \in {acked, Unreadable}
<1>1. zero.lines \in Seq(Line) /\ ProperLines(zero.lines)
  BY FileShape DEF IInv, TypeOK, FilesInv, Settled
<1>2. PICK v \in Seen : v = acked
  BY WrittenValues DEF IInv
<1> QED
  BY <1>1, <1>2, HoldsReads

LEMMA FailingStep ==
  ASSUME IInv, IInv', PositionKept', PowerFailure
  PROVE  Register!PowerFailure
<1>1. /\ pc' = "closed" /\ UNCHANGED <<legacyZero, acked, tried>>
  BY DEF PowerFailure
<1>c. HasCut(Current)' \in BOOLEAN
  BY DEF HasCut
<1>2. \/ Read(Current)' \in {acked, Unreadable} \cup tried
      \/ HasCut(Current)' /\ \E v \in tried \cup {acked} : Read(Current)' \in CutShort(v)
      \/ Read(Current)' = Fresh /\ Holds(Spare', acked)
  BY <1>1 DEF PositionKept
<1>3. ASSUME Read(Spare)' = Read(Spare) \/ (Read(Spare) = Fresh /\ Read(Spare)' \in Value),
             \/ Read(Current)' \in {acked, Unreadable} \cup tried
             \/ HasCut(Current)' /\ \E v \in tried \cup {acked} : Read(Current)' \in CutShort(v)
      PROVE  Register!PowerFailure
  BY <1>1, <1>c, <1>3, SameValues
  DEF Register!PowerFailure, Register!NoCall, Register!Parts
<1>4. CASE main' \in Survivors(main) /\ UNCHANGED <<zero, legacy>>
  <2>1. CASE legacy = NoFile
    <3>1. /\ Read(Spare) = Read(zero) /\ Read(Spare)' = Read(Spare) /\ Spare' = zero
      BY <1>4, <2>1 DEF Spare
    <3>2. CASE Read(Current)' = Fresh /\ Holds(Spare', acked)
      <4>1. Read(Spare) \in {acked, Unreadable}
        BY <3>1, <3>2, ZeroReads
      <4> QED
        BY <1>1, <1>c, <3>1, <3>2, <4>1, SameValues
        DEF Register!PowerFailure, Register!NoCall, Register!HasSpare
    <3> QED
      BY <1>2, <1>3, <3>1, <3>2
  <2>2. CASE legacy # NoFile
    <3>1. Read(Current)' = Read(Current) /\ Read(Spare)' = Read(Spare)
      BY <1>1, <1>4, <2>2 DEF Current, Spare
    <3> QED
      BY <1>1, <1>c, <3>1, SameValues DEF Register!PowerFailure, Register!NoCall
  <2> QED
    BY <2>1, <2>2
<1>5. CASE /\ pc \in {"create", "rewrite", "resync"}
           /\ main' = zero /\ zero' = before /\ UNCHANGED legacy
  <2>1. Read(zero) \in {acked, Unreadable}
    BY <1>5, ZeroReads DEF IInv, CallInv
  <2>2. /\ Read(Current)' = Read(zero) /\ Read(Spare) = Read(zero)
        /\ Read(Spare)' = Read(before)
    BY <1>5, OpenReadings
  <2>3. Read(before) \in Reading
    <3>1. before.lines \in Seq(Line) /\ ProperLines(before.lines)
      BY FileShape DEF IInv, TypeOK, FilesInv, Settled
    <3> QED
      BY <3>1, ReadOf
  <2> QED
    BY <1>1, <1>c, <2>1, <2>2, <2>3, SameValues
    DEF Register!PowerFailure, Register!NoCall, Register!HasSpare
<1>6. CASE /\ moved /\ legacy' \in Survivors(main) /\ main' = NoFile
           /\ UNCHANGED zero
  <2>1. legacy = NoFile /\ zero = NoFile /\ main.synced > 0
    BY <1>6 DEF IInv, TakeOverInv, Current
  <2>2. PICK m : m = legacy'
    OBVIOUS
  <2>3. LeftOf(m, main)
    BY <1>6, <2>2, MainShape, SurvivorsOf DEF IInv
  <2>4. /\ m # NoFile /\ m.lines \in Seq(Line) /\ ProperLines(m.lines) /\ m.lines # <<>>
    <3>1. m.lines \in Seq(Line) /\ ProperLines(m.lines) /\ m.synced > 0
          /\ m.synced = Len(m.lines)
      BY <2>1, <2>3, FileShape DEF LeftOf
    <3> QED
      BY <3>1, NoLines, EmptySeq
  <2>5. /\ Read(Current)' = Read(m) /\ Read(Spare) = Fresh
        /\ Read(Spare)' = Read(legacyZero)
    BY <1>1, <2>1, <2>2, <2>4, NoLines DEF Current, Spare
  <2>6. Read(m) # Fresh
    BY <2>4, ReadOf, Readings
  <2>7. Read(legacyZero) \in Value
    BY SettledReads, Readings DEF IInv, TypeOK, FilesInv
  <2> QED
    BY <1>2, <1>3, <2>5, <2>6, <2>7
<1> QED
  BY <1>4, <1>5, <1>6 DEF PowerFailure

LEMMA RegisterStep ==
  ASSUME IInv, IInv', PositionKept', [Next]_vars
  PROVE  [Register!Next]_(Register!vars)
<1>1. ASSUME NEW o \in {"save", "done"}, NEW v \in Saved, BeginSave(o, v)
      PROVE  Register!Next
  BY <1>1, WritingStep, SameValues DEF Register!Next
<1>2. CASE Sync \/ Resync
  BY <1>2, SyncingSteps DEF Register!Next
<1>3. CASE Rename \/ Rewrite
  BY <1>3, DoneSteps DEF Register!Next
<1>4. CASE Create \/ GetOffset \/ UNCHANGED vars
  BY <1>4, DoneSteps, OpeningSteps
<1>5. CASE SwitchV2 \/ Return
  BY <1>5, OpeningSteps DEF Register!Next
<1>6. ASSUME NEW v \in Saved, ShortWrite(v)
      PROVE  Register!Next
  BY <1>6, PartStep, SameValues DEF Register!Next
<1>7. CASE PowerFailure \/ Repair
  BY <1>7, FailingStep, RepairingStep DEF Register!Next
<1> QED
  BY <1>1, <1>2, <1>3, <1>4, <1>5, <1>6, <1>7 DEF Next

(***************************************************************************)
(* What the callers of pkg/status rely on: between two polls, and over     *)
(* every failure, the file is a register that keeps the old value or takes *)
(* the new one; that a part of a value may get into, which GetOffset can   *)
(* take for a value; and that a power failure sets back to the last        *)
(* acknowledged value, or to a part of that, at most.                      *)
(***************************************************************************)
THEOREM RegisterHolds ==
  ASSUME ThreeColumns, ~NullLegacy
  PROVE  Spec => ImplementsRegister
<1>1. Init => Register!Init
  BY RegisterInit
<1>2. IInv /\ IInv' /\ PositionKept' /\ [Next]_vars => [Register!Next]_(Register!vars)
  BY RegisterStep
<1>3. Spec => []IInv /\ []PositionKept
  BY InvariantHolds, PositionKeptHolds
<1> QED
  BY <1>1, <1>2, <1>3, PTL DEF Spec, Register!Spec, ImplementsRegister
=============================================================================
