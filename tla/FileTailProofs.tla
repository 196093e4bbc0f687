--------------------------- MODULE FileTailProofs ---------------------------
(***************************************************************************)
(* Theorems about FileTail: for a tailer that starts at the end of the     *)
(* file, and any number of lines, truncations, rotations and failed reads. *)
(*                                                                         *)
(* The argument keeps three things.  What a writer leaves behind: every    *)
(* line is one chunk or two next to each other, in rising order, and only  *)
(* the last, in the file written to, may be unfinished (WriterInv).        *)
(* What is still to come: nothing in the buffer, or after the position in  *)
(* the file, is older than what was delivered (OrderInv).  And, as long as *)
(* the open file was not truncated, what the buffer is: the part of the    *)
(* file between the point up to which lines were handed out and the        *)
(* position (TrackInv).  That no line comes twice in two torn parts rests  *)
(* on one thing more: only younger lines come after the end of a line      *)
(* (LastInv).                                                              *)
(***************************************************************************)
EXTENDS FileTail, TLAPS, SequenceTheorems, WellFoundedInduction

(* The chunk c comes after one of line n.                                  *)
Before(n, c) == n <= c.line /\ (c.first => n < c.line)

Rising(s) == \A i, j \in 1 .. Len(s) : i < j => Before(s[i].line, s[j])

(* A line of two chunks has them side by side.                             *)
WellWritten(s) ==
  /\ s \in Seq(Chunks)
  /\ Rising(s)
  /\ \A i \in 1 .. Len(s) :
       /\ s[i].first \/ s[i].last
       /\ ~s[i].first => i > 1 /\ s[i - 1].line = s[i].line /\ ~s[i - 1].last
       /\ ~s[i].last /\ i < Len(s) => ~s[i + 1].first

Unfinished(s) == s # << >> /\ ~s[Len(s)].last

WriterInv ==
  /\ files \in Seq(Seq(Chunks)) /\ path \in 0 .. Len(files)
  /\ dest \in 1 .. Len(files) /\ lines \in 0 .. MaxLines /\ half \in BOOLEAN
  /\ \A f \in 1 .. Len(files) :
       /\ WellWritten(files[f])
       /\ \A i \in 1 .. Len(files[f]) : files[f][i].line <= lines
       /\ Unfinished(files[f]) => half /\ f = dest
  /\ half => /\ Unfinished(files[dest])
             /\ files[dest][Len(files[dest])].line = lines
             /\ \A f \in 1 .. Len(files) :
                  f # dest => \A i \in 1 .. Len(files[f]) : files[f][i].line < lines

TypeInv ==
  /\ pc \in {"open", "read", "sleep"}
  /\ fd \in 0 .. Len(files) /\ (pc # "open" => fd # 0)
  /\ pos \in Nat /\ buf \in Seq(Chunks) /\ offset \in Nat
  /\ got \in [1 .. MaxLines -> 0 .. 2]
  /\ latest \in 0 .. lines /\ base \in Nat /\ shrunk \in BOOLEAN
  /\ pc = "sleep" => buf = << >>

(* What is still to come is no older than what was delivered.              *)
OrderInv ==
  /\ Rising(buf)
  /\ \A i \in 1 .. Len(buf) : Before(latest, buf[i]) /\ buf[i].line <= lines
  /\ pc # "open" =>
       \A j \in pos + 1 .. Size(fd) :
         /\ Before(latest, files[fd][j])
         /\ \A i \in 1 .. Len(buf) : Before(buf[i].line, files[fd][j])
  /\ \A n \in 1 .. MaxLines : got[n] <= 1 /\ (n > latest => got[n] = 0)

(* The point up to which the open file was handed out or given up.         *)
done == pos - Len(buf)

TrackInv ==
  pc # "open" /\ ~shrunk =>
    /\ base <= done /\ offset <= done /\ pos <= Size(fd)
    /\ \A i \in 1 .. Len(buf) : buf[i] = files[fd][done + i]
    /\ done > 0 => files[fd][done].last \/ files[fd][done].line \in broken
    /\ \A i \in base + 1 .. done :
         files[fd][i].last /\ files[fd][i].line \notin broken
           => got[files[fd][i].line] > 0

IInv == WriterInv /\ TypeInv /\ OrderInv /\ TrackInv

-----------------------------------------------------------------------------
LEMMA ChunkMeans ==
  /\ \A n \in 1 .. MaxLines, f, l \in BOOLEAN :
       /\ Chunk(n, f, l) \in Chunks
       /\ Chunk(n, f, l).line = n
       /\ Chunk(n, f, l).first = f /\ Chunk(n, f, l).last = l
  /\ \A c \in Chunks : c.line \in 1 .. MaxLines /\ c.first \in BOOLEAN
                       /\ c.last \in BOOLEAN
  BY DEF Chunk, Chunks

LEMMA LinesAreNumbers ==
  ASSUME NEW s \in Seq(Chunks)
  PROVE  /\ Len(s) \in Nat
         /\ \A i \in 1 .. Len(s) :
              s[i].line \in 1 .. MaxLines /\ s[i].line \in Nat /\ s[i] \in Chunks
<1>1. \A i \in 1 .. Len(s) : s[i] \in Chunks
  OBVIOUS
<1>2. \A c \in Chunks : c.line \in 1 .. MaxLines /\ c.line \in Nat
  BY FileTailAssumption DEF Chunks
<1> QED
  BY <1>1, <1>2

LEMMA Least ==
  ASSUME NEW S \in SUBSET Nat, S # {}
  PROVE  \E i \in S : \A j \in S : i <= j
<1> DEFINE Less == OpToRel(<, Nat)
<1>1. \A x, y \in Nat : <<x, y>> \in Less <=> x < y
  BY DEF OpToRel
<1>2. IsWellFoundedOn(Less, Nat)
  BY NatLessThanWellFounded
<1> HIDE DEF Less
<1>3. \E i \in S : \A j \in S : <<j, i>> \notin Less
  BY <1>2, WFMin
<1>4. \A i, j \in S : <<j, i>> \notin Less => i <= j
  BY <1>1
<1> QED
  BY <1>3, <1>4

(* What a file may become in a step of the writer.                         *)
Grown(s, t, n) ==
  /\ Len(s) <= Len(t)
  /\ \A i \in 1 .. Len(s) : t[i] = s[i]
  /\ \A i \in Len(s) + 1 .. Len(t) : Before(n, t[i])

(* A file with one chunk more.                                             *)
LEMMA OneMore ==
  ASSUME NEW s, WellWritten(s), NEW c \in Chunks,
         \A i \in 1 .. Len(s) : Before(s[i].line, c),
         c.first \/ c.last,
         c.first => ~Unfinished(s),
         ~c.first => Unfinished(s) /\ s[Len(s)].line = c.line,
         NEW n \in Nat, Before(n, c)
  PROVE  LET t == s \o <<c>>
         IN  /\ WellWritten(t) /\ t[Len(t)] = c
             /\ \A i \in 1 .. Len(t) : t[i].line <= c.line
             /\ Unfinished(t) <=> ~c.last
             /\ Grown(s, t, n)
<1> DEFINE t == s \o <<c>>
<1>1. s \in Seq(Chunks) /\ Len(s) \in Nat
  BY DEF WellWritten
<1>2. /\ t \in Seq(Chunks) /\ Len(t) = Len(s) + 1
      /\ \A i \in 1 .. Len(s) : t[i] = s[i]
      /\ t[Len(s) + 1] = c
  BY <1>1
<1> HIDE DEF t
<1>3. \A i \in 1 .. Len(s) + 1 : i \in 1 .. Len(s) \/ i = Len(s) + 1
  BY <1>1
<1>4. \A i \in 1 .. Len(s) : s[i].line \in Nat
  BY <1>1, LinesAreNumbers
<1>5. c.line \in Nat
  BY FileTailAssumption DEF Chunks
<1>6. Rising(t)
  <2> SUFFICES ASSUME NEW i \in 1 .. Len(t), NEW j \in 1 .. Len(t), i < j
               PROVE  Before(t[i].line, t[j])
    BY DEF Rising
  <2>1. CASE j = Len(s) + 1
    <3>1. i \in 1 .. Len(s)
      BY <1>1, <1>2, <2>1
    <3> QED
      BY <1>2, <2>1, <3>1
  <2>2. CASE j \in 1 .. Len(s)
    <3>1. i \in 1 .. Len(s)
      BY <1>1, <1>2, <2>2
    <3> QED
      BY <1>2, <2>2, <3>1 DEF WellWritten, Rising
  <2> QED
    BY <1>2, <1>3, <2>1, <2>2
<1>7. Len(s) > 0 => (Unfinished(s) <=> ~s[Len(s)].last)
  BY <1>1 DEF Unfinished
<1>8. ASSUME NEW i \in 1 .. Len(t)
      PROVE  /\ t[i].first \/ t[i].last
             /\ ~t[i].first => i > 1 /\ t[i - 1].line = t[i].line /\ ~t[i - 1].last
             /\ ~t[i].last /\ i < Len(t) => ~t[i + 1].first
  <2>1. CASE i = Len(s) + 1
    <3>1. ~c.first => Len(s) > 0 /\ s[Len(s)].line = c.line /\ ~s[Len(s)].last
      BY <1>1 DEF Unfinished
    <3>2. Len(s) > 0 => t[Len(s)] = s[Len(s)]
      BY <1>1, <1>2
    <3> QED
      BY <1>1, <1>2, <2>1, <3>1, <3>2
  <2>2. CASE i \in 1 .. Len(s)
    <3>1. t[i] = s[i] /\ (i > 1 => t[i - 1] = s[i - 1])
      BY <1>1, <1>2, <2>2
    <3>2. /\ s[i].first \/ s[i].last
          /\ ~s[i].first => i > 1 /\ s[i - 1].line = s[i].line /\ ~s[i - 1].last
          /\ ~s[i].last /\ i < Len(s) => ~s[i + 1].first
      BY <2>2 DEF WellWritten
    <3>3. ~t[i].last => ~t[i + 1].first
      <4>1. CASE i < Len(s)
        BY <1>1, <1>2, <3>1, <3>2, <4>1, <2>2
      <4>2. CASE i = Len(s)
        BY <1>1, <1>2, <1>7, <3>1, <4>2, <2>2
      <4> QED
        BY <1>1, <2>2, <4>1, <4>2
    <3> QED
      BY <3>1, <3>2, <3>3
  <2> QED
    BY <1>2, <1>3, <2>1, <2>2
<1>9. Unfinished(t) <=> ~c.last
  BY <1>1, <1>2 DEF Unfinished
<1>10. \A i \in 1 .. Len(t) : t[i].line <= c.line
  <2>1. \A i \in 1 .. Len(s) : t[i].line <= c.line
    BY <1>2 DEF Before
  <2>2. t[Len(s) + 1].line <= c.line
    BY <1>2, <1>5
  <2> QED
    BY <1>2, <1>3, <2>1, <2>2
<1>11. Grown(s, t, n)
  <2>1. \A i \in Len(s) + 1 .. Len(t) : i = Len(s) + 1
    BY <1>1, <1>2
  <2>2. Len(s) <= Len(t)
    BY <1>1, <1>2
  <2> QED
    BY <1>2, <2>1, <2>2 DEF Grown
<1>12. t[Len(t)] = c
  BY <1>2
<1>13. WellWritten(t)
  BY <1>2, <1>6, <1>8 DEF WellWritten
<1> QED
  BY <1>9, <1>10, <1>11, <1>12, <1>13 DEF t

LEMMA GrownNot ==
  ASSUME NEW n, NEW s \in Seq(Chunks)
  PROVE  Grown(s, s, n)
<1>1. Len(s) \in Nat /\ Len(s) + 1 .. Len(s) = {}
  OBVIOUS
<1> QED
  BY <1>1 DEF Grown

LEMMA GrownTwice ==
  ASSUME NEW s \in Seq(Chunks), NEW u \in Seq(Chunks), NEW t \in Seq(Chunks), NEW n,
         Grown(s, u, n), Grown(u, t, n)
  PROVE  Grown(s, t, n)
<1>1. Len(s) \in Nat /\ Len(u) \in Nat /\ Len(t) \in Nat
  OBVIOUS
<1>2. Len(s) <= Len(u) /\ Len(u) <= Len(t)
  BY DEF Grown
<1>3. \A i \in 1 .. Len(s) : t[i] = s[i]
  BY <1>1, <1>2 DEF Grown
<1>4. \A i \in Len(s) + 1 .. Len(t) :
        i \in Len(u) + 1 .. Len(t) \/ (i \in 1 .. Len(u) /\ i \in Len(s) + 1 .. Len(u))
  BY <1>1, <1>2
<1>5. \A i \in Len(s) + 1 .. Len(t) : Before(n, t[i])
  BY <1>4 DEF Grown
<1> QED
  BY <1>1, <1>2, <1>3, <1>5 DEF Grown

LEMMA OneThenOther ==
  ASSUME NEW s \in Seq(Chunks), NEW c \in Chunks, NEW d \in Chunks
  PROVE  s \o <<c, d>> = (s \o <<c>>) \o <<d>>
<1>1. Len(s) \in Nat
  OBVIOUS
<1>2. <<c, d>> \in Seq(Chunks) /\ <<c>> \in Seq(Chunks) /\ <<d>> \in Seq(Chunks)
      /\ Len(<<c, d>>) = 2
  OBVIOUS
<1>3. s \o <<c, d>> \in Seq(Chunks) /\ (s \o <<c>>) \o <<d>> \in Seq(Chunks)
  BY <1>2
<1>4. /\ Len(s \o <<c, d>>) = Len(s) + 2 /\ Len((s \o <<c>>) \o <<d>>) = Len(s) + 2
  BY <1>1, <1>2
<1>5. ASSUME NEW i \in 1 .. Len(s) + 2
      PROVE  (s \o <<c, d>>)[i] = ((s \o <<c>>) \o <<d>>)[i]
  <2>1. i \in 1 .. Len(s) \/ i = Len(s) + 1 \/ i = Len(s) + 2
    BY <1>1
  <2> QED
    BY <1>1, <1>2, <2>1
<1> QED
  BY <1>3, <1>4, <1>5, SeqEqual

-----------------------------------------------------------------------------
LEMMA FilesAreFinite ==
  /\ WriterInv => /\ files \in Seq(Seq(Chunks)) /\ Len(files) \in Nat
                  /\ lines \in 0 .. MaxLines
  /\ WriterInv' => /\ files' \in Seq(Seq(Chunks)) /\ Len(files') \in Nat
                   /\ lines' \in 0 .. MaxLines
  BY DEF WriterInv

(* The program appends to the file it has open.                            *)
LEMMA Appending ==
  ASSUME WriterInv, NEW t \in Seq(Chunks),
         files' = [files EXCEPT ![dest] = t], UNCHANGED <<path, dest>>,
         lines' \in lines .. MaxLines,
         half' \in BOOLEAN, WellWritten(t), \A i \in 1 .. Len(t) : t[i].line <= lines',
         Unfinished(t) <=> half', half' => t[Len(t)].line = lines',
         half => half' \/ ~Unfinished(t), half' => lines < lines'
  PROVE  WriterInv'
<1>1. /\ files \in Seq(Seq(Chunks)) /\ dest \in 1 .. Len(files)
      /\ lines \in 0 .. MaxLines
  BY DEF WriterInv
<1>2. /\ files' \in Seq(Seq(Chunks)) /\ Len(files') = Len(files)
      /\ files'[dest] = t
      /\ \A f \in 1 .. Len(files) : f # dest => files'[f] = files[f]
  BY <1>1
<1>3. ASSUME NEW f \in 1 .. Len(files)
      PROVE  /\ WellWritten(files'[f])
             /\ \A i \in 1 .. Len(files'[f]) : files'[f][i].line <= lines'
             /\ Unfinished(files'[f]) => half' /\ f = dest
  <2>1. CASE f = dest
    BY <1>2, <2>1
  <2>2. CASE f # dest
    <3>1. /\ WellWritten(files[f]) /\ ~Unfinished(files[f])
          /\ \A i \in 1 .. Len(files[f]) : files[f][i].line <= lines
      BY <2>2 DEF WriterInv
    <3>2. \A i \in 1 .. Len(files[f]) : files[f][i].line \in Nat
      BY <3>1, LinesAreNumbers DEF WellWritten
    <3>3. \A n \in Nat : n <= lines => n <= lines'
      BY <1>1
    <3> QED
      BY <1>2, <2>2, <3>1, <3>2, <3>3
  <2> QED
    BY <2>1, <2>2
<1>4. /\ lines' \in 0 .. MaxLines /\ path' \in 0 .. Len(files')
      /\ dest' \in 1 .. Len(files')
  BY <1>1, <1>2, FileTailAssumption DEF WriterInv
<1>5. ASSUME half', NEW f \in 1 .. Len(files), f # dest,
             NEW i \in 1 .. Len(files'[f])
      PROVE  files'[f][i].line < lines'
  <2>1. WellWritten(files[f]) /\ files[f][i].line <= lines /\ files'[f] = files[f]
    BY <1>2, <1>5 DEF WriterInv
  <2>2. files[f][i].line \in Nat
    BY <1>5, <2>1, LinesAreNumbers DEF WellWritten
  <2> QED
    BY <1>1, <1>5, <2>1, <2>2
<1> QED
  BY <1>1, <1>2, <1>3, <1>4, <1>5 DEF WriterInv

LEMMA BeginLineMeans ==
  ASSUME WriterInv, BeginLine
  PROVE  /\ WriterInv' /\ lines' \in lines .. MaxLines /\ Len(files') = Len(files)
         /\ \A f \in 1 .. Len(files) : Grown(files[f], files'[f], lines)
<1> DEFINE s == files[dest]
           n == lines + 1
           whole == Chunk(n, TRUE, TRUE)
           begun == Chunk(n, TRUE, FALSE)
           rest == Chunk(n, FALSE, TRUE)
<1>1. /\ files \in Seq(Seq(Chunks)) /\ dest \in 1 .. Len(files) /\ ~half
      /\ lines \in 0 .. MaxLines /\ lines < MaxLines /\ lines' = n /\ UNCHANGED <<path, dest>>
      /\ MaxLines \in Nat
  BY FileTailAssumption DEF WriterInv, BeginLine
<1>2. WellWritten(s) /\ ~Unfinished(s) /\ s \in Seq(Chunks) /\ Len(s) \in Nat
      /\ \A i \in 1 .. Len(s) : s[i].line <= lines
  <2>1. /\ WellWritten(s) /\ ~Unfinished(s)
        /\ \A i \in 1 .. Len(s) : s[i].line <= lines
    BY <1>1 DEF WriterInv
  <2>2. s \in Seq(Chunks)
    BY <2>1 DEF WellWritten
  <2> QED
    BY <2>1, <2>2
<1>3. n \in 1 .. MaxLines /\ lines \in Nat /\ lines <= n
  BY <1>1
<1>4. /\ whole \in Chunks /\ whole.line = n /\ whole.first /\ whole.last
      /\ begun \in Chunks /\ begun.line = n /\ begun.first /\ ~begun.last
      /\ rest \in Chunks /\ rest.line = n /\ ~rest.first /\ rest.last
  BY <1>3, ChunkMeans
<1> HIDE DEF whole, begun, rest, s
<1>5. /\ \A i \in 1 .. Len(s) : Before(s[i].line, whole) /\ Before(s[i].line, begun)
      /\ Before(lines, whole) /\ Before(lines, begun) /\ Before(lines, rest)
  <2>1. \A i \in 1 .. Len(s) : s[i].line \in Nat
    BY <1>2, LinesAreNumbers
  <2>2. \A m \in Nat : m <= lines => m <= n /\ m < n
    BY <1>3
  <2> QED
    BY <1>2, <1>3, <1>4, <2>1, <2>2 DEF Before
<1>6. ASSUME NEW t, files' = [files EXCEPT ![dest] = t],
             WellWritten(t), Grown(s, t, lines),
             \A i \in 1 .. Len(t) : t[i].line <= n,
             half' \in BOOLEAN, Unfinished(t) <=> half', half' => t[Len(t)].line = n
      PROVE  /\ WriterInv' /\ lines' \in lines .. MaxLines /\ Len(files') = Len(files)
             /\ \A f \in 1 .. Len(files) : Grown(files[f], files'[f], lines)
  <2>1. /\ t \in Seq(Chunks) /\ lines' \in lines .. MaxLines /\ lines < lines'
        /\ UNCHANGED <<path, dest>>
    BY <1>1, <1>3, <1>6 DEF WellWritten, BeginLine
  <2>2. WriterInv'
    BY <1>1, <1>6, <2>1, Appending
  <2>3. Grown(s, t, lines)
    BY <1>6
  <2>4. /\ Len(files') = Len(files) /\ files'[dest] = t
        /\ \A f \in 1 .. Len(files) : f # dest => files'[f] = files[f]
    BY <1>1, <1>6
  <2>5. \A f \in 1 .. Len(files) : Grown(files[f], files[f], lines)
    <3>1. \A f \in 1 .. Len(files) : Len(files[f]) \in Nat
      BY <1>1
    <3> QED
      BY <3>1 DEF Grown
  <2> QED
    BY <2>1, <2>2, <2>4, <2>5, <2>3 DEF s
<1>7. CASE files' = [files EXCEPT ![dest] = s \o <<whole>>] /\ half' = half
  <2> DEFINE t == s \o <<whole>>
  <2>1. /\ WellWritten(t) /\ Grown(s, t, lines) /\ ~Unfinished(t)
        /\ \A i \in 1 .. Len(t) : t[i].line <= n
    BY <1>2, <1>3, <1>4, <1>5, OneMore
  <2>2. files' = [files EXCEPT ![dest] = t] /\ half' = FALSE
    BY <1>1, <1>7
  <2> HIDE DEF t
  <2> QED
    BY <1>6, <2>1, <2>2
<1>8. CASE files' = [files EXCEPT ![dest] = s \o <<begun>>] /\ half' = TRUE
  <2> DEFINE t == s \o <<begun>>
  <2>1. /\ WellWritten(t) /\ Grown(s, t, lines) /\ Unfinished(t) /\ t[Len(t)] = begun
        /\ \A i \in 1 .. Len(t) : t[i].line <= n
    BY <1>2, <1>3, <1>4, <1>5, OneMore
  <2>2. files' = [files EXCEPT ![dest] = t]
    BY <1>8
  <2> HIDE DEF t
  <2> QED
    BY <1>4, <1>6, <1>8, <2>1, <2>2
<1>9. CASE files' = [files EXCEPT ![dest] = s \o <<begun, rest>>] /\ half' = half
  <2> DEFINE u == s \o <<begun>>
             t == u \o <<rest>>
  <2>1. /\ WellWritten(u) /\ Grown(s, u, lines) /\ Unfinished(u) /\ u[Len(u)] = begun
        /\ \A i \in 1 .. Len(u) : u[i].line <= n
    BY <1>2, <1>3, <1>4, <1>5, OneMore
  <2>2. s \o <<begun, rest>> = t
    BY <1>2, <1>4, OneThenOther
  <2> HIDE DEF u
  <2>3. \A i \in 1 .. Len(u) : Before(u[i].line, rest)
    BY <1>4, <2>1 DEF Before
  <2>4. /\ WellWritten(t) /\ Grown(u, t, lines) /\ ~Unfinished(t)
        /\ \A i \in 1 .. Len(t) : t[i].line <= n
    BY <1>3, <1>4, <1>5, <2>1, <2>3, OneMore
  <2> HIDE DEF t
  <2>5. files' = [files EXCEPT ![dest] = t] /\ half' = FALSE
    <3>1. half' = FALSE
      BY <1>1, <1>9
    <3>2. files' = [files EXCEPT ![dest] = t]
      BY <1>9, <2>2
    <3> QED
      BY <3>1, <3>2
  <2>6. Grown(s, t, lines)
    BY <1>2, <2>1, <2>4, GrownTwice DEF WellWritten
  <2> QED
    BY <1>2, <1>6, <2>4, <2>5, <2>6
<1>10. /\ WriterInv' /\ lines' \in lines .. MaxLines /\ Len(files') = Len(files)
       /\ \A f \in 1 .. Len(files) : Grown(files[f], files'[f], lines)
  BY <1>1, <1>7, <1>8, <1>9 DEF BeginLine, Put, whole, begun, rest, s
<1> QED
  BY <1>1, <1>10

LEMMA FinishLineMeans ==
  ASSUME WriterInv, FinishLine
  PROVE  /\ WriterInv' /\ lines' \in lines .. MaxLines /\ Len(files') = Len(files)
         /\ \A f \in 1 .. Len(files) : Grown(files[f], files'[f], lines)
<1> DEFINE s == files[dest]
           c == Chunk(lines, FALSE, TRUE)
           t == s \o <<c>>
<1>1. /\ files \in Seq(Seq(Chunks)) /\ dest \in 1 .. Len(files) /\ half
      /\ lines \in 0 .. MaxLines /\ lines' = lines /\ UNCHANGED <<path, dest>> /\ half' = FALSE
      /\ files' = [files EXCEPT ![dest] = t] /\ MaxLines \in Nat
  BY FileTailAssumption DEF WriterInv, FinishLine, Put
<1>2. /\ WellWritten(s) /\ Unfinished(s) /\ s[Len(s)].line = lines
      /\ s \in Seq(Chunks) /\ Len(s) \in Nat /\ s # << >>
      /\ \A i \in 1 .. Len(s) : s[i].line <= lines
  BY <1>1 DEF WriterInv, WellWritten, Unfinished
<1>3. lines \in 1 .. MaxLines /\ lines \in Nat /\ lines <= lines
  <2>1. Len(s) \in 1 .. Len(s)
    BY <1>2
  <2>2. s[Len(s)].line \in 1 .. MaxLines
    BY <1>2, <2>1, LinesAreNumbers
  <2> QED
    BY <1>1, <1>2, <2>2
<1>4. c \in Chunks /\ c.line = lines /\ ~c.first /\ c.last
  BY <1>3, ChunkMeans
<1> HIDE DEF c, s
<1>5. (\A i \in 1 .. Len(s) : Before(s[i].line, c)) /\ Before(lines, c)
  BY <1>2, <1>3, <1>4 DEF Before
<1>6. /\ WellWritten(t) /\ Grown(s, t, lines) /\ ~Unfinished(t)
      /\ \A i \in 1 .. Len(t) : t[i].line <= lines
  BY <1>2, <1>3, <1>4, <1>5, OneMore
<1> HIDE DEF t
<1>7. t \in Seq(Chunks) /\ lines' \in lines .. MaxLines 
  BY <1>1, <1>3, <1>6 DEF WellWritten
<1>8. WriterInv'
  BY <1>1, <1>6, <1>7, Appending
<1>9. /\ Len(files') = Len(files) /\ files'[dest] = t
      /\ \A f \in 1 .. Len(files) : f # dest => files'[f] = files[f]
  BY <1>1, <1>7
<1>10. \A f \in 1 .. Len(files) : Grown(files[f], files[f], lines)
  BY <1>1, GrownNot
<1> QED
  BY <1>6, <1>7, <1>8, <1>9, <1>10 DEF s

LEMMA EmptyIsWellWritten ==
  << >> \in Seq(Chunks) /\ WellWritten(<< >>) /\ Len(<< >>) = 0 /\ ~Unfinished(<< >>)
<1>1. << >> \in Seq(Chunks) /\ Len(<< >>) = 0 /\ 1 .. 0 = {}
  OBVIOUS
<1> QED
  BY <1>1 DEF WellWritten, Rising, Unfinished

LEMMA TruncateMeans ==
  ASSUME WriterInv, Truncate
  PROVE  /\ WriterInv' /\ lines' = lines /\ Len(files') = Len(files)
         /\ files'[path] = << >>
         /\ \A f \in 1 .. Len(files) : f # path => files'[f] = files[f]
<1>1. /\ files \in Seq(Seq(Chunks)) /\ path \in 1 .. Len(files)
      /\ ~(half /\ dest = path)
      /\ files' = [files EXCEPT ![path] = << >>]
      /\ UNCHANGED <<path, dest, lines, half>>
  BY DEF WriterInv, Truncate
<1>2. /\ files' \in Seq(Seq(Chunks)) /\ Len(files') = Len(files)
      /\ files'[path] = << >>
      /\ \A f \in 1 .. Len(files) : f # path => files'[f] = files[f]
  BY <1>1, EmptyIsWellWritten
<1>3. Len(files'[path]) = 0 /\ 1 .. 0 = {}
  BY <1>2, EmptyIsWellWritten
<1>4. ASSUME NEW f \in 1 .. Len(files)
      PROVE  /\ WellWritten(files'[f])
             /\ \A i \in 1 .. Len(files'[f]) : files'[f][i].line <= lines
             /\ Unfinished(files'[f]) => half /\ f = dest
             /\ half /\ f # dest =>
                  \A i \in 1 .. Len(files'[f]) : files'[f][i].line < lines
  <2>1. CASE f = path
    BY <1>2, <1>3, <2>1, EmptyIsWellWritten
  <2>2. CASE f # path
    BY <1>2, <2>2 DEF WriterInv
  <2> QED
    BY <2>1, <2>2
<1>5. half => /\ Unfinished(files'[dest])
              /\ files'[dest][Len(files'[dest])].line = lines
  BY <1>1, <1>2 DEF WriterInv
<1> QED
  BY <1>1, <1>2, <1>4, <1>5 DEF WriterInv

LEMMA MakeNewMeans ==
  ASSUME WriterInv, MakeNew
  PROVE  /\ WriterInv' /\ lines' = lines /\ Len(files') = Len(files) + 1
         /\ \A f \in 1 .. Len(files) : files'[f] = files[f]
<1>1. /\ files \in Seq(Seq(Chunks)) /\ half \in BOOLEAN
      /\ files' = Append(files, << >>) /\ path' = Len(files')
      /\ UNCHANGED <<dest, lines, half>> /\ Len(files) \in Nat
      /\ dest \in 1 .. Len(files)
  BY DEF WriterInv, MakeNew
<1>2. /\ files' \in Seq(Seq(Chunks)) /\ Len(files') = Len(files) + 1
      /\ files'[Len(files) + 1] = << >>
      /\ \A f \in 1 .. Len(files) : files'[f] = files[f]
  BY <1>1, EmptyIsWellWritten
<1>3. ASSUME NEW f \in 1 .. Len(files')
      PROVE  /\ WellWritten(files'[f])
             /\ \A i \in 1 .. Len(files'[f]) : files'[f][i].line <= lines
             /\ Unfinished(files'[f]) => half /\ f = dest
             /\ half /\ f # dest =>
                  \A i \in 1 .. Len(files'[f]) : files'[f][i].line < lines
  <2>0. f \in 1 .. Len(files) \/ f = Len(files) + 1
    BY <1>1, <1>2
  <2>1. CASE f = Len(files) + 1
    <3>1. files'[f] = << >> /\ Len(files'[f]) = 0 /\ 1 .. 0 = {}
      BY <1>2, <2>1, EmptyIsWellWritten
    <3> QED
      BY <3>1, EmptyIsWellWritten
  <2>2. CASE f \in 1 .. Len(files)
    BY <1>1, <1>2, <2>2 DEF WriterInv
  <2> QED
    BY <2>0, <2>1, <2>2
<1>4. /\ path' \in 0 .. Len(files') /\ half' = half /\ lines' = lines
      /\ dest' \in 1 .. Len(files')
  BY <1>1, <1>2
<1>5. half => /\ Unfinished(files'[dest])
              /\ files'[dest][Len(files'[dest])].line = lines
  BY <1>1, <1>2 DEF WriterInv
<1> QED
  BY <1>1, <1>2, <1>3, <1>4, <1>5 DEF WriterInv

(* A step of the writer: every file grows, or is emptied.                  *)
LEMMA WriterMeans ==
  ASSUME WriterInv, TypeInv, Writer
  PROVE  /\ WriterInv' /\ lines' \in lines .. MaxLines /\ Len(files) <= Len(files')
         /\ UNCHANGED <<pc, fd, pos, buf, offset, got, latest, base, broken>>
         /\ shrunk' \in BOOLEAN /\ (shrunk => shrunk')
         /\ \A f \in 1 .. Len(files) :
              \/ Grown(files[f], files'[f], lines)
              \/ files'[f] = << >> /\ (f = fd => shrunk')
<1>0. /\ files \in Seq(Seq(Chunks)) /\ Len(files) \in Nat /\ lines \in 0 .. MaxLines
      /\ MaxLines \in Nat /\ shrunk \in BOOLEAN
      /\ \A f \in 1 .. Len(files) : Grown(files[f], files[f], lines)
  BY FileTailAssumption, GrownNot DEF WriterInv, TypeInv
<1>1. CASE BeginLine
  <2>1. /\ WriterInv' /\ lines' \in lines .. MaxLines /\ Len(files') = Len(files)
        /\ \A f \in 1 .. Len(files) : Grown(files[f], files'[f], lines)
    BY <1>1, BeginLineMeans
  <2>2. UNCHANGED <<pc, fd, pos, buf, offset, got, latest, base, broken, shrunk>>
    BY <1>1 DEF BeginLine, reader, ghosts
  <2> QED
    BY <1>0, <2>1, <2>2
<1>2. CASE FinishLine
  <2>1. /\ WriterInv' /\ lines' \in lines .. MaxLines /\ Len(files') = Len(files)
        /\ \A f \in 1 .. Len(files) : Grown(files[f], files'[f], lines)
    BY <1>2, FinishLineMeans
  <2>2. UNCHANGED <<pc, fd, pos, buf, offset, got, latest, base, broken, shrunk>>
    BY <1>2 DEF FinishLine, reader, ghosts
  <2> QED
    BY <1>0, <2>1, <2>2
<1>3. CASE Truncate
  <2>1. /\ WriterInv' /\ lines' = lines /\ Len(files') = Len(files)
        /\ files'[path] = << >>
        /\ \A f \in 1 .. Len(files) : f # path => files'[f] = files[f]
    BY <1>3, TruncateMeans
  <2>2. /\ UNCHANGED <<pc, fd, pos, buf, offset, got, latest, base, broken>>
        /\ shrunk' = (shrunk \/ fd = path)
    BY <1>3 DEF Truncate, reader
  <2>3. shrunk' \in BOOLEAN /\ (shrunk => shrunk') /\ (fd = path => shrunk')
    BY <1>0, <2>2
  <2>4. lines' \in lines .. MaxLines /\ Len(files) <= Len(files')
    BY <1>0, <2>1
  <2>5. \A f \in 1 .. Len(files) :
          \/ Grown(files[f], files'[f], lines)
          \/ files'[f] = << >> /\ (f = fd => shrunk')
    BY <1>0, <2>1, <2>3
  <2> QED
    BY <2>1, <2>2, <2>3, <2>4, <2>5
<1>4. CASE MoveAway
  <2>1. /\ UNCHANGED <<files, lines, half, pc, fd, pos, buf, offset, got, latest, base>>
        /\ UNCHANGED <<broken, shrunk, dest>> /\ path' = 0
    BY <1>4 DEF MoveAway, reader, ghosts
  <2>2. WriterInv'
    BY <1>0, <2>1 DEF WriterInv
  <2> QED
    BY <1>0, <2>1, <2>2
<1>5. CASE MakeNew
  <2>1. /\ UNCHANGED <<pc, fd, pos, buf, offset, got, latest, base, broken, shrunk>>
    BY <1>5 DEF MakeNew, reader, ghosts
  <2>2. /\ WriterInv' /\ lines' = lines /\ Len(files') = Len(files) + 1
        /\ \A f \in 1 .. Len(files) : files'[f] = files[f]
    BY <1>5, MakeNewMeans
  <2> QED
    BY <1>0, <2>1, <2>2
<1>6. CASE OpenNew
  <2>1. /\ UNCHANGED <<files, path, lines, half, pc, fd, pos, buf, offset, got>>
        /\ UNCHANGED <<latest, base, broken, shrunk>>
        /\ dest' = path /\ path # 0 /\ ~half
    BY <1>6 DEF OpenNew, reader, ghosts
  <2>2. path \in 1 .. Len(files)
    BY <1>0, <2>1 DEF WriterInv
  <2>3. WriterInv'
    BY <1>0, <2>1, <2>2 DEF WriterInv
  <2> QED
    BY <1>0, <2>1, <2>3
<1> QED
  BY <1>1, <1>2, <1>3, <1>4, <1>5, <1>6 DEF Writer

-----------------------------------------------------------------------------
(* What a step of the writer leaves of the reader's part.                  *)
LEMMA WriterKeepsTypes ==
  ASSUME WriterInv, TypeInv, Writer
  PROVE  TypeInv'
<1>1. /\ lines' \in lines .. MaxLines /\ Len(files) <= Len(files')
      /\ UNCHANGED <<pc, fd, pos, buf, offset, got, latest, base>>
      /\ shrunk' \in BOOLEAN /\ WriterInv'
  BY WriterMeans
<1>2. Len(files) \in Nat /\ Len(files') \in Nat /\ lines \in 0 .. MaxLines
      /\ MaxLines \in Nat
  BY <1>1, FilesAreFinite, FileTailAssumption
<1>3. fd \in 0 .. Len(files') /\ latest \in 0 .. lines'
  BY <1>1, <1>2 DEF TypeInv
<1> QED
  BY <1>1, <1>3 DEF TypeInv

LEMMA WriterKeepsOrder ==
  ASSUME WriterInv, TypeInv, OrderInv, Writer
  PROVE  OrderInv'
<1>1. /\ lines' \in lines .. MaxLines /\ WriterInv'
      /\ UNCHANGED <<pc, fd, pos, buf, offset, got, latest, base>>
      /\ \A f \in 1 .. Len(files) :
           Grown(files[f], files'[f], lines) \/ files'[f] = << >>
  BY WriterMeans
<1>2. /\ lines \in Nat /\ lines' \in Nat /\ lines <= lines' /\ latest \in Nat
      /\ latest <= lines /\ pos \in Nat /\ fd \in 0 .. Len(files)
      /\ pc # "open" => fd \in 1 .. Len(files)
      /\ buf \in Seq(Chunks)
  <2>1. lines \in 0 .. MaxLines /\ latest \in 0 .. lines /\ MaxLines \in Nat
        /\ pos \in Nat /\ fd \in 0 .. Len(files) /\ Len(files) \in Nat
        /\ (pc # "open" => fd # 0) /\ buf \in Seq(Chunks)
    BY FileTailAssumption DEF TypeInv, WriterInv
  <2> QED
    BY <1>1, <2>1
<1>3. \A i \in 1 .. Len(buf) : buf[i].line \in Nat /\ buf[i].line <= lines
  BY <1>2, LinesAreNumbers DEF OrderInv
<1>4. \A n \in Nat : n <= lines => n <= lines'
  BY <1>2
<1>5. ASSUME pc # "open"
      PROVE  \A j \in pos + 1 .. Len(files'[fd]) :
               /\ Before(latest, files'[fd][j])
               /\ \A i \in 1 .. Len(buf) : Before(buf[i].line, files'[fd][j])
  <2>0. fd \in 1 .. Len(files) /\ files[fd] \in Seq(Chunks) /\ Len(files[fd]) \in Nat
        /\ fd \in 1 .. Len(files') /\ files'[fd] \in Seq(Chunks)
        /\ Len(files'[fd]) \in Nat
    <3>1. fd \in 1 .. Len(files) /\ Len(files) \in Nat /\ Len(files') \in Nat
          /\ Len(files) <= Len(files')
      <4>1. WriterInv' /\ Len(files) <= Len(files')
        BY WriterMeans
      <4> QED
        BY <1>2, <1>5, <4>1, FilesAreFinite
    <3>2. fd \in 1 .. Len(files')
      BY <3>1
    <3>3. files \in Seq(Seq(Chunks)) /\ files' \in Seq(Seq(Chunks))
      BY <1>1 DEF WriterInv
    <3>4. files[fd] \in Seq(Chunks) /\ files'[fd] \in Seq(Chunks)
      BY <3>1, <3>2, <3>3
    <3> QED
      BY <3>1, <3>2, <3>4
  <2>1. CASE files'[fd] = << >>
    <3>1. Len(files'[fd]) = 0
      BY <2>1
    <3>2. pos + 1 .. 0 = {}
      BY <1>2
    <3> QED
      BY <3>1, <3>2
  <2>2. CASE Grown(files[fd], files'[fd], lines)
    <3> SUFFICES ASSUME NEW j \in pos + 1 .. Len(files'[fd])
                 PROVE  /\ Before(latest, files'[fd][j])
                        /\ \A i \in 1 .. Len(buf) : Before(buf[i].line, files'[fd][j])
      OBVIOUS
    <3>1. \/ j \in pos + 1 .. Len(files[fd]) /\ j \in 1 .. Len(files[fd])
          \/ j \in Len(files[fd]) + 1 .. Len(files'[fd])
      BY <1>2, <2>0
    <3>2. CASE j \in pos + 1 .. Len(files[fd]) /\ j \in 1 .. Len(files[fd])
      <4>1. files'[fd][j] = files[fd][j]
        BY <2>2, <3>2 DEF Grown
      <4> QED
        BY <1>5, <3>2, <4>1 DEF OrderInv, Size
    <3>3. CASE j \in Len(files[fd]) + 1 .. Len(files'[fd])
      <4>1. Before(lines, files'[fd][j])
        BY <2>2, <3>3 DEF Grown
      <4>2. files'[fd][j].line \in Nat
        <5>1. j \in 1 .. Len(files'[fd])
          BY <2>0, <3>3
        <5> QED
          BY <2>0, <5>1, LinesAreNumbers
      <4>3. \A n \in Nat : n <= lines => Before(n, files'[fd][j])
        BY <1>2, <4>1, <4>2 DEF Before
      <4> QED
        BY <1>2, <1>3, <4>3
    <3> QED
      BY <3>1, <3>2, <3>3
  <2> QED
    BY <1>1, <2>0, <2>1, <2>2
<1>6. /\ Rising(buf) /\ \A i \in 1 .. Len(buf) : Before(latest, buf[i])
      /\ \A n \in 1 .. MaxLines : got[n] <= 1 /\ (n > latest => got[n] = 0)
  BY DEF OrderInv
<1>7. \A i \in 1 .. Len(buf) : buf[i].line <= lines'
  BY <1>3, <1>4
<1> QED
  BY <1>1, <1>5, <1>6, <1>7 DEF OrderInv, Size

LEMMA WriterKeepsTrack ==
  ASSUME WriterInv, TypeInv, TrackInv, Writer
  PROVE  TrackInv'
<1> SUFFICES ASSUME pc' # "open", ~shrunk'
             PROVE  /\ base' <= done' /\ offset' <= done' /\ pos' <= Size(fd)'
                    /\ \A i \in 1 .. Len(buf') : buf'[i] = files'[fd'][done' + i]
                    /\ done' > 0 => files'[fd'][done'].last
                                    \/ files'[fd'][done'].line \in broken'
                    /\ \A i \in base' + 1 .. done' :
                         files'[fd'][i].last /\ files'[fd'][i].line \notin broken'
                           => got'[files'[fd'][i].line] > 0
  BY DEF TrackInv
<1>1. /\ UNCHANGED <<pc, fd, pos, buf, offset, got, latest, base, broken>>
      /\ ~shrunk /\ pc # "open"
      /\ \A f \in 1 .. Len(files) :
           \/ Grown(files[f], files'[f], lines)
           \/ files'[f] = << >> /\ (f = fd => shrunk')
  BY WriterMeans
<1>2. /\ fd \in 1 .. Len(files) /\ pos \in Nat /\ buf \in Seq(Chunks)
      /\ Len(buf) \in Nat /\ base \in Nat /\ offset \in Nat /\ done \in Int
      /\ files[fd] \in Seq(Chunks) /\ Len(files[fd]) \in Nat
  <2>1. /\ fd \in 0 .. Len(files) /\ fd # 0 /\ pos \in Nat /\ buf \in Seq(Chunks)
        /\ base \in Nat /\ offset \in Nat /\ files \in Seq(Seq(Chunks))
    BY <1>1 DEF TypeInv, WriterInv
  <2>2. fd \in 1 .. Len(files) /\ Len(buf) \in Nat
    BY <2>1
  <2> QED
    BY <2>1, <2>2 DEF done
<1>3. Grown(files[fd], files'[fd], lines)
  BY <1>1, <1>2
<1>4. /\ base <= done /\ offset <= done /\ pos <= Len(files[fd])
      /\ \A i \in 1 .. Len(buf) : buf[i] = files[fd][done + i]
      /\ done > 0 => files[fd][done].last \/ files[fd][done].line \in broken
      /\ \A i \in base + 1 .. done :
           files[fd][i].last /\ files[fd][i].line \notin broken
             => got[files[fd][i].line] > 0
  BY <1>1 DEF TrackInv, Size
<1>5. /\ done' = done
      /\ \A i \in 1 .. Len(files[fd]) : files'[fd][i] = files[fd][i]
      /\ Len(files[fd]) <= Len(files'[fd])
  BY <1>1, <1>3 DEF Grown, done
<1>6. /\ \A i \in 1 .. Len(buf) : done + i \in 1 .. Len(files[fd])
      /\ done > 0 => done \in 1 .. Len(files[fd])
      /\ \A i \in base + 1 .. done : i \in 1 .. Len(files[fd])
  BY <1>2, <1>4 DEF done
<1>7. pos <= Len(files'[fd])
  <2>1. Len(files'[fd]) \in Nat
    <3>1. /\ WriterInv' /\ Len(files) <= Len(files') /\ Len(files) \in Nat
          /\ Len(files') \in Nat
      BY WriterMeans DEF WriterInv
    <3>2. fd \in 1 .. Len(files')
      BY <1>2, <3>1
    <3>3. files'[fd] \in Seq(Chunks)
      BY <3>1, <3>2 DEF WriterInv
    <3> QED
      BY <3>3
  <2> QED
    BY <1>2, <1>4, <1>5, <2>1
<1>8. \A i \in 1 .. Len(buf) : buf[i] = files'[fd][done + i]
  BY <1>4, <1>5, <1>6
<1>9. done > 0 => files'[fd][done].last \/ files'[fd][done].line \in broken
  BY <1>4, <1>5, <1>6
<1>10. \A i \in base + 1 .. done :
         files'[fd][i].last /\ files'[fd][i].line \notin broken
           => got[files'[fd][i].line] > 0
  BY <1>4, <1>5, <1>6
<1> QED
  BY <1>1, <1>4, <1>5, <1>7, <1>8, <1>9, <1>10 DEF Size

-----------------------------------------------------------------------------
(* What the tailer may take for granted of its own variables.              *)
LEMMA ReaderTypes ==
  ASSUME WriterInv, TypeInv
  PROVE  /\ lines \in Nat /\ latest \in Nat /\ latest <= lines /\ MaxLines \in Nat
         /\ pos \in Nat /\ offset \in Nat /\ base \in Nat /\ path \in 0 .. Len(files)
         /\ buf \in Seq(Chunks) /\ Len(buf) \in Nat /\ done \in Int
         /\ done + Len(buf) = pos
         /\ \A i \in 1 .. Len(buf) : buf[i] \in Chunks /\ buf[i].line \in 1 .. MaxLines
         /\ \A f \in 1 .. Len(files) :
              /\ files[f] \in Seq(Chunks) /\ Size(f) \in Nat /\ WellWritten(files[f])
              /\ \A i \in 1 .. Size(f) :
                   files[f][i] \in Chunks /\ files[f][i].line \in 1 .. MaxLines
         /\ pc # "open" => fd \in 1 .. Len(files)
<1>1. /\ lines \in 0 .. MaxLines /\ latest \in 0 .. lines /\ MaxLines \in Nat
      /\ pos \in Nat /\ offset \in Nat /\ base \in Nat /\ path \in 0 .. Len(files)
      /\ buf \in Seq(Chunks) /\ fd \in 0 .. Len(files) /\ (pc # "open" => fd # 0)
      /\ files \in Seq(Seq(Chunks))
  BY FileTailAssumption DEF WriterInv, TypeInv
<1>2. Len(buf) \in Nat /\ Len(files) \in Nat
  BY <1>1
<1>3. done \in Int /\ done + Len(buf) = pos
  BY <1>1, <1>2 DEF done
<1>4. \A i \in 1 .. Len(buf) : buf[i] \in Chunks /\ buf[i].line \in 1 .. MaxLines
  BY <1>1, LinesAreNumbers
<1>5. \A f \in 1 .. Len(files) : files[f] \in Seq(Chunks)
  BY <1>1
<1>6. ASSUME NEW f \in 1 .. Len(files)
      PROVE  /\ Size(f) \in Nat /\ WellWritten(files[f])
             /\ \A i \in 1 .. Size(f) :
                  files[f][i] \in Chunks /\ files[f][i].line \in 1 .. MaxLines
  <2>1. Size(f) \in Nat
    BY <1>5 DEF Size
  <2>2. WellWritten(files[f])
    BY DEF WriterInv
  <2> QED
    BY <1>5, <2>1, <2>2, LinesAreNumbers DEF Size
<1>7. lines \in Nat /\ latest \in Nat /\ latest <= lines
      /\ (pc # "open" => fd \in 1 .. Len(files))
  BY <1>1, <1>2
<1> QED
  BY <1>1, <1>2, <1>3, <1>4, <1>5, <1>6, <1>7

LEMMA TailerKeepsFiles ==
  ASSUME WriterInv, UNCHANGED writer
  PROVE  WriterInv'
  BY DEF WriterInv, writer, WellWritten, Rising, Before, Unfinished

LEMMA OpenKeeps ==
  ASSUME IInv, StartAtEnd, Open
  PROVE  IInv'
<1>1. /\ WriterInv /\ TypeInv /\ OrderInv
      /\ path # 0 /\ fd' = path /\ pos' = Size(path) /\ offset' = Size(path)
      /\ buf' = << >> /\ pc' = "read" /\ base' = Size(path) /\ shrunk' = FALSE
      /\ broken' = broken \cup IF half /\ dest = path THEN {lines} ELSE {}
      /\ UNCHANGED writer /\ UNCHANGED <<files, path, dest, lines, half>>
      /\ UNCHANGED <<got, latest>>
  BY DEF IInv, Open, OpenedAt, writer
<1>2. WriterInv'
  BY <1>1, TailerKeepsFiles
<1>3. path \in 1 .. Len(files) /\ Size(path) \in Nat /\ << >> \in Seq(Chunks)
      /\ Len(<< >>) = 0
  BY <1>1, ReaderTypes
<1>4. TypeInv'
  <2>1. /\ fd' \in 0 .. Len(files') /\ fd' # 0 /\ pos' \in Nat /\ buf' \in Seq(Chunks)
        /\ offset' \in Nat /\ base' \in Nat
    <3>1. path \in 0 .. Len(files)
      BY <1>1 DEF WriterInv
    <3> QED
      BY <1>1, <1>3, <3>1
  <2>2. pc' \in {"open", "read", "sleep"} /\ pc' # "sleep" /\ shrunk' \in BOOLEAN
    BY <1>1
  <2> QED
    BY <1>1, <2>1, <2>2 DEF TypeInv
<1>5. /\ 1 .. 0 = {} /\ Size(path) + 1 .. Size(path) = {}
      /\ Size(path) - 0 = Size(path)
  BY <1>3
<1>6. OrderInv'
  <2>1. Rising(buf') /\ Len(buf') = 0
    BY <1>1, <1>3, <1>5 DEF Rising
  <2>2. Size(fd)' = Size(path)
    BY <1>1 DEF Size
  <2>3. \A n \in 1 .. MaxLines : got'[n] <= 1 /\ (n > latest' => got'[n] = 0)
    BY <1>1 DEF OrderInv
  <2>4. pos' + 1 .. Size(fd)' = {}
    BY <1>1, <1>5, <2>2
  <2> QED
    BY <1>5, <2>1, <2>3, <2>4 DEF OrderInv
<1>7. TrackInv'
  <2>1. done' = Size(path) /\ Size(fd)' = Size(path) /\ Len(buf') = 0
    BY <1>1, <1>3, <1>5 DEF done, Size
  <2>2. Size(path) > 0 => files[path][Size(path)].last
                          \/ files[path][Size(path)].line \in broken'
    <3>1. CASE half /\ dest = path
      <4>1. files[path][Len(files[path])].line = lines
        BY <1>1, <3>1 DEF WriterInv
      <4> QED
        BY <1>1, <3>1, <4>1 DEF Size
    <3>2. CASE ~(half /\ dest = path)
      <4>1. ~Unfinished(files[path])
        BY <1>1, <1>3, <3>2 DEF WriterInv
      <4>2. Size(path) > 0 => files[path] # << >>
        BY <1>3 DEF Size
      <4> QED
        BY <4>1, <4>2 DEF Unfinished, Size
    <3> QED
      BY <3>1, <3>2
  <2>3. base' + 1 .. done' = {} /\ base' <= done' /\ offset' <= done' /\ pos' <= Size(fd)'
    BY <1>1, <1>3, <1>5, <2>1
  <2>4. done' > 0 => files'[fd'][done'].last \/ files'[fd'][done'].line \in broken'
    BY <1>1, <2>1, <2>2
  <2> QED
    BY <1>5, <2>1, <2>3, <2>4 DEF TrackInv
<1> QED
  BY <1>2, <1>4, <1>6, <1>7 DEF IInv

LEMMA ReadFailsKeeps ==
  ASSUME IInv, ReadFails
  PROVE  IInv'
<1>1. /\ WriterInv /\ TypeInv /\ OrderInv
      /\ fd' = 0 /\ pos' = 0 /\ buf' = << >> /\ pc' = "open"
      /\ UNCHANGED writer
      /\ UNCHANGED <<files, lines, offset, got, latest, base, broken, shrunk>>
  BY DEF IInv, ReadFails, Closed, writer, ghosts
<1>2. WriterInv'
  BY <1>1, TailerKeepsFiles
<1>3. << >> \in Seq(Chunks) /\ Len(<< >>) = 0 /\ 1 .. 0 = {} /\ 0 \in 0 .. Len(files)
  <2>1. Len(files) \in Nat
    BY <1>1 DEF WriterInv
  <2> QED
    BY <2>1
<1>4. TypeInv'
  BY <1>1, <1>3 DEF TypeInv
<1>5. OrderInv'
  BY <1>1, <1>3 DEF OrderInv, Rising
<1>6. TrackInv'
  BY <1>1 DEF TrackInv
<1> QED
  BY <1>2, <1>4, <1>5, <1>6 DEF IInv

LEMMA WakeKeeps ==
  ASSUME IInv, Wake
  PROVE  IInv'
<1>1. /\ WriterInv /\ TypeInv /\ OrderInv /\ TrackInv /\ pc = "sleep"
      /\ UNCHANGED writer
      /\ UNCHANGED <<files, lines, offset, got, latest, base, broken, shrunk>>
  BY DEF IInv, Wake, writer, ghosts
<1>2. WriterInv'
  BY <1>1, TailerKeepsFiles
<1>3. CASE Closed
  <2>1. << >> \in Seq(Chunks) /\ Len(<< >>) = 0 /\ 1 .. 0 = {} /\ 0 \in 0 .. Len(files)
    <3>1. Len(files) \in Nat
      BY <1>1 DEF WriterInv
    <3> QED
      BY <3>1
  <2>2. fd' = 0 /\ pos' = 0 /\ buf' = << >> /\ pc' = "open"
    BY <1>3 DEF Closed
  <2>3. TypeInv'
    BY <1>1, <2>1, <2>2 DEF TypeInv
  <2>4. OrderInv'
    BY <1>1, <2>1, <2>2 DEF OrderInv, Rising
  <2>5. TrackInv'
    BY <2>2 DEF TrackInv
  <2> QED
    BY <1>2, <2>3, <2>4, <2>5 DEF IInv
<1>4. CASE pc' = "read" /\ UNCHANGED <<fd, pos, buf>>
  <2>1. TypeInv'
    BY <1>1, <1>4 DEF TypeInv
  <2>2. OrderInv'
    BY <1>1, <1>4 DEF OrderInv, Size
  <2>3. TrackInv'
    BY <1>1, <1>4 DEF TrackInv, Size, done
  <2> QED
    BY <1>2, <2>1, <2>2, <2>3 DEF IInv
<1> QED
  BY <1>3, <1>4 DEF Wake

LEMMA EndOfFileKeeps ==
  ASSUME IInv, EndOfFile
  PROVE  IInv'
<1>1. /\ WriterInv /\ TypeInv /\ OrderInv /\ TrackInv
      /\ pc = "read" /\ LineEnds = {} /\ pos >= Size(fd)
      /\ buf' = << >> /\ pc' = "sleep"
      /\ broken' = broken \cup {buf[i].line : i \in DOMAIN buf}
      /\ UNCHANGED writer
      /\ UNCHANGED <<files, lines, fd, pos, offset, got, latest, base, shrunk>>
  BY DEF IInv, EndOfFile, writer
<1>2. WriterInv'
  BY <1>1, TailerKeepsFiles
<1>3. << >> \in Seq(Chunks) /\ Len(<< >>) = 0 /\ 1 .. 0 = {}
  OBVIOUS
<1>4. TypeInv'
  BY <1>1, <1>3 DEF TypeInv
<1>5. OrderInv'
  BY <1>1, <1>3 DEF OrderInv, Rising, Size
<1>6. TrackInv'
  <2> SUFFICES ASSUME ~shrunk PROVE TrackInv'
    BY <1>1 DEF TrackInv
  <2>1. /\ base <= done /\ offset <= done /\ pos <= Size(fd)
        /\ \A i \in 1 .. Len(buf) : buf[i] = files[fd][done + i]
        /\ done > 0 => files[fd][done].last \/ files[fd][done].line \in broken
        /\ \A i \in base + 1 .. done :
             files[fd][i].last /\ files[fd][i].line \notin broken
               => got[files[fd][i].line] > 0
    BY <1>1 DEF TrackInv
  <2>2. /\ pos \in Nat /\ Len(buf) \in Nat /\ done \in Int /\ done + Len(buf) = pos
        /\ base \in Nat /\ offset \in Nat /\ DOMAIN buf = 1 .. Len(buf)
    BY <1>1, ReaderTypes
  <2>3. done' = pos /\ Size(fd)' = Size(fd) /\ Len(buf') = 0
    BY <1>1, <1>3, <2>2 DEF done, Size
  <2>4. broken \subseteq broken'
        /\ \A i \in 1 .. Len(buf) : files[fd][done + i].line \in broken'
    BY <1>1, <2>1, <2>2
  <2>5. \A i \in done + 1 .. pos : files[fd][i].line \in broken'
    <3> TAKE i \in done + 1 .. pos
    <3>1. i - done \in 1 .. Len(buf) /\ done + (i - done) = i
      BY <2>2
    <3> QED
      BY <2>4, <3>1
  <2>6. pos > 0 => files[fd][pos].last \/ files[fd][pos].line \in broken'
    <3>1. pos = done \/ pos \in done + 1 .. pos
      BY <2>2
    <3> QED
      BY <2>1, <2>4, <2>5, <3>1
  <2>7. ASSUME NEW i \in base + 1 .. pos,
               files[fd][i].last, files[fd][i].line \notin broken'
        PROVE  got[files[fd][i].line] > 0
    <3>1. i \in base + 1 .. done \/ i \in done + 1 .. pos
      BY <2>2
    <3> QED
      BY <2>1, <2>4, <2>5, <2>7, <3>1
  <2>8. base <= pos /\ offset <= pos /\ pos <= Size(fd)
    BY <2>1, <2>2
  <2> QED
    BY <1>1, <1>3, <2>3, <2>6, <2>7, <2>8 DEF TrackInv
<1> QED
  BY <1>2, <1>4, <1>5, <1>6 DEF IInv

(* What the buffer holds after more was read: what it held, and the next   *)
(* chunks of the file.                                                     *)
LEMMA FilledMeans ==
  ASSUME WriterInv, TypeInv, Fill
  PROVE  \E q \in pos + 1 .. Size(fd) :
           /\ pos' = q /\ buf' \in Seq(Chunks) /\ Len(buf') = Len(buf) + (q - pos)
           /\ \A i \in 1 .. Len(buf) : buf'[i] = buf[i]
           /\ \A i \in 1 .. Len(buf') :
                \/ i \in 1 .. Len(buf) /\ buf'[i] = buf[i]
                \/ /\ i > Len(buf) /\ i + done \in pos + 1 .. q
                   /\ buf'[i] = files[fd][i + done]
<1>1. pc = "read"
  BY DEF Fill
<1>2. PICK q \in pos + 1 .. Size(fd) : buf' = Filled(q) /\ pos' = q
  BY DEF Fill
<1> DEFINE F == files[fd]
           c == SubSeq(F, pos + 1, q)
<1>3. /\ fd \in 1 .. Len(files) /\ pos \in Nat /\ F \in Seq(Chunks) /\ Len(F) \in Nat
      /\ Size(fd) = Len(F)
      /\ buf \in Seq(Chunks) /\ Len(buf) \in Nat /\ done \in Int
      /\ done + Len(buf) = pos
  BY <1>1, ReaderTypes DEF Size
<1>4. q \in Nat /\ pos < q /\ q <= Len(F)
  BY <1>2, <1>3
<1> HIDE DEF F
<1>5. /\ c \in Seq(Chunks) /\ Len(c) = q - pos
      /\ \A i \in 1 .. q - pos : c[i] = F[pos + i]
  <2>1. pos + 1 \in 1 .. Len(F) + 1 /\ q \in pos .. Len(F)
    BY <1>3, <1>4
  <2>2. /\ c \in Seq(Chunks)
        /\ Len(c) = IF pos + 1 <= q THEN q - (pos + 1) + 1 ELSE 0
        /\ \A i \in 1 .. q - (pos + 1) + 1 : c[i] = F[pos + 1 + i - 1]
    <3>1. \A i \in (pos + 1) .. q : i \in 1 .. Len(F)
      BY <1>3, <1>4
    <3> QED
      BY <1>3, <1>4, <3>1, SubSeqProperties
  <2>3. \A i \in 1 .. q - pos : pos + 1 + i - 1 = pos + i
    BY <1>3, <1>4
  <2>4. q - (pos + 1) + 1 = q - pos /\ pos + 1 <= q
    BY <1>3, <1>4
  <2> QED
    BY <2>2, <2>3, <2>4
<1>6. buf' = buf \o c
  BY <1>2 DEF Filled, F
<1> HIDE DEF c
<1>7. /\ buf' \in Seq(Chunks) /\ Len(buf') = Len(buf) + (q - pos)
      /\ \A i \in 1 .. Len(buf) : buf'[i] = buf[i]
      /\ \A i \in 1 .. q - pos : buf'[Len(buf) + i] = c[i]
  <2>1. /\ buf' \in Seq(Chunks) /\ Len(buf') = Len(buf) + Len(c)
        /\ \A i \in 1 .. Len(buf) + Len(c) :
             buf'[i] = IF i <= Len(buf) THEN buf[i] ELSE c[i - Len(buf)]
    <3>1. buf \in Seq(Chunks) /\ c \in Seq(Chunks)
      BY <1>3, <1>5
    <3>2. /\ buf \o c \in Seq(Chunks) /\ Len(buf \o c) = Len(buf) + Len(c)
          /\ \A i \in 1 .. Len(buf) + Len(c) :
               (buf \o c)[i] = IF i <= Len(buf) THEN buf[i] ELSE c[i - Len(buf)]
      BY <3>1, ConcatProperties
    <3> QED
      BY <1>6, <3>2
  <2>2. \A i \in 1 .. Len(buf) : i \in 1 .. Len(buf) + Len(c) /\ i <= Len(buf)
    BY <1>3, <1>4, <1>5
  <2>3. \A i \in 1 .. q - pos :
          /\ Len(buf) + i \in 1 .. Len(buf) + Len(c) /\ ~(Len(buf) + i <= Len(buf))
          /\ Len(buf) + i - Len(buf) = i
    BY <1>3, <1>4, <1>5
  <2> QED
    BY <1>5, <2>1, <2>2, <2>3
<1>8. ASSUME NEW i \in 1 .. Len(buf')
      PROVE  \/ i \in 1 .. Len(buf) /\ buf'[i] = buf[i]
             \/ /\ i > Len(buf) /\ i + done \in pos + 1 .. q
                /\ buf'[i] = F[i + done]
  <2>1. CASE i \in 1 .. Len(buf)
    BY <1>7, <2>1
  <2>2. CASE i \notin 1 .. Len(buf)
    <3>0. i \in Int /\ i > Len(buf) /\ i <= Len(buf) + (q - pos)
      BY <1>3, <1>4, <1>7, <2>2
    <3>1. i - Len(buf) \in 1 .. q - pos /\ Len(buf) + (i - Len(buf)) = i
          /\ pos + (i - Len(buf)) = i + done /\ i + done \in pos + 1 .. q
      <4>1. /\ i \in Int /\ Len(buf) \in Int /\ pos \in Int /\ q \in Int
            /\ done = pos - Len(buf)
        BY <1>3, <1>4, <3>0
      <4> QED
        BY <3>0, <4>1
    <3>2. buf'[Len(buf) + (i - Len(buf))] = c[i - Len(buf)]
          /\ c[i - Len(buf)] = F[pos + (i - Len(buf))]
      BY <1>5, <1>7, <3>1
    <3> QED
      BY <3>0, <3>1, <3>2
  <2> QED
    BY <2>1, <2>2
<1> QED
  BY <1>2, <1>7, <1>8 DEF F

LEMMA FillKeeps ==
  ASSUME IInv, Fill
  PROVE  IInv'
<1>1. /\ WriterInv /\ TypeInv /\ OrderInv /\ TrackInv
      /\ pc = "read" /\ pos < Size(fd)
      /\ UNCHANGED writer
      /\ UNCHANGED <<files, lines, pc, fd, offset, got, latest, base, broken, shrunk>>
  BY DEF IInv, Fill, writer, ghosts
<1>2. PICK q \in pos + 1 .. Size(fd) :
        /\ pos' = q /\ buf' \in Seq(Chunks) /\ Len(buf') = Len(buf) + (q - pos)
        /\ \A i \in 1 .. Len(buf) : buf'[i] = buf[i]
        /\ \A i \in 1 .. Len(buf') :
             \/ i \in 1 .. Len(buf) /\ buf'[i] = buf[i]
             \/ /\ i > Len(buf) /\ i + done \in pos + 1 .. q
                /\ buf'[i] = files[fd][i + done]
  BY <1>1, FilledMeans
<1> DEFINE F == files[fd]
<1>3. /\ fd \in 1 .. Len(files) /\ pos \in Nat /\ F \in Seq(Chunks) /\ Len(F) \in Nat
      /\ Size(fd) = Len(F) /\ WellWritten(F) /\ latest \in Nat /\ lines \in Nat
      /\ buf \in Seq(Chunks) /\ Len(buf) \in Nat /\ done \in Int
      /\ done + Len(buf) = pos
      /\ \A i \in 1 .. Len(F) : F[i].line <= lines
  <2>1. fd \in 1 .. Len(files)
    BY <1>1, ReaderTypes
  <2>2. \A i \in 1 .. Len(F) : F[i].line <= lines
    BY <1>1, <2>1 DEF WriterInv
  <2> QED
    BY <1>1, <2>1, <2>2, ReaderTypes DEF Size
<1>4. q \in Nat /\ pos < q /\ q <= Len(F)
  BY <1>2, <1>3
<1>7. /\ buf' \in Seq(Chunks) /\ Len(buf') = Len(buf) + (q - pos)
      /\ \A i \in 1 .. Len(buf) : buf'[i] = buf[i]
  BY <1>2
<1>8. ASSUME NEW i \in 1 .. Len(buf')
      PROVE  \/ i \in 1 .. Len(buf) /\ buf'[i] = buf[i]
             \/ /\ i > Len(buf) /\ i + done \in pos + 1 .. q
                /\ buf'[i] = F[i + done]
  BY <1>2
<1> HIDE DEF F
<1>9. WriterInv'
  BY <1>1, TailerKeepsFiles
<1>10. TypeInv'
  <2>1. buf' \in Seq(Chunks) /\ pos' \in Nat /\ pc' = "read"
    BY <1>1, <1>2, <1>4, <1>7
  <2> QED
    BY <1>1, <2>1 DEF TypeInv
<1>11. OrderInv'
  <2>1. /\ Rising(buf) /\ Rising(F)
        /\ \A i \in 1 .. Len(buf) : Before(latest, buf[i]) /\ buf[i].line <= lines
        /\ \A j \in pos + 1 .. Len(F) :
             /\ Before(latest, F[j])
             /\ \A i \in 1 .. Len(buf) : Before(buf[i].line, F[j])
        /\ \A n \in 1 .. MaxLines : got[n] <= 1 /\ (n > latest => got[n] = 0)
    BY <1>1, <1>3 DEF OrderInv, WellWritten, Size, F
  <2>2. \A j \in pos + 1 .. q : j \in 1 .. Len(F) /\ j \in pos + 1 .. Len(F)
    BY <1>3, <1>4
  <2>3. Rising(buf')
    <3> SUFFICES ASSUME NEW i \in 1 .. Len(buf'), NEW j \in 1 .. Len(buf'), i < j
                 PROVE  Before(buf'[i].line, buf'[j])
      BY DEF Rising
    <3>0. i \in Nat /\ j \in Nat
      BY <1>3, <1>4, <1>7
    <3>1. CASE j \in 1 .. Len(buf) /\ buf'[j] = buf[j]
      <4>1. i \in 1 .. Len(buf)
        BY <1>3, <3>0, <3>1
      <4>2. buf'[i] = buf[i]
        BY <1>7, <4>1
      <4> QED
        BY <2>1, <3>1, <4>1, <4>2 DEF Rising
    <3>2. CASE j > Len(buf) /\ j + done \in pos + 1 .. q /\ buf'[j] = F[j + done]
      <4>1. CASE i \in 1 .. Len(buf) /\ buf'[i] = buf[i]
        BY <2>1, <2>2, <3>2, <4>1
      <4>2. CASE i + done \in pos + 1 .. q /\ buf'[i] = F[i + done]
        <5>1. i + done < j + done
          BY <1>3, <3>0
        <5> QED
          BY <2>1, <2>2, <3>2, <4>2, <5>1 DEF Rising
      <4> QED
        BY <1>8, <4>1, <4>2
    <3> QED
      BY <1>8, <3>1, <3>2
  <2>4. ASSUME NEW i \in 1 .. Len(buf')
        PROVE  Before(latest, buf'[i]) /\ buf'[i].line <= lines
    BY <1>3, <1>8, <2>1, <2>2
  <2>5. ASSUME NEW j \in q + 1 .. Len(F)
        PROVE  /\ Before(latest, F[j])
               /\ \A i \in 1 .. Len(buf') : Before(buf'[i].line, F[j])
    <3>1. j \in pos + 1 .. Len(F) /\ j \in 1 .. Len(F)
          /\ \A i \in pos + 1 .. q : i < j
      BY <1>3, <1>4
    <3> QED
      BY <1>8, <2>1, <2>2, <3>1 DEF Rising
  <2>6. Size(fd)' = Len(F) /\ files'[fd'] = F
    BY <1>1 DEF Size, F
  <2> QED
    BY <1>1, <1>2, <2>1, <2>3, <2>4, <2>5, <2>6 DEF OrderInv
<1>12. TrackInv'
  <2> SUFFICES ASSUME ~shrunk PROVE TrackInv'
    BY <1>1 DEF TrackInv
  <2>1. /\ base <= done /\ offset <= done
        /\ \A i \in 1 .. Len(buf) : buf[i] = F[done + i]
        /\ done > 0 => F[done].last \/ F[done].line \in broken
        /\ \A i \in base + 1 .. done :
             F[i].last /\ F[i].line \notin broken => got[F[i].line] > 0
    BY <1>1 DEF TrackInv, F
  <2>2. done' = done
    BY <1>2, <1>3, <1>4, <1>7 DEF done
  <2>3. \A i \in 1 .. Len(buf') : buf'[i] = F[done + i]
    <3> TAKE i \in 1 .. Len(buf')
    <3>1. i + done = done + i
      BY <1>3, <1>4, <1>7
    <3> QED
      BY <1>8, <2>1, <3>1
  <2>4. Size(fd)' = Len(F) /\ files'[fd'] = F /\ pos' <= Len(F)
    BY <1>1, <1>2, <1>4 DEF Size, F
  <2> QED
    BY <1>1, <2>1, <2>2, <2>3, <2>4 DEF TrackInv
<1> QED
  BY <1>9, <1>10, <1>11, <1>12 DEF IInv

-----------------------------------------------------------------------------
(* LineEnd is the first chunk of the buffer that ends a line.              *)
LEMMA LineEndMeans ==
  ASSUME buf \in Seq(Chunks), LineEnds # {}
  PROVE  /\ LineEnd \in 1 .. Len(buf) /\ buf[LineEnd].last
         /\ \A i \in 1 .. Len(buf) : i < LineEnd => ~buf[i].last
         /\ Len(Handed) = LineEnd
         /\ \A i \in 1 .. LineEnd : Handed[i] = buf[i]
         /\ DOMAIN Handed = 1 .. LineEnd
<1>1. /\ DOMAIN buf = 1 .. Len(buf) /\ Len(buf) \in Nat
      /\ LineEnds \in SUBSET Nat
      /\ \A i \in 1 .. Len(buf) : i \in LineEnds <=> buf[i].last
  BY DEF LineEnds
<1>2. \E i \in LineEnds : \A j \in LineEnds : i <= j
  BY <1>1, Least
<1>3. LineEnd \in LineEnds /\ \A j \in LineEnds : LineEnd <= j
  BY <1>2 DEF LineEnd
<1>4. LineEnd \in 1 .. Len(buf) /\ buf[LineEnd].last
  BY <1>3 DEF LineEnds
<1>5. \A i \in 1 .. Len(buf) : i < LineEnd => ~buf[i].last
  <2> SUFFICES ASSUME NEW i \in 1 .. Len(buf), i < LineEnd, buf[i].last PROVE FALSE
    OBVIOUS
  <2>1. LineEnd <= i
    BY <1>1, <1>3
  <2> QED
    BY <1>1, <1>4, <2>1
<1>6. /\ Handed \in Seq(Chunks) /\ Len(Handed) = LineEnd
      /\ \A i \in 1 .. LineEnd : Handed[i] = buf[i]
  <2>1. LineEnd \in Int /\ 1 <= LineEnd /\ \A i \in 1 .. LineEnd : i \in 1 .. Len(buf)
    BY <1>1, <1>4
  <2>2. \A i \in 1 .. LineEnd : buf[i] \in Chunks
    BY <2>1
  <2>3. /\ Handed \in Seq(Chunks)
        /\ Len(Handed) = IF 1 <= LineEnd THEN LineEnd - 1 + 1 ELSE 0
        /\ \A i \in 1 .. LineEnd - 1 + 1 : Handed[i] = buf[1 + i - 1]
    BY <2>1, <2>2, SubSeqProperties DEF Handed
  <2>4. LineEnd - 1 + 1 = LineEnd /\ \A i \in 1 .. LineEnd : 1 + i - 1 = i
    BY <2>1
  <2> QED
    BY <2>1, <2>3, <2>4
<1> QED
  BY <1>4, <1>5, <1>6

(* A file that was not truncated is handed out line by line, except for    *)
(* the lines that were met unfinished.                                     *)
LEMMA HandedMeans ==
  ASSUME WriterInv, TypeInv, TrackInv, pc = "read", LineEnds # {}, ~shrunk
  PROVE  Whole(Handed) \/ Number \in broken
<1> DEFINE F == files[fd]
<1>1. /\ fd \in 1 .. Len(files) /\ WellWritten(F) /\ Len(F) \in Nat
      /\ buf \in Seq(Chunks) /\ Len(buf) \in Nat /\ done \in Int
      /\ pos \in Nat /\ done + Len(buf) = pos /\ base \in Nat
  BY ReaderTypes DEF Size
<1>2. /\ base <= done /\ pos <= Len(F)
      /\ \A i \in 1 .. Len(buf) : buf[i] = F[done + i]
      /\ done > 0 => F[done].last \/ F[done].line \in broken
  BY DEF TrackInv, Size
<1>3. /\ LineEnd \in 1 .. Len(buf) /\ buf[LineEnd].last
      /\ \A i \in 1 .. Len(buf) : i < LineEnd => ~buf[i].last
      /\ \A i \in 1 .. LineEnd : Handed[i] = buf[i]
      /\ DOMAIN Handed = 1 .. LineEnd
  BY <1>1, LineEndMeans
<1>4. \A i \in 1 .. Len(F) :
        /\ F[i].first \/ F[i].last
        /\ ~F[i].first => i > 1 /\ F[i - 1].line = F[i].line /\ ~F[i - 1].last
        /\ ~F[i].last /\ i < Len(F) => ~F[i + 1].first
  BY <1>1 DEF WellWritten
<1> HIDE DEF F
<1>5. done \in Nat /\ \A i \in 1 .. Len(buf) : done + i \in 1 .. Len(F)
  BY <1>1, <1>2
<1>6. CASE LineEnd = 1
  <2>1. Handed[1] = F[done + 1] /\ Number = F[done + 1].line /\ 1 \in 1 .. Len(buf)
        /\ \A i \in DOMAIN Handed : i = 1
    BY <1>1, <1>2, <1>3, <1>6 DEF Number
  <2>2. CASE F[done + 1].first
    BY <2>1, <2>2 DEF Whole
  <2>3. CASE ~F[done + 1].first
    <3>1. done + 1 \in 1 .. Len(F) /\ done + 1 - 1 = done
      BY <1>5, <2>1
    <3>2. done > 0 /\ F[done].line = F[done + 1].line /\ ~F[done].last
      BY <1>4, <1>5, <2>3, <3>1
    <3> QED
      BY <1>2, <2>1, <3>2
  <2> QED
    BY <2>2, <2>3
<1>7. CASE LineEnd # 1
  <2>0. 1 \in 1 .. Len(buf) /\ 2 \in 1 .. Len(buf) /\ 1 < LineEnd /\ 2 <= LineEnd
        /\ LineEnd \in Nat
    BY <1>1, <1>3, <1>7
  <2>1. buf[1] = F[done + 1] /\ buf[2] = F[done + 2] /\ ~buf[1].last
        /\ done + 1 \in 1 .. Len(F) /\ done + 2 \in 1 .. Len(F)
    BY <1>2, <1>3, <1>5, <2>0
  <2>2. F[done + 1].first /\ ~F[done + 1].last
    BY <1>4, <2>1
  <2>3. done + 1 < Len(F) /\ done + 1 + 1 = done + 2 /\ done + 2 - 1 = done + 1
    BY <1>1, <1>5, <2>1
  <2>4. ~F[done + 2].first /\ F[done + 2].last /\ F[done + 1].line = F[done + 2].line
    BY <1>4, <2>1, <2>2, <2>3
  <2>5. LineEnd = 2
    BY <1>3, <2>0, <2>1, <2>4
  <2>6. /\ Handed[1] = buf[1] /\ Handed[2] = buf[2]
        /\ \A i \in DOMAIN Handed : i = 1 \/ i = 2
    BY <1>3, <2>5
  <2> QED
    BY <2>1, <2>2, <2>4, <2>6 DEF Whole
<1> QED
  BY <1>6, <1>7

(* The line that is handed out, what was handed out before, what comes     *)
(* after it.                                                               *)
LEMMA NumberMeans ==
  ASSUME WriterInv, TypeInv, OrderInv, LineEnds # {}
  PROVE  /\ Number \in 1 .. MaxLines /\ Number = buf[LineEnd].line
         /\ latest <= Number /\ Number <= lines
         /\ Whole(Handed) => latest < Number
<1>1. /\ buf \in Seq(Chunks) /\ latest \in Nat /\ MaxLines \in Nat
      /\ \A i \in 1 .. Len(buf) : buf[i].line \in 1 .. MaxLines
  BY ReaderTypes
<1>2. /\ LineEnd \in 1 .. Len(buf)
      /\ \A i \in 1 .. LineEnd : Handed[i] = buf[i]
      /\ DOMAIN Handed = 1 .. LineEnd
  BY <1>1, LineEndMeans
<1>3. \A i \in 1 .. Len(buf) : Before(latest, buf[i]) /\ buf[i].line <= lines
  BY DEF OrderInv
<1>4. latest <= Number /\ Number <= lines /\ Number \in 1 .. MaxLines
  BY <1>1, <1>2, <1>3 DEF Number, Before
<1>5. ASSUME Whole(Handed) PROVE latest < Number
  <2>1. 1 \in 1 .. LineEnd /\ LineEnd \in 1 .. LineEnd /\ 1 \in 1 .. Len(buf)
    BY <1>1, <1>2
  <2>2. buf[1].first /\ buf[LineEnd].line = buf[1].line
    BY <1>2, <1>5, <2>1 DEF Whole
  <2> QED
    BY <1>3, <2>1, <2>2 DEF Before, Number
<1> QED
  BY <1>4, <1>5 DEF Number

(* What is left of the buffer when a line was handed out.                  *)
LEMMA RestMeans ==
  ASSUME WriterInv, TypeInv, Deliver
  PROVE  LET k == LineEnd
         IN  /\ buf' \in Seq(Chunks) /\ Len(buf') = Len(buf) - k
             /\ \A i \in 1 .. Len(buf) - k :
                  buf'[i] = buf[k + i] /\ k + i \in 1 .. Len(buf)
<1> DEFINE k == LineEnd
<1>1. buf' = SubSeq(buf, k + 1, Len(buf)) /\ LineEnds # {}
  BY DEF Deliver
<1>2. /\ buf \in Seq(Chunks) /\ Len(buf) \in Nat
      /\ \A i \in 1 .. Len(buf) : buf[i] \in Chunks
  BY ReaderTypes
<1>3. k \in 1 .. Len(buf)
  BY <1>1, <1>2, LineEndMeans
<1> HIDE DEF k
<1>6. /\ buf' \in Seq(Chunks) /\ Len(buf') = Len(buf) - k
      /\ \A i \in 1 .. Len(buf) - k : buf'[i] = buf[k + i] /\ k + i \in 1 .. Len(buf)
  <2>1. /\ k + 1 \in Int /\ Len(buf) \in Int /\ k \in Nat /\ k <= Len(buf)
        /\ \A i \in k + 1 .. Len(buf) : buf[i] \in Chunks
    BY <1>2, <1>3
  <2>2. /\ buf' \in Seq(Chunks)
        /\ Len(buf') = IF k + 1 <= Len(buf) THEN Len(buf) - (k + 1) + 1 ELSE 0
        /\ \A i \in 1 .. Len(buf) - (k + 1) + 1 : buf'[i] = buf[k + 1 + i - 1]
    <3> DEFINE r == SubSeq(buf, k + 1, Len(buf))
    <3>1. /\ r \in Seq(Chunks)
          /\ Len(r) = IF k + 1 <= Len(buf) THEN Len(buf) - (k + 1) + 1 ELSE 0
          /\ \A i \in 1 .. Len(buf) - (k + 1) + 1 : r[i] = buf[k + 1 + i - 1]
      BY <2>1, SubSeqProperties
    <3>2. buf' = r
      BY <1>1
    <3> HIDE DEF r
    <3> QED
      BY <3>1, <3>2
  <2>3. /\ Len(buf) - (k + 1) + 1 = Len(buf) - k
        /\ (IF k + 1 <= Len(buf) THEN Len(buf) - k ELSE 0) = Len(buf) - k
        /\ \A i \in 1 .. Len(buf) - k : k + 1 + i - 1 = k + i /\ k + i \in 1 .. Len(buf)
    BY <2>1
  <2> QED
    BY <2>2, <2>3
<1> QED
  BY <1>6 DEF k

LEMMA DeliverKeeps ==
  ASSUME IInv, Deliver
  PROVE  IInv'
<1> DEFINE F == files[fd]
           k == LineEnd
           n == Number
<1>1. /\ WriterInv /\ TypeInv /\ OrderInv /\ TrackInv
      /\ pc = "read" /\ LineEnds # {}
      /\ buf' = SubSeq(buf, k + 1, Len(buf)) /\ offset' = offset + Len(Handed)
      /\ got' = (IF Whole(Handed) /\ got[n] < 2 THEN [got EXCEPT ![n] = @ + 1] ELSE got)
      /\ latest' = n
      /\ UNCHANGED writer
      /\ UNCHANGED <<files, lines, pc, fd, pos, base, broken, shrunk>>
  BY DEF IInv, Deliver, OffsetAfter, writer
<1>2. /\ fd \in 1 .. Len(files) /\ pos \in Nat /\ F \in Seq(Chunks) /\ Len(F) \in Nat
      /\ Size(fd) = Len(F) /\ latest \in Nat /\ lines \in Nat /\ MaxLines \in Nat
      /\ buf \in Seq(Chunks) /\ Len(buf) \in Nat /\ done \in Int
      /\ done + Len(buf) = pos /\ offset \in Nat /\ base \in Nat
      /\ \A i \in 1 .. Len(buf) : buf[i] \in Chunks /\ buf[i].line \in 1 .. MaxLines
  BY <1>1, ReaderTypes DEF Size
<1>3. /\ k \in 1 .. Len(buf) /\ buf[k].last /\ Len(Handed) = k
      /\ \A i \in 1 .. Len(buf) : i < k => ~buf[i].last
  BY <1>1, <1>2, LineEndMeans
<1>4. /\ n \in 1 .. MaxLines /\ n = buf[k].line /\ latest <= n /\ n <= lines
      /\ Whole(Handed) => latest < n
  BY <1>1, NumberMeans
<1>5. ~shrunk => Whole(Handed) \/ n \in broken
  BY <1>1, HandedMeans
<1>6. /\ buf' \in Seq(Chunks) /\ Len(buf') = Len(buf) - k
      /\ \A i \in 1 .. Len(buf) - k : buf'[i] = buf[k + i] /\ k + i \in 1 .. Len(buf)
  BY <1>1, RestMeans DEF IInv
<1> HIDE DEF F, k, n
<1>7. /\ got' \in [1 .. MaxLines -> 0 .. 2]
      /\ \A m \in 1 .. MaxLines : got'[m] >= got[m]
      /\ Whole(Handed) => got'[n] > 0
      /\ \A m \in 1 .. MaxLines : got'[m] <= 1 /\ (m > n => got'[m] = 0)
  <2>1. /\ got \in [1 .. MaxLines -> 0 .. 2]
        /\ \A m \in 1 .. MaxLines : got[m] <= 1 /\ (m > latest => got[m] = 0)
    BY <1>1 DEF TypeInv, OrderInv
  <2>2. \A m \in 1 .. MaxLines : m \in Nat /\ got[m] \in 0 .. 2 /\ (m > n => m > latest)
    BY <1>2, <1>4, <2>1
  <2>3. CASE Whole(Handed)
    <3>1. got[n] = 0
      BY <1>2, <1>4, <2>1, <2>3
    <3>2. got' = [got EXCEPT ![n] = 1]
      BY <1>1, <2>3, <3>1
    <3>3. /\ got' \in [1 .. MaxLines -> 0 .. 2] /\ got'[n] = 1
          /\ \A m \in 1 .. MaxLines : m # n => got'[m] = got[m]
      BY <1>4, <2>1, <3>2
    <3>4. \A m \in 1 .. MaxLines : m > n => m # n
      BY <1>2, <1>4
    <3> QED
      BY <2>1, <2>2, <3>1, <3>3, <3>4
  <2>4. CASE ~Whole(Handed)
    <3>1. got' = got
      BY <1>1, <2>4
    <3> QED
      BY <2>1, <2>2, <2>4, <3>1
  <2> QED
    BY <2>3, <2>4
<1>8. WriterInv'
  BY <1>1, TailerKeepsFiles
<1>9. TypeInv'
  <2>1. offset' \in Nat /\ latest' \in 0 .. lines' /\ pc' = "read"
    <3>1. offset' = offset + k /\ offset \in Nat /\ k \in Nat
      BY <1>1, <1>2, <1>3
    <3>2. n \in Nat /\ n <= lines /\ lines' = lines /\ latest' = n
      BY <1>1, <1>2, <1>4
    <3> QED
      BY <1>1, <1>2, <3>1, <3>2
  <2> QED
    BY <1>1, <1>6, <1>7, <2>1 DEF TypeInv
<1>10. OrderInv'
  <2>1. /\ Rising(buf) /\ \A i \in 1 .. Len(buf) : buf[i].line <= lines
        /\ \A j \in pos + 1 .. Len(F) :
             \A i \in 1 .. Len(buf) : Before(buf[i].line, F[j])
    BY <1>1, <1>2 DEF OrderInv, F
  <2>2. Rising(buf')
    <3> SUFFICES ASSUME NEW i \in 1 .. Len(buf'), NEW j \in 1 .. Len(buf'), i < j
                 PROVE  Before(buf'[i].line, buf'[j])
      BY DEF Rising
    <3>1. k + i < k + j
      BY <1>2, <1>3, <1>6
    <3> QED
      BY <1>6, <2>1, <3>1 DEF Rising
  <2>3. ASSUME NEW i \in 1 .. Len(buf')
        PROVE  Before(n, buf'[i]) /\ buf'[i].line <= lines
    <3>1. k < k + i
      BY <1>2, <1>3, <1>6
    <3> QED
      BY <1>3, <1>4, <1>6, <2>1, <3>1 DEF Rising
  <2>4. ASSUME NEW j \in pos + 1 .. Len(F)
        PROVE  /\ Before(n, F[j])
               /\ \A i \in 1 .. Len(buf') : Before(buf'[i].line, F[j])
    BY <1>3, <1>4, <1>6, <2>1
  <2>5. Size(fd)' = Len(F) /\ files'[fd'] = F
    BY <1>1 DEF Size, F
  <2> QED
    BY <1>1, <1>7, <2>2, <2>3, <2>4, <2>5 DEF OrderInv
<1>11. TrackInv'
  <2> SUFFICES ASSUME ~shrunk PROVE TrackInv'
    BY <1>1 DEF TrackInv
  <2>1. /\ base <= done /\ offset <= done /\ pos <= Len(F)
        /\ \A i \in 1 .. Len(buf) : buf[i] = F[done + i]
        /\ \A i \in base + 1 .. done :
             F[i].last /\ F[i].line \notin broken => got[F[i].line] > 0
    BY <1>1, <1>2 DEF TrackInv, F
  <2>2. done' = done + k
    <3>1. done' = pos - (Len(buf) - k) /\ done = pos - Len(buf)
      BY <1>1, <1>6 DEF done
    <3>2. pos \in Int /\ Len(buf) \in Int /\ k \in Int
      BY <1>2, <1>3
    <3> QED
      BY <3>1, <3>2
  <2>3. base <= done + k /\ offset' <= done + k
    BY <1>1, <1>2, <1>3, <2>1
  <2>4. \A i \in 1 .. Len(buf') : buf'[i] = F[done + k + i]
    <3> TAKE i \in 1 .. Len(buf')
    <3>1. done + (k + i) = done + k + i
      BY <1>2, <1>3, <1>6
    <3> QED
      BY <1>6, <2>1, <3>1
  <2>5. F[done + k] = buf[k]
    BY <1>3, <2>1
  <2>6. ASSUME NEW i \in base + 1 .. done + k,
               F[i].last, F[i].line \notin broken
        PROVE  got'[F[i].line] > 0
    <3>0. i \in Int /\ i >= base + 1 /\ i <= done + k
      BY <1>2, <1>3
    <3>1. CASE i <= done
      <4>1. i \in base + 1 .. done /\ i \in 1 .. Len(F)
        BY <1>2, <2>1, <3>0, <3>1
      <4>2. F[i].line \in 1 .. MaxLines
        BY <1>2, <4>1, LinesAreNumbers
      <4>3. got[F[i].line] > 0 /\ got'[F[i].line] >= got[F[i].line]
        BY <1>7, <2>1, <2>6, <4>1, <4>2
      <4>4. got[F[i].line] \in Nat /\ got'[F[i].line] \in Nat
        <5>1. got \in [1 .. MaxLines -> 0 .. 2] /\ got' \in [1 .. MaxLines -> 0 .. 2]
          BY <1>1, <1>7 DEF TypeInv
        <5>2. got[F[i].line] \in 0 .. 2 /\ got'[F[i].line] \in 0 .. 2
          BY <4>2, <5>1
        <5> QED
          BY <5>2
      <4> QED
        BY <4>3, <4>4
    <3>2. CASE i > done
      <4>1. i - done \in 1 .. Len(buf) /\ done + (i - done) = i /\ i - done <= k
        BY <1>2, <1>3, <3>0, <3>2
      <4>2. buf[i - done] = F[i]
        BY <2>1, <4>1
      <4>3. ~(i - done < k)
        BY <1>3, <2>6, <4>1, <4>2
      <4>4. i - done = k
        BY <1>2, <1>3, <4>1, <4>3
      <4>5. F[i].line = n
        BY <1>4, <4>2, <4>4
      <4> QED
        BY <1>5, <1>7, <2>6, <4>5
    <3> QED
      BY <1>2, <3>0, <3>1, <3>2
  <2>7. Size(fd)' = Len(F) /\ files'[fd'] = F
    BY <1>1 DEF Size, F
  <2>8. done' > 0 => F[done'].last \/ F[done'].line \in broken
    BY <1>3, <2>2, <2>5
  <2> QED
    BY <1>1, <2>1, <2>2, <2>3, <2>4, <2>6, <2>7, <2>8 DEF TrackInv
<1> QED
  BY <1>8, <1>9, <1>10, <1>11 DEF IInv

-----------------------------------------------------------------------------
LEMMA InitIInv == Init => IInv
<1> SUFFICES ASSUME Init PROVE IInv
  OBVIOUS
<1>1. /\ files \in {<< << >> >>, << <<Chunk(1, TRUE, TRUE)>> >>}
      /\ path = 1 /\ dest = 1 /\ lines = Len(files[1]) /\ half = FALSE
      /\ pc = "open" /\ fd = 0 /\ pos = 0 /\ buf = << >> /\ offset = 0
      /\ got = [n \in 1 .. MaxLines |-> 0]
      /\ latest = 0 /\ base = 0 /\ shrunk = FALSE
  BY DEF Init
<1>2. /\ files \in Seq(Seq(Chunks)) /\ Len(files) = 1 /\ Len(files[1]) \in 0 .. 1
      /\ WellWritten(files[1]) /\ ~Unfinished(files[1])
      /\ \A i \in 1 .. Len(files[1]) : files[1][i].line <= Len(files[1])
  <2>1. CASE files = << << >> >>
    <3>1. files[1] = << >> /\ Len(files) = 1 /\ 1 .. 0 = {}
          /\ files \in Seq(Seq(Chunks))
      BY <2>1, EmptyIsWellWritten
    <3> QED
      BY <3>1, EmptyIsWellWritten
  <2>2. CASE files = << <<Chunk(1, TRUE, TRUE)>> >>
    <3> DEFINE c == Chunk(1, TRUE, TRUE)
    <3>1. c \in Chunks /\ c.line = 1 /\ c.first /\ c.last
      <4>1. 1 \in 1 .. MaxLines
        BY FileTailAssumption
      <4> QED
        BY <4>1, ChunkMeans
    <3> HIDE DEF c
    <3>2. files[1] = <<c>> /\ Len(files) = 1
      BY <2>2 DEF c
    <3>3. /\ <<c>> \in Seq(Chunks) /\ Len(<<c>>) = 1 /\ <<c>>[1] = c
          /\ \A i \in 1 .. Len(<<c>>) : i = 1
      BY <3>1
    <3>4. files \in Seq(Seq(Chunks))
      <4> DEFINE s == <<c>>
      <4>1. s \in Seq(Chunks) /\ files = <<s>>
        BY <2>2, <3>3 DEF c
      <4> HIDE DEF s
      <4> QED
        BY <4>1
    <3>5. WellWritten(<<c>>) /\ ~Unfinished(<<c>>)
      BY <3>1, <3>3 DEF WellWritten, Rising, Unfinished
    <3> QED
      BY <3>1, <3>2, <3>3, <3>4, <3>5
  <2> QED
    BY <1>1, <2>1, <2>2
<1>3. WriterInv
  <2>1. \A f \in 1 .. Len(files) : f = 1
    BY <1>2
  <2>2. path \in 0 .. Len(files) /\ dest \in 1 .. Len(files) /\ lines \in 0 .. MaxLines /\ half \in BOOLEAN
    <3>1. MaxLines \in Nat /\ 1 <= MaxLines
      BY FileTailAssumption
    <3>2. \A n \in 0 .. 1 : n \in 0 .. MaxLines
      BY <3>1
    <3>3. path \in 0 .. Len(files) /\ dest \in 1 .. Len(files)
      BY <1>1, <1>2
    <3>4. half \in BOOLEAN
      BY <1>1
    <3> QED
      BY <1>1, <1>2, <3>2, <3>3, <3>4
  <2> QED
    BY <1>1, <1>2, <2>1, <2>2 DEF WriterInv
<1>4. TypeInv
  <2>1. /\ fd \in 0 .. Len(files) /\ latest \in 0 .. lines /\ buf \in Seq(Chunks)
        /\ got \in [1 .. MaxLines -> 0 .. 2]
    BY <1>1, <1>2, EmptyIsWellWritten
  <2> QED
    BY <1>1, <2>1 DEF TypeInv
<1>5. OrderInv
  <2>1. Len(buf) = 0 /\ 1 .. 0 = {} /\ Rising(buf)
    BY <1>1, EmptyIsWellWritten DEF Rising
  <2>2. \A n \in 1 .. MaxLines : got[n] <= 1 /\ (n > latest => got[n] = 0)
    BY <1>1
  <2> QED
    BY <1>1, <2>1, <2>2 DEF OrderInv
<1>6. TrackInv
  BY <1>1 DEF TrackInv
<1> QED
  BY <1>3, <1>4, <1>5, <1>6 DEF IInv

LEMMA NextKeeps ==
  ASSUME StartAtEnd, IInv, [Next]_vars
  PROVE  IInv'
<1>1. CASE Writer
  BY <1>1, WriterMeans, WriterKeepsTypes, WriterKeepsOrder, WriterKeepsTrack DEF IInv
<1>2. CASE Tailer
  BY <1>2, OpenKeeps, DeliverKeeps, FillKeeps, EndOfFileKeeps, ReadFailsKeeps, WakeKeeps
     DEF Tailer
<1>3. CASE UNCHANGED vars
  <2>1. /\ UNCHANGED writer
        /\ UNCHANGED <<files, lines, pc, fd, pos, buf, offset, got, latest, base>>
        /\ UNCHANGED <<broken, shrunk>>
    BY <1>3 DEF vars, writer, reader, ghosts
  <2>2. WriterInv'
    BY <2>1, TailerKeepsFiles DEF IInv
  <2>3. TypeInv'
    BY <2>1 DEF TypeInv, IInv
  <2>4. OrderInv'
    BY <2>1 DEF OrderInv, IInv, Size
  <2>5. TrackInv'
    BY <2>1 DEF TrackInv, IInv, Size, done
  <2> QED
    BY <2>2, <2>3, <2>4, <2>5 DEF IInv
<1> QED
  BY <1>1, <1>2, <1>3 DEF Next

(* The inductive invariant.  A tailer that starts at the end of the file   *)
(* is the one these theorems are about: one that starts at the beginning   *)
(* hands out the lines of a reopened file again (the run FileTailAgain).   *)
THEOREM SpecIInv ==
  ASSUME StartAtEnd
  PROVE  Spec => []IInv
<1>1. Init => IInv
  BY InitIInv
<1>2. IInv /\ [Next]_vars => IInv'
  BY NextKeeps
<1> QED
  BY <1>1, <1>2, PTL DEF Spec

-----------------------------------------------------------------------------
(* Nothing comes after the end of a line but younger lines.  This is what  *)
(* keeps the second half of a line from being handed out after the whole.  *)
LastInv ==
  /\ half => latest < lines
  /\ \A i \in 1 .. Len(buf) :
       /\ latest < buf[i].line
       /\ buf[i].last => /\ half => buf[i].line < lines
                         /\ \A j \in 1 .. Len(buf) : i < j => buf[i].line < buf[j].line
  /\ pc # "open" =>
       \A j \in pos + 1 .. Size(fd) :
         /\ latest < files[fd][j].line
         /\ \A i \in 1 .. Len(buf) : buf[i].last => buf[i].line < files[fd][j].line

LEMMA LastInFile ==
  ASSUME NEW s, WellWritten(s), NEW i \in 1 .. Len(s), NEW j \in 1 .. Len(s), i < j,
         s[i].last
  PROVE  s[i].line < s[j].line
<1>1. s \in Seq(Chunks) /\ Len(s) \in Nat
  BY DEF WellWritten
<1>2. i + 1 \in 1 .. Len(s) /\ i < i + 1 /\ i + 1 - 1 = i
  BY <1>1
<1>3. s[i + 1].first
  BY <1>2 DEF WellWritten
<1>4. s[i].line < s[i + 1].line
  BY <1>2, <1>3 DEF WellWritten, Rising, Before
<1>5. s[i].line \in Nat /\ s[i + 1].line \in Nat /\ s[j].line \in Nat
  BY <1>1, <1>2, LinesAreNumbers
<1>6. CASE j = i + 1
  BY <1>4, <1>6
<1>7. CASE i + 1 < j
  <2>1. s[i + 1].line <= s[j].line
    BY <1>2, <1>7 DEF WellWritten, Rising, Before
  <2> QED
    BY <1>4, <1>5, <2>1
<1> QED
  BY <1>6, <1>7

(* While a line is unfinished, every finished one is older.                *)
LEMMA LastInFiles ==
  ASSUME WriterInv, half, NEW f \in 1 .. Len(files), NEW i \in 1 .. Len(files[f]),
         files[f][i].last
  PROVE  files[f][i].line < lines
<1>1. CASE f # dest
  BY <1>1 DEF WriterInv
<1>2. CASE f = dest
  <2> DEFINE s == files[f]
  <2>1. /\ WellWritten(s) /\ s # << >> /\ ~s[Len(s)].last /\ s[Len(s)].line = lines
    BY <1>2 DEF WriterInv, Unfinished
  <2>2. Len(s) \in Nat /\ Len(s) \in 1 .. Len(s)
    BY <2>1 DEF WellWritten
  <2>3. i < Len(s)
    BY <2>1, <2>2
  <2> QED
    BY <2>1, <2>2, <2>3, LastInFile
<1> QED
  BY <1>1, <1>2

(* What the writer appends is a new line, or the rest of the unfinished.   *)
LEMMA WriterAppends ==
  ASSUME WriterInv, Writer
  PROVE  /\ lines \in Nat /\ lines' \in Nat
         /\ half' => lines < lines' \/ (half /\ lines' = lines)
         /\ ~half => \A f \in 1 .. Len(files) :
              \A j \in Len(files[f]) + 1 .. Len(files'[f]) : lines < files'[f][j].line
<1>1. /\ files \in Seq(Seq(Chunks)) /\ lines \in 0 .. MaxLines /\ MaxLines \in Nat
      /\ dest \in 1 .. Len(files) /\ half \in BOOLEAN
      /\ \A f \in 1 .. Len(files) : files[f] \in Seq(Chunks) /\ Len(files[f]) \in Nat
  BY FileTailAssumption DEF WriterInv
<1>2. \A n \in Nat : n + 1 .. n = {} /\ n + 1 .. 0 = {}
  OBVIOUS
<1>3. CASE BeginLine
  <2> DEFINE s == files[dest]
  <2>1. lines' = lines + 1 /\ lines < lines' /\ lines' \in 1 .. MaxLines
    BY <1>1, <1>3 DEF BeginLine
  <2>2. PICK c \in Seq(Chunks) :
          /\ files' = [files EXCEPT ![dest] = @ \o c]
          /\ \A i \in 1 .. Len(c) : c[i].line = lines'
    <3> DEFINE n == lines'
               whole == Chunk(n, TRUE, TRUE)
               begun == Chunk(n, TRUE, FALSE)
               rest == Chunk(n, FALSE, TRUE)
    <3>1. /\ whole \in Chunks /\ begun \in Chunks /\ rest \in Chunks
          /\ whole.line = n /\ begun.line = n /\ rest.line = n
      BY <2>1, ChunkMeans
    <3>2. \/ files' = [files EXCEPT ![dest] = @ \o <<whole>>]
          \/ files' = [files EXCEPT ![dest] = @ \o <<begun, rest>>]
          \/ files' = [files EXCEPT ![dest] = @ \o <<begun>>]
      BY <1>3 DEF BeginLine, Put
    <3> HIDE DEF whole, begun, rest, n
    <3>3. <<whole>> \in Seq(Chunks) /\ <<begun, rest>> \in Seq(Chunks)
          /\ <<begun>> \in Seq(Chunks)
      BY <3>1
    <3>4. /\ \A i \in 1 .. Len(<<whole>>) : <<whole>>[i].line = n
          /\ \A i \in 1 .. Len(<<begun>>) : <<begun>>[i].line = n
          /\ \A i \in 1 .. Len(<<begun, rest>>) : <<begun, rest>>[i].line = n
      BY <3>1
    <3> QED
      BY <3>2, <3>3, <3>4 DEF n
  <2>3. /\ files'[dest] = s \o c
        /\ \A f \in 1 .. Len(files) : f # dest => files'[f] = files[f]
    BY <1>1, <2>2
  <2>4. \A j \in Len(s) + 1 .. Len(s \o c) : (s \o c)[j].line = lines'
    <3>1. s \in Seq(Chunks) /\ Len(s) \in Nat /\ Len(c) \in Nat
          /\ Len(s \o c) = Len(s) + Len(c)
      BY <1>1, <2>2
    <3> SUFFICES ASSUME NEW j \in Len(s) + 1 .. Len(s) + Len(c)
                 PROVE  (s \o c)[j].line = lines'
      BY <3>1
    <3>2. j - Len(s) \in 1 .. Len(c) /\ j \in 1 .. Len(s) + Len(c) /\ ~(j <= Len(s))
      BY <3>1
    <3>3. (s \o c)[j] = c[j - Len(s)]
      BY <3>1, <3>2, <2>2, ConcatProperties
    <3> QED
      BY <2>2, <3>2, <3>3
  <2>5. ASSUME NEW f \in 1 .. Len(files), NEW j \in Len(files[f]) + 1 .. Len(files'[f])
        PROVE  lines < files'[f][j].line
    <3>1. CASE f = dest
      BY <2>1, <2>3, <2>4, <2>5, <3>1
    <3>2. CASE f # dest
      BY <1>1, <1>2, <2>3, <2>5, <3>2
    <3> QED
      BY <3>1, <3>2
  <2> QED
    BY <1>1, <2>1, <2>5
<1>4. CASE FinishLine
  BY <1>1, <1>4 DEF FinishLine
<1>5. CASE Truncate
  <2>1. /\ half' = half /\ lines' = lines /\ path \in 1 .. Len(files)
        /\ files' = [files EXCEPT ![path] = << >>]
    BY <1>5 DEF Truncate, WriterInv
  <2>2. \A f \in 1 .. Len(files) :
          files'[f] = files[f] \/ (files'[f] = << >> /\ Len(files'[f]) = 0)
    BY <1>1, <2>1
  <2>3. \A f \in 1 .. Len(files) : Len(files[f]) + 1 .. Len(files'[f]) = {}
    BY <1>1, <1>2, <2>2
  <2> QED
    BY <1>1, <2>1, <2>3
<1>6. CASE MoveAway \/ OpenNew
  <2>1. UNCHANGED <<files, half, lines>>
    BY <1>6 DEF MoveAway, OpenNew
  <2> QED
    BY <1>1, <1>2, <2>1
<1>7. CASE MakeNew
  <2>1. /\ half' = half /\ lines' = lines
        /\ \A f \in 1 .. Len(files) : files'[f] = files[f]
    BY <1>1, <1>7 DEF MakeNew
  <2> QED
    BY <1>1, <1>2, <2>1
<1> QED
  BY <1>3, <1>4, <1>5, <1>6, <1>7 DEF Writer

LEMMA WriterKeepsLast ==
  ASSUME IInv, LastInv, Writer
  PROVE  LastInv'
<1>1. /\ WriterInv /\ TypeInv /\ OrderInv
      /\ UNCHANGED <<pc, fd, pos, buf, latest>>
      /\ \A f \in 1 .. Len(files) :
           Grown(files[f], files'[f], lines) \/ files'[f] = << >>
  BY WriterMeans DEF IInv
<1>2. /\ lines \in Nat /\ lines' \in Nat
      /\ half' => lines < lines' \/ (half /\ lines' = lines)
      /\ ~half => \A f \in 1 .. Len(files) :
           \A j \in Len(files[f]) + 1 .. Len(files'[f]) : lines < files'[f][j].line
  BY <1>1, WriterAppends
<1>3. /\ latest \in Nat /\ latest <= lines /\ pos \in Nat /\ Len(buf) \in Nat
      /\ pc # "open" => fd \in 1 .. Len(files) /\ Len(files[fd]) \in Nat
      /\ \A i \in 1 .. Len(buf) : buf[i].line \in Nat /\ buf[i].line <= lines
  <2>1. /\ latest \in Nat /\ latest <= lines /\ pos \in Nat /\ Len(buf) \in Nat
        /\ pc # "open" => fd \in 1 .. Len(files) /\ Len(files[fd]) \in Nat
        /\ buf \in Seq(Chunks)
    BY <1>1, ReaderTypes DEF Size
  <2>2. \A i \in 1 .. Len(buf) : buf[i].line \in Nat /\ buf[i].line <= lines
    BY <1>1, <2>1, LinesAreNumbers DEF OrderInv
  <2> QED
    BY <2>1, <2>2
<1>4. half' => latest < lines'
  BY <1>2, <1>3 DEF LastInv
<1>5. ASSUME half', NEW i \in 1 .. Len(buf), buf[i].last PROVE buf[i].line < lines'
  BY <1>2, <1>3, <1>5 DEF LastInv
<1>6. ASSUME pc # "open", NEW j \in pos + 1 .. Len(files'[fd])
      PROVE  /\ latest < files'[fd][j].line
             /\ \A i \in 1 .. Len(buf) : buf[i].last => buf[i].line < files'[fd][j].line
  <2>1. fd \in 1 .. Len(files) /\ Len(files[fd]) \in Nat
    BY <1>3, <1>6
  <2>2. CASE files'[fd] = << >>
    <3>1. Len(files'[fd]) = 0 /\ pos + 1 .. 0 = {}
      BY <1>3, <2>2
    <3> QED
      BY <1>6, <3>1
  <2>3. CASE Grown(files[fd], files'[fd], lines)
    <3>1. \/ j \in pos + 1 .. Len(files[fd]) /\ j \in 1 .. Len(files[fd])
          \/ j \in Len(files[fd]) + 1 .. Len(files'[fd])
      BY <1>3, <1>6, <2>1
    <3>2. CASE j \in pos + 1 .. Len(files[fd]) /\ j \in 1 .. Len(files[fd])
      <4>1. files'[fd][j] = files[fd][j]
        BY <2>3, <3>2 DEF Grown
      <4> QED
        BY <1>6, <3>2, <4>1 DEF LastInv, Size
    <3>3. CASE j \in Len(files[fd]) + 1 .. Len(files'[fd])
      <4>1. lines <= files'[fd][j].line
        BY <2>3, <3>3 DEF Grown, Before
      <4>2. files'[fd][j].line \in Nat
        <5>1. /\ WriterInv' /\ Len(files) <= Len(files') /\ Len(files) \in Nat
              /\ Len(files') \in Nat /\ files' \in Seq(Seq(Chunks))
          BY <1>1, WriterMeans, FilesAreFinite
        <5>2. fd \in 1 .. Len(files')
          BY <2>1, <5>1
        <5>3. files'[fd] \in Seq(Chunks) /\ Len(files'[fd]) \in Nat
          BY <5>1, <5>2
        <5>4. j \in 1 .. Len(files'[fd])
          BY <2>1, <3>3, <5>3
        <5> QED
          BY <5>3, <5>4, LinesAreNumbers
      <4>3. CASE half
        <5>1. latest < lines /\ \A i \in 1 .. Len(buf) : buf[i].last => buf[i].line < lines
          BY <4>3 DEF LastInv
        <5> QED
          BY <1>2, <1>3, <4>1, <4>2, <5>1
      <4>4. CASE ~half
        <5>1. lines < files'[fd][j].line
          BY <1>2, <2>1, <3>3, <4>4
        <5> QED
          BY <1>2, <1>3, <4>2, <5>1
      <4> QED
        BY <4>3, <4>4
    <3> QED
      BY <3>1, <3>2, <3>3
  <2> QED
    BY <1>1, <2>1, <2>2, <2>3
<1>7. \A i \in 1 .. Len(buf) :
        /\ latest < buf[i].line
        /\ buf[i].last => \A j \in 1 .. Len(buf) : i < j => buf[i].line < buf[j].line
  BY DEF LastInv
<1> QED
  BY <1>1, <1>4, <1>5, <1>6, <1>7 DEF LastInv, Size

LEMMA DeliverKeepsLast ==
  ASSUME IInv, LastInv, Deliver
  PROVE  LastInv' /\ latest' > latest
<1> DEFINE k == LineEnd
           n == buf[k].line
<1>1. /\ WriterInv /\ TypeInv /\ OrderInv /\ LineEnds # {} /\ pc = "read"
      /\ latest' = n /\ UNCHANGED <<files, half, lines, pc, fd, pos>>
  BY DEF IInv, Deliver, Number, writer
<1>2. /\ buf \in Seq(Chunks) /\ Len(buf) \in Nat /\ latest \in Nat
      /\ \A i \in 1 .. Len(buf) : buf[i].line \in 1 .. MaxLines /\ MaxLines \in Nat
  BY <1>1, ReaderTypes
<1>3. k \in 1 .. Len(buf) /\ buf[k].last
  BY <1>1, <1>2, LineEndMeans
<1>4. /\ Len(buf') = Len(buf) - k
      /\ \A i \in 1 .. Len(buf) - k : buf'[i] = buf[k + i] /\ k + i \in 1 .. Len(buf)
  BY <1>1, RestMeans
<1> HIDE DEF k
<1>5. /\ latest < n /\ (half => n < lines)
      /\ \A j \in 1 .. Len(buf) : k < j => n < buf[j].line
  BY <1>3 DEF LastInv
<1>6. latest' > latest
  BY <1>1, <1>2, <1>3, <1>5
<1>7. ASSUME NEW i \in 1 .. Len(buf')
      PROVE  /\ n < buf'[i].line
             /\ buf'[i].last =>
                  /\ half => buf'[i].line < lines
                  /\ \A j \in 1 .. Len(buf') : i < j => buf'[i].line < buf'[j].line
  <2>1. k + i \in 1 .. Len(buf) /\ buf'[i] = buf[k + i] /\ k < k + i
    BY <1>2, <1>3, <1>4
  <2>2. \A j \in 1 .. Len(buf') : i < j => k + j \in 1 .. Len(buf) /\ k + i < k + j
                                           /\ buf'[j] = buf[k + j]
    BY <1>2, <1>3, <1>4
  <2> QED
    BY <1>5, <2>1, <2>2 DEF LastInv
<1>8. \A j \in pos + 1 .. Size(fd) :
        /\ n < files[fd][j].line
        /\ \A i \in 1 .. Len(buf') : buf'[i].last => buf'[i].line < files[fd][j].line
  BY <1>1, <1>3, <1>4 DEF LastInv
<1> QED
  BY <1>1, <1>5, <1>6, <1>7, <1>8 DEF LastInv, Size

LEMMA FillKeepsLast ==
  ASSUME IInv, LastInv, Fill
  PROVE  LastInv'
<1> DEFINE F == files[fd]
<1>1. /\ WriterInv /\ TypeInv /\ pc = "read" /\ pos \in Nat /\ Len(F) \in Nat
      /\ fd \in 1 .. Len(files) /\ WellWritten(F) /\ Size(fd) = Len(F)
      /\ Len(buf) \in Nat /\ done \in Int
      /\ UNCHANGED <<files, half, lines, pc, fd, latest>>
  <2>1. /\ WriterInv /\ TypeInv /\ pc = "read"
        /\ UNCHANGED <<files, half, lines, pc, fd, latest>>
    BY DEF IInv, Fill, writer, ghosts
  <2> QED
    BY <2>1, ReaderTypes DEF Size
<1>2. PICK q \in pos + 1 .. Size(fd) :
        /\ pos' = q /\ Len(buf') = Len(buf) + (q - pos)
        /\ \A i \in 1 .. Len(buf') :
             \/ i \in 1 .. Len(buf) /\ buf'[i] = buf[i]
             \/ /\ i > Len(buf) /\ i + done \in pos + 1 .. q
                /\ buf'[i] = files[fd][i + done]
  BY <1>1, FilledMeans
<1>3. \A j \in pos + 1 .. q : j \in 1 .. Len(F) /\ j \in pos + 1 .. Size(fd)
  BY <1>1, <1>2
<1>4. ASSUME NEW i \in 1 .. Len(buf')
      PROVE  /\ latest < buf'[i].line
             /\ buf'[i].last =>
                  /\ half => buf'[i].line < lines
                  /\ \A j \in 1 .. Len(buf') : i < j => buf'[i].line < buf'[j].line
                  /\ \A j \in q + 1 .. Len(F) : buf'[i].line < F[j].line
  <2>0. \A j \in q + 1 .. Len(F) : j \in 1 .. Len(F) /\ j \in pos + 1 .. Size(fd)
    BY <1>1, <1>2
  <2>1. CASE i \in 1 .. Len(buf) /\ buf'[i] = buf[i]
    <3>1. /\ latest < buf[i].line
          /\ buf[i].last =>
               /\ half => buf[i].line < lines
               /\ \A j \in 1 .. Len(buf) : i < j => buf[i].line < buf[j].line
               /\ \A j \in pos + 1 .. Size(fd) : buf[i].line < F[j].line
      BY <1>1, <2>1 DEF LastInv
    <3>2. \A j \in 1 .. Len(buf') :
            \/ j \in 1 .. Len(buf) /\ buf'[j] = buf[j]
            \/ j + done \in pos + 1 .. Size(fd) /\ buf'[j] = F[j + done]
      BY <1>2, <1>3
    <3> QED
      BY <2>0, <2>1, <3>1, <3>2
  <2>2. CASE /\ i > Len(buf) /\ i + done \in pos + 1 .. q /\ buf'[i] = F[i + done]
    <3>1. i + done \in 1 .. Len(F) /\ i + done \in pos + 1 .. Size(fd) /\ i \in Int
      BY <1>1, <1>2, <1>3, <2>2
    <3>2. latest < F[i + done].line
      BY <1>1, <3>1 DEF LastInv
    <3>3. ASSUME F[i + done].last, half PROVE F[i + done].line < lines
      BY <1>1, <3>1, <3>3, LastInFiles
    <3>4. ASSUME F[i + done].last, NEW j \in 1 .. Len(buf'), i < j
          PROVE  F[i + done].line < buf'[j].line
      <4>1. j \in Int /\ j \notin 1 .. Len(buf)
        BY <1>1, <1>2, <2>2, <3>1, <3>4
      <4>2. j + done \in 1 .. Len(F) /\ buf'[j] = F[j + done] /\ i + done < j + done
        BY <1>1, <1>2, <1>3, <3>1, <3>4, <4>1
      <4> QED
        BY <1>1, <3>1, <3>4, <4>2, LastInFile
    <3>5. ASSUME F[i + done].last, NEW j \in q + 1 .. Len(F)
          PROVE  F[i + done].line < F[j].line
      <4>1. j \in 1 .. Len(F) /\ i + done < j
        BY <1>1, <1>2, <2>0, <2>2, <3>5
      <4> QED
        BY <1>1, <3>1, <3>5, <4>1, LastInFile
    <3> QED
      BY <2>2, <3>2, <3>3, <3>4, <3>5
  <2> QED
    BY <1>2, <2>1, <2>2
<1>5. \A j \in q + 1 .. Len(F) : latest < F[j].line
  BY <1>1, <1>2 DEF LastInv
<1>6. half => latest < lines
  BY DEF LastInv
<1> HIDE DEF F
<1>7. Size(fd)' = Len(F) /\ files'[fd'] = F
  BY <1>1 DEF Size, F
<1> QED
  BY <1>1, <1>2, <1>4, <1>5, <1>6, <1>7 DEF LastInv

LEMMA OthersKeepLast ==
  ASSUME StartAtEnd, IInv, LastInv,
         Open \/ EndOfFile \/ ReadFails \/ Wake \/ UNCHANGED vars
  PROVE  LastInv'
<1>1. UNCHANGED <<files, half, lines, latest>>
  BY DEF Open, EndOfFile, ReadFails, Wake, vars, writer, ghosts
<1>2. half' => latest' < lines'
  BY <1>1 DEF LastInv
<1>3. CASE /\ buf' = << >>
           /\ pc' # "open" => \/ fd' = fd /\ pos' = pos /\ pc # "open"
                              \/ pos' = Size(fd')
  <2>1. Len(buf') = 0 /\ 1 .. 0 = {}
    BY <1>3
  <2>2. ASSUME pc' # "open", NEW j \in pos' + 1 .. Size(fd)'
        PROVE  latest' < files'[fd'][j].line
    <3>1. Size(fd)' = Size(fd')
      BY <1>1 DEF Size
    <3>2. CASE fd' = fd /\ pos' = pos /\ pc # "open"
      BY <1>1, <2>2, <3>1, <3>2 DEF LastInv
    <3>3. CASE pos' = Size(fd')
      <4>1. \A n \in Int : n + 1 .. n = {}
        OBVIOUS
      <4>2. Size(fd') \in Int
        <5>1. IInv'
          BY OpenKeeps, EndOfFileKeeps, ReadFailsKeeps, WakeKeeps, NextKeeps
             DEF Next, Tailer
        <5> QED
          BY <3>3, <5>1 DEF IInv, TypeInv
      <4> QED
        BY <2>2, <3>1, <3>3, <4>1, <4>2
    <3> QED
      BY <1>3, <2>2, <3>2, <3>3
  <2> QED
    BY <1>2, <2>1, <2>2 DEF LastInv
<1>4. CASE UNCHANGED <<buf, fd, pos>> /\ (pc' # "open" => pc # "open")
  <2>1. Size(fd)' = Size(fd)
    BY <1>1, <1>4 DEF Size
  <2> QED
    BY <1>1, <1>2, <1>4, <2>1 DEF LastInv
<1>5. CASE Open
  BY <1>3, <1>5 DEF Open, OpenedAt
<1>6. CASE EndOfFile
  BY <1>3, <1>6 DEF EndOfFile
<1>7. CASE ReadFails
  BY <1>3, <1>7 DEF ReadFails, Closed
<1>8. CASE Wake
  BY <1>3, <1>4, <1>8 DEF Wake, Closed
<1>9. CASE UNCHANGED vars
  BY <1>4, <1>9 DEF vars, reader
<1> QED
  BY <1>5, <1>6, <1>7, <1>8, <1>9

LEMMA LastKeeps ==
  ASSUME StartAtEnd, IInv, LastInv, [Next]_vars
  PROVE  LastInv'
  BY WriterKeepsLast, DeliverKeepsLast, FillKeepsLast, OthersKeepLast DEF Next, Tailer

LEMMA SpecLastInv ==
  ASSUME StartAtEnd
  PROVE  Spec => [](IInv /\ LastInv)
<1>1. Init => LastInv
  <2>1. Len(<< >>) = 0 /\ 1 .. 0 = {}
    OBVIOUS
  <2> QED
    BY <2>1 DEF Init, LastInv
<1>2. IInv /\ LastInv /\ [Next]_vars => LastInv'
  BY LastKeeps
<1> QED
  BY <1>1, <1>2, SpecIInv, PTL DEF Spec

(* Whatever was truncated, rotated or failed to be read, each line comes   *)
(* after those that came before it, and so none comes twice, not even in   *)
(* two torn parts (tailFile, filetail.go:22-83).                           *)
THEOREM SpecLinesInOrder ==
  ASSUME StartAtEnd
  PROVE  Spec => LinesInOrder
<1>1. IInv /\ LastInv /\ [Next]_vars => (Deliver => latest' > latest)
  BY DeliverKeepsLast
<1>2. [](IInv /\ LastInv) /\ [][Next]_vars => [][Deliver => latest' > latest]_vars
  BY <1>1, PTL
<1> QED
  BY <1>2, SpecLastInv, PTL DEF Spec, LinesInOrder

(* No line is delivered twice (tailFile, filetail.go:42-59).               *)
THEOREM SpecAtMostOnce ==
  ASSUME StartAtEnd
  PROVE  Spec => []AtMostOnce
<1>1. IInv => AtMostOnce
  <2> SUFFICES ASSUME IInv, NEW n \in DOMAIN got PROVE got[n] < 2
    BY DEF AtMostOnce
  <2>1. got \in [1 .. MaxLines -> 0 .. 2] /\ n \in 1 .. MaxLines /\ got[n] <= 1
    BY DEF IInv, TypeInv, OrderInv
  <2> QED
    BY <2>1
<1> QED
  BY <1>1, SpecIInv, PTL

(* What reaches the parser is a whole line, except where the tailer met    *)
(* one unfinished or the file shrank (ReadString, filetail.go:60-65).      *)
THEOREM SpecOnlyUnfinishedLinesTorn ==
  ASSUME StartAtEnd
  PROVE  Spec => []OnlyUnfinishedLinesTorn
<1>1. IInv => OnlyUnfinishedLinesTorn
  BY HandedMeans DEF IInv, OnlyUnfinishedLinesTorn
<1> QED
  BY <1>1, SpecIInv, PTL

(* The tailer sleeps only when it has delivered all there is, except what  *)
(* it met unfinished (filetail.go:60-76).                                  *)
THEOREM SpecNoLineSkipped ==
  ASSUME StartAtEnd
  PROVE  Spec => []NoLineSkipped
<1>1. IInv => NoLineSkipped
  <2> SUFFICES ASSUME IInv, pc = "sleep", ~shrunk
               PROVE  \A i \in base + 1 .. pos :
                        files[fd][i].last /\ files[fd][i].line \notin broken
                          => got[files[fd][i].line] > 0
    BY DEF NoLineSkipped
  <2>1. buf = << >> /\ pos \in Nat
    BY DEF IInv, TypeInv
  <2>2. done = pos
    BY <2>1 DEF done
  <2> QED
    BY <2>2 DEF IInv, TrackInv
<1> QED
  BY <1>1, SpecIInv, PTL

(* A file that was not truncated or rotated stays open (filetail.go:70-75).*)
THEOREM SpecNoNeedlessReopening ==
  ASSUME StartAtEnd
  PROVE  Spec => NoNeedlessReopening
<1>1. ASSUME IInv, [Next]_vars, pc = "sleep", pc' = "open"
      PROVE  shrunk \/ path # fd
  <2>1. CASE Wake
    <3>1. Shorter
      BY <1>1, <2>1 DEF Wake
    <3>2. SUFFICES ASSUME ~shrunk, path = fd PROVE FALSE
      OBVIOUS
    <3>3. /\ offset <= done /\ pos <= Size(fd) /\ buf = << >>
          /\ offset \in Nat /\ pos \in Nat /\ Size(fd) \in Nat
      <4>1. fd \in 1 .. Len(files) /\ offset \in Nat /\ pos \in Nat
        BY <1>1, ReaderTypes DEF IInv
      <4>2. Size(fd) \in Nat
        BY <1>1, <4>1, ReaderTypes DEF IInv
      <4> QED
        BY <1>1, <3>2, <4>1, <4>2 DEF IInv, TypeInv, TrackInv
    <3>4. done = pos
      BY <3>3 DEF done
    <3>5. Size(fd) < offset
      BY <3>1, <3>2 DEF Shorter
    <3> QED
      BY <3>3, <3>4, <3>5
  <2>2. CASE Writer
    BY <1>1, <2>2, WriterMeans DEF IInv
  <2>3. CASE Open \/ Deliver \/ Fill \/ EndOfFile \/ ReadFails
    BY <1>1, <2>3 DEF Open, Deliver, Fill, EndOfFile, ReadFails
  <2>4. CASE UNCHANGED vars
    BY <1>1, <2>4 DEF vars, reader
  <2> QED
    BY <1>1, <2>1, <2>2, <2>3, <2>4 DEF Next, Tailer
<1>2. [](IInv) /\ [][Next]_vars
        => [][pc = "sleep" /\ pc' = "open" => shrunk \/ path # fd]_vars
  BY <1>1, PTL
<1> QED
  BY <1>2, SpecIInv, PTL DEF Spec, NoNeedlessReopening
=============================================================================
