------------------------------ MODULE FileTail ------------------------------
(***************************************************************************)
(* The file tailer (tailFile, internal/ingest/filetail.go) following a log *)
(* that another program appends to, truncates and rotates.                 *)
(*                                                                         *)
(* A file is a sequence of chunks.  A line is one chunk or two; one of two *)
(* may be written in two steps, so that the tailer meets the end of the    *)
(* file inside it.  Rotation moves the file away and later makes a new one *)
(* under its path; the program keeps writing to the file it has open until *)
(* it opens the new one, and the tailer keeps reading the one it has open. *)
(*                                                                         *)
(* The tailer counts in offset the bytes of the lines it was given.  The   *)
(* position of its file descriptor (pos) and what bufio.Reader has read    *)
(* ahead (buf) are states of their own: ReadString hands out a line from   *)
(* buf, reads on when there is none, and at the end of the file gives away *)
(* what is left in buf together with io.EOF, which the tailer drops.       *)
(*                                                                         *)
(* A line that is handed out is parsed, normalised and offered to the      *)
(* channel; here it is delivered.                                          *)
(***************************************************************************)
EXTENDS Integers, Sequences, FiniteSets

CONSTANTS
  StartAtEnd,    \* file_tail.start_at_end
  MaxLines,      \* bound: how many lines are written
  MaxCuts,       \* bound: how often the file is truncated or rotated
  MaxErrors      \* bound: how many reads fail with an error other than EOF

ASSUME FileTailAssumption ==
  /\ StartAtEnd \in BOOLEAN
  /\ MaxLines \in Nat \ {0} /\ MaxCuts \in Nat /\ MaxErrors \in Nat

VARIABLES
  files,      \* the contents of every file there has been under the path
  path,       \* the file the path names, or 0 between two steps of a rotation
  dest,       \* the file the program has open and writes to
  lines,      \* how many lines were begun
  half,       \* whether the last one is still to be finished
  cuts, errors,
  pc,         \* the tailer: "open", "read" or "sleep"
  fd,         \* the file it has open
  pos, buf,   \* how far that is read, and what of it is not handed out yet
  offset,     \* the tailer's own count
  got,        \* ghost: how often each line was delivered whole, up to 2
  latest,     \* ghost: the line delivered last, whole or in part
  base,       \* ghost: the position the file was opened at
  broken,     \* ghost: the lines met unfinished, at the end or on opening
  shrunk      \* ghost: the open file has been truncated

writer == <<files, path, dest, lines, half, cuts>>
reader == <<pc, fd, pos, buf, offset>>
ghosts == <<got, latest, base, broken, shrunk>>
vars   == <<writer, errors, reader, ghosts>>

Chunks == [line : 1 .. MaxLines, first : BOOLEAN, last : BOOLEAN]

Chunk(n, f, l) == [line |-> n, first |-> f, last |-> l]

(* The bytes of the file f, and of what os.Stat finds under the path.      *)
Size(f) == Len(files[f])

Init ==
  /\ files \in {<< << >> >>, << <<Chunk(1, TRUE, TRUE)>> >>}
  /\ path = 1 /\ dest = 1 /\ lines = Len(files[1]) /\ half = FALSE
  /\ cuts = 0 /\ errors = 0
  /\ pc = "open" /\ fd = 0 /\ pos = 0 /\ buf = << >> /\ offset = 0
  /\ got = [n \in 1 .. MaxLines |-> 0]
  /\ latest = 0 /\ base = 0 /\ broken = {} /\ shrunk = FALSE

(***************************************************************************)
(* The program that writes the log.                                        *)
(***************************************************************************)
Put(chunks) == files' = [files EXCEPT ![dest] = @ \o chunks]

BeginLine ==
  /\ ~half /\ lines < MaxLines
  /\ lines' = lines + 1
  /\ \/ Put(<<Chunk(lines', TRUE, TRUE)>>) /\ UNCHANGED half
     \/ Put(<<Chunk(lines', TRUE, FALSE), Chunk(lines', FALSE, TRUE)>>)
        /\ UNCHANGED half
     \/ Put(<<Chunk(lines', TRUE, FALSE)>>) /\ half' = TRUE
  /\ UNCHANGED <<path, dest, cuts, errors, reader, ghosts>>

FinishLine ==
  /\ half
  /\ Put(<<Chunk(lines, FALSE, TRUE)>>)
  /\ half' = FALSE
  /\ UNCHANGED <<path, dest, lines, cuts, errors, reader, ghosts>>

Truncate ==
  /\ path # 0 /\ ~(half /\ dest = path) /\ cuts < MaxCuts
  /\ files' = [files EXCEPT ![path] = << >>]
  /\ cuts' = cuts + 1
  /\ shrunk' = (shrunk \/ fd = path)
  /\ UNCHANGED <<path, dest, lines, half, errors, reader>>
  /\ UNCHANGED <<got, latest, base, broken>>

MoveAway ==
  /\ path # 0 /\ cuts < MaxCuts
  /\ path' = 0
  /\ cuts' = cuts + 1
  /\ UNCHANGED <<files, dest, lines, half, errors, reader, ghosts>>

MakeNew ==
  /\ path = 0
  /\ files' = Append(files, << >>)
  /\ path' = Len(files')
  /\ UNCHANGED <<dest, lines, half, cuts, errors, reader, ghosts>>

(* The program opens the new file, between two lines.                      *)
OpenNew ==
  /\ ~half /\ path # 0 /\ dest # path
  /\ dest' = path
  /\ UNCHANGED <<files, path, lines, half, cuts, errors, reader, ghosts>>

Writer == BeginLine \/ FinishLine \/ Truncate \/ MoveAway \/ MakeNew \/ OpenNew

(***************************************************************************)
(* The tailer.                                                             *)
(***************************************************************************)
Closed == fd' = 0 /\ pos' = 0 /\ buf' = << >> /\ pc' = "open"

(* Mutant: the end is not sought when a file is opened again.              *)
OpenedAtOnce == IF StartAtEnd /\ offset = 0 THEN Size(path) ELSE 0

OpenedAt == IF StartAtEnd THEN Size(path) ELSE 0

(* Opening fails while the path names no file.                             *)
Open ==
  /\ pc = "open" /\ path # 0
  /\ fd' = path
  /\ pos' = OpenedAt
  /\ offset' = IF StartAtEnd THEN Size(path) ELSE offset
  /\ buf' = << >>
  /\ pc' = "read"
  /\ base' = pos' /\ shrunk' = FALSE
  /\ broken' = broken \cup IF half /\ dest = path /\ StartAtEnd THEN {lines} ELSE {}
  /\ UNCHANGED <<writer, errors, got, latest>>

(* The chunks of buf up to the first end of a line.                        *)
LineEnds == {i \in DOMAIN buf : buf[i].last}

(* Mutant: all that is buffered is taken for one line.                     *)
LineEndLast == CHOOSE i \in LineEnds : \A j \in LineEnds : i >= j

LineEnd == CHOOSE i \in LineEnds : \A j \in LineEnds : i <= j

Whole(s) == s[1].first /\ \A i \in DOMAIN s : s[i].line = s[1].line

OffsetAfter(s) == offset + Len(s)

(* What ReadString hands out, and the line it is the end of.               *)
Handed == SubSeq(buf, 1, LineEnd)
Number == buf[LineEnd].line

Deliver ==
  /\ pc = "read" /\ LineEnds # {}
  /\ LET s == Handed
         n == Number
     IN  /\ buf' = SubSeq(buf, LineEnd + 1, Len(buf))
         /\ offset' = OffsetAfter(s)
         /\ got' = IF Whole(s) /\ got[n] < 2 THEN [got EXCEPT ![n] = @ + 1] ELSE got
         /\ latest' = n
  /\ UNCHANGED <<writer, errors, pc, fd, pos, base, broken, shrunk>>

(* Mutant: what is left of buf is lost when more is read.                  *)
FilledFresh(q) == SubSeq(files[fd], pos + 1, q)

Filled(q) == buf \o SubSeq(files[fd], pos + 1, q)

(* The reader's buffer may end anywhere in what there is to read.          *)
Fill ==
  /\ pc = "read" /\ LineEnds = {} /\ pos < Size(fd)
  /\ \E q \in pos + 1 .. Size(fd) : buf' = Filled(q) /\ pos' = q
  /\ UNCHANGED <<writer, errors, pc, fd, offset, ghosts>>

EndOfFile ==
  /\ pc = "read" /\ LineEnds = {} /\ pos >= Size(fd)
  /\ buf' = << >>
  /\ pc' = "sleep"
  /\ broken' = broken \cup {buf[i].line : i \in DOMAIN buf}
  /\ UNCHANGED <<writer, errors, fd, pos, offset, got, latest, base, shrunk>>

ReadFails ==
  /\ pc = "read" /\ LineEnds = {} /\ errors < MaxErrors
  /\ errors' = errors + 1
  /\ Closed
  /\ UNCHANGED <<writer, offset, ghosts>>

(* Mutant: a truncated file is not opened again.                           *)
ShorterNever == FALSE

(* Mutant: a file as long as offset is opened again.                       *)
ShorterOrEqual == path # 0 /\ Size(path) <= offset

(* os.Stat: the path names a file that is shorter than offset.             *)
Shorter == path # 0 /\ Size(path) < offset

Wake ==
  /\ pc = "sleep"
  /\ IF Shorter THEN Closed ELSE pc' = "read" /\ UNCHANGED <<fd, pos, buf>>
  /\ UNCHANGED <<writer, errors, offset, ghosts>>

Tailer == Open \/ Deliver \/ Fill \/ EndOfFile \/ ReadFails \/ Wake

Next == Writer \/ Tailer

Spec == Init /\ [][Next]_vars

(* The tailer's goroutine runs on; the writer owes nothing.                *)
FairSpec == Spec /\ WF_vars(Tailer)

-----------------------------------------------------------------------------
(* Each line, whole or torn, reaches the parser after all those that       *)
(* reached it before, so that none does twice, through truncations,        *)
(* rotations with a program that is late to notice them, and reopening     *)
(* after a failed read (filetail.go:42-59, 70-83).  Only a tailer that     *)
(* starts at the end of the file does this.                                *)
LinesInOrder == [][Deliver => latest' > latest]_vars

(* No line is delivered twice as a whole: what a tailer that starts at the *)
(* beginning would have to keep as well.                                   *)
AtMostOnce == \A n \in DOMAIN got : got[n] < 2

(* What is handed to the parser is one whole line, unless the tailer met   *)
(* the line while it was being written (ReadString then gives the first    *)
(* half away with io.EOF, filetail.go:63-65) or the file was truncated     *)
(* under the descriptor.                                                   *)
OnlyUnfinishedLinesTorn ==
  pc = "read" /\ LineEnds # {} /\ ~shrunk
    => Whole(Handed) \/ Number \in broken

(* When the tailer goes to sleep at the end of a file that was not         *)
(* truncated, it has delivered every line of it that was written after the *)
(* file was opened, except those it met unfinished.                        *)
NoLineSkipped ==
  pc = "sleep" /\ ~shrunk
    => \A i \in base + 1 .. pos :
         files[fd][i].last /\ files[fd][i].line \notin broken
           => got[files[fd][i].line] > 0

(* The tailer gives up a file only when that was truncated or rotated      *)
(* (filetail.go:70-75): its offset never runs ahead of the file, although  *)
(* it is not where the reader is.  Reopening for nothing would skip what   *)
(* was written while it slept.                                             *)
NoNeedlessReopening ==
  [][pc = "sleep" /\ pc' = "open" => shrunk \/ path # fd]_vars

(* A file that is shorter than what was read is noticed: it is opened, or  *)
(* has grown past the offset first.                                        *)
ShrinkingNoticed ==
  path # 0 /\ Size(path) < offset ~> path = 0 \/ Size(path) >= offset
=============================================================================
