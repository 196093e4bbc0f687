------------------------------- MODULE Ingest -------------------------------
(***************************************************************************)
(* How lines and REST bodies become events on the channel to the engine    *)
(* (internal/ingest, internal/normalize).                                  *)
(*                                                                         *)
(* Every syslog listener, TCP connection and Kafka reader is a goroutine   *)
(* that gives its lines to one shared Parser, normalises the fields and    *)
(* sends without blocking.  The Parser remembers the first CSV header that *)
(* any of them brings, with no lock around the test and the assignment.    *)
(* The REST handler takes a list of objects past the Parser.               *)
(*                                                                         *)
(* A line is the record of what its reader makes of it: the fields of a    *)
(* JSON object, the cells of a CSV record, or the timestamp, the pairs and *)
(* the first bare word of plain text; "format" says which of the three     *)
(* ParseLine ends with.  A timestamp is a name for a text whose form and   *)
(* meaning Stamps gives.  A slice header is written at its pointer last    *)
(* and all headers of one length, so a racing read sees the old or the new *)
(* one.  The parser's configuration does not change here.                  *)
(***************************************************************************)
EXTENDS Integers, Sequences, FiniteSets

CONSTANTS
  Syslog, Streams, Kafka,  \* the goroutines that read lines, by adapter
  Calls,        \* the POSTs to /events
  Layouts,      \* how the sender behind each of them writes: its layouts
  Attempts,     \* the attempts the senders report
  Stamps,       \* timestamp texts: their form and the instant they mean
  Zone,         \* parser.timezone: hours ahead of UTC
  Year,         \* ticks in a year
  DefaultReaderID,
  Buffer,       \* ingest.channel_buffer
  Horizon,      \* bound: the last clock value considered
  MaxLines      \* bound: lines for each goroutine, objects for each POST

Sources == Syslog \cup Streams \cup Kafka
Text == STRING

(* A layout is a format, the names of the columns or keys in order, whether *)
(* a CSV sender announces them in a first line, and the timestamps used.   *)
(* POST /events takes JSON.  An attempt has the text of each field, and    *)
(* says in "outcome" whether it failed.  No timestamp is the name of one.  *)
ASSUME IngestAssumption ==
  /\ Buffer \in Nat \ {0} /\ Year \in Nat \ {0} /\ Zone \in Int
  /\ Horizon \in Nat /\ MaxLines \in [Sources \cup Calls -> Nat]
  /\ Layouts \in [Sources \cup Calls ->
       SUBSET [format : {"json", "csv", "plain"}, names : Seq(Text),
               header : BOOLEAN, stamps : SUBSET Text]]
  /\ \A x \in DOMAIN Layouts : \A l \in Layouts[x] :
       /\ l.header => l.format = "csv"
       /\ x \in Calls => l.format = "json"
  /\ Attempts \subseteq [timestamp : Text, reader : Text, uid : Text,
       result : Text, error : Text, outcome : {"success", "failure"}]
  /\ Stamps \in [DOMAIN Stamps ->
       [form : {"zoned", "local", "unix", "syslog", "float"}, at : Int]]
  /\ DOMAIN Stamps \cap {"", "timestamp", "time", "ts"} = {}
  /\ DefaultReaderID \in Text

VARIABLES
  now,        \* the wall clock
  header,     \* Parser.csv.header; << >> is nil
  work,       \* for each goroutine: its step, the line in hand and those that
              \* came with it, its fields once they are known, and the lines so far
  call,       \* for each POST: its step, the objects left, and the counts
  queue,      \* the channel: events with the attempt they are to stand for
  lost,       \* ghost: attempts that did not get on the channel with room in it
  stopping    \* ctx is done

vars == <<now, header, work, call, queue, lost, stopping>>

-----------------------------------------------------------------------------
(* The names under which each field is looked for, first match first.      *)
Names ==
  [timestamp |-> <<"timestamp", "time", "ts">>,
   reader    |-> <<"reader_id", "reader", "readerid", "device", "terminal">>,
   uid       |-> <<"uid", "card", "card_id", "cardid">>,
   result    |-> <<"result", "status", "outcome">>,
   error     |-> <<"error", "error_code", "err">>]

Fields == DOMAIN Names
NamesOf(f) == {Names[f][i] : i \in DOMAIN Names[f]}

(* assignField knows each name for one field, or for none.                 *)
FieldOf == [name \in UNION {NamesOf(f) : f \in Fields} |->
              CHOOSE f \in Fields : name \in NamesOf(f)]
Columns(names, f) ==
  {i \in DOMAIN names : names[i] \in DOMAIN FieldOf /\ FieldOf[names[i]] = f}

firstNonEmpty(m, keys) ==
  LET found == {i \in DOMAIN keys : keys[i] \in DOMAIN m /\ m[keys[i]] # ""}
  IN  IF found = {} THEN ""
      ELSE m[keys[CHOOSE i \in found : \A j \in found : i <= j]]

ParseJSONMap(obj) == [f \in Fields |-> firstNonEmpty(obj, Names[f])]

HeaderNames == {"timestamp", "time", "ts", "reader", "reader_id", "uid",
                "card", "result", "status", "error", "error_code"}

looksLikeHeader(record) == \E i \in DOMAIN record : record[i] \in HeaderNames

(* assignField for each column that has a cell: the last of a field wins.  *)
ByHeader(names, record) ==
  [f \in Fields |->
     LET cols == Columns(names, f) \cap DOMAIN record
     IN  IF cols = {} THEN ""
         ELSE record[CHOOSE i \in cols : \A j \in cols : j <= i]]

Positions == <<"timestamp", "reader_id", "uid", "result", "error">>

(* Mutant: the cells are read by position although there is a header.      *)
parseCSVByPosition(names, record) == ByHeader(Positions, record)

parseCSV(names, record) ==
  ByHeader(IF names = << >> THEN Positions ELSE names, record)

(* Mutant: whatever looks like a header is taken for one, at any time.     *)
TakesHeaderAgain(names, record) == looksLikeHeader(record)

TakesHeader(names, record) == names = << >> /\ looksLikeHeader(record)

(* The two expressions of extractTimestamp know dates, not numbers.        *)
Dated(s) == s \in DOMAIN Stamps /\ Stamps[s].form \in {"zoned", "local", "syslog"}

parsePlain(lead, word, pairs) ==
  LET named == ParseJSONMap(pairs)
      first == IF Dated(lead) \/ lead = "" THEN word ELSE lead
  IN  [named EXCEPT
         !.timestamp = IF Dated(lead) THEN lead ELSE "",
         !.reader = IF @ = "" THEN first ELSE @]

Readable(s) == s \in DOMAIN Stamps /\ Stamps[s].form # "float"

(* The local year of the clock goes with a syslog text, which has none;    *)
(* and time.Parse reads a text without a zone as UTC, so it is never tried *)
(* in the parser's own zone.                                               *)
ParseTimestamp(s) ==
  LET at == Stamps[s].at
  IN  CASE Stamps[s].form = "syslog" ->
             ((now + Zone) \div Year) * Year + ((at + Zone) % Year) - Zone
        [] Stamps[s].form = "local" -> at + Zone
        [] OTHER -> at

ParseResult(result, error) ==
  CASE result \in {"ok", "success", "allow", "allowed", "granted", "pass"} ->
         "success"
    [] result \in {"fail", "failure", "denied", "reject", "rejected",
                   "timeout", "error"} -> "failure"
    [] OTHER -> IF error # "" THEN "failure" ELSE "success"

(* Normalize refuses what has a timestamp it cannot read, and nothing else. *)
Refused(fields) == fields.timestamp # "" /\ ~Readable(fields.timestamp)

Normalize(fields) ==
  [ts |-> IF fields.timestamp = "" THEN now ELSE ParseTimestamp(fields.timestamp),
   reader |-> IF fields.reader = "" THEN DefaultReaderID ELSE fields.reader,
   uid |-> fields.uid,
   result |-> ParseResult(fields.result, fields.error),
   error |-> fields.error]

-----------------------------------------------------------------------------
(* The lines a sender may write.                                           *)
Column(a, name) == IF name \in DOMAIN FieldOf THEN a[FieldOf[name]] ELSE "other"

Object(l, a) == [n \in {l.names[i] : i \in DOMAIN l.names} |-> Column(a, n)]

Line(l, a) ==
  [format |-> l.format, about |-> a,
   text |-> CASE l.format = "csv" -> [i \in DOMAIN l.names |-> Column(a, l.names[i])]
              [] l.format = "json" -> ParseJSONMap(Object(l, a))
              [] l.format = "plain" ->
                   parsePlain(a.timestamp, a.reader, Object(l, a))]

Silent == [outcome |-> "none"]
HeaderLine(l) == [format |-> "csv", about |-> Silent, text |-> l.names]
Blank == [format |-> "blank", about |-> Silent]

Lines ==
  [x \in Sources \cup Calls |->
     UNION {{Line(l, a) : a \in {b \in Attempts : b.timestamp \in l.stamps}} :
            l \in Layouts[x]}]

HeaderLines(s) == {HeaderLine(l) : l \in {x \in Layouts[s] : x.header}}

(* A sender that announces its columns begins with that.                   *)
Written(s) ==
  IF work[s].n = 0 /\ HeaderLines(s) # {} THEN HeaderLines(s)
  ELSE {Blank} \cup HeaderLines(s) \cup Lines[s]

Init ==
  /\ now = 1 /\ header = << >> /\ queue = << >> /\ lost = {}
  /\ stopping = FALSE
  /\ work = [s \in Sources |-> [step |-> "idle", lines |-> << >>, fields |-> << >>,
                                n |-> 0]]
  /\ call = [c \in Calls |-> [step |-> "new", objects |-> << >>, size |-> 0,
                              accepted |-> 0, failed |-> 0]]

(***************************************************************************)
(* The goroutines that read lines.  ctx is looked at after each read by    *)
(* syslog, after each event that was offered by a TCP stream, and only     *)
(* inside ReadMessage, which may still return a message, by Kafka.  A read *)
(* that waits when ctx ends may still return.                              *)
(***************************************************************************)
Read(s, lines) ==
  /\ work[s].step = "idle"
  /\ work[s].n + Len(lines) <= MaxLines[s]
  /\ work' = [work EXCEPT ![s].step = "parse", ![s].lines = lines,
                          ![s].n = @ + Len(lines)]
  /\ UNCHANGED <<now, header, call, queue, lost, stopping>>

(* A datagram brings several lines.  A TCP connection is scanned line by   *)
(* line, and a Kafka message is one line.                                  *)
ReadSyslog(s) == \E k \in 1 .. 2 : \E lines \in [1 .. k -> Written(s)] : Read(s, lines)
ReadStream(s) == \E line \in Written(s) : Read(s, <<line>>)
ReadMessage(s) == \E line \in Written(s) : Read(s, <<line>>)

Current(s) == Head(work[s].lines)

(* Where a goroutine goes when it is done with what it read; offered says  *)
(* whether it offered an event to the channel.                             *)
Over(s, offered) ==
  IF stopping /\ (s \in Syslog \/ (s \in Streams /\ offered)) THEN "ended" ELSE "idle"

Done(w, over) == [w EXCEPT !.step = IF Len(w.lines) = 1 THEN over ELSE "parse",
                           !.lines = Tail(@), !.fields = << >>]

(* ParseLine as far as the test of the shared header.                      *)
ParseLine(s) ==
  /\ work[s].step = "parse"
  /\ work' = [work EXCEPT ![s] =
       CASE Current(s).format = "blank" -> Done(@, Over(s, FALSE))
         [] Current(s).format \in {"json", "plain"} ->
              [@ EXCEPT !.step = "send", !.fields = Current(s).text]
         [] Current(s).format = "csv" ->
              [@ EXCEPT !.step = IF TakesHeader(header, Current(s).text)
                                 THEN "setHeader" ELSE "assign"]]
  /\ UNCHANGED <<now, header, call, queue, lost, stopping>>

(* An attempt whose timestamp has a meaning, or that has none, counts.     *)
Counts(about) ==
  about # Silent /\ about.timestamp \in DOMAIN Stamps \cup {""}

Lost(about) == lost \cup {a \in {about} : Counts(a)}

SetHeader(s) ==
  /\ work[s].step = "setHeader"
  /\ header' = Current(s).text
  /\ lost' = Lost(Current(s).about)
  /\ work' = [work EXCEPT ![s] = Done(@, Over(s, FALSE))]
  /\ UNCHANGED <<now, call, queue, stopping>>

Assign(s) ==
  /\ work[s].step = "assign"
  /\ work' = [work EXCEPT ![s].step = "send",
                          ![s].fields = parseCSV(header, Current(s).text)]
  /\ UNCHANGED <<now, header, call, queue, lost, stopping>>

Full == Len(queue) >= Buffer

(* Mutant: the event waits for room in the channel.                        *)
SendBlocking(ev, about, done) ==
  ~Full /\ queue' = Append(queue, [ev |-> ev, about |-> about])

(* With ctx done, select may choose to drop although there is room.        *)
SendNonBlocking(ev, about, done) ==
  \/ ~Full /\ queue' = Append(queue, [ev |-> ev, about |-> about])
  \/ (Full \/ done) /\ UNCHANGED queue

NormalizeAndSend(s) ==
  /\ work[s].step = "send"
  /\ work' = [work EXCEPT ![s] = Done(@, Over(s, ~Refused(work[s].fields)))]
  /\ IF Refused(work[s].fields)
     THEN lost' = Lost(Current(s).about) /\ UNCHANGED queue
     ELSE /\ SendNonBlocking(Normalize(work[s].fields), Current(s).about, stopping)
          /\ UNCHANGED lost
  /\ UNCHANGED <<now, header, call, stopping>>

GoesOn(s) == ParseLine(s) \/ SetHeader(s) \/ Assign(s) \/ NormalizeAndSend(s)

(***************************************************************************)
(* POST /events, the engine at the other end, the clock and the end.       *)
(***************************************************************************)
(* handleEvents: one object is a list of one; what is not a list of objects *)
(* is refused as a whole.                                                  *)
HandleEvents(c) ==
  /\ call[c].step = "new"
  /\ \/ call' = [call EXCEPT ![c].step = "refused"]
     \/ \E k \in 1 .. MaxLines[c] : \E objects \in [1 .. k -> Lines[c]] :
          call' = [call EXCEPT ![c].step = "open", ![c].objects = objects,
                               ![c].size = k]
  /\ UNCHANGED <<now, header, work, queue, lost, stopping>>

(* Mutant: an object that is refused ends the list.                        *)
AfterRefusalNone(objects) == << >>
AfterRefusal(objects) == Tail(objects)

(* processMap; context.Background() is never done.                         *)
ProcessMap(c) ==
  /\ call[c].step = "open" /\ call[c].objects # << >>
  /\ LET a == Head(call[c].objects).about
         fields == Head(call[c].objects).text
     IN  IF Refused(fields)
         THEN /\ call' = [call EXCEPT ![c].failed = @ + 1,
                                      ![c].objects = AfterRefusal(@)]
              /\ lost' = Lost(a) /\ UNCHANGED queue
         ELSE /\ SendNonBlocking(Normalize(fields), a, FALSE)
              /\ call' = [call EXCEPT ![c].accepted = @ + 1,
                                      ![c].objects = Tail(@)]
              /\ UNCHANGED lost
  /\ UNCHANGED <<now, header, work, stopping>>

Answer(c) ==
  /\ call[c].step = "open" /\ call[c].objects = << >>
  /\ call' = [call EXCEPT ![c].step = "answered"]
  /\ UNCHANGED <<now, header, work, queue, lost, stopping>>

Take ==
  /\ queue # << >>
  /\ queue' = Tail(queue)
  /\ UNCHANGED <<now, header, work, call, lost, stopping>>

Tick == /\ now < Horizon /\ now' = now + 1
        /\ UNCHANGED <<header, work, call, queue, lost, stopping>>

Shutdown == /\ ~stopping /\ stopping' = TRUE
            /\ UNCHANGED <<now, header, work, call, queue, lost>>

Next ==
  \/ \E s \in Syslog : ReadSyslog(s)
  \/ \E s \in Streams : ReadStream(s)
  \/ \E s \in Kafka : ReadMessage(s)
  \/ \E s \in Sources : GoesOn(s)
  \/ \E c \in Calls : HandleEvents(c) \/ ProcessMap(c) \/ Answer(c)
  \/ Take \/ Tick \/ Shutdown

Spec == Init /\ [][Next]_vars

(* A goroutine that has a line goes on with it.  Nothing is assumed of the *)
(* engine, of who sends lines, or of the POSTs.                            *)
FairSpec == Spec /\ \A s \in Sources : WF_vars(GoesOn(s))

-----------------------------------------------------------------------------
(* The CSV senders announce their columns, and all the same ones, with the *)
(* timestamp among them.                                                   *)
HeadersAgree ==
  LET csv == UNION {{l \in Layouts[s] : l.format = "csv"} : s \in Sources}
  IN  \A l \in csv :
        /\ l.header /\ Columns(l.names, "timestamp") # {}
        /\ \A m \in csv : l.names = m.names

(* What an attempt says has a place in the layout.  Plain text begins with *)
(* a date and the reader.                                                  *)
Legible(l, a) ==
  LET placed(f) == Columns(l.names, f) = {} => a[f] = ""
  IN  IF l.format = "plain"
      THEN /\ a.timestamp = "" \/ Dated(a.timestamp)
           /\ \A f \in {"uid", "result", "error"} : placed(f)
      ELSE \A f \in Fields : placed(f)

(* An attempt's words are known, and its timestamp has a form that is read *)
(* as it is meant; one that has no meaning counts for nothing.             *)
Understood(a) ==
  /\ ParseResult(a.result, a.error) = a.outcome
  /\ a.timestamp \in DOMAIN Stamps =>
       \/ Stamps[a.timestamp].form \in {"zoned", "unix", "syslog"}
       \/ Stamps[a.timestamp].form = "local" /\ Zone = 0

WellWritten ==
  /\ HeadersAgree
  /\ \A x \in Sources \cup Calls : \A l \in Layouts[x] : \A a \in Attempts :
       a.timestamp \in l.stamps => Legible(l, a) /\ Understood(a)

(* What senders write well comes out as it was meant: every event on the   *)
(* channel stands for an attempt someone reported, with its reader, card,  *)
(* outcome and time, whichever format it came in and whoever's header was  *)
(* first (parser.go:145-156, normalize.go:24-72).  A syslog text from      *)
(* another year than the clock's is off by whole years.                    *)
AsMeant ==
  WellWritten => \A i \in DOMAIN queue :
    LET ev == queue[i].ev
        a  == queue[i].about
    IN  /\ a # Silent
        /\ ev.reader = (IF a.reader = "" THEN DefaultReaderID ELSE a.reader)
        /\ ev.uid = a.uid /\ ev.result = a.outcome /\ ev.error = a.error
        /\ IF a.timestamp = "" THEN ev.ts <= now
           ELSE LET off == ev.ts - Stamps[a.timestamp].at
                IN  off = 0 \/ (Stamps[a.timestamp].form = "syslog" /\ off % Year = 0)

(* README.md:156-157: JSON, CSV and plain text are read, with the listed   *)
(* timestamps.  An attempt reported in one of them reaches the channel,    *)
(* unless the channel is full or the program ends.                         *)
SupportedLinesRead == lost = {}

(* It does when senders write well, although the first header is shared,   *)
(* raced for, and brought again by every CSV sender (parser.go:133-156).   *)
NothingLost == WellWritten => lost = {}

(* The answer to a POST counts every object of the list once, sent or      *)
(* dropped at a full channel as "accepted": one that is refused does not   *)
(* end the list (rest.go:87-93).                                           *)
AnswersAdd ==
  \A c \in Calls : call[c].step = "answered" =>
    call[c].accepted + call[c].failed = call[c].size

(* A sender is never stalled by an engine that does not keep up            *)
(* (ingest.go:12-22): what was read is dealt with though nobody takes      *)
(* anything from the channel.                                              *)
NeverStalled ==
  \A s \in Sources : (work[s].step = "parse") ~> (work[s].step \in {"idle", "ended"})
=============================================================================
