---------------------------- MODULE IngestProofs ----------------------------
(***************************************************************************)
(* Theorems about Ingest, for every set of senders, layouts, attempts and  *)
(* timestamps, every zone, and every size of the channel.                  *)
(*                                                                         *)
(* That events mean what was reported and that nothing is lost rest on one *)
(* fact about the race for the header: while there is none, a sender that  *)
(* announces its columns has nothing in hand but that announcement, so no  *)
(* record of an attempt is ever met without a header (Announces).          *)
(***************************************************************************)
EXTENDS Ingest, TLAPS, WellFoundedInduction

(* What an attempt says in each field.                                     *)
FieldsOf(a) == [f \in Fields |-> a[f]]

LEMMA FieldNames ==
  /\ Fields = {"timestamp", "reader", "uid", "result", "error"}
  /\ \A f \in Fields : \A n \in NamesOf(f) :
       n \in DOMAIN FieldOf /\ FieldOf[n] = f /\ n # ""
  /\ \A n \in DOMAIN FieldOf : FieldOf[n] \in Fields /\ n \in NamesOf(FieldOf[n])
<1>1. Fields = {"timestamp", "reader", "uid", "result", "error"}
  BY DEF Fields, Names
<1>2. /\ NamesOf("timestamp") = {"timestamp", "time", "ts"}
      /\ NamesOf("reader") = {"reader_id", "reader", "readerid", "device", "terminal"}
      /\ NamesOf("uid") = {"uid", "card", "card_id", "cardid"}
      /\ NamesOf("result") = {"result", "status", "outcome"}
      /\ NamesOf("error") = {"error", "error_code", "err"}
  BY DEF NamesOf, Names
<1>3. \A f, g \in Fields : \A n \in NamesOf(f) : n \in NamesOf(g) => f = g
  BY <1>1, <1>2
<1>4. \A f \in Fields : \A n \in NamesOf(f) : n # ""
  BY <1>1, <1>2
<1>5. DOMAIN FieldOf = UNION {NamesOf(f) : f \in Fields}
  BY DEF FieldOf
<1>6. ASSUME NEW f \in Fields, NEW n \in NamesOf(f)
      PROVE  n \in DOMAIN FieldOf /\ FieldOf[n] = f
  <2>1. n \in UNION {NamesOf(g) : g \in Fields}
    OBVIOUS
  <2>2. FieldOf[n] = CHOOSE g \in Fields : n \in NamesOf(g)
    BY <2>1 DEF FieldOf
  <2> QED
    BY <1>3, <1>5, <2>1, <2>2
<1>7. ASSUME NEW n \in DOMAIN FieldOf
      PROVE  FieldOf[n] \in Fields /\ n \in NamesOf(FieldOf[n])
  <2>1. PICK f \in Fields : n \in NamesOf(f)
    BY <1>5
  <2>2. FieldOf[n] = f
    BY <1>6, <2>1
  <2> QED
    BY <2>1, <2>2
<1> QED
  BY <1>1, <1>4, <1>6, <1>7

LEMMA NamesAreSequences ==
  ASSUME NEW f \in Fields
  PROVE  DOMAIN Names[f] \subseteq Nat
<1>1. \A x \in {"timestamp", "reader", "uid", "result", "error"} :
        DOMAIN Names[x] \subseteq Nat
  BY DEF Names
<1> QED
  BY <1>1, FieldNames

LEMMA Positioned ==
  ASSUME NEW S, NEW s \in Seq(S)
  PROVE  DOMAIN s = 1 .. Len(s) /\ Len(s) \in Nat
OBVIOUS

LEMMA TailFacts ==
  ASSUME NEW S, NEW s \in Seq(S), s # << >>
  PROVE  /\ Head(s) \in S /\ Tail(s) \in Seq(S)
         /\ Len(Tail(s)) \in Nat /\ Len(s) = Len(Tail(s)) + 1
         /\ \A i \in DOMAIN Tail(s) : i + 1 \in DOMAIN s /\ Tail(s)[i] = s[i + 1]
OBVIOUS

LEMMA AppendFacts ==
  ASSUME NEW S, NEW s \in Seq(S), NEW x \in S
  PROVE  /\ Append(s, x) \in Seq(S)
         /\ DOMAIN Append(s, x) = DOMAIN s \cup {Len(s) + 1}
         /\ Append(s, x)[Len(s) + 1] = x
         /\ \A i \in DOMAIN s : Append(s, x)[i] = s[i]
OBVIOUS

(* Sets of positions have a first and, if there is an end, a last element. *)
LEMMA FirstExists ==
  ASSUME NEW T \in SUBSET Nat, T # {}
  PROVE  \E i \in T : \A j \in T : i <= j
<1>1. PICK i \in T : \A j \in T : ~(<<j, i>> \in OpToRel(<, Nat))
  BY NatLessThanWellFounded, WFMin, Zenon
<1>2. \A j \in T : ~(j < i)
  BY <1>1 DEF OpToRel
<1> QED
  BY <1>2

LEMMA LastExists ==
  ASSUME NEW n \in Nat, NEW T \in SUBSET (1 .. n), T # {}
  PROVE  \E i \in T : \A j \in T : j <= i
<1> DEFINE U == {n - i : i \in T}
<1>1. U \in SUBSET Nat /\ U # {}
  <2>1. \A i \in T : n - i \in Nat
    OBVIOUS
  <2>2. \A u \in U : u \in Nat
    BY <2>1
  <2>3. PICK i \in T : TRUE
    OBVIOUS
  <2>4. n - i \in U
    BY <2>3
  <2> QED
    BY <2>2, <2>4
<1> HIDE DEF U
<1>2. PICK u \in U : \A v \in U : u <= v
  BY <1>1, FirstExists
<1>3. PICK i \in T : u = n - i
  BY <1>2 DEF U
<1>4. \A j \in T : n - j \in U
  BY DEF U
<1> QED
  BY <1>2, <1>3, <1>4

-----------------------------------------------------------------------------
(* The columns of a field, in CSV, and its keys, in an object, all say     *)
(* what the attempt says in that field, so any of them will do.            *)
LEMMA ColumnsOfField ==
  ASSUME NEW names \in Seq(Text), NEW f \in Fields, NEW a, NEW i \in Columns(names, f)
  PROVE  /\ i \in 1 .. Len(names) /\ names[i] \in NamesOf(f)
         /\ Column(a, names[i]) = a[f]
<1>1. i \in DOMAIN names /\ names[i] \in DOMAIN FieldOf /\ FieldOf[names[i]] = f
  BY DEF Columns
<1>2. names[i] \in NamesOf(f)
  BY <1>1, FieldNames
<1>3. Column(a, names[i]) = a[f]
  BY <1>1 DEF Column
<1> QED
  BY <1>1, <1>2, <1>3

LEMMA RecordMeans ==
  ASSUME NEW names \in Seq(Text), NEW a,
         \A g \in Fields : Columns(names, g) = {} => a[g] = ""
  PROVE  ByHeader(names, [i \in DOMAIN names |-> Column(a, names[i])]) = FieldsOf(a)
<1> DEFINE record == [i \in DOMAIN names |-> Column(a, names[i])]
           Cell(f) == LET cols == Columns(names, f) \cap DOMAIN record
                      IN  IF cols = {} THEN ""
                          ELSE record[CHOOSE i \in cols : \A j \in cols : j <= i]
<1>1. ASSUME NEW f \in Fields PROVE Cell(f) = a[f]
  <2>1. Columns(names, f) \subseteq DOMAIN names /\ DOMAIN record = DOMAIN names
    BY DEF Columns
  <2>2. Columns(names, f) \cap DOMAIN record = Columns(names, f)
    BY <2>1
  <2>3. CASE Columns(names, f) = {}
    BY <2>2, <2>3
  <2>4. CASE Columns(names, f) # {}
    <3> DEFINE last == CHOOSE i \in Columns(names, f) :
                         \A j \in Columns(names, f) : j <= i
    <3>1. Columns(names, f) \in SUBSET (1 .. Len(names)) /\ Len(names) \in Nat
      BY <2>1, Positioned
    <3>2. \E i \in Columns(names, f) : \A j \in Columns(names, f) : j <= i
      BY <2>4, <3>1, LastExists
    <3>3. last \in Columns(names, f)
      BY <3>2
    <3>4. Cell(f) = record[last]
      BY <2>2, <2>4
    <3>5. record[last] = Column(a, names[last])
      BY <2>1, <3>3
    <3> HIDE DEF last
    <3> QED
      BY <3>3, <3>4, <3>5, ColumnsOfField
  <2> QED
    BY <2>3, <2>4
<1>2. ByHeader(names, record) = [f \in Fields |-> Cell(f)]
  BY DEF ByHeader
<1> HIDE DEF record, Cell
<1>3. [f \in Fields |-> Cell(f)] = [f \in Fields |-> a[f]]
  BY <1>1
<1> QED
  BY <1>2, <1>3 DEF FieldsOf, record

LEMMA ObjectMeans ==
  ASSUME NEW l, l.names \in Seq(Text), NEW a, NEW f \in Fields
  PROVE  firstNonEmpty(Object(l, a), Names[f])
           = IF Columns(l.names, f) = {} THEN "" ELSE a[f]
<1> DEFINE m == Object(l, a)
           keys == Names[f]
           found == {i \in DOMAIN keys : keys[i] \in DOMAIN m /\ m[keys[i]] # ""}
           first == CHOOSE i \in found : \A j \in found : i <= j
<1>1. /\ DOMAIN m = {l.names[i] : i \in DOMAIN l.names}
      /\ \A n \in DOMAIN m : m[n] = Column(a, n)
  BY DEF Object
<1>2. \A i \in DOMAIN keys : keys[i] \in NamesOf(f)
  BY DEF NamesOf
<1>3. \A i \in DOMAIN keys : keys[i] \in DOMAIN m => m[keys[i]] = a[f]
  <2> SUFFICES ASSUME NEW i \in DOMAIN keys, keys[i] \in DOMAIN m
               PROVE  m[keys[i]] = a[f]
    OBVIOUS
  <2>1. m[keys[i]] = Column(a, keys[i])
    BY <1>1
  <2>2. keys[i] \in DOMAIN FieldOf /\ FieldOf[keys[i]] = f
    BY <1>2, FieldNames
  <2> QED
    BY <2>1, <2>2 DEF Column
<1>4. firstNonEmpty(m, keys) = IF found = {} THEN "" ELSE m[keys[first]]
  BY DEF firstNonEmpty
<1>5. CASE found = {}
  <2>1. ASSUME Columns(l.names, f) # {} PROVE a[f] = ""
    <3>1. PICK c \in Columns(l.names, f) : TRUE
      BY <2>1
    <3>2. c \in DOMAIN l.names /\ l.names[c] \in NamesOf(f)
      BY ColumnsOfField DEF Columns
    <3>3. PICK i \in DOMAIN keys : keys[i] = l.names[c]
      BY <3>2 DEF NamesOf
    <3>4. keys[i] \in DOMAIN m
      BY <1>1, <3>2, <3>3
    <3>5. m[keys[i]] = ""
      BY <1>5, <3>4
    <3> QED
      BY <1>3, <3>4, <3>5
  <2> QED
    BY <1>4, <1>5, <2>1
<1>6. CASE found # {}
  <2>1. found \in SUBSET Nat
    BY NamesAreSequences
  <2>2. \E i \in found : \A j \in found : i <= j
    BY <1>6, <2>1, FirstExists
  <2>3. first \in found
    BY <2>2
  <2> HIDE DEF first
  <2>4. /\ keys[first] \in DOMAIN m /\ m[keys[first]] = a[f]
        /\ keys[first] \in NamesOf(f)
    BY <1>2, <1>3, <2>3
  <2>5. PICK c \in DOMAIN l.names : l.names[c] = keys[first]
    BY <1>1, <2>4
  <2>6. c \in Columns(l.names, f)
    BY <2>4, <2>5, FieldNames DEF Columns
  <2> QED
    BY <1>4, <1>6, <2>4, <2>6
<1> QED
  BY <1>5, <1>6

(* A header that is read as a record gives the name of its column of       *)
(* timestamps for a timestamp.                                             *)
LEMMA HeaderAsRecord ==
  ASSUME NEW names \in Seq(Text), Columns(names, "timestamp") # {}
  PROVE  /\ looksLikeHeader(names)
         /\ ByHeader(names, names).timestamp \in NamesOf("timestamp")
<1>1. "timestamp" \in Fields /\ NamesOf("timestamp") = {"timestamp", "time", "ts"}
  <2>1. "timestamp" \in Fields
    BY FieldNames
  <2>2. NamesOf("timestamp") = {"timestamp", "time", "ts"}
    BY DEF NamesOf, Names
  <2> QED
    BY <2>1, <2>2
<1>2. looksLikeHeader(names)
  <2>1. PICK i \in Columns(names, "timestamp") : TRUE
    OBVIOUS
  <2>2. i \in DOMAIN names /\ names[i] \in {"timestamp", "time", "ts"}
    BY <1>1, <2>1, ColumnsOfField DEF Columns
  <2> QED
    BY <2>2 DEF looksLikeHeader, HeaderNames
<1> DEFINE Cell(f) == LET cols == Columns(names, f) \cap DOMAIN names
                      IN  IF cols = {} THEN ""
                          ELSE names[CHOOSE i \in cols : \A j \in cols : j <= i]
<1>3. ASSUME NEW f \in Fields
      PROVE  Columns(names, f) # {} => Cell(f) \in NamesOf(f)
  <2>1. /\ Columns(names, f) \in SUBSET (1 .. Len(names)) /\ Len(names) \in Nat
        /\ Columns(names, f) \cap DOMAIN names = Columns(names, f)
    BY DEF Columns
  <2>2. SUFFICES ASSUME Columns(names, f) # {} PROVE Cell(f) \in NamesOf(f)
    OBVIOUS
  <2> DEFINE last == CHOOSE i \in Columns(names, f) :
                       \A j \in Columns(names, f) : j <= i
  <2>3. last \in Columns(names, f)
    BY <2>1, <2>2, LastExists
  <2>4. Cell(f) = names[last]
    BY <2>1, <2>2
  <2> HIDE DEF last, Cell
  <2> QED
    BY <2>3, <2>4, ColumnsOfField
<1>4. ByHeader(names, names) = [f \in Fields |-> Cell(f)]
  BY DEF ByHeader
<1> HIDE DEF Cell
<1> QED
  BY <1>1, <1>2, <1>3, <1>4

-----------------------------------------------------------------------------
(* What senders may write, when they write it well.                        *)
LEMMA LayoutFacts ==
  ASSUME NEW x \in Sources \cup Calls, NEW l \in Layouts[x]
  PROVE  /\ l.names \in Seq(Text) /\ l.format \in {"json", "csv", "plain"}
         /\ l.header \in BOOLEAN
         /\ l.header => l.format = "csv"
         /\ x \in Calls => l.format = "json"
<1>1. /\ DOMAIN Layouts = Sources \cup Calls
      /\ l \in [format : {"json", "csv", "plain"}, names : Seq(Text),
                header : BOOLEAN, stamps : SUBSET Text]
  BY IngestAssumption
<1>2. /\ l.header => l.format = "csv"
      /\ x \in Calls => l.format = "json"
  BY <1>1, IngestAssumption
<1> QED
  BY <1>1, <1>2

LEMMA AttemptFacts ==
  ASSUME NEW a \in Attempts
  PROVE  /\ a # Silent /\ a.outcome \in {"success", "failure"}
         /\ \A f \in Fields : FieldsOf(a)[f] = a[f]
         /\ FieldsOf(a).timestamp = a.timestamp /\ FieldsOf(a).reader = a.reader
         /\ FieldsOf(a).uid = a.uid /\ FieldsOf(a).result = a.result
         /\ FieldsOf(a).error = a.error
<1>1. a.outcome \in {"success", "failure"}
  BY IngestAssumption
<1>2. a # Silent
  BY <1>1 DEF Silent
<1>3. \A f \in Fields : FieldsOf(a)[f] = a[f]
  BY DEF FieldsOf
<1> QED
  BY <1>1, <1>2, <1>3, FieldNames

LEMMA TextMeans ==
  ASSUME NEW x \in Sources \cup Calls, NEW l \in Layouts[x], NEW a \in Attempts,
         Legible(l, a), l.format # "csv"
  PROVE  Line(l, a).text = FieldsOf(a)
<1>1. l.names \in Seq(Text) /\ l.format \in {"json", "plain"}
  BY LayoutFacts
<1>2. \A f \in Fields : ParseJSONMap(Object(l, a))[f]
                          = IF Columns(l.names, f) = {} THEN "" ELSE a[f]
  BY <1>1, ObjectMeans DEF ParseJSONMap
<1>3. CASE l.format = "json"
  <2>1. Line(l, a).text = ParseJSONMap(Object(l, a))
    BY <1>3 DEF Line
  <2>2. \A f \in Fields : ParseJSONMap(Object(l, a))[f] = a[f]
    BY <1>2, <1>3 DEF Legible
  <2> QED
    BY <2>1, <2>2 DEF ParseJSONMap, FieldsOf
<1>4. CASE l.format = "plain"
  <2> DEFINE named == ParseJSONMap(Object(l, a))
  <2>1. a.timestamp = "" \/ Dated(a.timestamp)
    BY <1>4 DEF Legible
  <2>2. /\ named = [f \in Fields |-> named[f]]
        /\ named.uid = a.uid /\ named.result = a.result /\ named.error = a.error
        /\ named.reader \in {"", a.reader}
    <3>1. named = [f \in Fields |-> named[f]]
      BY DEF ParseJSONMap
    <3>2. \A f \in {"uid", "result", "error"} : Columns(l.names, f) = {} => a[f] = ""
      BY <1>4 DEF Legible
    <3>3. \A f \in {"uid", "result", "error"} : named[f] = a[f]
      BY <1>2, <3>2, FieldNames
    <3>4. named["reader"] \in {"", a["reader"]}
      BY <1>2, FieldNames
    <3> QED
      BY <3>1, <3>3, <3>4
  <2>3. Line(l, a).text = parsePlain(a.timestamp, a.reader, Object(l, a))
    BY <1>4 DEF Line
  <2> HIDE DEF named
  <2>4. parsePlain(a.timestamp, a.reader, Object(l, a))
          = [named EXCEPT
               !.timestamp = IF Dated(a.timestamp) THEN a.timestamp ELSE "",
               !.reader = IF @ = "" THEN a.reader ELSE @]
    BY <2>1 DEF parsePlain, named
  <2>5. (IF Dated(a.timestamp) THEN a.timestamp ELSE "") = a.timestamp
    BY <2>1
  <2>6. (IF named.reader = "" THEN a.reader ELSE named.reader) = a.reader
    BY <2>2
  <2>7. Line(l, a).text = [named EXCEPT !.timestamp = a.timestamp, !.reader = a.reader]
    BY <2>2, <2>3, <2>4, <2>5, <2>6, FieldNames
  <2>8. \A f \in Fields : Line(l, a).text[f] = a[f]
    <3>1. DOMAIN named = Fields
      BY <2>2
    <3>2. /\ Line(l, a).text["timestamp"] = a.timestamp
          /\ Line(l, a).text["reader"] = a.reader
          /\ \A f \in Fields \ {"timestamp", "reader"} : Line(l, a).text[f] = named[f]
      BY <2>7, <3>1, FieldNames
    <3>3. \A f \in Fields \ {"timestamp", "reader"} : f \in {"uid", "result", "error"}
      BY FieldNames
    <3>4. \A f \in {"uid", "result", "error"} : named[f] = a[f]
      BY <2>2
    <3> QED
      BY <3>2, <3>3, <3>4
  <2>9. Line(l, a).text = [f \in Fields |-> Line(l, a).text[f]]
    BY <2>2, <2>7
  <2> QED
    BY <2>8, <2>9 DEF FieldsOf
<1> QED
  BY <1>1, <1>3, <1>4

(* A line about an attempt is either read as what the attempt says, or a   *)
(* record of the columns everybody announces.                              *)
LEMMA DataMeans ==
  ASSUME WellWritten, NEW x \in Sources \cup Calls, NEW line \in Lines[x]
  PROVE  /\ line.about \in Attempts /\ Understood(line.about)
         /\ line.format \in {"json", "csv", "plain"}
         /\ line.format # "csv" => line.text = FieldsOf(line.about)
         /\ line.format = "csv" =>
              \E l \in Layouts[x] : /\ l.format = "csv"
                                    /\ ByHeader(l.names, line.text) = FieldsOf(line.about)
<1>1. PICK l \in Layouts[x], a \in Attempts :
        a.timestamp \in l.stamps /\ line = Line(l, a)
  BY DEF Lines
<1>2. Legible(l, a) /\ Understood(a)
  BY <1>1 DEF WellWritten
<1>3. line.format = l.format /\ line.about = a
  BY <1>1 DEF Line
<1>4. l.names \in Seq(Text) /\ l.format \in {"json", "csv", "plain"}
  BY LayoutFacts
<1>5. CASE l.format = "csv"
  <2>1. line.text = [i \in DOMAIN l.names |-> Column(a, l.names[i])]
    BY <1>1, <1>5 DEF Line
  <2>2. \A f \in Fields : Columns(l.names, f) = {} => a[f] = ""
    BY <1>2, <1>5 DEF Legible
  <2>3. ByHeader(l.names, line.text) = FieldsOf(a)
    BY <1>4, <2>1, <2>2, RecordMeans
  <2> QED
    BY <1>2, <1>3, <1>4, <1>5, <2>3
<1>6. CASE l.format # "csv"
  BY <1>1, <1>2, <1>3, <1>4, <1>6, TextMeans
<1> QED
  BY <1>5, <1>6

LEMMA PostedLines ==
  ASSUME NEW c \in Calls, NEW line \in Lines[c]
  PROVE  line.format = "json"
<1>1. PICK l \in Layouts[c], a \in Attempts : line = Line(l, a)
  BY DEF Lines
<1>2. l.format = "json"
  BY LayoutFacts
<1> QED
  BY <1>1, <1>2 DEF Line

LEMMA AnnouncementMeans ==
  ASSUME WellWritten, NEW s \in Sources, NEW line \in HeaderLines(s)
  PROVE  /\ line.format = "csv" /\ line.about = Silent
         /\ looksLikeHeader(line.text) /\ line.text # << >>
         /\ Refused(ByHeader(line.text, line.text))
         /\ \A t \in Sources : \A l \in Layouts[t] :
              l.format = "csv" => l.names = line.text
<1>1. PICK l \in Layouts[s] : l.header /\ line = HeaderLine(l)
  BY DEF HeaderLines
<1>2. l.format = "csv" /\ l.names \in Seq(Text)
  BY <1>1, LayoutFacts
<1>3. line.format = "csv" /\ line.about = Silent /\ line.text = l.names
  BY <1>1 DEF HeaderLine
<1>4. /\ Columns(l.names, "timestamp") # {}
      /\ \A t \in Sources : \A m \in Layouts[t] : m.format = "csv" => m.names = l.names
  BY <1>2 DEF WellWritten, HeadersAgree
<1>5. l.names # << >>
  BY <1>4 DEF Columns
<1>6. /\ looksLikeHeader(l.names)
      /\ ByHeader(l.names, l.names).timestamp \in {"timestamp", "time", "ts"}
  <2>1. NamesOf("timestamp") = {"timestamp", "time", "ts"}
    BY DEF NamesOf, Names
  <2> QED
    BY <1>2, <1>4, <2>1, HeaderAsRecord
<1>7. Refused(ByHeader(l.names, l.names))
  BY <1>6, IngestAssumption DEF Refused, Readable
<1> QED
  BY <1>3, <1>4, <1>5, <1>6, <1>7

-----------------------------------------------------------------------------
LEMMA WholeYears ==
  ASSUME NEW y \in Nat \ {0}, NEW x \in Int, NEW k \in Int
  PROVE  (k * y + (x % y) - x) % y = 0
<1>1. x = y * (x \div y) + (x % y) /\ x \div y \in Int
  OBVIOUS
<1>2. k * y + (x % y) - x = y * (k - (x \div y))
  BY <1>1
<1>3. \A m \in Int : (y * m) % y = 0
  OBVIOUS
<1>4. k - (x \div y) \in Int
  BY <1>1
<1>5. (y * (k - (x \div y))) % y = 0
  BY <1>3, <1>4, Zenon
<1> QED
  BY <1>2, <1>5, Zenon

-----------------------------------------------------------------------------
(* The POSTs: what is left of the list and what was counted make the list. *)
CallRecord(c) == [step : {"new", "refused", "open", "answered"},
                  objects : Seq(Lines[c]), size : Nat, accepted : Nat, failed : Nat]

Adds(k) ==
  /\ k.step \in {"new", "refused"} => k.accepted = 0 /\ k.failed = 0
  /\ k.step = "open" => k.accepted + k.failed + Len(k.objects) = k.size
  /\ k.step = "answered" => k.accepted + k.failed = k.size

CallsInv ==
  /\ DOMAIN call = Calls
  /\ \A c \in Calls : call[c] \in CallRecord(c) /\ Adds(call[c])

(* A step of one POST leaves the others as they are.                       *)
LEMMA CallBecomes ==
  ASSUME CallsInv, NEW c \in Calls, NEW k \in CallRecord(c), Adds(k),
         call' = [call EXCEPT ![c] = k]
  PROVE  CallsInv'
<1>1. /\ DOMAIN call' = Calls /\ \A d \in Calls \ {c} : call'[d] = call[d]
      /\ call'[c] = k
  BY DEF CallsInv
<1> QED
  BY <1>1 DEF CallsInv

(* What counting one object makes of a POST.                               *)
WithFailed(k, n, rest) == [k EXCEPT !.failed = n, !.objects = rest]
WithAccepted(k, n, rest) == [k EXCEPT !.accepted = n, !.objects = rest]

LEMMA CountedFailed ==
  ASSUME NEW c, NEW k \in CallRecord(c), NEW rest \in Seq(Lines[c]), NEW n \in Nat,
         NEW v, v = WithFailed(k, n, rest)
  PROVE  /\ v \in CallRecord(c) /\ v.step = k.step /\ v.objects = rest
         /\ v.size = k.size /\ v.accepted = k.accepted /\ v.failed = n
  BY DEF CallRecord, WithFailed

LEMMA CountedAccepted ==
  ASSUME NEW c, NEW k \in CallRecord(c), NEW rest \in Seq(Lines[c]), NEW n \in Nat,
         NEW v, v = WithAccepted(k, n, rest)
  PROVE  /\ v \in CallRecord(c) /\ v.step = k.step /\ v.objects = rest
         /\ v.size = k.size /\ v.accepted = n /\ v.failed = k.failed
  BY DEF CallRecord, WithAccepted

LEMMA CallStep ==
  ASSUME CallsInv, NEW c \in Calls, HandleEvents(c) \/ ProcessMap(c) \/ Answer(c)
  PROVE  CallsInv'
<1> DEFINE k == call[c]
<1>1. k \in CallRecord(c) /\ Adds(k)
  BY DEF CallsInv
<1>2. CASE HandleEvents(c)
  <2>1. k.step = "new" /\ k.accepted = 0 /\ k.failed = 0
    BY <1>1, <1>2 DEF HandleEvents, Adds
  <2>2. CASE call' = [call EXCEPT ![c].step = "refused"]
    <3> DEFINE v == [k EXCEPT !.step = "refused"]
    <3>1. v \in CallRecord(c) /\ Adds(v)
      BY <1>1, <2>1 DEF CallRecord, Adds
    <3>2. call' = [call EXCEPT ![c] = v]
      BY <2>2
    <3> HIDE DEF v
    <3> QED
      BY <3>1, <3>2, CallBecomes
  <2>3. ASSUME NEW n \in 1 .. MaxLines[c], NEW objects \in [1 .. n -> Lines[c]],
               call' = [call EXCEPT ![c].step = "open", ![c].objects = objects,
                                    ![c].size = n]
        PROVE  CallsInv'
    <3> DEFINE v == [k EXCEPT !.step = "open", !.objects = objects, !.size = n]
    <3>1. n \in Nat
      <4>1. MaxLines[c] \in Nat
        BY IngestAssumption
      <4> QED
        BY <4>1
    <3>2. objects \in Seq(Lines[c]) /\ Len(objects) = n
      BY <3>1
    <3>3. v \in CallRecord(c) /\ v.step = "open" /\ v.objects = objects
          /\ v.size = n /\ v.accepted = 0 /\ v.failed = 0
      BY <1>1, <2>1, <3>1, <3>2 DEF CallRecord
    <3>4. call' = [call EXCEPT ![c] = v]
      BY <2>3
    <3> HIDE DEF v
    <3>5. Adds(v)
      BY <3>1, <3>2, <3>3 DEF Adds
    <3> QED
      BY <3>3, <3>4, <3>5, CallBecomes
  <2> QED
    BY <1>2, <2>2, <2>3 DEF HandleEvents
<1>3. CASE ProcessMap(c)
  <2>1. k.step = "open" /\ k.objects # << >>
    BY <1>3 DEF ProcessMap
  <2>2. /\ k.objects \in Seq(Lines[c]) /\ k.accepted \in Nat /\ k.failed \in Nat
        /\ k.size \in Nat
    BY <1>1 DEF CallRecord
  <2> DEFINE rest == Tail(k.objects)
  <2>3. /\ rest \in Seq(Lines[c])
        /\ Len(rest) \in Nat /\ Len(k.objects) = Len(rest) + 1
    BY <2>1, <2>2, TailFacts
  <2>4. k.accepted + k.failed + Len(k.objects) = k.size
    BY <1>1, <2>1 DEF Adds
  <2>5. /\ Len(rest) \in Nat /\ k.accepted \in Nat /\ k.failed \in Nat
        /\ k.accepted + 1 \in Nat /\ k.failed + 1 \in Nat
        /\ k.accepted + k.failed + 1 + Len(rest) = k.size
    BY <2>2, <2>3, <2>4
  <2> HIDE DEF rest
  <2>6. CASE call' = [call EXCEPT ![c].failed = @ + 1, ![c].objects = Tail(@)]
    <3> DEFINE v == WithFailed(k, k.failed + 1, rest)
    <3>1. call' = [call EXCEPT ![c] = v]
      BY <2>6 DEF rest, WithFailed
    <3>0. v = WithFailed(k, k.failed + 1, rest)
      OBVIOUS
    <3> HIDE DEF v
    <3>2. v \in CallRecord(c) /\ v.step = k.step /\ v.objects = rest
          /\ v.size = k.size /\ v.accepted = k.accepted /\ v.failed = k.failed + 1
      <4> DEFINE n == k.failed + 1
      <4>1. k \in CallRecord(c) /\ rest \in Seq(Lines[c]) /\ n \in Nat
        BY <1>1, <2>3, <2>5
      <4>2. v = WithFailed(k, n, rest)
        BY <3>0
      <4> HIDE DEF n, k
      <4>3. v \in CallRecord(c) /\ v.step = k.step /\ v.objects = rest
            /\ v.size = k.size /\ v.accepted = k.accepted /\ v.failed = n
        BY ONLY <4>1, <4>2, CountedFailed
      <4> QED
        BY <4>3 DEF n
    <3>3. Adds(v)
      BY <2>1, <2>5, <3>2 DEF Adds
    <3> QED
      BY <3>1, <3>2, <3>3, CallBecomes
  <2>7. CASE call' = [call EXCEPT ![c].accepted = @ + 1, ![c].objects = Tail(@)]
    <3> DEFINE v == WithAccepted(k, k.accepted + 1, rest)
    <3>1. call' = [call EXCEPT ![c] = v]
      BY <2>7 DEF rest, WithAccepted
    <3>0. v = WithAccepted(k, k.accepted + 1, rest)
      OBVIOUS
    <3> HIDE DEF v
    <3>2. v \in CallRecord(c) /\ v.step = k.step /\ v.objects = rest
          /\ v.size = k.size /\ v.accepted = k.accepted + 1 /\ v.failed = k.failed
      <4> DEFINE n == k.accepted + 1
      <4>1. k \in CallRecord(c) /\ rest \in Seq(Lines[c]) /\ n \in Nat
        BY <1>1, <2>3, <2>5
      <4>2. v = WithAccepted(k, n, rest)
        BY <3>0
      <4> HIDE DEF n, k
      <4>3. v \in CallRecord(c) /\ v.step = k.step /\ v.objects = rest
            /\ v.size = k.size /\ v.accepted = n /\ v.failed = k.failed
        BY ONLY <4>1, <4>2, CountedAccepted
      <4> QED
        BY <4>3 DEF n
    <3>3. Adds(v)
      BY <2>1, <2>5, <3>2 DEF Adds
    <3> QED
      BY <3>1, <3>2, <3>3, CallBecomes
  <2> QED
    BY <1>3, <2>6, <2>7 DEF ProcessMap, AfterRefusal
<1>4. CASE Answer(c)
  <2> DEFINE v == [k EXCEPT !.step = "answered"]
  <2>1. k.step = "open" /\ k.objects = << >> /\ Len(<< >>) = 0
    BY <1>4 DEF Answer
  <2>2. v \in CallRecord(c) /\ v.step = "answered" /\ v.size = k.size
        /\ v.accepted = k.accepted /\ v.failed = k.failed
        /\ k.size \in Nat /\ k.accepted \in Nat /\ k.failed \in Nat
    BY <1>1 DEF CallRecord
  <2>3. k.accepted + k.failed = k.size
    BY <1>1, <2>1, <2>2 DEF Adds
  <2>4. call' = [call EXCEPT ![c] = v]
    BY <1>4 DEF Answer
  <2> HIDE DEF v
  <2>5. Adds(v)
    BY <2>2, <2>3 DEF Adds
  <2> QED
    BY <2>2, <2>4, <2>5, CallBecomes
<1> QED
  BY <1>2, <1>3, <1>4

LEMMA NextCallsInv == CallsInv /\ [Next]_vars => CallsInv'
<1> SUFFICES ASSUME CallsInv, [Next]_vars PROVE CallsInv'
  OBVIOUS
<1>1. CASE UNCHANGED call
  BY <1>1 DEF CallsInv
<1>2. ASSUME NEW s, ReadSyslog(s) \/ ReadStream(s) \/ ReadMessage(s) \/ GoesOn(s)
      PROVE  UNCHANGED call
  BY <1>2 DEF ReadSyslog, ReadStream, ReadMessage, Read, GoesOn, ParseLine, SetHeader,
              Assign, NormalizeAndSend
<1>3. CASE Take \/ Tick \/ Shutdown \/ UNCHANGED vars
  BY <1>1, <1>3 DEF Take, Tick, Shutdown, vars
<1> QED
  BY <1>1, <1>2, <1>3, CallStep DEF Next

(* The answer to a POST counts every object of its list once, for every    *)
(* list, whatever is refused or dropped on the way (rest.go:87-93).        *)
THEOREM SpecAnswersAdd == Spec => []AnswersAdd
<1>1. Init => CallsInv
  BY DEF Init, CallsInv, CallRecord, Adds
<1>2. CallsInv => AnswersAdd
  BY DEF CallsInv, Adds, AnswersAdd
<1> QED
  BY <1>1, <1>2, NextCallsInv, PTL DEF Spec

-----------------------------------------------------------------------------
(* The time of an event against the text it was read from, at time t.      *)
WholeYearsOff(off) == off % Year = 0

Timely(ts, text, t) ==
  IF text = "" THEN ts <= t
  ELSE LET off == ts - Stamps[text].at
       IN  off = 0 \/ (Stamps[text].form = "syslog" /\ WholeYearsOff(off))

LEMMA TimelyFacts ==
  ASSUME NEW x \in Int, NEW s \in Text, NEW t \in Int
  PROVE  /\ s = "" /\ x = t => Timely(x, s, t)
         /\ s # "" /\ x = Stamps[s].at => Timely(x, s, t)
         /\ Timely(x, s, t) => Timely(x, s, t + 1)
<1>0. t <= t
  OBVIOUS
<1>1. ASSUME s = "", x = t PROVE Timely(x, s, t)
  <2>1. x <= t
    BY <1>0, <1>1, Zenon
  <2> QED
    BY <1>1, <2>1, Zenon DEF Timely
<1>2. ASSUME s # "", x = Stamps[s].at PROVE Timely(x, s, t)
  <2>1. x - Stamps[s].at = 0
    <3>1. x - x = 0
      OBVIOUS
    <3> QED
      BY <1>2, <3>1, Zenon
  <2> QED
    BY <1>2, <2>1, Zenon DEF Timely
<1>3. ASSUME Timely(x, s, t) PROVE Timely(x, s, t + 1)
  <2>1. CASE s = ""
    <3>1. x <= t
      BY <1>3, <2>1, Zenon DEF Timely
    <3>2. x <= t + 1
      BY <3>1
    <3> QED
      BY <2>1, <3>2, Zenon DEF Timely
  <2>2. CASE s # ""
    BY <1>3, <2>2, Zenon DEF Timely
  <2> QED
    BY <2>1, <2>2
<1> QED
  BY <1>1, <1>2, <1>3, Zenon

(* What an event says, against what the attempt it is about was, at time t. *)
Stands(ev, a, t) ==
  /\ a # Silent
  /\ ev.reader = (IF a.reader = "" THEN DefaultReaderID ELSE a.reader)
  /\ ev.uid = a.uid /\ ev.result = a.outcome /\ ev.error = a.error
  /\ Timely(ev.ts, a.timestamp, t)

Sent == [ev : [ts : Int, reader : Text, uid : Text, result : {"success", "failure"},
               error : Text],
         about : Attempts]

QueueInv ==
  /\ now \in Int /\ queue \in Seq(Sent)
  /\ \A i \in DOMAIN queue : Stands(queue[i].ev, queue[i].about, now)

(* What an attempt's fields are normalised to stands for it.               *)
LEMMA NormalizeMeans ==
  ASSUME now \in Int, NEW a \in Attempts, Understood(a), ~Refused(FieldsOf(a))
  PROVE  LET x == [ev |-> Normalize(FieldsOf(a)), about |-> a]
         IN  x \in Sent /\ Stands(x.ev, x.about, now)
<1> DEFINE f == FieldsOf(a)
           ev == Normalize(f)
<1>1. /\ f.timestamp = a.timestamp /\ f.reader = a.reader /\ f.uid = a.uid
      /\ f.result = a.result /\ f.error = a.error
      /\ a # Silent /\ a.outcome \in {"success", "failure"}
  BY AttemptFacts
<1>2. /\ a.reader \in Text /\ a.uid \in Text /\ a.error \in Text
      /\ a.timestamp \in Text /\ DefaultReaderID \in Text
  BY IngestAssumption
<1>3. ParseResult(a.result, a.error) = a.outcome
  BY DEF Understood
<1> HIDE DEF f
<1>4. /\ ev = [ts |-> ev.ts, reader |-> ev.reader, uid |-> ev.uid,
               result |-> ev.result, error |-> ev.error]
      /\ ev.ts = IF a.timestamp = "" THEN now ELSE ParseTimestamp(a.timestamp)
      /\ ev.reader = IF a.reader = "" THEN DefaultReaderID ELSE a.reader
      /\ ev.uid = a.uid /\ ev.result = ParseResult(a.result, a.error)
      /\ ev.error = a.error
  BY <1>1 DEF Normalize
<1> HIDE DEF ev
<1>5. ev.ts \in Int /\ Timely(ev.ts, a.timestamp, now)
  <2>1. CASE a.timestamp = ""
    <3>1. ev.ts = now
      BY <1>4, <2>1
    <3> QED
      BY <1>2, <2>1, <3>1, TimelyFacts
  <2>2. CASE a.timestamp # ""
    <3> DEFINE stamp == Stamps[a.timestamp]
               at == stamp.at
    <3>1. a.timestamp \in DOMAIN Stamps
      BY <1>1, <2>2 DEF Refused, Readable, f
    <3>2. /\ at \in Int /\ Zone \in Int /\ Year \in Nat \ {0}
          /\ stamp.form \in {"zoned", "unix", "syslog"} \/ (stamp.form = "local" /\ Zone = 0)
      BY <3>1, IngestAssumption DEF Understood
    <3>3. ev.ts = ParseTimestamp(a.timestamp)
      BY <1>4, <2>2
    <3>4. CASE stamp.form = "syslog"
      <4> DEFINE years == (now + Zone) \div Year
                 x == at + Zone
      <4>1. years \in Int /\ x \in Int
        BY <3>2
      <4>2. ev.ts = years * Year + (x % Year) - Zone
        BY <3>3, <3>4 DEF ParseTimestamp
      <4> HIDE DEF years
      <4>3. ev.ts \in Int
        BY <3>2, <4>1, <4>2
      <4>4. ev.ts - at = years * Year + (x % Year) - x
        BY <3>2, <4>1, <4>2
      <4> HIDE DEF x
      <4>5. (years * Year + (x % Year) - x) % Year = 0
        BY <3>2, <4>1, WholeYears
      <4>6. WholeYearsOff(ev.ts - Stamps[a.timestamp].at)
        BY <4>4, <4>5, Zenon DEF WholeYearsOff
      <4> QED
        BY <2>2, <3>4, <4>3, <4>6 DEF Timely
    <3>5. CASE stamp.form # "syslog"
      <4>1. ev.ts = at
        BY <3>2, <3>3, <3>5 DEF ParseTimestamp
      <4> QED
        BY <1>2, <2>2, <3>2, <4>1, TimelyFacts
    <3> QED
      BY <3>4, <3>5
  <2> QED
    BY <2>1, <2>2
<1>6. [ev |-> ev, about |-> a] \in Sent
  BY <1>1, <1>2, <1>3, <1>4, <1>5 DEF Sent
<1>7. Stands(ev, a, now)
  BY <1>1, <1>3, <1>4, <1>5 DEF Stands
<1> QED
  BY <1>6, <1>7 DEF ev, f

(* What is refused was no attempt that counts.                             *)
LEMMA RefusedMeans ==
  ASSUME NEW a \in Attempts, Understood(a), Refused(FieldsOf(a))
  PROVE  ~Counts(a)
<1>1. FieldsOf(a).timestamp = a.timestamp
  BY AttemptFacts
<1>2. a.timestamp # "" /\ ~Readable(a.timestamp)
  BY <1>1 DEF Refused
<1>3. a.timestamp \notin DOMAIN Stamps
  BY <1>2 DEF Readable, Understood
<1> QED
  BY <1>2, <1>3 DEF Counts

LEMMA NobodyLost ==
  ASSUME lost = {}, NEW a, ~Counts(a)
  PROVE  Lost(a) = {}
<1>1. {b \in {a} : Counts(b)} = {}
  OBVIOUS
<1> QED
  BY <1>1 DEF Lost

(* The channel after a send, a receipt, and a tick of the clock.           *)
LEMMA SendQueueInv ==
  ASSUME QueueInv, now' = now, NEW a \in Attempts, Understood(a), NEW done,
         ~Refused(FieldsOf(a)), SendNonBlocking(Normalize(FieldsOf(a)), a, done)
  PROVE  QueueInv'
<1> DEFINE x == [ev |-> Normalize(FieldsOf(a)), about |-> a]
<1>1. x \in Sent /\ Stands(x.ev, x.about, now)
  BY NormalizeMeans DEF QueueInv
<1>2. queue' \in {queue, Append(queue, x)}
  BY DEF SendNonBlocking
<1> HIDE DEF x
<1>3. CASE queue' = queue
  BY <1>3 DEF QueueInv
<1>4. CASE queue' = Append(queue, x)
  <2>1. /\ queue \in Seq(Sent) /\ now \in Int
        /\ \A i \in DOMAIN queue : Stands(queue[i].ev, queue[i].about, now)
    BY DEF QueueInv
  <2>2. /\ queue' \in Seq(Sent) /\ DOMAIN queue' = DOMAIN queue \cup {Len(queue) + 1}
        /\ queue'[Len(queue) + 1] = x
        /\ \A i \in DOMAIN queue : queue'[i] = queue[i]
    BY <1>1, <1>4, <2>1, AppendFacts
  <2>3. \A i \in DOMAIN queue' : Stands(queue'[i].ev, queue'[i].about, now)
    BY <1>1, <2>1, <2>2
  <2> QED
    BY <2>1, <2>2, <2>3 DEF QueueInv
<1> QED
  BY <1>2, <1>3, <1>4

LEMMA TakeQueueInv == QueueInv /\ Take => QueueInv'
<1> SUFFICES ASSUME QueueInv, Take PROVE QueueInv'
  OBVIOUS
<1>1. /\ queue \in Seq(Sent) /\ queue # << >> /\ queue' = Tail(queue)
      /\ now' = now /\ now \in Int
      /\ \A i \in DOMAIN queue : Stands(queue[i].ev, queue[i].about, now)
  BY DEF QueueInv, Take
<1>2. /\ queue' \in Seq(Sent)
      /\ \A i \in DOMAIN queue' : i + 1 \in DOMAIN queue /\ queue'[i] = queue[i + 1]
  BY <1>1, TailFacts
<1>3. \A i \in DOMAIN queue' : Stands(queue'[i].ev, queue'[i].about, now)
  BY <1>1, <1>2
<1> QED
  BY <1>1, <1>2, <1>3 DEF QueueInv

LEMMA TickQueueInv == QueueInv /\ Tick => QueueInv'
<1> SUFFICES ASSUME QueueInv, Tick PROVE QueueInv'
  OBVIOUS
<1>1. now \in Int /\ now' = now + 1 /\ queue' = queue /\ queue \in Seq(Sent)
  BY DEF QueueInv, Tick
<1>2. ASSUME NEW i \in DOMAIN queue PROVE Stands(queue[i].ev, queue[i].about, now')
  <2>1. Stands(queue[i].ev, queue[i].about, now)
    BY DEF QueueInv
  <2>2. queue[i] \in Sent
    BY <1>1
  <2>3. queue[i].ev.ts \in Int /\ queue[i].about.timestamp \in Text
    BY <2>2, IngestAssumption DEF Sent
  <2> QED
    BY <1>1, <2>1, <2>3, TimelyFacts DEF Stands
<1> QED
  BY <1>1, <1>2 DEF QueueInv
-----------------------------------------------------------------------------
(* The lines a goroutine may have in hand, and fields that can be sent on:  *)
(* those of an attempt, or of a header read as a record, which is refused. *)
AnyLine(s) == {Blank} \cup HeaderLines(s) \cup Lines[s]

Ready(fields, about) ==
  \/ about \in Attempts /\ Understood(about) /\ fields = FieldsOf(about)
  \/ about = Silent /\ Refused(fields)

(* The columns of every CSV sender.                                        *)
Agreed(names) ==
  \A t \in Sources : \A l \in Layouts[t] : l.format = "csv" => l.names = names

(* While there is no header, a sender that announces its columns has either *)
(* sent nothing yet or has nothing but announcements in hand.              *)
Announces(s, w, h) ==
  h = << >> /\ HeaderLines(s) # {} =>
    /\ w.n = 0 \/ w.lines # << >>
    /\ \A i \in DOMAIN w.lines : w.lines[i] \in HeaderLines(s)
    /\ w.step \in {"idle", "ended", "parse", "setHeader"}

(* A goroutine's state w, when the header is h.                            *)
IsWork(w) == w = [k \in {"step", "lines", "fields", "n"} |-> w[k]]

Shape(s, w) ==
  /\ IsWork(w)
  /\ w.lines \in Seq(AnyLine(s)) /\ w.n \in Nat
  /\ w.step \in {"idle", "ended", "parse", "setHeader", "assign", "send"}
  /\ w.step \in {"idle", "ended"} <=> w.lines = << >>

Hand(s, w, h) ==
  /\ Shape(s, w)
  /\ w.step = "setHeader" => Head(w.lines) \in HeaderLines(s)
  /\ w.step = "assign" => h # << >> /\ Head(w.lines).format = "csv"
  /\ w.step = "send" => Ready(w.fields, Head(w.lines).about)
  /\ Announces(s, w, h)

HandsInv ==
  /\ header # << >> => Agreed(header)
  /\ DOMAIN work = Sources
  /\ \A s \in Sources : Hand(s, work[s], header)

LEMMA LineMeans ==
  ASSUME WellWritten, NEW s \in Sources, NEW x \in AnyLine(s)
  PROVE  /\ x.format \in {"blank", "json", "csv", "plain"}
         /\ x.format \in {"json", "plain"} => Ready(x.text, x.about)
         /\ x.format = "csv" =>
              /\ HeaderLines(s) # {}
              /\ \A names : Agreed(names) => Ready(ByHeader(names, x.text), x.about)
         /\ x \in HeaderLines(s) =>
              /\ x.format = "csv" /\ x.about = Silent /\ x.text # << >>
              /\ looksLikeHeader(x.text) /\ Agreed(x.text)
         /\ x.about = Silent \/ x.about \in Attempts
<1>1. CASE x = Blank
  <2>1. x.format = "blank" /\ x.about = Silent
    BY <1>1 DEF Blank
  <2>2. x \notin HeaderLines(s)
    BY <2>1, AnnouncementMeans
  <2> QED
    BY <2>1, <2>2
<1>2. CASE x \in HeaderLines(s)
  <2>1. /\ x.format = "csv" /\ x.about = Silent
        /\ looksLikeHeader(x.text) /\ x.text # << >>
        /\ Refused(ByHeader(x.text, x.text))
        /\ \A t \in Sources : \A l \in Layouts[t] : l.format = "csv" => l.names = x.text
    BY <1>2, AnnouncementMeans
  <2>2. PICK l \in Layouts[s] : l.format = "csv"
    BY <1>2, LayoutFacts DEF HeaderLines
  <2>3. \A names : Agreed(names) => names = x.text
    BY <2>1, <2>2 DEF Agreed
  <2>4. \A names : Agreed(names) => Ready(ByHeader(names, x.text), x.about)
    BY <2>1, <2>3 DEF Ready
  <2> QED
    BY <1>2, <2>1, <2>4 DEF Agreed
<1>3. CASE x \in Lines[s]
  <2>1. /\ x.about \in Attempts /\ Understood(x.about)
        /\ x.format \in {"json", "csv", "plain"}
        /\ x.format # "csv" => x.text = FieldsOf(x.about)
        /\ x.format = "csv" =>
             \E l \in Layouts[s] : /\ l.format = "csv"
                                   /\ ByHeader(l.names, x.text) = FieldsOf(x.about)
    BY <1>3, DataMeans
  <2>2. x.about # Silent
    BY <2>1, AttemptFacts
  <2>3. x \notin HeaderLines(s)
    BY <2>2, AnnouncementMeans
  <2>4. ASSUME x.format = "csv"
        PROVE  /\ HeaderLines(s) # {}
               /\ \A names : Agreed(names) => Ready(ByHeader(names, x.text), x.about)
    <3>1. PICK l \in Layouts[s] : /\ l.format = "csv"
                                  /\ ByHeader(l.names, x.text) = FieldsOf(x.about)
      BY <2>1, <2>4
    <3>2. l.header
      BY <3>1 DEF WellWritten, HeadersAgree
    <3>3. \A names : Agreed(names) => names = l.names
      BY <3>1 DEF Agreed
    <3> QED
      BY <2>1, <3>1, <3>2, <3>3 DEF HeaderLines, Ready
  <2>5. x.format \in {"json", "plain"} => Ready(x.text, x.about)
    BY <2>1 DEF Ready
  <2> QED
    BY <2>1, <2>3, <2>4, <2>5
<1> QED
  BY <1>1, <1>2, <1>3 DEF AnyLine

(* A header stays, so what holds of a goroutine goes on holding.           *)
LEMMA HandStays ==
  ASSUME NEW s, NEW w, NEW h, NEW g, Hand(s, w, h), g = h \/ g # << >>
  PROVE  Hand(s, w, g)
BY DEF Hand, Announces

LEMMA WorkBecomes ==
  ASSUME HandsInv, NEW s \in Sources, NEW v, Hand(s, v, header'),
         work' = [work EXCEPT ![s] = v],
         header' = header \/ (header' # << >> /\ Agreed(header'))
  PROVE  HandsInv'
<1>1. /\ DOMAIN work' = Sources /\ work'[s] = v
      /\ \A t \in Sources \ {s} : work'[t] = work[t]
  BY DEF HandsInv
<1>2. \A t \in Sources : Hand(t, work[t], header')
  BY HandStays DEF HandsInv
<1>3. \A t \in Sources : Hand(t, work'[t], header')
  BY <1>1, <1>2
<1>4. header' # << >> => Agreed(header')
  BY DEF HandsInv
<1> QED
  BY <1>1, <1>3, <1>4 DEF HandsInv

LEMMA EmptyLength ==
  ASSUME NEW S, NEW s \in Seq(S)
  PROVE  s = << >> <=> Len(s) = 0
OBVIOUS

(* The changes a step makes to a goroutine's state.                        *)
WithStep(w, a) == [w EXCEPT !.step = a]
WithFields(w, a, b) == [w EXCEPT !.step = a, !.fields = b]
WithLines(w, a, b, c) == [w EXCEPT !.step = a, !.lines = b, !.n = c]
WithRest(w, a, b, c) == [w EXCEPT !.step = a, !.lines = b, !.fields = c]

LEMMA StepSet ==
  ASSUME NEW w, IsWork(w), NEW a
  PROVE  /\ IsWork(WithStep(w, a)) /\ WithStep(w, a).step = a
         /\ WithStep(w, a).lines = w.lines
         /\ WithStep(w, a).fields = w.fields /\ WithStep(w, a).n = w.n
BY DEF IsWork, WithStep

LEMMA FieldsSet ==
  ASSUME NEW w, IsWork(w), NEW a, NEW b
  PROVE  /\ IsWork(WithFields(w, a, b)) /\ WithFields(w, a, b).step = a
         /\ WithFields(w, a, b).lines = w.lines
         /\ WithFields(w, a, b).fields = b /\ WithFields(w, a, b).n = w.n
BY DEF IsWork, WithFields

LEMMA LinesSet ==
  ASSUME NEW w, IsWork(w), NEW a, NEW b, NEW c
  PROVE  /\ IsWork(WithLines(w, a, b, c)) /\ WithLines(w, a, b, c).step = a
         /\ WithLines(w, a, b, c).lines = b /\ WithLines(w, a, b, c).n = c
BY DEF IsWork, WithLines

LEMMA RestSet ==
  ASSUME NEW w, IsWork(w), NEW a, NEW b, NEW c
  PROVE  /\ IsWork(WithRest(w, a, b, c)) /\ WithRest(w, a, b, c).step = a
         /\ WithRest(w, a, b, c).lines = b /\ WithRest(w, a, b, c).n = w.n
BY DEF IsWork, WithRest

LEMMA DoneHand ==
  ASSUME NEW s, NEW w, NEW h, NEW over \in {"idle", "ended"}, Shape(s, w),
         w.step \notin {"idle", "ended"}, h # << >> \/ HeaderLines(s) = {}
  PROVE  Hand(s, Done(w, over), h)
<1>1. w.lines \in Seq(AnyLine(s)) /\ w.lines # << >> /\ w.n \in Nat
  BY DEF Shape
<1> DEFINE v == Done(w, over)
           rest == Tail(w.lines)
<1>2. /\ rest \in Seq(AnyLine(s)) /\ Len(w.lines) = Len(rest) + 1 /\ Len(rest) \in Nat
      /\ rest = << >> <=> Len(rest) = 0
  BY <1>1, TailFacts, EmptyLength
<1>3. Len(w.lines) = 1 <=> rest = << >>
  BY <1>2
<1>4. /\ IsWork(v)
      /\ v.step = (IF Len(w.lines) = 1 THEN over ELSE "parse")
      /\ v.lines = rest /\ v.n = w.n
  <2> DEFINE step == IF Len(w.lines) = 1 THEN over ELSE "parse"
  <2>1. v = WithRest(w, step, rest, << >>)
    BY DEF Done, WithRest
  <2> HIDE DEF step, v, rest
  <2>0. IsWork(w)
    BY DEF Shape
  <2>2. IsWork(v) /\ v.step = step /\ v.lines = rest /\ v.n = w.n
    BY ONLY <2>0, <2>1, RestSet
  <2> QED
    BY <2>2 DEF step
<1> HIDE DEF v, rest
<1>5. Shape(s, v) /\ v.step \in {"idle", "ended", "parse"}
  BY <1>1, <1>2, <1>3, <1>4 DEF Shape
<1>6. Hand(s, v, h)
  BY <1>5 DEF Hand, Announces
<1> QED
  BY <1>6 DEF v

LEMMA OverMeans ==
  ASSUME NEW s, NEW offered
  PROVE  Over(s, offered) \in {"idle", "ended"}
BY DEF Over

LEMMA ReadStep ==
  ASSUME HandsInv, NEW s \in Sources, NEW lines \in Seq(Written(s)), lines # << >>,
         Read(s, lines)
  PROVE  HandsInv'
<1> DEFINE w == work[s]
           v == WithLines(w, "parse", lines, w.n + Len(lines))
<1>1. Hand(s, w, header) /\ Shape(s, w) /\ IsWork(w) /\ w.n \in Nat
  BY DEF HandsInv, Hand, Shape
<1>2. w.step = "idle" /\ w.lines = << >>
  BY <1>1 DEF Read, Shape
<1>3. Written(s) \subseteq AnyLine(s)
  BY DEF Written, AnyLine
<1>4. lines \in Seq(AnyLine(s)) /\ Len(lines) \in Nat
  BY <1>3
<1>5. /\ work' = [work EXCEPT ![s] = v] /\ header' = header
  BY DEF Read, WithLines
<1>6. IsWork(v) /\ v.step = "parse" /\ v.lines = lines /\ v.n = w.n + Len(lines)
  BY <1>1, LinesSet
<1> HIDE DEF v
<1>7. Shape(s, v)
  BY <1>1, <1>4, <1>6 DEF Shape
<1>8. Announces(s, v, header)
  <2> SUFFICES ASSUME header = << >>, HeaderLines(s) # {}
               PROVE  \A i \in DOMAIN lines : lines[i] \in HeaderLines(s)
    BY <1>6 DEF Announces
  <2>1. w.n = 0
    BY <1>1, <1>2 DEF Hand, Announces
  <2>2. Written(s) = HeaderLines(s)
    BY <2>1 DEF Written
  <2> QED
    BY <2>2
<1>9. Hand(s, v, header')
  BY <1>5, <1>6, <1>7, <1>8 DEF Hand
<1> QED
  BY <1>5, <1>9, WorkBecomes

LEMMA ParseLineStep ==
  ASSUME WellWritten, HandsInv, NEW s \in Sources, ParseLine(s)
  PROVE  HandsInv'
<1> DEFINE w == work[s]
           x == Head(w.lines)
<1>1. Hand(s, w, header) /\ Shape(s, w) /\ IsWork(w)
  BY DEF HandsInv, Hand, Shape
<1>2. w.step = "parse" /\ header' = header
  BY DEF ParseLine
<1>3. w.lines \in Seq(AnyLine(s)) /\ w.lines # << >> /\ x \in AnyLine(s)
  BY <1>1, <1>2, TailFacts DEF Shape
<1>4. /\ x.format \in {"blank", "json", "csv", "plain"}
      /\ x.format \in {"json", "plain"} => Ready(x.text, x.about)
      /\ x.format = "csv" => HeaderLines(s) # {}
      /\ x \in HeaderLines(s) => x.format = "csv" /\ looksLikeHeader(x.text)
  BY <1>3, LineMeans
<1>5. header = << >> /\ HeaderLines(s) # {} => x \in HeaderLines(s)
  <2>1. 1 \in DOMAIN w.lines /\ x = w.lines[1]
    BY <1>3
  <2> QED
    BY <1>1, <2>1 DEF Hand, Announces
<1>6. work' = [work EXCEPT ![s] =
        CASE x.format = "blank" -> Done(w, Over(s, FALSE))
          [] x.format \in {"json", "plain"} -> WithFields(w, "send", x.text)
          [] x.format = "csv" ->
               WithStep(w, IF TakesHeader(header, x.text) THEN "setHeader" ELSE "assign")]
  BY DEF ParseLine, Current, WithFields, WithStep
<1>7. CASE x.format = "blank"
  <2>1. header # << >> \/ HeaderLines(s) = {}
    BY <1>4, <1>5, <1>7
  <2>2. Hand(s, Done(w, Over(s, FALSE)), header')
    BY <1>1, <1>2, <2>1, DoneHand, OverMeans
  <2>3. work' = [work EXCEPT ![s] = Done(w, Over(s, FALSE))]
    BY <1>6, <1>7
  <2> HIDE DEF w
  <2> QED
    BY <1>2, <2>2, <2>3, WorkBecomes
<1>8. CASE x.format \in {"json", "plain"}
  <2> DEFINE v == WithFields(w, "send", x.text)
  <2>1. work' = [work EXCEPT ![s] = v]
    BY <1>6, <1>8
  <2>2. /\ IsWork(v) /\ v.step = "send" /\ v.lines = w.lines
        /\ v.fields = x.text /\ v.n = w.n
    BY <1>1, FieldsSet
  <2> HIDE DEF v
  <2>3. Shape(s, v)
    BY <1>1, <1>3, <2>2 DEF Shape
  <2>4. Announces(s, v, header)
    BY <1>4, <1>5, <1>8 DEF Announces
  <2>5. Hand(s, v, header')
    BY <1>2, <1>4, <1>8, <2>2, <2>3, <2>4 DEF Hand
  <2> QED
    BY <1>2, <2>1, <2>5, WorkBecomes
<1>9. CASE x.format = "csv"
  <2> DEFINE step == IF TakesHeader(header, x.text) THEN "setHeader" ELSE "assign"
             v == WithStep(w, step)
  <2>1. work' = [work EXCEPT ![s] = v]
    BY <1>6, <1>9
  <2>2. IsWork(v) /\ v.step = step /\ v.lines = w.lines /\ v.n = w.n
    BY <1>1, StepSet
  <2>3. /\ step \in {"setHeader", "assign"}
        /\ step = "setHeader" => header = << >> /\ x \in HeaderLines(s)
        /\ step = "assign" => header # << >>
    BY <1>4, <1>5, <1>9 DEF TakesHeader
  <2> HIDE DEF v, step
  <2>4. Shape(s, v)
    BY <1>1, <1>3, <2>2, <2>3 DEF Shape
  <2>5. Announces(s, v, header)
    <3>1. Announces(s, w, header)
      BY <1>1 DEF Hand
    <3> QED
      BY <1>3, <2>2, <2>3, <3>1 DEF Announces
  <2>6. Hand(s, v, header')
    BY <1>2, <1>9, <2>2, <2>3, <2>4, <2>5 DEF Hand
  <2> QED
    BY <1>2, <2>1, <2>6, WorkBecomes
<1> QED
  BY <1>4, <1>7, <1>8, <1>9

LEMMA SetHeaderStep ==
  ASSUME WellWritten, HandsInv, lost = {}, NEW s \in Sources, SetHeader(s)
  PROVE  HandsInv' /\ lost' = {}
<1> DEFINE w == work[s]
           x == Head(w.lines)
<1>1. Hand(s, w, header) /\ Shape(s, w)
  BY DEF HandsInv, Hand
<1>2. /\ w.step = "setHeader" /\ header' = x.text /\ lost' = Lost(x.about)
      /\ work' = [work EXCEPT ![s] = Done(w, Over(s, FALSE))]
  BY DEF SetHeader, Current
<1>3. x \in HeaderLines(s)
  BY <1>1, <1>2 DEF Hand
<1>4. x \in AnyLine(s)
  BY <1>3 DEF AnyLine
<1>5. x.about = Silent /\ x.text # << >> /\ Agreed(x.text)
  BY <1>3, <1>4, LineMeans
<1>6. Hand(s, Done(w, Over(s, FALSE)), header')
  BY <1>1, <1>2, <1>5, DoneHand, OverMeans
<1>7. lost' = {}
  BY <1>2, <1>5, NobodyLost DEF Counts
<1> HIDE DEF w
<1>8. HandsInv'
  BY <1>2, <1>5, <1>6, WorkBecomes
<1> QED
  BY <1>7, <1>8

LEMMA AssignStep ==
  ASSUME WellWritten, HandsInv, NEW s \in Sources, Assign(s)
  PROVE  HandsInv'
<1> DEFINE w == work[s]
           x == Head(w.lines)
           fields == parseCSV(header, x.text)
           v == WithFields(w, "send", fields)
<1>1. Hand(s, w, header) /\ Shape(s, w) /\ IsWork(w)
  BY DEF HandsInv, Hand, Shape
<1>2. /\ w.step = "assign" /\ header' = header /\ work' = [work EXCEPT ![s] = v]
  BY DEF Assign, Current, WithFields
<1>3. w.lines \in Seq(AnyLine(s)) /\ w.lines # << >> /\ x \in AnyLine(s)
  BY <1>1, <1>2, TailFacts DEF Shape
<1>4. header # << >> /\ x.format = "csv" /\ Agreed(header)
  BY <1>1, <1>2 DEF Hand, HandsInv
<1>5. fields = ByHeader(header, x.text)
  BY <1>4 DEF parseCSV
<1>6. Ready(fields, x.about)
  BY <1>3, <1>4, <1>5, LineMeans
<1> HIDE DEF fields
<1>7. /\ IsWork(v) /\ v.step = "send" /\ v.lines = w.lines
      /\ v.fields = fields /\ v.n = w.n
  BY <1>1, FieldsSet
<1> HIDE DEF v
<1>8. Shape(s, v)
  BY <1>1, <1>3, <1>7 DEF Shape
<1>9. Hand(s, v, header')
  BY <1>2, <1>4, <1>6, <1>7, <1>8 DEF Hand, Announces
<1> QED
  BY <1>2, <1>9, WorkBecomes

LEMMA SendStep ==
  ASSUME WellWritten, HandsInv, QueueInv, lost = {}, NEW s \in Sources,
         NormalizeAndSend(s)
  PROVE  HandsInv' /\ QueueInv' /\ lost' = {}
<1> DEFINE w == work[s]
           x == Head(w.lines)
<1>1. Hand(s, w, header) /\ Shape(s, w)
  BY DEF HandsInv, Hand
<1>2. /\ w.step = "send" /\ header' = header /\ now' = now
      /\ work' = [work EXCEPT ![s] = Done(w, Over(s, ~Refused(w.fields)))]
      /\ IF Refused(w.fields) THEN lost' = Lost(x.about) /\ queue' = queue
         ELSE SendNonBlocking(Normalize(w.fields), x.about, stopping) /\ lost' = lost
  BY DEF NormalizeAndSend, Current
<1>3. Ready(w.fields, x.about)
  BY <1>1, <1>2 DEF Hand
<1>4. header # << >> \/ HeaderLines(s) = {}
  BY <1>1, <1>2 DEF Hand, Announces
<1>5. Hand(s, Done(w, Over(s, ~Refused(w.fields))), header')
  BY <1>1, <1>2, <1>4, DoneHand, OverMeans
<1> HIDE DEF w, x
<1>6. HandsInv'
  BY <1>2, <1>5, WorkBecomes
<1>7. CASE Refused(w.fields)
  <2>1. ~Counts(x.about)
    BY <1>3, <1>7, RefusedMeans DEF Ready, Counts
  <2>2. lost' = {}
    BY <1>2, <1>7, <2>1, NobodyLost
  <2>3. QueueInv'
    BY <1>2, <1>7 DEF QueueInv
  <2> QED
    BY <1>6, <2>2, <2>3
<1>8. CASE ~Refused(w.fields)
  <2>1. /\ x.about \in Attempts /\ Understood(x.about)
        /\ w.fields = FieldsOf(x.about)
    BY <1>3, <1>8 DEF Ready
  <2>2. SendNonBlocking(Normalize(FieldsOf(x.about)), x.about, stopping) /\ lost' = {}
    BY <1>2, <1>8, <2>1
  <2>3. QueueInv'
    BY <1>2, <1>8, <2>1, <2>2, SendQueueInv
  <2> QED
    BY <1>6, <2>2, <2>3
<1> QED
  BY <1>7, <1>8

LEMMA ProcessMapStep ==
  ASSUME WellWritten, CallsInv, HandsInv, QueueInv, lost = {}, NEW c \in Calls,
         ProcessMap(c)
  PROVE  HandsInv' /\ QueueInv' /\ lost' = {}
<1> DEFINE x == Head(call[c].objects)
<1>1. call[c].objects \in Seq(Lines[c])
  BY DEF CallsInv, CallRecord
<1>2. call[c].objects # << >>
  BY DEF ProcessMap
<1>3. x \in Lines[c]
  BY <1>1, <1>2, TailFacts
<1>4. /\ header' = header /\ now' = now /\ work' = work
      /\ IF Refused(x.text) THEN lost' = Lost(x.about) /\ queue' = queue
         ELSE SendNonBlocking(Normalize(x.text), x.about, FALSE) /\ lost' = lost
  BY DEF ProcessMap
<1> HIDE DEF x
<1>5. x.about \in Attempts /\ Understood(x.about) /\ x.text = FieldsOf(x.about)
  BY <1>3, DataMeans, PostedLines
<1>6. HandsInv'
  BY <1>4 DEF HandsInv
<1>7. CASE Refused(x.text)
  <2>1. lost' = {}
    BY <1>4, <1>5, <1>7, RefusedMeans, NobodyLost
  <2>2. QueueInv'
    BY <1>4, <1>7 DEF QueueInv
  <2> QED
    BY <1>6, <2>1, <2>2
<1>8. CASE ~Refused(x.text)
  <2>1. SendNonBlocking(Normalize(FieldsOf(x.about)), x.about, FALSE) /\ lost' = {}
    BY <1>4, <1>5, <1>8
  <2>2. QueueInv'
    BY <1>4, <1>5, <1>8, <2>1, SendQueueInv
  <2> QED
    BY <1>6, <2>1, <2>2
<1> QED
  BY <1>7, <1>8

(* What lines and bodies say reaches the channel as it was meant.          *)
IngestInv == CallsInv /\ HandsInv /\ QueueInv /\ lost = {}

LEMMA InitIngestInv == Init => IngestInv
<1> SUFFICES ASSUME Init PROVE IngestInv
  OBVIOUS
<1>1. CallsInv
  BY DEF Init, CallsInv, CallRecord, Adds
<1>2. header = << >> /\ lost = {} /\ DOMAIN work = Sources
  BY DEF Init
<1>3. QueueInv
  BY DEF Init, QueueInv
<1>4. ASSUME NEW s \in Sources PROVE Hand(s, work[s], header)
  <2>1. work[s] = [step |-> "idle", lines |-> << >>, fields |-> << >>, n |-> 0]
    BY DEF Init
  <2>2. Shape(s, work[s])
    BY <2>1 DEF Shape, IsWork
  <2>3. Announces(s, work[s], header)
    BY <2>1 DEF Announces
  <2> QED
    BY <2>1, <2>2, <2>3 DEF Hand
<1> QED
  BY <1>1, <1>2, <1>3, <1>4 DEF IngestInv, HandsInv

LEMMA ReaderStep ==
  ASSUME WellWritten, HandsInv, QueueInv, lost = {}, NEW s \in Sources,
         ReadSyslog(s) \/ ReadStream(s) \/ ReadMessage(s) \/ GoesOn(s)
  PROVE  HandsInv' /\ QueueInv' /\ lost' = {}
<1>1. ASSUME NEW lines \in Seq(Written(s)), lines # << >>, Read(s, lines)
      PROVE  HandsInv' /\ QueueInv' /\ lost' = {}
  <2>1. HandsInv'
    BY <1>1, ReadStep
  <2> QED
    BY <1>1, <2>1 DEF Read, QueueInv
<1>2. CASE ReadSyslog(s)
  <2>1. PICK k \in 1 .. 2 : \E lines \in [1 .. k -> Written(s)] : Read(s, lines)
    BY <1>2 DEF ReadSyslog
  <2>2. PICK lines \in [1 .. k -> Written(s)] : Read(s, lines)
    BY <2>1
  <2>3. lines \in Seq(Written(s)) /\ lines # << >>
    OBVIOUS
  <2> QED
    BY <1>1, <2>2, <2>3
<1>3. CASE ReadStream(s) \/ ReadMessage(s)
  <2>1. PICK line \in Written(s) : Read(s, <<line>>)
    BY <1>3 DEF ReadStream, ReadMessage
  <2>2. <<line>> \in Seq(Written(s)) /\ <<line>> # << >>
    OBVIOUS
  <2> QED
    BY <1>1, <2>1, <2>2
<1>4. CASE ParseLine(s)
  BY <1>4, ParseLineStep DEF ParseLine, QueueInv
<1>5. CASE SetHeader(s)
  BY <1>5, SetHeaderStep DEF SetHeader, QueueInv
<1>6. CASE Assign(s)
  BY <1>6, AssignStep DEF Assign, QueueInv
<1>7. CASE NormalizeAndSend(s)
  BY <1>7, SendStep
<1> QED
  BY <1>2, <1>3, <1>4, <1>5, <1>6, <1>7 DEF GoesOn

LEMMA NextIngestInv == WellWritten /\ IngestInv /\ [Next]_vars => IngestInv'
<1> SUFFICES ASSUME WellWritten, IngestInv, [Next]_vars PROVE IngestInv'
  OBVIOUS
<1>0. CallsInv /\ HandsInv /\ QueueInv /\ lost = {} /\ CallsInv'
  BY NextCallsInv DEF IngestInv
<1> SUFFICES HandsInv' /\ QueueInv' /\ lost' = {}
  BY <1>0 DEF IngestInv
<1>1. ASSUME NEW s \in Sources,
             ReadSyslog(s) \/ ReadStream(s) \/ ReadMessage(s) \/ GoesOn(s)
      PROVE  HandsInv' /\ QueueInv' /\ lost' = {}
  BY <1>0, <1>1, ReaderStep
<1>2. ASSUME NEW c \in Calls, HandleEvents(c) \/ Answer(c)
      PROVE  HandsInv' /\ QueueInv' /\ lost' = {}
  BY <1>0, <1>2 DEF HandleEvents, Answer, HandsInv, QueueInv
<1>3. ASSUME NEW c \in Calls, ProcessMap(c)
      PROVE  HandsInv' /\ QueueInv' /\ lost' = {}
  BY <1>0, <1>3, ProcessMapStep
<1>4. CASE Take
  BY <1>0, <1>4, TakeQueueInv DEF Take, HandsInv
<1>5. CASE Tick
  BY <1>0, <1>5, TickQueueInv DEF Tick, HandsInv
<1>6. CASE Shutdown \/ UNCHANGED vars
  BY <1>0, <1>6 DEF Shutdown, vars, HandsInv, QueueInv
<1>7. Syslog \subseteq Sources /\ Streams \subseteq Sources /\ Kafka \subseteq Sources
  BY DEF Sources
<1> QED
  BY <1>1, <1>2, <1>3, <1>4, <1>5, <1>6, <1>7 DEF Next

(* The invariant's parts are what the properties ask.                      *)
LEMMA IngestInvMeans == IngestInv => AsMeant /\ NothingLost
<1> SUFFICES ASSUME IngestInv PROVE AsMeant /\ NothingLost
  OBVIOUS
<1>1. \A i \in DOMAIN queue : Stands(queue[i].ev, queue[i].about, now)
  BY DEF IngestInv, QueueInv
<1>2. AsMeant
  BY <1>1 DEF AsMeant, Stands, Timely, WholeYearsOff
<1>3. NothingLost
  BY DEF IngestInv, NothingLost
<1> QED
  BY <1>2, <1>3

(* Between senders that write well the invariant holds throughout.         *)
THEOREM SpecIngestInv ==
  ASSUME WellWritten
  PROVE  Spec => []IngestInv
<1>1. WellWritten
  OBVIOUS
<1> QED
  BY <1>1, InitIngestInv, NextIngestInv, PTL DEF Spec

(* Where senders write well, every event on the channel stands for an      *)
(* attempt someone reported, whichever format and header it came with      *)
(* (parser.go:145-156, normalize.go:24-72).                                *)
THEOREM SpecAsMeant == Spec => []AsMeant
<1>1. CASE WellWritten
  <2>1. Spec => []IngestInv
    BY <1>1, SpecIngestInv
  <2> QED
    BY <2>1, IngestInvMeans, PTL
<1>2. CASE ~WellWritten
  <2>1. AsMeant
    BY <1>2 DEF AsMeant
  <2> QED
    BY <2>1, PTL
<1> QED
  BY <1>1, <1>2

(* And no attempt is lost, however the goroutines race for the header and  *)
(* however often it is brought again, unless the channel is full or the    *)
(* program ends (parser.go:133-156).                                       *)
THEOREM SpecNothingLost == Spec => []NothingLost
<1>1. CASE WellWritten
  <2>1. Spec => []IngestInv
    BY <1>1, SpecIngestInv
  <2> QED
    BY <2>1, IngestInvMeans, PTL
<1>2. CASE ~WellWritten
  <2>1. NothingLost
    BY <1>2 DEF NothingLost
  <2> QED
    BY <2>1, PTL
<1> QED
  BY <1>1, <1>2
=============================================================================
