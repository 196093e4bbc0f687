------------------------------ MODULE MCIngest ------------------------------
(* Ingest for TLC: attempts, the texts of their timestamps and the ways    *)
(* they are written.                                                       *)
EXTENDS Ingest

Attempt(ts, r, u, res, err, out) ==
  [timestamp |-> ts, reader |-> r, uid |-> u, result |-> res, error |-> err,
   outcome |-> out]

(* A year is three ticks: the clock runs into the second one.               *)
MCStamps == [zoned2  |-> [form |-> "zoned", at |-> 2],
             unix2   |-> [form |-> "unix", at |-> 2],
             syslog1 |-> [form |-> "syslog", at |-> 1]]

MCAttempts == {Attempt("zoned2", "r1", "u1", "error", "E1", "failure"),
               Attempt("unix2", "r1", "u2", "ok", "", "success"),
               Attempt("syslog1", "r2", "u1", "", "E2", "failure"),
               Attempt("never", "r1", "u2", "", "", "success")}

ColumnNames == <<"ts", "card", "reader", "status", "err">>
Layout(format, names, announced, stamps) ==
  [format |-> format, names |-> names, header |-> announced, stamps |-> stamps]

Announced(stamps) == Layout("csv", ColumnNames, TRUE, stamps)
JSON(stamps) == Layout("json", ColumnNames, FALSE, stamps)
Plain == Layout("plain", <<"card", "status", "err">>, FALSE, {"syslog1"})
BareCSV == Layout("csv", Positions, FALSE, {"zoned2", "unix2"})

MCLayouts ==
  [x \in Sources \cup Calls |->
     CASE x \in Syslog -> {Plain}
       [] x \in Streams -> {Announced({"zoned2"})}
       [] x \in Kafka -> {Announced({"unix2"})}
       [] OTHER -> {JSON({"unix2", "never"})}]
MCLines == [x \in Sources \cup Calls |-> IF x \in Kafka THEN 1 ELSE 2]
BareLayouts == [x \in Sources \cup Calls |-> {BareCSV}]
=============================================================================
