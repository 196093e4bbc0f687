--------------------------- MODULE SlidingWindow ---------------------------
(***************************************************************************)
(* What a sliding window promises to the detection rules: it holds the     *)
(* events that count, in the order they were processed, and it reports     *)
(* the size, the failures and the distinct UIDs of exactly those events.   *)
(*                                                                         *)
(* An event first drops the longest prefix of entries that are older than  *)
(* Duration before its own timestamp, and is then appended.  Entries that  *)
(* are old but stand behind a younger one stay: the promise is about       *)
(* prefixes, as the code's is, and not about an exact time interval.       *)
(***************************************************************************)
EXTENDS Integers, Sequences, FiniteSets

CONSTANTS
  Duration,   \* length of the window, in clock ticks
  UIDs,       \* card identifiers
  NoUID       \* the empty UID of an event that carries none

VARIABLES
  live,       \* the entries that count, oldest arrival first
  report      \* the figures computed for the latest event

svars == <<live, report>>

Results == {"success", "failure"}

Entry == [ts : Int, uid : UIDs \cup {NoUID}, result : Results]

(* The figures a rule sees for a sequence of entries.                      *)
Measure(s) ==
  [attempts |-> Len(s),
   failures |-> Cardinality({i \in DOMAIN s : s[i].result = "failure"}),
   uids     |-> Cardinality({s[i].uid : i \in DOMAIN s} \ {NoUID})]

NoReport == [attempts |-> 0, failures |-> 0, uids |-> 0]

SInit ==
  /\ live = << >>
  /\ report = NoReport

(* The longest prefix of live that is older than cutoff has length d.      *)
DropsTo(d, cutoff) ==
  /\ \A i \in 1 .. d : live[i].ts < cutoff
  /\ d < Len(live) => live[d + 1].ts >= cutoff

SNext ==
  /\ live' # << >>
  /\ LET e == live'[Len(live')]
     IN  /\ e \in Entry
         /\ \E d \in 0 .. Len(live) :
              /\ DropsTo(d, e.ts - Duration)
              /\ live' = Append(SubSeq(live, d + 1, Len(live)), e)
  /\ report' = Measure(live')

SSpec == SInit /\ [][SNext]_svars
=============================================================================
