---------------------------- MODULE EngineProofs ----------------------------
(***************************************************************************)
(* Theorems about Engine: for every set of readers and configurations, any *)
(* number of admin calls at a time and any number of restarts.             *)
(*                                                                         *)
(* StaleOneReader speaks of the moments when no handler runs.  Inductive   *)
(* is what leads there (StaleInv): one reader, that of the event which was *)
(* in hand at the latest restart, is the only one that can have stale      *)
(* figures or alerts which no clear still to come will remove.  Between    *)
(* two updates of a figure its window runs ahead of it by the event in     *)
(* hand; FiguresInv says when, and that is what FiguresMoveOn rests on.    *)
(***************************************************************************)
EXTENDS Engine, TLAPS, FiniteSetTheorems, WellFoundedInduction

(* What an admin call may still have to do.                                *)
Queues == {RestartSteps, <<"cooldown", "dedupe", "metrics", "alerts">>,
           <<"dedupe", "metrics", "alerts">>, <<"metrics", "alerts">>,
           <<"alerts">>, <<"metrics">>, << >>}

Has(q, step) == \E i \in DOMAIN q : q[i] = step

(* The pipeline is at a point where it uses the windows of its reader.     *)
UsesReader == pc \in {"streak", "windows"} \/ (pc \in {"allow", "emit"} /\ want # "access")

HeapInv ==
  /\ DOMAIN heap \subseteq Readers \X (0 .. epoch)
  /\ \A o \in DOMAIN heap :
       /\ DOMAIN heap[o] \subseteq Secs
       /\ \A s \in DOMAIN heap[o] : heap[o][s] \in WindowsOf(s)

StoresInv ==
  /\ DOMAIN metrics = Readers
  /\ \A r \in Readers : /\ DOMAIN metrics[r] \subseteq Secs
                         /\ \A s \in DOMAIN metrics[r] :
                              metrics[r][s] \in [epoch : 0 .. epoch, fed : Nat]
  /\ alerts \subseteq Readers \X (0 .. epoch)

ConfigInv ==
  /\ cfg \in Configs /\ access \in Configs
  /\ update \in [Updaters -> {<< >>} \cup {<<c>> : c \in Configs}]

PipeInv ==
  /\ held \in 0 .. epoch
  /\ pc \in {"idle", "dedupe", "access", "allow", "emit", "reader", "streak",
             "windows"}
  /\ IF pc = "idle" THEN ev = Nothing /\ snap = Nothing
                    ELSE ev \in Events /\ snap \in Configs
  /\ IF pc \in {"allow", "emit"} THEN want \in Kinds ELSE want = Nothing
  /\ todo \subseteq Secs
  /\ UsesReader => Obj \in DOMAIN heap /\ SecsOf(snap) \subseteq DOMAIN heap[Obj]
  /\ UsesReader /\ pc # "streak" => todo \subseteq DOMAIN heap[Obj]

AdminInv ==
  /\ admin \in [Admins -> Queues]
  /\ epoch \in Nat /\ epoch + Cardinality(Pending) <= MaxRestarts

TypeInv ==
  /\ HeapInv /\ StoresInv /\ ConfigInv /\ PipeInv /\ AdminInv
  /\ muted \in BOOLEAN /\ cached \in BOOLEAN

StaleInv ==
  \E r : /\ (\A a \in Admins : ~Has(admin[a], "metrics")) => StaleMetrics \subseteq {r}
         /\ (\A a \in Admins : ~Has(admin[a], "alerts")) => StaleAlerts \subseteq {r}
         /\ pc # "idle" /\ held < epoch => ev.reader = r

(* The window s of the ReaderState o has been fed the event in hand.       *)
Counted(o, s) == UsesReader /\ o = Obj /\ pc # "streak" /\ s \notin todo

(* A figure counts what its window did, up to the event in hand, as long   *)
(* as that window can be reached at all.                                   *)
FigureAt(r, s) ==
  LET m == metrics[r][s]
      o == <<r, m.epoch>>
  IN  /\ UsesReader => m.epoch <= held
      /\ m.epoch = epoch => o \in DOMAIN heap
      /\ o \in DOMAIN heap =>
           /\ s \in DOMAIN heap[o]
           /\ heap[o][s].fed = IF Counted(o, s) THEN m.fed + 1 ELSE m.fed

FiguresInv == \A r \in Readers : \A s \in DOMAIN metrics[r] : FigureAt(r, s)

IInv == TypeInv /\ StaleInv /\ FiguresInv

-----------------------------------------------------------------------------
(* The first and the last of some positions.                               *)
LEMMA Least ==
  ASSUME NEW S \in SUBSET Nat, S # {}
  PROVE  \E i \in S : \A j \in S : j >= i
<1> DEFINE Less == OpToRel(<, Nat)
<1>1. \A x, y \in Nat : <<x, y>> \in Less <=> x < y
  BY DEF OpToRel
<1>2. IsWellFoundedOn(Less, Nat)
  BY NatLessThanWellFounded
<1> HIDE DEF Less
<1>3. \E i \in S : \A j \in S : <<j, i>> \notin Less
  BY <1>2, WFMin
<1>4. \A i, j \in S : <<j, i>> \notin Less => j >= i
  BY <1>1
<1> QED
  BY <1>3, <1>4

LEMMA FirstAndLast ==
  ASSUME NEW n \in Nat, NEW S \in SUBSET (1 .. n), S # {}
  PROVE  /\ \E i \in S : \A j \in S : j >= i
         /\ \E i \in S : \A j \in S : j <= i
<1>1. \E i \in S : \A j \in S : j >= i
  BY Least
<1>2. \E i \in S : \A j \in S : j <= i
  <2> DEFINE T == {n - i : i \in S}
  <2>1. T \in SUBSET Nat /\ T # {}
    <3>1. \A i \in S : n - i \in Nat
      OBVIOUS
    <3> QED
      BY <3>1
  <2>2. \A i \in S : n - i \in T
    OBVIOUS
  <2>3. \A k \in T : \E i \in S : k = n - i
    OBVIOUS
  <2> HIDE DEF T
  <2>4. PICK k \in T : \A l \in T : l >= k
    BY <2>1, Least
  <2>5. PICK i \in S : k = n - i
    BY <2>3
  <2>6. ASSUME NEW j \in S PROVE j <= i
    <3>1. n - j >= n - i
      BY <2>2, <2>4, <2>5
    <3> QED
      BY <3>1
  <2> QED
    BY <2>6
<1> QED
  BY <1>1, <1>2

LEMMA ConfigWindows ==
  ASSUME NEW c \in Configs
  PROVE  /\ c.windows \in Seq(Nat \ {0}) /\ SecsOf(c) \subseteq Secs
         /\ DOMAIN c.windows = 1 .. Len(c.windows) /\ Len(c.windows) \in Nat
<1>1. c.windows \in Seq(Nat \ {0})
  BY EngineAssumption
<1>2. DOMAIN c.windows = 1 .. Len(c.windows) /\ Len(c.windows) \in Nat
  BY <1>1
<1>3. SecsOf(c) \subseteq Secs
  BY DEF Secs
<1> QED
  BY <1>1, <1>2, <1>3

LEMMA NewWindowMeans ==
  ASSUME NEW d \in Nat \ {0}
  PROVE  NewWindow(d) \in WindowsOf(Sec(d))
<1>1. NewWindow(d) = [span |-> d, fed |-> 0]
  BY DEF NewWindow
<1>2. [span |-> d, fed |-> 0] \in [span : Nat \ {0}, fed : Nat]
  OBVIOUS
<1>3. NewWindow(d).span = d
  BY <1>1
<1> QED
  BY <1>1, <1>2, <1>3 DEF WindowsOf

(* Whichever duration of a second is kept, it is one of that second.       *)
LEMMA FreshMeans ==
  ASSUME NEW c \in Configs
  PROVE  /\ DOMAIN Fresh(c) = SecsOf(c)
         /\ \A s \in SecsOf(c) : Fresh(c)[s] \in WindowsOf(s)
<1>1. DOMAIN Fresh(c) = SecsOf(c)
  BY DEF Fresh
<1>2. ASSUME NEW s \in SecsOf(c) PROVE Fresh(c)[s] \in WindowsOf(s)
  <2> DEFINE S == {i \in DOMAIN c.windows : Sec(c.windows[i]) = s}
             IsLast(i) == /\ Sec(c.windows[i]) = s
                          /\ \A j \in DOMAIN c.windows :
                               Sec(c.windows[j]) = s => j <= i
             last == CHOOSE i \in DOMAIN c.windows : IsLast(i)
  <2>1. S # {} /\ S \subseteq 1 .. Len(c.windows) /\ Len(c.windows) \in Nat
    BY ConfigWindows DEF SecsOf
  <2>2. PICK i \in S : \A j \in S : j <= i
    <3> HIDE DEF S
    <3> QED
      BY <2>1, FirstAndLast
  <2>3. IsLast(i) /\ i \in DOMAIN c.windows
    BY <2>2
  <2>4. IsLast(last) /\ last \in DOMAIN c.windows
    <3> HIDE DEF IsLast
    <3> QED
      BY <2>3
  <2>5. Fresh(c)[s] = NewWindow(c.windows[last])
    BY DEF Fresh
  <2>6. c.windows[last] \in Nat \ {0} /\ Sec(c.windows[last]) = s
    BY <2>4, ConfigWindows
  <2> QED
    BY <2>5, <2>6, NewWindowMeans
<1> QED
  BY <1>1, <1>2

LEMMA MissingMeans ==
  ASSUME NEW c \in Configs, NEW w
  PROVE  /\ DOMAIN Missing(c, w) = SecsOf(c) \ DOMAIN w
         /\ \A s \in SecsOf(c) \ DOMAIN w : Missing(c, w)[s] \in WindowsOf(s)
<1>1. DOMAIN Missing(c, w) = SecsOf(c) \ DOMAIN w
  BY DEF Missing
<1>2. ASSUME NEW s \in SecsOf(c) \ DOMAIN w
      PROVE  Missing(c, w)[s] \in WindowsOf(s)
  <2> DEFINE S == {i \in DOMAIN c.windows : Sec(c.windows[i]) = s}
             IsFirst(i) == /\ Sec(c.windows[i]) = s
                           /\ \A j \in DOMAIN c.windows :
                                Sec(c.windows[j]) = s => j >= i
             first == CHOOSE i \in DOMAIN c.windows : IsFirst(i)
  <2>1. S # {} /\ S \subseteq 1 .. Len(c.windows) /\ Len(c.windows) \in Nat
    BY ConfigWindows DEF SecsOf
  <2>2. PICK i \in S : \A j \in S : j >= i
    <3> HIDE DEF S
    <3> QED
      BY <2>1, FirstAndLast
  <2>3. IsFirst(i) /\ i \in DOMAIN c.windows
    BY <2>2
  <2>4. IsFirst(first) /\ first \in DOMAIN c.windows
    <3> HIDE DEF IsFirst
    <3> QED
      BY <2>3
  <2>5. Missing(c, w)[s] = NewWindow(c.windows[first])
    BY DEF Missing
  <2>6. c.windows[first] \in Nat \ {0} /\ Sec(c.windows[first]) = s
    BY <2>4, ConfigWindows
  <2> QED
    BY <2>5, <2>6, NewWindowMeans
<1> QED
  BY <1>1, <1>2

(* A hot reload adds windows and leaves those there are as they are.       *)
LEMMA ExtendedMeans ==
  ASSUME NEW c \in Configs, NEW w
  PROVE  /\ DOMAIN Extended(w, c) = DOMAIN w \cup SecsOf(c)
         /\ \A s \in DOMAIN w : Extended(w, c)[s] = w[s]
         /\ \A s \in SecsOf(c) \ DOMAIN w : Extended(w, c)[s] \in WindowsOf(s)
<1> DEFINE m == Missing(c, w)
<1>1. /\ DOMAIN m = SecsOf(c) \ DOMAIN w
      /\ \A s \in SecsOf(c) \ DOMAIN w : m[s] \in WindowsOf(s)
  BY MissingMeans
<1>2. Extended(w, c) = [s \in DOMAIN w \cup DOMAIN m |->
                          IF s \in DOMAIN w THEN w[s] ELSE m[s]]
  BY DEF Extended, Merge
<1> HIDE DEF m
<1>3. DOMAIN Extended(w, c) = DOMAIN w \cup SecsOf(c)
  BY <1>1, <1>2
<1>4. \A s \in DOMAIN w : Extended(w, c)[s] = w[s]
  BY <1>2
<1>5. \A s \in SecsOf(c) \ DOMAIN w : Extended(w, c)[s] = m[s]
  BY <1>1, <1>2
<1> QED
  BY <1>1, <1>3, <1>4, <1>5

-----------------------------------------------------------------------------
(* The steps of the admin calls, in the order they come.                   *)
LEMMA QueueMeans ==
  ASSUME NEW q \in Queues, q # << >>
  PROVE  /\ Tail(q) \in Queues
         /\ \A step : Has(q, step) <=> Has(Tail(q), step) \/ Head(q) = step
         /\ ~Has(Tail(q), "readers")
         /\ Head(q) = "readers" => Has(Tail(q), "metrics") /\ Has(Tail(q), "alerts")
<1>1. /\ Tail(RestartSteps) = <<"cooldown", "dedupe", "metrics", "alerts">>
      /\ Head(RestartSteps) = "readers"
  BY DEF RestartSteps
<1>2. /\ Tail(<<"cooldown", "dedupe", "metrics", "alerts">>)
           = <<"dedupe", "metrics", "alerts">>
      /\ Head(<<"cooldown", "dedupe", "metrics", "alerts">>) = "cooldown"
  OBVIOUS
<1>3. /\ Tail(<<"dedupe", "metrics", "alerts">>) = <<"metrics", "alerts">>
      /\ Head(<<"dedupe", "metrics", "alerts">>) = "dedupe"
  OBVIOUS
<1>4. /\ Tail(<<"metrics", "alerts">>) = <<"alerts">>
      /\ Head(<<"metrics", "alerts">>) = "metrics"
  OBVIOUS
<1>5. /\ Tail(<<"alerts">>) = << >> /\ Tail(<<"metrics">>) = << >>
      /\ Head(<<"alerts">>) = "alerts" /\ Head(<<"metrics">>) = "metrics"
  OBVIOUS
<1>6. Tail(q) \in Queues /\ (Head(q) = "readers" => q = RestartSteps)
  BY <1>1, <1>2, <1>3, <1>4, <1>5 DEF Queues
<1>7. /\ \A step : Has(RestartSteps, step) <=>
           step \in {"readers", "cooldown", "dedupe", "metrics", "alerts"}
      /\ \A step : Has(<<"cooldown", "dedupe", "metrics", "alerts">>, step) <=>
           step \in {"cooldown", "dedupe", "metrics", "alerts"}
      /\ \A step : Has(<<"dedupe", "metrics", "alerts">>, step) <=>
           step \in {"dedupe", "metrics", "alerts"}
      /\ \A step : Has(<<"metrics", "alerts">>, step) <=>
           step \in {"metrics", "alerts"}
      /\ \A step : Has(<<"alerts">>, step) <=> step = "alerts"
      /\ \A step : Has(<<"metrics">>, step) <=> step = "metrics"
      /\ \A step : ~Has(<< >>, step)
  BY DEF Has, RestartSteps
<1>8. ASSUME NEW step
      PROVE  Has(q, step) <=> Has(Tail(q), step) \/ Head(q) = step
  <2>1. CASE q = RestartSteps
    BY <2>1, <1>1, <1>7
  <2>2. CASE q = <<"cooldown", "dedupe", "metrics", "alerts">>
    BY <2>2, <1>2, <1>7
  <2>3. CASE q = <<"dedupe", "metrics", "alerts">>
    BY <2>3, <1>3, <1>7
  <2>4. CASE q = <<"metrics", "alerts">>
    BY <2>4, <1>4, <1>5, <1>7
  <2>5. CASE q = <<"alerts">> \/ q = <<"metrics">>
    BY <2>5, <1>5, <1>7
  <2> QED
    BY <2>1, <2>2, <2>3, <2>4, <2>5 DEF Queues
<1>9. /\ ~Has(<<"cooldown", "dedupe", "metrics", "alerts">>, "readers")
      /\ ~Has(<<"dedupe", "metrics", "alerts">>, "readers")
      /\ ~Has(<<"metrics", "alerts">>, "readers")
      /\ ~Has(<<"alerts">>, "readers") /\ ~Has(<< >>, "readers")
  BY DEF Has
<1>10. ~Has(Tail(q), "readers")
  BY <1>1, <1>2, <1>3, <1>4, <1>5, <1>9 DEF Queues
<1>11. Has(<<"cooldown", "dedupe", "metrics", "alerts">>, "metrics")
       /\ Has(<<"cooldown", "dedupe", "metrics", "alerts">>, "alerts")
  BY DEF Has
<1> QED
  BY <1>1, <1>6, <1>8, <1>10, <1>11

-----------------------------------------------------------------------------
LEMMA PendingMeans ==
  ASSUME admin \in [Admins -> Queues]
  PROVE  /\ Pending = {a \in Admins : Has(admin[a], "readers")}
         /\ IsFiniteSet(Pending) /\ Cardinality(Pending) \in Nat
<1>1. Pending = {a \in Admins : Has(admin[a], "readers")}
  BY DEF Pending, Has
<1>2. IsFiniteSet(Pending)
  BY <1>1, EngineAssumption, FS_Subset
<1> QED
  BY <1>1, <1>2, FS_CardinalityType

LEMMA TypeInvTypeOK == TypeInv => TypeOK
<1> SUFFICES ASSUME TypeInv PROVE TypeOK
  OBVIOUS
<1> USE DEF TypeInv
<1>1. epoch \in Gens
  BY PendingMeans, EngineAssumption DEF AdminInv, Gens
<1>2. want \in Kinds \cup {Nothing}
  BY DEF PipeInv
<1>3. pc \in {"streak", "windows"} => Obj \in DOMAIN heap
  BY DEF PipeInv, UsesReader
<1> QED
  BY <1>1, <1>2, <1>3 DEF TypeOK, HeapInv, StoresInv, ConfigInv, PipeInv

LEMMA InitTypeInv == Init => TypeInv
<1> SUFFICES ASSUME Init PROVE TypeInv
  OBVIOUS
<1>1. HeapInv /\ StoresInv /\ ConfigInv
  BY DEF Init, HeapInv, StoresInv, ConfigInv
<1>2. PipeInv
  BY DEF Init, PipeInv, UsesReader
<1>3. AdminInv
  <2>1. admin \in [Admins -> Queues] /\ \A a \in Admins : admin[a] = << >>
    BY DEF Init, Queues
  <2>2. Pending = {}
    BY <2>1 DEF Pending
  <2> QED
    BY <2>1, <2>2, FS_EmptySet, EngineAssumption DEF Init, AdminInv
<1> QED
  BY <1>1, <1>2, <1>3 DEF Init, TypeInv

(* The pipeline gets the reader of the epoch, with every window of the     *)
(* configuration it took.                                                  *)
LEMMA GetReaderTypeInv ==
  ASSUME TypeInv, GetReader
  PROVE  HeapInv' /\ PipeInv'
<1> DEFINE o == <<ev.reader, epoch>>
<1>1. /\ HeapInv /\ PipeInv /\ epoch \in Nat
  BY DEF TypeInv, AdminInv
<1>2. /\ pc = "reader" /\ snap \in Configs /\ ev \in Events /\ want = Nothing
      /\ o \in Readers \X (0 .. epoch)
  BY <1>1 DEF GetReader, PipeInv, Events
<1>3. /\ epoch' = epoch /\ ev' = ev /\ snap' = snap /\ pc' = "streak"
      /\ held' = epoch /\ want' = want /\ todo' = todo
  BY DEF GetReader
<1>4. heap' = IF o \in DOMAIN heap
              THEN [heap EXCEPT ![o] = Extended(@, snap)]
              ELSE Merge(heap, [x \in {o} |-> Fresh(snap)])
  BY DEF GetReader
<1>5. SecsOf(snap) \subseteq Secs
  BY <1>2, ConfigWindows
<1> HIDE DEF o
<1>6. /\ DOMAIN heap' = DOMAIN heap \cup {o}
      /\ \A x \in DOMAIN heap \ {o} : heap'[x] = heap[x]
      /\ o \in DOMAIN heap => heap'[o] = Extended(heap[o], snap)
      /\ o \notin DOMAIN heap => heap'[o] = Fresh(snap)
  BY <1>4 DEF Merge
<1>7. /\ DOMAIN heap'[o] \subseteq Secs
      /\ \A s \in DOMAIN heap'[o] : heap'[o][s] \in WindowsOf(s)
      /\ SecsOf(snap) \subseteq DOMAIN heap'[o]
  <2>1. CASE o \in DOMAIN heap
    <3> DEFINE w == heap[o]
               x == Extended(w, snap)
    <3>1. /\ DOMAIN x = DOMAIN w \cup SecsOf(snap)
          /\ \A s \in DOMAIN w : x[s] = w[s]
          /\ \A s \in SecsOf(snap) \ DOMAIN w : x[s] \in WindowsOf(s)
      BY <1>2, ExtendedMeans
    <3>2. DOMAIN w \subseteq Secs /\ \A s \in DOMAIN w : w[s] \in WindowsOf(s)
      BY <1>1, <2>1 DEF HeapInv
    <3>3. heap'[o] = x
      BY <2>1, <1>6
    <3> HIDE DEF w, x
    <3> QED
      BY <3>1, <3>2, <3>3, <1>5
  <2>2. CASE o \notin DOMAIN heap
    BY <2>2, <1>2, <1>5, <1>6, FreshMeans
  <2> QED
    BY <2>1, <2>2
<1>8. HeapInv'
  BY <1>1, <1>2, <1>3, <1>6, <1>7 DEF HeapInv
<1>9. Obj' = o
  BY <1>3 DEF Obj, o
<1>10. PipeInv'
  BY <1>1, <1>2, <1>3, <1>6, <1>7, <1>9 DEF PipeInv
<1> QED
  BY <1>8, <1>10

LEMMA UpdateMetricsTypeInv ==
  ASSUME TypeInv, UpdateMetrics
  PROVE  HeapInv' /\ StoresInv' /\ PipeInv'
<1>1. /\ HeapInv /\ StoresInv /\ PipeInv /\ epoch \in Nat /\ epoch' = epoch
      /\ alerts' = alerts
  BY DEF TypeInv, AdminInv, UpdateMetrics
<1>2. HeapInv'
  BY <1>1 DEF UpdateMetrics, HeapInv
<1>3. PipeInv'
  BY <1>1 DEF UpdateMetrics, Return, PipeInv, UsesReader
<1>4. /\ ev.reader \in Readers /\ Obj \in DOMAIN heap /\ held \in 0 .. epoch
      /\ DOMAIN heap[Obj] \subseteq Secs
  BY <1>1 DEF UpdateMetrics, PipeInv, Events, UsesReader, HeapInv
<1>5. StoresInv'
  <2> DEFINE old == metrics[ev.reader]
             new == Merge([s \in DOMAIN heap[Obj] |->
                             [epoch |-> held, fed |-> heap[Obj][s].fed]], old)
  <2>0. \A s \in DOMAIN heap[Obj] : heap[Obj][s].fed \in Nat
    BY <1>1, <1>4 DEF HeapInv, WindowsOf
  <2>1. /\ DOMAIN new \subseteq Secs
        /\ \A s \in DOMAIN new : new[s] \in [epoch : 0 .. epoch, fed : Nat]
    BY <1>1, <1>4, <2>0 DEF Merge, StoresInv
  <2>2. metrics' = [metrics EXCEPT ![ev.reader] = new]
    BY DEF UpdateMetrics
  <2> HIDE DEF new
  <2> QED
    BY <1>1, <1>4, <2>1, <2>2 DEF StoresInv
<1> QED
  BY <1>2, <1>3, <1>5

(* One more event in one more window of the reader in hand.                *)
LEMMA EvaluateWindowMeans ==
  ASSUME HeapInv, PipeInv, EvaluateWindow
  PROVE  \E s \in todo :
           /\ s \in DOMAIN heap[Obj] /\ Obj \in DOMAIN heap
           /\ todo' = todo \ {s}
           /\ DOMAIN heap' = DOMAIN heap
           /\ \A o \in DOMAIN heap :
                /\ DOMAIN heap'[o] = DOMAIN heap[o]
                /\ \A x \in DOMAIN heap[o] :
                     /\ heap'[o][x] \in WindowsOf(x)
                     /\ heap'[o][x].fed = IF o = Obj /\ x = s THEN heap[o][x].fed + 1
                                          ELSE heap[o][x].fed
<1> DEFINE s == CHOOSE x \in todo : \A y \in todo : x <= y
<1>1. /\ todo # {} /\ todo \subseteq DOMAIN heap[Obj] /\ Obj \in DOMAIN heap
      /\ todo \subseteq Secs
  BY DEF EvaluateWindow, PipeInv, UsesReader
<1>2. s \in todo
  <2>1. Secs \subseteq Nat
    <3>1. \A c \in Configs : \A i \in DOMAIN c.windows : Sec(c.windows[i]) \in Nat
      BY ConfigWindows DEF Sec
    <3> QED
      BY <3>1 DEF Secs, SecsOf
  <2>2. todo \in SUBSET Nat
    BY <1>1, <2>1
  <2>3. PICK i \in todo : \A j \in todo : j >= i
    BY <1>1, <2>2, Least
  <2>4. \A j \in todo : i <= j
    BY <2>2, <2>3
  <2> QED
    BY <2>3, <2>4
<1>3. /\ todo' = todo \ {s}
      /\ heap' = [heap EXCEPT ![Obj][s].fed = @ + 1]
  BY DEF EvaluateWindow
<1> HIDE DEF s
<1>4. \A o \in DOMAIN heap : \A x \in DOMAIN heap[o] :
        heap[o][x] \in WindowsOf(x)
  BY DEF HeapInv
<1> DEFINE w == heap[Obj][s]
           w2 == [w EXCEPT !.fed = @ + 1]
<1>5. w \in WindowsOf(s)
  BY <1>1, <1>2, <1>4
<1>6. w2 \in WindowsOf(s) /\ w2.fed = w.fed + 1
  <2> HIDE DEF w
  <2> QED
    BY <1>5 DEF WindowsOf
<1>7. /\ DOMAIN heap' = DOMAIN heap
      /\ \A o \in DOMAIN heap \ {Obj} : heap'[o] = heap[o]
      /\ DOMAIN heap'[Obj] = DOMAIN heap[Obj]
      /\ \A x \in DOMAIN heap[Obj] \ {s} : heap'[Obj][x] = heap[Obj][x]
      /\ heap'[Obj][s] = w2
  BY <1>1, <1>2, <1>3
<1> HIDE DEF w2
<1>8. ASSUME NEW o \in DOMAIN heap
      PROVE  /\ DOMAIN heap'[o] = DOMAIN heap[o]
             /\ \A x \in DOMAIN heap[o] :
                  /\ heap'[o][x] \in WindowsOf(x)
                  /\ heap'[o][x].fed = IF o = Obj /\ x = s THEN heap[o][x].fed + 1
                                       ELSE heap[o][x].fed
  BY <1>4, <1>6, <1>7
<1> QED
  BY <1>1, <1>2, <1>3, <1>7, <1>8

LEMMA PipelineTypeInv ==
  ASSUME TypeInv, Pipeline
  PROVE  TypeInv'
<1>1. /\ HeapInv /\ StoresInv /\ ConfigInv /\ PipeInv /\ AdminInv
      /\ muted \in BOOLEAN /\ cached \in BOOLEAN
  BY DEF TypeInv
<1>2. UNCHANGED <<cfg, access, update, epoch, admin>>
  BY DEF Pipeline, Receive, Dedupe, EvaluateAccess, AllowKey, EmitAlert,
         GetReader, EvaluateAuthStreak, EvaluateWindow, UpdateMetrics,
         engine, stores
<1>3. ConfigInv' /\ AdminInv' /\ epoch \in Nat
  BY <1>1, <1>2 DEF ConfigInv, AdminInv, Pending
<1>4. CASE Receive
  <2>1. ConfigInv /\ epoch \in 0 .. epoch
    BY <1>1, <1>3
  <2>2. PipeInv'
    BY <1>1, <1>4, <2>1 DEF Receive, PipeInv, UsesReader, engine, ConfigInv
  <2> QED
    BY <1>1, <1>3, <1>4, <2>2 DEF Receive, TypeInv, HeapInv, StoresInv, engine,
                                  stores
<1>5. CASE Dedupe
  <2>1. PipeInv'
    BY <1>1, <1>3, <1>5 DEF Dedupe, Return, PipeInv, UsesReader
  <2> QED
    BY <1>1, <1>3, <1>5, <2>1 DEF Dedupe, TypeInv, HeapInv, StoresInv, stores
<1>6. CASE EvaluateAccess
  <2>1. PipeInv'
    BY <1>1, <1>6 DEF EvaluateAccess, PipeInv, UsesReader, Kinds, engine
  <2> QED
    BY <1>1, <1>3, <1>6, <2>1 DEF EvaluateAccess, TypeInv, HeapInv, StoresInv,
                                  engine, stores
<1>7. CASE AllowKey
  <2>1. PipeInv'
    BY <1>1, <1>7 DEF AllowKey, After, PipeInv, UsesReader, Kinds, Obj
  <2>2. snap.cooldown \in BOOLEAN
    BY <1>1, <1>7, EngineAssumption DEF AllowKey, PipeInv
  <2> QED
    BY <1>1, <1>3, <1>7, <2>1, <2>2 DEF AllowKey, TypeInv, HeapInv, StoresInv,
                                        stores
<1>8. CASE EmitAlert
  <2>1. PipeInv'
    BY <1>1, <1>8 DEF EmitAlert, After, PipeInv, UsesReader, Kinds, Obj
  <2>2. StoresInv'
    BY <1>1, <1>8 DEF EmitAlert, PipeInv, Events, StoresInv
  <2> QED
    BY <1>1, <1>3, <1>8, <2>1, <2>2 DEF EmitAlert, TypeInv, HeapInv
<1>9. CASE GetReader
  BY <1>1, <1>3, <1>9, GetReaderTypeInv DEF GetReader, TypeInv, StoresInv, stores
<1>10. CASE EvaluateAuthStreak
  <2>1. PipeInv'
    BY <1>1, <1>10 DEF EvaluateAuthStreak, PipeInv, UsesReader, Kinds, Obj,
                       HeapInv, engine
  <2> QED
    BY <1>1, <1>3, <1>10, <2>1 DEF EvaluateAuthStreak, TypeInv, HeapInv,
                                   StoresInv, engine, stores
<1>11. CASE EvaluateWindow
  <2>1. HeapInv' /\ DOMAIN heap' = DOMAIN heap /\ DOMAIN heap'[Obj] = DOMAIN heap[Obj]
    BY <1>1, <1>11, EvaluateWindowMeans DEF HeapInv, EvaluateWindow
  <2>2. PipeInv'
    <3>1. todo' \subseteq todo
      BY <1>11 DEF EvaluateWindow
    <3> QED
      BY <1>1, <1>11, <2>1, <3>1 DEF EvaluateWindow, PipeInv, UsesReader, Kinds, Obj
  <2> QED
    BY <1>1, <1>3, <1>11, <2>1, <2>2 DEF EvaluateWindow, TypeInv, StoresInv, stores
<1>12. CASE UpdateMetrics
  BY <1>1, <1>3, <1>12, UpdateMetricsTypeInv DEF UpdateMetrics, TypeInv
<1> QED
  BY <1>4, <1>5, <1>6, <1>7, <1>8, <1>9, <1>10, <1>11, <1>12 DEF Pipeline

(* What a step of an admin call does to the calls.                         *)
LEMMA QueueShortens ==
  ASSUME AdminInv, NEW a \in Admins, admin[a] # << >>,
         admin' = [admin EXCEPT ![a] = Tail(@)]
  PROVE  /\ admin' \in [Admins -> Queues]
         /\ \A b \in Admins : \A step :
              Has(admin[b], step)
                <=> Has(admin'[b], step) \/ (b = a /\ Head(admin[a]) = step)
         /\ IF Head(admin[a]) = "readers"
            THEN Cardinality(Pending') = Cardinality(Pending) - 1
            ELSE Cardinality(Pending') = Cardinality(Pending)
<1>1. admin \in [Admins -> Queues] /\ admin[a] \in Queues
  BY DEF AdminInv
<1>2. /\ Tail(admin[a]) \in Queues
      /\ \A step : Has(admin[a], step)
           <=> Has(Tail(admin[a]), step) \/ Head(admin[a]) = step
      /\ ~Has(Tail(admin[a]), "readers")
  BY <1>1, QueueMeans
<1>3. admin' \in [Admins -> Queues]
  BY <1>1, <1>2
<1>4. admin'[a] = Tail(admin[a]) /\ \A b \in Admins \ {a} : admin'[b] = admin[b]
  BY <1>1
<1>5. Pending = {b \in Admins : Has(admin[b], "readers")}
      /\ IsFiniteSet(Pending) /\ Cardinality(Pending) \in Nat
  BY <1>1, PendingMeans
<1>6. Pending' = {b \in Admins : Has(admin'[b], "readers")}
  BY <1>3 DEF Pending, Has
<1>7. CASE Head(admin[a]) = "readers"
  <2>1. a \in Pending /\ Pending' = Pending \ {a}
    BY <1>2, <1>4, <1>5, <1>6, <1>7
  <2>2. Cardinality(Pending') = Cardinality(Pending) - 1
    BY <1>5, <2>1, FS_RemoveElement
  <2> QED
    BY <1>2, <1>3, <1>4, <1>7, <2>2
<1>8. CASE Head(admin[a]) # "readers"
  <2>1. Pending' = Pending
    BY <1>2, <1>4, <1>5, <1>6, <1>8
  <2> QED
    BY <1>2, <1>3, <1>4, <1>8, <2>1
<1> QED
  BY <1>7, <1>8

LEMMA AdminTypeInv ==
  ASSUME TypeInv, NEW a \in Admins,
         \/ HandleRestart(a) \/ HandleClear(a)
         \/ ResetReaders(a) \/ ResetCooldown(a) \/ ResetDedupe(a)
         \/ ClearMetrics(a) \/ ClearAlerts(a)
  PROVE  TypeInv'
<1>1. /\ HeapInv /\ StoresInv /\ ConfigInv /\ PipeInv /\ AdminInv
      /\ muted \in BOOLEAN /\ cached \in BOOLEAN
      /\ admin \in [Admins -> Queues] /\ epoch \in Nat
      /\ Cardinality(Pending) \in Nat /\ MaxRestarts \in Nat
      /\ epoch + Cardinality(Pending) <= MaxRestarts
  BY PendingMeans, EngineAssumption DEF TypeInv, AdminInv
<1>2. CASE HandleRestart(a)
  <2>1. admin' \in [Admins -> Queues]
    BY <1>1, <1>2 DEF HandleRestart, Queues
  <2>2. Pending' \subseteq Pending \cup {a} /\ IsFiniteSet(Pending)
    BY <1>1, <1>2, PendingMeans DEF HandleRestart, Pending
  <2>3. Cardinality(Pending') <= Cardinality(Pending) + 1
    <3>1. /\ IsFiniteSet(Pending \cup {a})
          /\ Cardinality(Pending \cup {a}) <= Cardinality(Pending) + 1
      BY <1>1, <2>2, FS_AddElement
    <3>2. Cardinality(Pending') <= Cardinality(Pending \cup {a})
      BY <2>2, <3>1, FS_Subset
    <3>3. Cardinality(Pending') \in Nat /\ Cardinality(Pending \cup {a}) \in Nat
      BY <2>2, <3>1, FS_Subset, FS_CardinalityType
    <3> QED
      BY <1>1, <3>1, <3>2, <3>3
  <2>4. Cardinality(Pending') \in Nat
    BY <2>2, FS_AddElement, FS_Subset, FS_CardinalityType
  <2>5. AdminInv'
    BY <1>1, <1>2, <2>1, <2>3, <2>4 DEF HandleRestart, AdminInv, engine
  <2> QED
    BY <1>1, <1>2, <2>5 DEF HandleRestart, TypeInv, HeapInv, StoresInv,
       ConfigInv, PipeInv, UsesReader, Obj, engine, stores, pipe
<1>3. CASE HandleClear(a)
  <2>1. PICK steps \in ClearSteps : admin' = [admin EXCEPT ![a] = steps]
    BY <1>3 DEF HandleClear
  <2>2. admin' \in [Admins -> Queues] /\ admin[a] = << >>
    BY <1>1, <1>3, <2>1 DEF HandleClear, ClearSteps, Queues
  <2>3. \A step \in ClearSteps : ~Has(step, "readers")
    BY DEF ClearSteps, Has
  <2>4. Pending' = Pending
    BY <1>1, <2>1, <2>2, <2>3 DEF Pending, Has
  <2>5. AdminInv'
    BY <1>1, <1>3, <2>2, <2>4 DEF HandleClear, AdminInv, engine
  <2> QED
    BY <1>1, <1>3, <2>5 DEF HandleClear, TypeInv, HeapInv, StoresInv,
       ConfigInv, PipeInv, UsesReader, Obj, engine, stores, pipe
<1>4. CASE ResetReaders(a)
  <2>1. AdminInv'
    <3>1. /\ admin' \in [Admins -> Queues]
          /\ Cardinality(Pending') = Cardinality(Pending) - 1
      BY <1>1, <1>4, QueueShortens DEF ResetReaders
    <3> QED
      BY <1>1, <1>4, <3>1 DEF ResetReaders, AdminInv
  <2>2. HeapInv' /\ StoresInv' /\ ConfigInv'
    <3>1. epoch' = epoch + 1 /\ 0 .. epoch \subseteq 0 .. epoch'
      BY <1>1, <1>4 DEF ResetReaders
    <3>2. heap' = [o \in Reachable |-> heap[o]] /\ Reachable \subseteq DOMAIN heap
      BY <1>4 DEF ResetReaders, Reachable
    <3>3. DOMAIN heap' \subseteq Readers \X (0 .. epoch')
      BY <1>1, <3>1, <3>2 DEF HeapInv
    <3>4. HeapInv'
      BY <1>1, <3>2, <3>3 DEF HeapInv
    <3>5. StoresInv'
      BY <1>1, <1>4, <3>1 DEF StoresInv, ResetReaders, stores
    <3> QED
      BY <1>1, <1>4, <3>4, <3>5 DEF ConfigInv, ResetReaders
  <2>3. PipeInv'
    <3>1. UNCHANGED <<pc, ev, snap, held, todo, want>>
      BY <1>4 DEF ResetReaders, pipe
    <3>2. held \in 0 .. epoch'
      BY <1>1, <1>4 DEF ResetReaders, PipeInv
    <3>3. UsesReader => Obj \in DOMAIN heap' /\ heap'[Obj] = heap[Obj]
      BY <1>1, <1>4 DEF ResetReaders, Reachable, PipeInv, UsesReader, Nothing
    <3> QED
      BY <1>1, <3>1, <3>2, <3>3 DEF PipeInv, UsesReader, Obj
  <2> QED
    BY <1>1, <1>4, <2>1, <2>2, <2>3 DEF ResetReaders, TypeInv
<1>5. CASE \/ ResetCooldown(a) \/ ResetDedupe(a) \/ ClearMetrics(a) \/ ClearAlerts(a)
  <2>1. /\ admin[a] # << >> /\ Head(admin[a]) # "readers"
        /\ admin' = [admin EXCEPT ![a] = Tail(@)]
        /\ UNCHANGED <<cfg, access, update, epoch, heap, pc, ev, snap, held,
                       todo, want>>
    BY <1>5 DEF ResetCooldown, ResetDedupe, ClearMetrics, ClearAlerts,
                engine, pipe
  <2>2. AdminInv'
    BY <1>1, <2>1, QueueShortens DEF AdminInv
  <2>3. StoresInv' /\ muted' \in BOOLEAN /\ cached' \in BOOLEAN
    <3>1. CASE ResetCooldown(a) \/ ResetDedupe(a)
      BY <1>1, <3>1 DEF ResetCooldown, ResetDedupe, StoresInv, stores
    <3>2. CASE ClearMetrics(a)
      BY <1>1, <3>2 DEF ClearMetrics, StoresInv, engine
    <3>3. CASE ClearAlerts(a)
      BY <1>1, <3>3 DEF ClearAlerts, StoresInv, engine
    <3> QED
      BY <1>5, <3>1, <3>2, <3>3
  <2> QED
    BY <1>1, <2>1, <2>2, <2>3 DEF TypeInv, HeapInv, ConfigInv, PipeInv,
                                  UsesReader, Obj
<1> QED
  BY <1>2, <1>3, <1>4, <1>5

LEMMA StepTypeInv == TypeInv /\ [Next]_vars => TypeInv'
<1> SUFFICES ASSUME TypeInv, [Next]_vars PROVE TypeInv'
  OBVIOUS
<1>1. CASE ConfigChanges
  <2>1. UNCHANGED <<epoch, heap, muted, cached, metrics, alerts, admin,
                    pc, ev, snap, held, todo, want>>
    BY <1>1 DEF ConfigChanges, stores, pipe
  <2>2. ConfigInv'
    <3>0. PICK u \in Updaters : UpdateConfig(u)
      BY <1>1 DEF ConfigChanges
    <3>1. CASE update[u] = << >>
      BY <3>0, <3>1 DEF UpdateConfig, TypeInv, ConfigInv
    <3>2. CASE update[u] # << >>
      <4>1. PICK c \in Configs : update[u] = <<c>>
        BY <3>2 DEF TypeInv, ConfigInv
      <4> QED
        BY <3>0, <3>2, <4>1 DEF UpdateConfig, TypeInv, ConfigInv
    <3> QED
      BY <3>1, <3>2
  <2> QED
    BY <2>1, <2>2 DEF TypeInv, HeapInv, StoresInv, PipeInv, AdminInv, Pending,
                      UsesReader, Obj
<1>2. CASE UNCHANGED vars
  BY <1>2 DEF vars, engine, stores, pipe, TypeInv, HeapInv, StoresInv,
              ConfigInv, PipeInv, AdminInv, Pending, UsesReader, Obj
<1> QED
  BY <1>1, <1>2, PipelineTypeInv, AdminTypeInv DEF Next

THEOREM SpecTypeOK == Spec => []TypeOK
  BY InitTypeInv, StepTypeInv, TypeInvTypeOK, PTL DEF Spec

-----------------------------------------------------------------------------
(* Which clears are still to come, and what is stale, in a step that is    *)
(* none of them.                                                           *)
MetricsToCome == \E a \in Admins : Has(admin[a], "metrics")
AlertsToCome == \E a \in Admins : Has(admin[a], "alerts")

OneReader(r) ==
  /\ MetricsToCome \/ StaleMetrics \subseteq {r}
  /\ AlertsToCome \/ StaleAlerts \subseteq {r}
  /\ pc # "idle" /\ held < epoch => ev.reader = r

LEMMA StaleInvMeans == StaleInv <=> \E r : OneReader(r)
  BY DEF StaleInv, OneReader, MetricsToCome, AlertsToCome

LEMMA PipelineOneReader ==
  ASSUME TypeInv, Pipeline, NEW r, OneReader(r)
  PROVE  OneReader(r)'
<1>1. /\ StoresInv /\ PipeInv /\ epoch \in Nat
      /\ epoch' = epoch /\ admin' = admin /\ held \in 0 .. epoch
  BY DEF TypeInv, AdminInv, PipeInv, Pipeline, Receive, Dedupe, EvaluateAccess,
         AllowKey, EmitAlert, GetReader, EvaluateAuthStreak, EvaluateWindow,
         UpdateMetrics, engine
<1>2. MetricsToCome' = MetricsToCome /\ AlertsToCome' = AlertsToCome
  BY <1>1 DEF MetricsToCome, AlertsToCome
<1>3. CASE Receive
  BY <1>1, <1>2, <1>3 DEF Receive, OneReader, StaleMetrics, StaleAlerts, stores
<1>4. CASE GetReader
  BY <1>1, <1>2, <1>4 DEF GetReader, OneReader, StaleMetrics, StaleAlerts, stores
<1>5. CASE Dedupe
  BY <1>1, <1>2, <1>5 DEF Dedupe, Return, OneReader, StaleMetrics, StaleAlerts,
                          stores
<1>6. CASE EvaluateAccess \/ AllowKey \/ EvaluateAuthStreak \/ EvaluateWindow
  <2>1. UNCHANGED <<metrics, alerts, ev, held>> /\ pc # "idle"
    BY <1>6 DEF EvaluateAccess, AllowKey, EvaluateAuthStreak, EvaluateWindow,
                stores
  <2> QED
    BY <1>1, <1>2, <2>1 DEF OneReader, StaleMetrics, StaleAlerts
<1>7. CASE EmitAlert
  <2>1. /\ UNCHANGED <<metrics, ev, held>> /\ pc # "idle"
        /\ alerts' = alerts \cup {<<ev.reader, held>>}
    BY <1>7 DEF EmitAlert
  <2>2. held < epoch => ev.reader = r
    BY <2>1 DEF OneReader
  <2>3. AlertsToCome \/ StaleAlerts' \subseteq {r}
    <3> SUFFICES ASSUME StaleAlerts \subseteq {r}, NEW q \in StaleAlerts'
                 PROVE  q = r
      BY DEF OneReader
    <3>1. PICK g \in Gens : g < epoch /\ <<q, g>> \in alerts'
      BY <1>1 DEF StaleAlerts
    <3>2. CASE <<q, g>> \in alerts
      BY <1>1, <2>1, <3>1, <3>2 DEF StaleAlerts
    <3>3. CASE q = ev.reader /\ g = held
      BY <2>2, <3>1, <3>3
    <3> QED
      BY <2>1, <3>1, <3>2, <3>3
  <2> QED
    BY <1>1, <1>2, <2>1, <2>3 DEF OneReader, StaleMetrics
<1>8. CASE UpdateMetrics
  <2> DEFINE old == metrics[ev.reader]
             new == Merge([s \in DOMAIN heap[Obj] |->
                             [epoch |-> held, fed |-> heap[Obj][s].fed]], old)
  <2>1. /\ alerts' = alerts /\ pc # "idle" /\ pc' = "idle"
        /\ metrics' = [metrics EXCEPT ![ev.reader] = new]
    BY <1>8 DEF UpdateMetrics, Return
  <2>2. held < epoch => ev.reader = r
    BY <2>1 DEF OneReader
  <2>3. \A s \in DOMAIN new :
          new[s].epoch = held \/ (s \in DOMAIN old /\ new[s] = old[s])
    BY DEF Merge
  <2> HIDE DEF new
  <2>4. MetricsToCome \/ StaleMetrics' \subseteq {r}
    <3> SUFFICES ASSUME StaleMetrics \subseteq {r}, NEW q \in StaleMetrics'
                 PROVE  q = r
      BY DEF OneReader
    <3>1. q \in Readers /\ \E s \in DOMAIN metrics'[q] : metrics'[q][s].epoch < epoch
      BY <1>1 DEF StaleMetrics
    <3>2. CASE q # ev.reader
      BY <1>1, <2>1, <3>1, <3>2 DEF StaleMetrics, StoresInv
    <3>3. CASE q = ev.reader
      <4>1. metrics'[q] = new
        BY <1>1, <2>1, <3>1, <3>3 DEF StoresInv
      <4>2. PICK s \in DOMAIN new : new[s].epoch < epoch
        BY <3>1, <4>1
      <4>3. held < epoch \/ q \in StaleMetrics
        BY <2>3, <3>1, <3>3, <4>2 DEF StaleMetrics
      <4> QED
        BY <2>2, <3>3, <4>3
    <3> QED
      BY <3>2, <3>3
  <2> QED
    BY <1>1, <1>2, <2>1, <2>4 DEF OneReader, StaleAlerts
<1> QED
  BY <1>3, <1>4, <1>5, <1>6, <1>7, <1>8 DEF Pipeline

(* A restart makes the event in hand the one that escapes; the clears that *)
(* follow it take everything else away.                                    *)
LEMMA AdminStaleInv ==
  ASSUME TypeInv, StaleInv, NEW a \in Admins,
         \/ HandleRestart(a) \/ HandleClear(a)
         \/ ResetReaders(a) \/ ResetCooldown(a) \/ ResetDedupe(a)
         \/ ClearMetrics(a) \/ ClearAlerts(a)
  PROVE  StaleInv'
<1>1. /\ AdminInv /\ PipeInv /\ admin \in [Admins -> Queues] /\ epoch \in Nat
      /\ held \in 0 .. epoch
  BY DEF TypeInv, AdminInv, PipeInv
<1>2. PICK r : OneReader(r)
  BY StaleInvMeans
<1>3. CASE HandleRestart(a) \/ HandleClear(a)
  <2>1. UNCHANGED <<epoch, metrics, alerts, pc, ev, held>> /\ admin[a] = << >>
        /\ \A b \in Admins \ {a} : admin'[b] = admin[b]
    BY <1>1, <1>3 DEF HandleRestart, HandleClear, engine, stores, pipe
  <2>2. \A b \in Admins : \A step : Has(admin[b], step) => Has(admin'[b], step)
    BY <2>1 DEF Has
  <2>3. OneReader(r)'
    BY <1>2, <2>1, <2>2 DEF OneReader, MetricsToCome, AlertsToCome,
                            StaleMetrics, StaleAlerts
  <2> QED
    BY <2>3 DEF StaleInv, OneReader, MetricsToCome, AlertsToCome
<1>4. CASE ResetReaders(a)
  <2>1. /\ admin[a] # << >> /\ Head(admin[a]) = "readers"
        /\ admin' = [admin EXCEPT ![a] = Tail(@)]
        /\ UNCHANGED <<pc, ev, held>>
    BY <1>4 DEF ResetReaders, pipe
  <2>2. Has(admin'[a], "metrics") /\ Has(admin'[a], "alerts")
    BY <1>1, <2>1, QueueMeans
  <2>3. OneReader(ev.reader)'
    BY <2>1, <2>2 DEF OneReader, MetricsToCome, AlertsToCome
  <2> QED
    BY <2>3 DEF StaleInv, OneReader, MetricsToCome, AlertsToCome
<1>5. CASE \/ ResetCooldown(a) \/ ResetDedupe(a) \/ ClearMetrics(a) \/ ClearAlerts(a)
  <2>1. /\ admin[a] # << >> /\ admin' = [admin EXCEPT ![a] = Tail(@)]
        /\ UNCHANGED <<epoch, pc, ev, held>>
    BY <1>5 DEF ResetCooldown, ResetDedupe, ClearMetrics, ClearAlerts,
                engine, pipe
  <2>2. \A b \in Admins : \A step :
          Has(admin[b], step)
            <=> Has(admin'[b], step) \/ (b = a /\ Head(admin[a]) = step)
    BY <1>1, <2>1, QueueShortens
  <2>3. MetricsToCome' \/ StaleMetrics' \subseteq {r}
    <3>1. CASE ClearMetrics(a)
      BY <3>1 DEF ClearMetrics, StaleMetrics
    <3>2. CASE \/ ResetCooldown(a) \/ ResetDedupe(a) \/ ClearAlerts(a)
      <4>1. metrics' = metrics /\ Head(admin[a]) # "metrics"
        BY <3>2 DEF ResetCooldown, ResetDedupe, ClearAlerts, stores
      <4> QED
        BY <1>2, <2>1, <2>2, <4>1 DEF OneReader, MetricsToCome, StaleMetrics
    <3> QED
      BY <1>5, <3>1, <3>2
  <2>4. AlertsToCome' \/ StaleAlerts' \subseteq {r}
    <3>1. CASE ClearAlerts(a)
      BY <3>1 DEF ClearAlerts, StaleAlerts
    <3>2. CASE \/ ResetCooldown(a) \/ ResetDedupe(a) \/ ClearMetrics(a)
      <4>1. alerts' = alerts /\ Head(admin[a]) # "alerts"
        BY <3>2 DEF ResetCooldown, ResetDedupe, ClearMetrics, stores
      <4> QED
        BY <1>2, <2>1, <2>2, <4>1 DEF OneReader, AlertsToCome, StaleAlerts
    <3> QED
      BY <1>5, <3>1, <3>2
  <2>5. OneReader(r)'
    BY <1>2, <2>1, <2>3, <2>4 DEF OneReader
  <2> QED
    BY <2>5 DEF StaleInv, OneReader, MetricsToCome, AlertsToCome
<1> QED
  BY <1>3, <1>4, <1>5

(* The figures follow their windows through every step of the pipeline.    *)
LEMMA PipelineFiguresInv ==
  ASSUME TypeInv, FiguresInv, Pipeline
  PROVE  FiguresInv'
<1>1. /\ HeapInv /\ StoresInv /\ PipeInv /\ epoch \in Nat /\ epoch' = epoch
      /\ held \in 0 .. epoch
  BY DEF TypeInv, AdminInv, PipeInv, Pipeline, Receive, Dedupe, EvaluateAccess,
         AllowKey, EmitAlert, GetReader, EvaluateAuthStreak, EvaluateWindow,
         UpdateMetrics, engine
<1>2. CASE Receive \/ Dedupe \/ EvaluateAccess
  <2>1. ~UsesReader /\ ~UsesReader' /\ UNCHANGED <<heap, metrics>>
    BY <1>1, <1>2 DEF Receive, Dedupe, EvaluateAccess, Return, UsesReader,
                      PipeInv, engine, stores
  <2> QED
    BY <1>1, <2>1 DEF FiguresInv, FigureAt, Counted
<1>3. CASE AllowKey \/ EmitAlert
  <2>1. /\ UNCHANGED <<heap, metrics, ev, held, todo>>
        /\ UsesReader' = UsesReader /\ pc # "streak" /\ pc' # "streak"
    BY <1>1, <1>3 DEF AllowKey, EmitAlert, After, UsesReader, PipeInv, Kinds,
                      stores
  <2>2. \A r \in Readers : \A s \in DOMAIN metrics[r] :
          FigureAt(r, s)' <=> FigureAt(r, s)
    BY <1>1, <2>1 DEF FigureAt, Counted, Obj
  <2> QED
    BY <2>1, <2>2 DEF FiguresInv
<1>4. CASE GetReader
  <2> DEFINE x == <<ev.reader, epoch>>
  <2>1. /\ metrics' = metrics /\ ~UsesReader /\ pc' = "streak" /\ held' = epoch
        /\ snap \in Configs
        /\ heap' = IF x \in DOMAIN heap
                   THEN [heap EXCEPT ![x] = Extended(@, snap)]
                   ELSE Merge(heap, [y \in {x} |-> Fresh(snap)])
    BY <1>1, <1>4 DEF GetReader, UsesReader, PipeInv, stores
  <2> HIDE DEF x
  <2>2. /\ DOMAIN heap' = DOMAIN heap \cup {x}
        /\ \A o \in DOMAIN heap \ {x} : heap'[o] = heap[o]
        /\ x \in DOMAIN heap => heap'[x] = Extended(heap[x], snap)
    BY <2>1 DEF Merge
  <2>3. \A o \in DOMAIN heap : \A s \in DOMAIN heap[o] :
          s \in DOMAIN heap'[o] /\ heap'[o][s] = heap[o][s]
    <3> TAKE o \in DOMAIN heap
    <3> DEFINE w == heap[o]
    <3>1. /\ DOMAIN w \subseteq DOMAIN Extended(w, snap)
          /\ \A s \in DOMAIN w : Extended(w, snap)[s] = w[s]
      BY <2>1, ExtendedMeans
    <3> QED
      BY <2>2, <3>1
  <2>4. ASSUME NEW r \in Readers, NEW s \in DOMAIN metrics[r]
        PROVE  FigureAt(r, s)'
    <3> DEFINE m == metrics[r][s]
               o == <<r, m.epoch>>
    <3>1. /\ m.epoch \in 0 .. epoch
          /\ m.epoch = epoch => o \in DOMAIN heap
          /\ o \in DOMAIN heap => s \in DOMAIN heap[o] /\ heap[o][s].fed = m.fed
      BY <1>1, <2>1, <2>4 DEF FiguresInv, FigureAt, Counted, StoresInv
    <3>2. o \in DOMAIN heap' => o \in DOMAIN heap
      BY <2>2, <3>1 DEF x
    <3>3. /\ m.epoch <= held'
          /\ m.epoch = epoch' => o \in DOMAIN heap'
          /\ o \in DOMAIN heap' => s \in DOMAIN heap'[o] /\ heap'[o][s].fed = m.fed
      BY <1>1, <2>1, <2>2, <2>3, <3>1, <3>2
    <3>4. ~Counted(o, s)'
      BY <2>1 DEF Counted
    <3> QED
      BY <2>1, <3>3, <3>4 DEF FigureAt, Counted
  <2> QED
    BY <2>1, <2>4 DEF FiguresInv
<1>5. CASE EvaluateAuthStreak
  <2>1. /\ UNCHANGED <<heap, metrics, ev, held>> /\ todo' = DOMAIN heap[Obj]
        /\ UsesReader /\ UsesReader' /\ pc = "streak"
    BY <1>5 DEF EvaluateAuthStreak, UsesReader, engine, stores
  <2>2. ASSUME NEW r \in Readers, NEW s \in DOMAIN metrics[r]
        PROVE  FigureAt(r, s)'
    <3> DEFINE o == <<r, metrics[r][s].epoch>>
    <3>1. ~Counted(o, s) /\ (o \in DOMAIN heap => ~Counted(o, s)')
      BY <2>1, <2>2 DEF Counted, Obj, FiguresInv, FigureAt
    <3>2. FigureAt(r, s)
      BY DEF FiguresInv
    <3> QED
      BY <1>1, <2>1, <3>1, <3>2 DEF FigureAt
  <2> QED
    BY <2>1, <2>2 DEF FiguresInv
<1>6. CASE EvaluateWindow
  <2>1. /\ UNCHANGED <<metrics, ev, held>> /\ UsesReader /\ UsesReader'
        /\ pc # "streak" /\ pc' # "streak" /\ Obj' = Obj
    BY <1>1, <1>6 DEF EvaluateWindow, UsesReader, Obj, stores, PipeInv
  <2>2. PICK n \in todo :
          /\ n \in DOMAIN heap[Obj] /\ todo' = todo \ {n}
          /\ DOMAIN heap' = DOMAIN heap
          /\ \A o \in DOMAIN heap :
               /\ DOMAIN heap'[o] = DOMAIN heap[o]
               /\ \A y \in DOMAIN heap[o] :
                    heap'[o][y].fed = IF o = Obj /\ y = n THEN heap[o][y].fed + 1
                                      ELSE heap[o][y].fed
    BY <1>1, <1>6, EvaluateWindowMeans
  <2>3. ASSUME NEW r \in Readers, NEW s \in DOMAIN metrics[r]
        PROVE  FigureAt(r, s)'
    <3> DEFINE m == metrics[r][s]
               o == <<r, m.epoch>>
    <3>1. /\ m.epoch <= held
          /\ m.epoch = epoch => o \in DOMAIN heap
          /\ o \in DOMAIN heap =>
               /\ s \in DOMAIN heap[o]
               /\ heap[o][s].fed = IF Counted(o, s) THEN m.fed + 1 ELSE m.fed
      BY <2>1, <2>3 DEF FiguresInv, FigureAt
    <3>2. /\ Counted(o, s) <=> o = Obj /\ s \notin todo
          /\ Counted(o, s)' <=> o = Obj /\ s \notin todo \ {n}
      BY <2>1, <2>2 DEF Counted
    <3> HIDE DEF o, m
    <3>3. o \in DOMAIN heap' =>
            /\ s \in DOMAIN heap'[o]
            /\ heap'[o][s].fed = IF Counted(o, s)' THEN m.fed + 1 ELSE m.fed
      BY <2>2, <3>1, <3>2
    <3> QED
      BY <1>1, <2>1, <2>2, <3>1, <3>3 DEF FigureAt, m, o
  <2> QED
    BY <2>1, <2>3 DEF FiguresInv
<1>7. CASE UpdateMetrics
  <2> DEFINE old == metrics[ev.reader]
             new == Merge([s \in DOMAIN heap[Obj] |->
                             [epoch |-> held, fed |-> heap[Obj][s].fed]], old)
  <2>1. /\ UsesReader /\ ~UsesReader' /\ todo = {} /\ pc # "streak"
        /\ ev.reader \in Readers /\ Obj \in DOMAIN heap
        /\ metrics' = [metrics EXCEPT ![ev.reader] = new]
        /\ DOMAIN heap' = {o \in DOMAIN heap : o[2] = epoch}
        /\ \A o \in DOMAIN heap' : heap'[o] = heap[o]
    BY <1>1, <1>7 DEF UpdateMetrics, Return, UsesReader, PipeInv, Events
  <2>2. /\ DOMAIN new = DOMAIN heap[Obj] \cup DOMAIN old
        /\ \A s \in DOMAIN heap[Obj] :
             new[s] = [epoch |-> held, fed |-> heap[Obj][s].fed]
        /\ \A s \in DOMAIN old \ DOMAIN heap[Obj] : new[s] = old[s]
    BY DEF Merge
  <2> HIDE DEF new
  <2>3. /\ metrics'[ev.reader] = new
        /\ \A r \in Readers \ {ev.reader} : metrics'[r] = metrics[r]
    BY <1>1, <2>1 DEF StoresInv
  <2>4. ASSUME NEW r \in Readers, NEW s \in DOMAIN metrics[r],
               <<r, metrics[r][s].epoch>> # Obj, metrics'[r][s] = metrics[r][s]
        PROVE  FigureAt(r, s)'
    <3> DEFINE m == metrics[r][s]
               o == <<r, m.epoch>>
    <3>1. /\ m.epoch = epoch => o \in DOMAIN heap
          /\ o \in DOMAIN heap => s \in DOMAIN heap[o] /\ heap[o][s].fed = m.fed
      BY <2>4 DEF FiguresInv, FigureAt, Counted
    <3>2. ~Counted(o, s)' /\ o[2] = m.epoch
      BY <2>1 DEF Counted
    <3>3. /\ m.epoch = epoch' => o \in DOMAIN heap'
          /\ o \in DOMAIN heap' => s \in DOMAIN heap'[o] /\ heap'[o][s].fed = m.fed
      BY <1>1, <2>1, <3>1, <3>2
    <3> QED
      BY <2>1, <2>4, <3>2, <3>3 DEF FigureAt, Counted
  <2>5. ASSUME NEW r \in Readers, r = ev.reader, NEW s \in DOMAIN heap[Obj]
        PROVE  FigureAt(r, s)'
    <3> DEFINE o == <<r, held>>
               f == heap[o][s].fed
    <3>1. o = Obj /\ o[2] = held
      BY <2>5 DEF Obj
    <3>2. metrics'[r][s] = [epoch |-> held, fed |-> f]
      BY <2>2, <2>3, <2>5, <3>1
    <3>3. metrics'[r][s].epoch = held /\ metrics'[r][s].fed = f
      BY <3>2
    <3>4. /\ held = epoch' => o \in DOMAIN heap'
          /\ o \in DOMAIN heap' => heap'[o] = heap[o]
      BY <1>1, <2>1, <3>1
    <3>5. s \in DOMAIN heap[o]
      BY <2>5, <3>1
    <3> HIDE DEF o, f
    <3>6. o \in DOMAIN heap' => s \in DOMAIN heap'[o] /\ heap'[o][s].fed = f
      BY <3>4, <3>5 DEF f
    <3> QED
      BY <2>1, <3>3, <3>4, <3>6 DEF FigureAt, Counted, o
  <2>6. ASSUME NEW r \in Readers, NEW s \in DOMAIN metrics'[r]
        PROVE  FigureAt(r, s)'
    <3>1. CASE r # ev.reader
      <4>1. s \in DOMAIN metrics[r] /\ metrics'[r][s] = metrics[r][s]
        BY <2>3, <2>6, <3>1
      <4>2. <<r, metrics[r][s].epoch>> # Obj
        BY <3>1 DEF Obj
      <4> QED
        BY <2>4, <4>1, <4>2
    <3>2. CASE r = ev.reader /\ s \in DOMAIN heap[Obj]
      BY <2>5, <3>2
    <3>3. CASE r = ev.reader /\ s \notin DOMAIN heap[Obj]
      <4>1. s \in DOMAIN metrics[r] /\ metrics'[r][s] = metrics[r][s]
        BY <2>2, <2>3, <2>6, <3>3
      <4>2. <<r, metrics[r][s].epoch>> # Obj
        BY <2>1, <3>3, <4>1 DEF FiguresInv, FigureAt
      <4> QED
        BY <2>4, <4>1, <4>2
    <3> QED
      BY <3>1, <3>2, <3>3
  <2> QED
    BY <2>6 DEF FiguresInv
<1> QED
  BY <1>2, <1>3, <1>4, <1>5, <1>6, <1>7 DEF Pipeline

LEMMA AdminFiguresInv ==
  ASSUME TypeInv, FiguresInv, NEW a \in Admins,
         \/ HandleRestart(a) \/ HandleClear(a)
         \/ ResetReaders(a) \/ ResetCooldown(a) \/ ResetDedupe(a)
         \/ ClearMetrics(a) \/ ClearAlerts(a)
  PROVE  FiguresInv'
<1>0. UNCHANGED <<pc, ev, held, todo, want>>
  BY DEF HandleRestart, HandleClear, ResetReaders, ResetCooldown, ResetDedupe,
         ClearMetrics, ClearAlerts, pipe
<1>1. CASE ResetReaders(a)
  <2>1. /\ epoch' = epoch + 1 /\ metrics' = metrics /\ epoch \in Nat
        /\ DOMAIN heap' \subseteq DOMAIN heap
        /\ \A o \in DOMAIN heap' : heap'[o] = heap[o]
    BY <1>1 DEF ResetReaders, Reachable, stores, TypeInv, AdminInv
  <2>2. ASSUME NEW r \in Readers, NEW s \in DOMAIN metrics[r]
        PROVE  FigureAt(r, s)'
    <3>1. metrics[r][s].epoch # epoch'
      BY <2>1 DEF TypeInv, StoresInv
    <3>2. FigureAt(r, s)
      BY DEF FiguresInv
    <3> QED
      BY <1>0, <2>1, <3>1, <3>2 DEF FigureAt, Counted, UsesReader, Obj
  <2> QED
    BY <2>1, <2>2 DEF FiguresInv
<1>2. CASE ClearMetrics(a)
  BY <1>2 DEF ClearMetrics, FiguresInv
<1>3. CASE \/ HandleRestart(a) \/ HandleClear(a) \/ ResetCooldown(a)
           \/ ResetDedupe(a) \/ ClearAlerts(a)
  <2>1. UNCHANGED <<epoch, heap, metrics>>
    BY <1>3 DEF HandleRestart, HandleClear, ResetCooldown, ResetDedupe,
                ClearAlerts, engine, stores
  <2> QED
    BY <1>0, <2>1 DEF FiguresInv, FigureAt, Counted, UsesReader, Obj
<1> QED
  BY <1>1, <1>2, <1>3

LEMMA StepIInv == IInv /\ [Next]_vars => IInv'
<1> SUFFICES ASSUME TypeInv, StaleInv, FiguresInv, [Next]_vars
             PROVE  StaleInv' /\ FiguresInv'
  BY StepTypeInv DEF IInv
<1>1. CASE Pipeline
  <2>1. PICK r : OneReader(r)
    BY StaleInvMeans
  <2>2. OneReader(r)'
    BY <1>1, <2>1, PipelineOneReader
  <2> QED
    BY <1>1, <2>2, PipelineFiguresInv
       DEF StaleInv, OneReader, MetricsToCome, AlertsToCome
<1>2. CASE ConfigChanges \/ UNCHANGED vars
  <2>1. UNCHANGED <<epoch, heap, metrics, alerts, admin, pc, ev, held, todo, want>>
    BY <1>2 DEF ConfigChanges, vars, engine, stores, pipe
  <2>2. StaleInv'
    BY <2>1 DEF StaleInv, StaleMetrics, StaleAlerts
  <2>3. FiguresInv'
    BY <2>1 DEF FiguresInv, FigureAt, Counted, UsesReader, Obj
  <2> QED
    BY <2>2, <2>3
<1> QED
  BY <1>1, <1>2, AdminStaleInv, AdminFiguresInv DEF Next

LEMMA InitIInv == Init => IInv
<1>1. Init => StaleInv /\ FiguresInv
  BY DEF Init, StaleInv, StaleMetrics, StaleAlerts, FiguresInv
<1> QED
  BY <1>1, InitTypeInv DEF IInv

THEOREM SpecIInv == Spec => []IInv
  BY InitIInv, StepIInv, PTL DEF Spec

-----------------------------------------------------------------------------
(* What escapes the restarts is at most the event in hand at the latest of *)
(* them, however many there are, however they interleave, and whatever     *)
(* clears of the stores come in between (engine.go:147-160,                *)
(* server.go:282-297).                                                     *)
THEOREM SpecStaleOneReader == Spec => []StaleOneReader
<1>1. IInv => StaleOneReader
  <2> SUFFICES ASSUME StaleInv, Quiet
               PROVE  Cardinality(StaleMetrics \cup StaleAlerts) <= 1
    BY DEF IInv, StaleOneReader
  <2>1. PICK r : StaleMetrics \cup StaleAlerts \subseteq {r}
    BY DEF StaleInv, Quiet, Has
  <2>2. IsFiniteSet({r}) /\ Cardinality({r}) = 1
    BY FS_Singleton
  <2> QED
    BY <2>1, <2>2, FS_Subset
<1> QED
  BY <1>1, SpecIInv, PTL

(* Every whole second that a duration of the configuration in hand has is  *)
(* that of a window there is when the pipeline feeds its reader, whatever  *)
(* reloads and restarts have come meanwhile (engine.go:162-188).           *)
THEOREM SpecWindowsCovered == Spec => []WindowsCovered
<1>1. IInv => WindowsCovered
  BY DEF IInv, TypeInv, PipeInv, UsesReader, WindowsCovered
<1> QED
  BY <1>1, SpecIInv, PTL

(* Through reloads, restarts and clears, for any number of them: a figure  *)
(* is replaced by one of a later reader, or by one that counts exactly one *)
(* event more (engine.go:124-149, 166-192).                                *)
THEOREM SpecFiguresMoveOn == Spec => FiguresMoveOn
<1>1. ASSUME IInv, UpdateMetrics, NEW s \in DOMAIN metrics[ev.reader]
      PROVE  LET old == metrics[ev.reader][s]
                 new == metrics'[ev.reader][s]
             IN  /\ old.epoch <= held
                 /\ old.epoch = held =>
                      new = [epoch |-> held, fed |-> old.fed + 1]
  <2>1. /\ UsesReader /\ pc # "streak" /\ todo = {} /\ ev.reader \in Readers
        /\ Obj \in DOMAIN heap /\ ev.reader \in DOMAIN metrics
    BY <1>1 DEF UpdateMetrics, UsesReader, IInv, TypeInv, PipeInv, Events,
                StoresInv
  <2>2. FigureAt(ev.reader, s)
    BY <1>1, <2>1 DEF IInv, FiguresInv
  <2>3. ASSUME metrics[ev.reader][s].epoch = held
        PROVE  /\ s \in DOMAIN heap[Obj]
               /\ heap[Obj][s].fed = metrics[ev.reader][s].fed + 1
    BY <2>1, <2>2, <2>3 DEF FigureAt, Counted, Obj
  <2>4. ASSUME NEW d \in DOMAIN heap[Obj]
        PROVE  metrics'[ev.reader][d] = [epoch |-> held, fed |-> heap[Obj][d].fed]
    BY <1>1, <2>1, <2>4 DEF UpdateMetrics, Merge
  <2> QED
    BY <2>1, <2>2, <2>3, <2>4 DEF FigureAt
<1>2. IInv /\ [Next]_vars =>
        (UpdateMetrics =>
           \A s \in DOMAIN metrics[ev.reader] :
             LET old == metrics[ev.reader][s]
                 new == metrics'[ev.reader][s]
             IN  /\ old.epoch <= held
                 /\ old.epoch = held =>
                      new = [epoch |-> held, fed |-> old.fed + 1])
  BY <1>1
<1> QED
  BY <1>2, SpecIInv, PTL DEF Spec, FiguresMoveOn
=============================================================================
