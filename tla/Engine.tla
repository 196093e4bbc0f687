------------------------------- MODULE Engine -------------------------------
(***************************************************************************)
(* The detection pipeline (internal/engine/engine.go) running against the  *)
(* HTTP handlers that reset it.                                            *)
(*                                                                         *)
(* One goroutine (Start) takes events from the channel and runs            *)
(* ProcessEvent; every handler of internal/api runs in a goroutine of its  *)
(* own and calls Reset, metrics.Clear and alerts.Clear with no lock around *)
(* the whole.  The pipeline keeps a pointer to the reader it got from      *)
(* getReader, so Reset can take the map away while the pipeline still      *)
(* fills windows of the old one.  A hot reload and a POST call             *)
(* UpdateConfig, which stores two atomics one after the other; the two may *)
(* overlap.                                                                *)
(*                                                                         *)
(* Reset writes e.cooldown and e.deDupe without a lock.  The pipeline      *)
(* loads each pointer anew at every use and nobody else looks at a cache   *)
(* once it was replaced, so a use that loaded the old pointer is the use   *)
(* that came just before the write.                                        *)
(*                                                                         *)
(* What a streak counts and what a cooldown entry is about is left to      *)
(* Alerting, and the figures of a window to Window.  Here a window is its  *)
(* duration and the number of events it was fed; the two caches that Reset *)
(* replaces are empty or not: one that holds something may suppress an     *)
(* event or an alert; and whether a streak is long enough or the figures   *)
(* of a window trip a rule is a choice.                                    *)
(***************************************************************************)
EXTENDS Integers, Sequences, FiniteSets

CONSTANTS
  Readers, UIDs,
  Configs,      \* the configurations the file may hold
  Admins,       \* concurrent calls of the admin handlers
  Updaters,     \* callers of UpdateConfig: the watcher, POSTs
  MaxRestarts,  \* bound: how many restarts are considered
  MaxFed        \* bound: what the windows have been fed when an event comes

(* A configuration, as far as the engine reads it here: the durations of   *)
(* its windows (in half seconds), whether alert_cooldown is positive, and  *)
(* the UIDs its access policy alerts on.                                   *)
ASSUME EngineAssumption ==
  /\ IsFiniteSet(Readers) /\ IsFiniteSet(Admins)
  /\ MaxRestarts \in Nat /\ MaxFed \in Nat
  /\ Configs # {}
  /\ \A c \in Configs : /\ c.windows \in Seq(Nat \ {0})
                        /\ c.windows # << >>
                        /\ c.cooldown \in BOOLEAN
                        /\ c.flagged \subseteq UIDs

VARIABLES
  cfg, access,    \* e.cfg and e.access: the configurations stored last
  update,         \* what each call of UpdateConfig still has to store
  epoch,          \* how often Reset replaced e.readers
  heap,           \* the windows of each ReaderState object, which is named by
                  \* its reader and the epoch of its map
  muted,          \* whether e.cooldown remembers any key
  cached,         \* whether e.deDupe remembers any event
  metrics,        \* metrics.Store: for each window of a reader the epoch of
                  \* its ReaderState and how many events it had been fed
  alerts,         \* alerts.Store: reader and epoch of the evidence of each alert
  admin,          \* what each admin call still has to do
  pc, ev, snap,   \* the pipeline: where it is, its event, its configuration
  held,           \* the epoch of the ReaderState it holds
  todo, want      \* the windows left to evaluate, the kind of alert it raises

engine == <<cfg, access, update, epoch, heap, muted, cached>>
stores == <<metrics, alerts>>
pipe   == <<pc, ev, snap, held, todo, want>>
vars   == <<engine, stores, admin, pipe>>

Events == [reader : Readers, uid : UIDs]
Gens == 0 .. MaxRestarts

(* int(win.Seconds()): the key of a window in the map of its reader.       *)
Sec(d) == d \div 2
SecsOf(c) == {Sec(c.windows[i]) : i \in DOMAIN c.windows}
Secs == UNION {SecsOf(c) : c \in Configs}

Kinds == {"access", "auth", "window"}

(* The locals of ProcessEvent between two calls.                           *)
Nothing == "none"

Return ==
  /\ pc' = "idle" /\ ev' = Nothing /\ snap' = Nothing
  /\ held' = 0 /\ todo' = {} /\ want' = Nothing

Obj == <<ev.reader, held>>

-----------------------------------------------------------------------------
Init ==
  /\ cfg \in Configs /\ access = cfg
  /\ update = [u \in Updaters |-> << >>]
  /\ epoch = 0
  /\ heap = [o \in {} |-> Nothing]
  /\ muted = FALSE /\ cached = FALSE
  /\ metrics = [r \in Readers |-> [s \in {} |-> Nothing]]
  /\ alerts = {}
  /\ admin = [a \in Admins |-> << >>]
  /\ pc = "idle"
  /\ ev = Nothing /\ snap = Nothing /\ held = 0 /\ todo = {} /\ want = Nothing

(***************************************************************************)
(* The pipeline.                                                           *)
(***************************************************************************)
(* The events fed to windows, once for each window.                        *)
Fed == UNION {UNION {{<<o, s, n>> : n \in 1 .. heap[o][s].fed}
                       : s \in DOMAIN heap[o]} : o \in DOMAIN heap}

Receive ==
  /\ pc = "idle"
  /\ Cardinality(Fed) <= MaxFed
  /\ ev' \in Events
  /\ snap' = cfg
  /\ held' = epoch
  /\ pc' = "dedupe"
  /\ UNCHANGED <<engine, stores, admin, todo, want>>

(* Seen: an event the cache remembers ends here.                           *)
Dedupe ==
  /\ pc = "dedupe"
  /\ \/ cached /\ Return /\ UNCHANGED cached
     \/ /\ cached' = TRUE /\ pc' = "access"
        /\ UNCHANGED <<ev, snap, held, todo, want>>
  /\ UNCHANGED <<cfg, access, update, epoch, heap, muted, stores, admin>>

EvaluateAccess ==
  /\ pc = "access"
  /\ IF ev.uid \in access.flagged
     THEN pc' = "allow" /\ want' = "access"
     ELSE pc' = "reader" /\ UNCHANGED want
  /\ UNCHANGED <<engine, stores, admin, ev, snap, held, todo>>

(* Where ProcessEvent goes on after each kind of alert.                    *)
After(kind) == IF kind = "access" THEN "reader" ELSE "windows"

(* Allow: a cooldown that is on may deny a key it remembers; otherwise it  *)
(* remembers this one.                                                     *)
AllowKey ==
  /\ pc = "allow"
  /\ \/ /\ snap.cooldown /\ muted
        /\ pc' = After(want) /\ want' = Nothing
        /\ UNCHANGED muted
     \/ /\ pc' = "emit"
        /\ muted' = (muted \/ snap.cooldown)
        /\ UNCHANGED want
  /\ UNCHANGED <<cfg, access, update, epoch, heap, cached, stores,
                 admin, ev, snap, held, todo>>

EmitAlert ==
  /\ pc = "emit"
  /\ alerts' = alerts \cup {<<ev.reader, held>>}
  /\ pc' = After(want) /\ want' = Nothing
  /\ UNCHANGED <<cfg, access, update, epoch, heap, muted, cached, metrics,
                 admin, ev, snap, held, todo>>

(* NewWindowState.                                                         *)
NewWindow(d) == [span |-> d, fed |-> 0]

(* The windows a map gets from a configuration when nothing is in it: a    *)
(* later duration takes the key of an earlier one of the same second.      *)
Fresh(c) ==
  [s \in SecsOf(c) |->
     LET last == CHOOSE i \in DOMAIN c.windows :
                   /\ Sec(c.windows[i]) = s
                   /\ \A j \in DOMAIN c.windows :
                        Sec(c.windows[j]) = s => j <= i
     IN  NewWindow(c.windows[last])]

(* Mutant: the key of a missing window is rounded, not truncated.          *)
MissingRounded(c, w) ==
  [s \in {(c.windows[i] + 1) \div 2 : i \in DOMAIN c.windows} \ DOMAIN w |->
     LET first == CHOOSE i \in DOMAIN c.windows :
                    /\ (c.windows[i] + 1) \div 2 = s
                    /\ \A j \in DOMAIN c.windows :
                         (c.windows[j] + 1) \div 2 = s => j >= i
     IN  NewWindow(c.windows[first])]

(* ... and what it gets when it is there: only windows of new seconds, the *)
(* first duration of each.                                                 *)
Missing(c, w) ==
  [s \in SecsOf(c) \ DOMAIN w |->
     LET first == CHOOSE i \in DOMAIN c.windows :
                    /\ Sec(c.windows[i]) = s
                    /\ \A j \in DOMAIN c.windows :
                         Sec(c.windows[j]) = s => j >= i
     IN  NewWindow(c.windows[first])]

Merge(f, g) ==
  [s \in DOMAIN f \cup DOMAIN g |-> IF s \in DOMAIN f THEN f[s] ELSE g[s]]

(* Mutant: a reload puts the new durations in place of the old ones.       *)
ExtendedByNew(w, c) == Merge(Fresh(c), w)
(* Mutant: windows are only made when the reader is.                       *)
ExtendedByNothing(w, c) == w

Extended(w, c) == Merge(w, Missing(c, w))

GetReader ==
  /\ pc = "reader"
  /\ held' = epoch
  /\ LET o == <<ev.reader, epoch>>
     IN  heap' = IF o \in DOMAIN heap
                 THEN [heap EXCEPT ![o] = Extended(@, snap)]
                 ELSE Merge(heap, [x \in {o} |-> Fresh(snap)])
  /\ pc' = "streak"
  /\ UNCHANGED <<cfg, access, update, epoch, muted, cached, stores,
                 admin, ev, snap, todo, want>>

EvaluateAuthStreak ==
  /\ pc = "streak"
  /\ \/ pc' = "allow" /\ want' = "auth"
     \/ pc' = "windows" /\ UNCHANGED want
  /\ todo' = DOMAIN heap[Obj]
  /\ UNCHANGED <<engine, stores, admin, ev, snap, held>>

(* One round of the loop over sortedWindows.                               *)
EvaluateWindow ==
  /\ pc = "windows" /\ todo # {}
  /\ LET s == CHOOSE x \in todo : \A y \in todo : x <= y
     IN  /\ todo' = todo \ {s}
         /\ heap' = [heap EXCEPT ![Obj][s].fed = @ + 1]
         /\ \/ pc' = "allow" /\ want' = "window"
            \/ UNCHANGED <<pc, want>>
  /\ UNCHANGED <<cfg, access, update, epoch, muted, cached, stores, admin,
                 ev, snap, held>>

UpdateMetrics ==
  /\ pc = "windows" /\ todo = {}
  /\ metrics' = [metrics EXCEPT ![ev.reader] =
                   Merge([s \in DOMAIN heap[Obj] |->
                            [epoch |-> held, fed |-> heap[Obj][s].fed]], @)]
  /\ heap' = [o \in {x \in DOMAIN heap : x[2] = epoch} |-> heap[o]]
  /\ Return
  /\ UNCHANGED <<cfg, access, update, epoch, muted, cached, alerts, admin>>

Pipeline ==
  \/ Receive \/ Dedupe \/ EvaluateAccess \/ AllowKey \/ EmitAlert
  \/ GetReader \/ EvaluateAuthStreak \/ EvaluateWindow \/ UpdateMetrics

(***************************************************************************)
(* The HTTP handlers and the configuration.                                *)
(***************************************************************************)
(* Mutant: handleRestart clears the stores before it resets the engine.    *)
StoresFirst == <<"metrics", "alerts", "readers", "cooldown", "dedupe">>

RestartSteps == <<"readers", "cooldown", "dedupe", "metrics", "alerts">>

ClearSteps == {<<"metrics", "alerts">>, <<"alerts">>, <<"metrics">>}

(* The restarts that have not replaced the readers yet.                    *)
Pending == {a \in Admins : \E i \in DOMAIN admin[a] : admin[a][i] = "readers"}

HandleRestart(a) ==
  /\ admin[a] = << >>
  /\ epoch + Cardinality(Pending) < MaxRestarts
  /\ admin' = [admin EXCEPT ![a] = RestartSteps]
  /\ UNCHANGED <<engine, stores, pipe>>

HandleClear(a) ==
  /\ admin[a] = << >>
  /\ \E steps \in ClearSteps : admin' = [admin EXCEPT ![a] = steps]
  /\ UNCHANGED <<engine, stores, pipe>>

(* The ReaderStates that can still be reached once the map is replaced.    *)
Reachable == {o \in DOMAIN heap :
                /\ pc \in {"streak", "windows", "allow", "emit"}
                /\ want # "access"
                /\ o = Obj}

ResetReaders(a) ==
  /\ admin[a] # << >> /\ Head(admin[a]) = "readers"
  /\ epoch' = epoch + 1
  /\ heap' = [o \in Reachable |-> heap[o]]
  /\ admin' = [admin EXCEPT ![a] = Tail(@)]
  /\ UNCHANGED <<cfg, access, update, muted, cached, stores, pipe>>

ResetCooldown(a) ==
  /\ admin[a] # << >> /\ Head(admin[a]) = "cooldown"
  /\ muted' = FALSE
  /\ admin' = [admin EXCEPT ![a] = Tail(@)]
  /\ UNCHANGED <<cfg, access, update, epoch, heap, cached, stores, pipe>>

ResetDedupe(a) ==
  /\ admin[a] # << >> /\ Head(admin[a]) = "dedupe"
  /\ cached' = FALSE
  /\ admin' = [admin EXCEPT ![a] = Tail(@)]
  /\ UNCHANGED <<cfg, access, update, epoch, heap, muted, stores, pipe>>

ClearMetrics(a) ==
  /\ admin[a] # << >> /\ Head(admin[a]) = "metrics"
  /\ metrics' = [r \in Readers |-> [s \in {} |-> Nothing]]
  /\ admin' = [admin EXCEPT ![a] = Tail(@)]
  /\ UNCHANGED <<engine, alerts, pipe>>

ClearAlerts(a) ==
  /\ admin[a] # << >> /\ Head(admin[a]) = "alerts"
  /\ alerts' = {}
  /\ admin' = [admin EXCEPT ![a] = Tail(@)]
  /\ UNCHANGED <<engine, metrics, pipe>>

UpdateConfig(u) ==
  \/ /\ update[u] = << >>
     /\ \E c \in Configs : cfg' = c /\ update' = [update EXCEPT ![u] = <<c>>]
     /\ UNCHANGED access
  \/ /\ update[u] # << >>
     /\ access' = update[u][1] /\ update' = [update EXCEPT ![u] = << >>]
     /\ UNCHANGED cfg

ConfigChanges ==
  /\ \E u \in Updaters : UpdateConfig(u)
  /\ UNCHANGED <<epoch, heap, muted, cached, stores, admin, pipe>>

Next ==
  \/ Pipeline
  \/ \E a \in Admins :
       \/ HandleRestart(a) \/ HandleClear(a)
       \/ ResetReaders(a) \/ ResetCooldown(a) \/ ResetDedupe(a)
       \/ ClearMetrics(a) \/ ClearAlerts(a)
  \/ ConfigChanges

Spec == Init /\ [][Next]_vars

-----------------------------------------------------------------------------
(* The windows that have their place under s.                              *)
WindowsOf(s) == {w \in [span : Nat \ {0}, fed : Nat] : Sec(w.span) = s}

TypeOK ==
  /\ cfg \in Configs /\ access \in Configs
  /\ epoch \in Gens /\ held \in 0 .. epoch
  /\ DOMAIN heap \subseteq Readers \X (0 .. epoch)
  /\ \A o \in DOMAIN heap :
       /\ DOMAIN heap[o] \subseteq Secs
       /\ \A s \in DOMAIN heap[o] : heap[o][s] \in WindowsOf(s)
  /\ muted \in BOOLEAN /\ cached \in BOOLEAN
  /\ \A r \in Readers : /\ DOMAIN metrics[r] \subseteq Secs
                         /\ \A s \in DOMAIN metrics[r] :
                              metrics[r][s] \in [epoch : 0 .. epoch, fed : Nat]
  /\ alerts \subseteq Readers \X (0 .. epoch)
  /\ IF pc = "idle" THEN ev = Nothing /\ snap = Nothing
                    ELSE ev \in Events /\ snap \in Configs
  /\ want \in Kinds \cup {Nothing}
  /\ todo \subseteq Secs
  /\ pc \in {"streak", "windows"} => Obj \in DOMAIN heap

(* Readers of which /metrics or /alerts shows something computed before    *)
(* the last restart, or with a reader of before it.                        *)
StaleMetrics == {r \in Readers : \E s \in DOMAIN metrics[r] :
                                   metrics[r][s].epoch < epoch}
StaleAlerts  == {r \in Readers : \E g \in Gens : g < epoch /\ <<r, g>> \in alerts}

Quiet == \A a \in Admins : admin[a] = << >>

(* docs/api.md:190 says that a restart resets all reader windows and the   *)
(* metrics: once it is through, no figure counts an event processed before *)
(* it.  The event the pipeline has in hand escapes it: its reader is the   *)
(* old one, whose windows hold the events before it, and metrics.Update    *)
(* comes after the Clear.                                                  *)
RestartForgets ==
  Quiet => \A r \in Readers : \A s \in DOMAIN metrics[r] :
             ~(metrics[r][s].epoch < epoch /\ metrics[r][s].fed > 1)

(* What escapes a restart is the one event in hand: because the handler    *)
(* resets the engine before it clears the stores (server.go:282-297),      *)
(* never more than one reader shows figures or alerts of an earlier epoch. *)
StaleOneReader == Quiet => Cardinality(StaleMetrics \cup StaleAlerts) <= 1

(* Once the pipeline has its reader, there is a window to be fed for every *)
(* whole second that a duration of the event's configuration has, also     *)
(* when the reader is older than the reload that brought the window, or a  *)
(* restart took the map away (engine.go:166-192).  A duration that shares  *)
(* its whole seconds with a window the reader has gets none of its own.    *)
WindowsCovered ==
  pc \in {"streak", "windows"} => SecsOf(snap) \subseteq DOMAIN heap[Obj]

(* Each time the figures of a reader are updated, those of a window it     *)
(* still has count exactly the event in hand more than those shown before, *)
(* and none is replaced by one of an older reader: a hot reload keeps the  *)
(* windows of a live reader and what they have counted (engine.go:172-180) *)
(* while it adds others, and every window is fed once per event, whatever  *)
(* restarts and clears come in between (engine.go:124-149).                *)
FiguresMoveOn ==
  [][UpdateMetrics =>
       \A s \in DOMAIN metrics[ev.reader] :
         LET old == metrics[ev.reader][s]
             new == metrics'[ev.reader][s]
         IN  /\ old.epoch <= held
             /\ old.epoch = held =>
                  new = [epoch |-> held, fed |-> old.fed + 1]]_vars
=============================================================================
