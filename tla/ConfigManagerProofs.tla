------------------------ MODULE ConfigManagerProofs ------------------------
(***************************************************************************)
(* Theorems about ConfigManager: for every set of policies and settings,   *)
(* any number of POSTs, edits and ticks of the clock.                      *)
(*                                                                         *)
(* The two properties speak of the moments when nothing runs.  What makes  *)
(* them inductive is where a reload or a POST that has come alone stands:  *)
(* which of the four copies it has written (Follows), that nothing else    *)
(* runs meanwhile (Alone), and that the policy acknowledged last is what a *)
(* reload has read (Acked).                                                *)
(***************************************************************************)
EXTENDS ConfigManager, TLAPS, FiniteSetTheorems

Alone ==
  /\ \A p \in Writing : wpc = "idle" /\ ~editing /\ expect = NoPolicy
  /\ \A p, q \in Writing : p = q
  /\ wpc \in {"store", "stat"} => ~editing

Follows ==
  /\ /\ wpc \in {"idle", "load", "store"}
     /\ \A p \in Posts : ppc[p] \notin {"stat", "cfg", "access"}
     => ecfg = mgr /\ eaccess = mgr.access
  /\ wpc \in {"stat", "cfg", "access"} => mgr = wcfg
  /\ wpc = "access" => ecfg = wcfg
  /\ \A p \in Posts :
       /\ ppc[p] \in {"store", "stat", "cfg", "access"} => file = next[p]
       /\ ppc[p] \in {"stat", "cfg", "access"} => mgr = next[p]
       /\ ppc[p] = "access" => ecfg = next[p]

Acked ==
  expect # NoPolicy =>
    /\ ~editing
    /\ file.access = expect /\ mgr.access = expect /\ eaccess = expect
    /\ wpc \in {"store", "stat", "cfg", "access"} => wcfg.access = expect

(* An edit that has begun is one the bound still allows.                   *)
TypeInv == TypeOK /\ (editing => edits < MaxEdits)

IInv == TypeInv /\ (~overlap => Alone /\ Follows /\ Acked)

-----------------------------------------------------------------------------
LEMMA InitTypeInv == Init => TypeInv
<1> SUFFICES ASSUME Init PROVE TypeOK /\ ~editing
  BY DEF TypeInv
<1>1. file \in Configs /\ file \in Contents /\ file.access \in Policies
  BY DEF Init, Configs, Contents
<1>2. /\ mtime \in 1 .. clock /\ modTime \in 1 .. clock
      /\ clock \in 1 .. MaxClock /\ edits \in 0 .. MaxEdits
  BY ConfigAssumption DEF Init
<1>3. /\ next \in [Posts -> Configs] /\ wcfg \in Configs /\ mgr \in Configs
      /\ ecfg \in Configs /\ eaccess \in Policies
  BY <1>1 DEF Init
<1> QED
  BY <1>1, <1>2, <1>3 DEF Init, TypeOK

LEMMA ConfigFields ==
  /\ \A c \in Configs : c.access \in Policies /\ c \in Contents
  /\ \A c \in Configs, a \in Policies : [c EXCEPT !.access = a] \in Configs
  /\ Bad \in Contents /\ Empty \in Contents
  BY DEF Configs, Contents

LEMMA StepTypeInv == TypeInv /\ [Next]_vars => TypeInv'
<1> SUFFICES ASSUME TypeOK, editing => edits < MaxEdits, [Next]_vars
             PROVE  TypeOK' /\ (editing' => edits' < MaxEdits)
  BY DEF TypeInv
<1> USE ConfigAssumption, ConfigFields
<1>1. CASE Next
  <2>1. overlap' \in BOOLEAN
    BY <1>1 DEF Next, TypeOK
  <2>2. CASE ClockTicks
    BY <2>1, <2>2 DEF ClockTicks, TypeOK, disk, memory, watcher, posts
  <2>3. CASE Operator
    <3>1. CASE Replace
      BY <2>1, <3>1 DEF Replace, Write, TypeOK, memory, watcher, posts
    <3>2. CASE TruncateByHand
      BY <2>1, <3>2 DEF TruncateByHand, Write, TypeOK, memory, watcher, posts
    <3>3. CASE WriteByHand
      <4>1. edits' \in 0 .. MaxEdits
        BY <3>3 DEF WriteByHand, TypeOK
      <4>2. /\ file' \in Contents /\ mtime' = clock /\ clock' = clock
            /\ clock \in 1 .. clock
        BY <3>3 DEF WriteByHand, Write, TypeOK
      <4> QED
        BY <2>1, <3>3, <4>1, <4>2 DEF WriteByHand, TypeOK, memory, watcher, posts
    <3> QED
      BY <2>3, <3>1, <3>2, <3>3 DEF Operator
  <2>4. CASE Watch
    <3>1. CASE WatchNeedsReload
      BY <2>1, <3>1 DEF WatchNeedsReload, TypeOK, disk, memory, posts
    <3>2. CASE WatchLoad
      BY <2>1, <3>2 DEF WatchLoad, LoadFails, TypeOK, disk, posts
    <3>3. CASE WatchStore
      BY <2>1, <3>3 DEF WatchStore, TypeOK, disk, posts
    <3>4. CASE WatchStat
      BY <2>1, <3>4 DEF WatchStat, TypeOK, disk, posts
    <3>5. CASE WatchEngineCfg
      BY <2>1, <3>5 DEF WatchEngineCfg, TypeOK, disk, posts
    <3>6. CASE WatchEngineAccess
      BY <2>1, <3>6 DEF WatchEngineAccess, StoreAccess, TypeOK, disk, posts
    <3> QED
      BY <2>4, <3>1, <3>2, <3>3, <3>4, <3>5, <3>6 DEF Watch
  <2>5. ASSUME NEW p \in Posts, Post(p) PROVE TypeOK' /\ (editing' => edits' < MaxEdits)
    <3>1. CASE PostGet(p)
      BY <2>1, <3>1 DEF PostGet, Goto, TypeOK, disk, memory, watcher
    <3>2. CASE PostTruncate(p)
      BY <2>1, <3>2 DEF PostTruncate, Write, Goto, TypeOK, memory, watcher
    <3>3. CASE PostWrite(p)
      BY <2>1, <3>3 DEF PostWrite, Saved, Write, Goto, TypeOK, memory, watcher
    <3>4. CASE PostFails(p)
      BY <2>1, <3>4 DEF PostFails, Goto, TypeOK, disk, memory, watcher
    <3>5. CASE PostStore(p)
      BY <2>1, <3>5 DEF PostStore, Goto, TypeOK, disk, watcher
    <3>6. CASE PostStat(p)
      BY <2>1, <3>6 DEF PostStat, Goto, TypeOK, disk, watcher
    <3>7. CASE PostEngineCfg(p)
      BY <2>1, <3>7 DEF PostEngineCfg, Goto, TypeOK, disk, watcher
    <3>8. CASE PostEngineAccess(p)
      BY <2>1, <3>8 DEF PostEngineAccess, StoreAccess, Goto, TypeOK, disk, watcher
    <3> QED
      BY <2>5, <3>1, <3>2, <3>3, <3>4, <3>5, <3>6, <3>7, <3>8 DEF Post
  <2> QED
    BY <1>1, <2>2, <2>3, <2>4, <2>5 DEF Next, Step
<1>2. CASE UNCHANGED vars
  BY <1>2 DEF vars, disk, memory, watcher, posts, TypeOK
<1> QED
  BY <1>1, <1>2

THEOREM SpecTypeOK == Spec => []TypeOK
<1>1. TypeInv => TypeOK
  BY DEF TypeInv
<1> QED
  BY <1>1, InitTypeInv, StepTypeInv, PTL DEF Spec

-----------------------------------------------------------------------------
(* What it means that a step brings no overlap.                            *)
LEMMA TwoAreMore ==
  ASSUME NEW S, IsFiniteSet(S), NEW a \in S, NEW b \in S, a # b
  PROVE  Cardinality(S) > 1
<1>1. IsFiniteSet({a}) /\ Cardinality({a}) = 1
  BY FS_Singleton
<1>2. IsFiniteSet({a} \cup {b}) /\ Cardinality({a} \cup {b}) = 2
  <2> DEFINE T == {a}
  <2>1. b \notin T /\ IsFiniteSet(T) /\ Cardinality(T) = 1
    BY <1>1
  <2> HIDE DEF T
  <2>2. IsFiniteSet(T \cup {b}) /\ Cardinality(T \cup {b}) = 2
    BY <2>1, FS_AddElement
  <2> QED
    BY <2>2 DEF T
<1>3. Cardinality({a} \cup {b}) <= Cardinality(S) /\ Cardinality(S) \in Nat
  BY FS_Subset, FS_CardinalityType
<1> QED
  BY <1>2, <1>3

LEMMA NoOverlapMeans ==
  ASSUME TypeOK, TypeOK', Next, ~overlap'
  PROVE  /\ ~overlap
         /\ \A p, q \in Writing' : p = q
         /\ \A p \in Writing' : wpc' = "idle" /\ ~editing' /\ edits' = edits
         /\ editing' \/ edits' # edits => wpc' \notin {"store", "stat"}
<1>1. ~overlap /\ ~Overlaps
  BY DEF Next, TypeOK
<1>2. /\ ~(Cardinality(Running') > 1)
      /\ editing' \/ edits' # edits
           => Writing' = {} /\ wpc' \notin {"store", "stat"}
  BY <1>1 DEF Overlaps
<1>3. Writing' \subseteq Running' /\ (wpc' # "idle" => "watch" \in Running')
  BY DEF Running
<1>4. IsFiniteSet(Running')
  <2>1. Writing' \subseteq Posts /\ Running' \subseteq Posts \cup {"watch"}
    BY DEF Writing, Running
  <2>2. IsFiniteSet(Posts \cup {"watch"})
    BY ConfigAssumption, FS_AddElement
  <2> QED
    BY <2>1, <2>2, FS_Subset
<1>5. \A a, b \in Running' : a = b
  BY <1>2, <1>4, TwoAreMore
<1>6. "watch" \notin Writing'
  BY ConfigAssumption DEF Writing
<1> QED
  BY <1>1, <1>2, <1>3, <1>5, <1>6

(* The places of the POSTs when one of them moves.                         *)
LEMMA GotoMeans ==
  ASSUME TypeOK, NEW p \in Posts, NEW label, Goto(p, label)
  PROVE  ppc'[p] = label /\ \A q \in Posts \ {p} : ppc'[q] = ppc[q]
  BY DEF Goto, TypeOK

-----------------------------------------------------------------------------
LEMMA InitIInv == Init => IInv
<1> SUFFICES ASSUME Init PROVE IInv
  OBVIOUS
<1>1. TypeInv
  BY InitTypeInv
<1>2. Alone /\ Follows /\ Acked
  BY DEF Init, Alone, Follows, Acked, Writing
<1> QED
  BY <1>1, <1>2 DEF IInv

(* A step of the watcher that has come alone.                              *)
LEMMA WatchIInv ==
  ASSUME TypeOK, TypeOK', Watch, Next, ~overlap', Alone, Follows, Acked
  PROVE  Alone' /\ Follows' /\ Acked'
<1>1. /\ \A p, q \in Writing' : p = q
      /\ \A p \in Writing' : wpc' = "idle" /\ ~editing' /\ edits' = edits
      /\ editing' \/ edits' # edits => wpc' \notin {"store", "stat"}
  BY NoOverlapMeans
<1>2. ppc' = ppc /\ next' = next /\ expect' = expect
  BY DEF Watch, WatchNeedsReload, WatchLoad, WatchStore, WatchStat,
         WatchEngineCfg, WatchEngineAccess, posts
<1>3. Alone'
  BY <1>1, <1>2 DEF Alone, Writing
<1>4. file' = file /\ editing' = editing
  BY DEF Watch, WatchNeedsReload, WatchLoad, WatchStore, WatchStat,
         WatchEngineCfg, WatchEngineAccess, disk
<1>5. wpc # "idle" \/ wpc' # "idle"
  BY DEF Watch, WatchNeedsReload, WatchLoad, WatchStore, WatchStat,
         WatchEngineCfg, WatchEngineAccess
<1>6. \A p \in Posts : ppc[p] \in {"idle", "done", "failed"}
  BY <1>1, <1>2, <1>5 DEF Alone, Writing
<1>7. Follows'
  BY <1>2, <1>4, <1>6 DEF Follows, Watch, WatchNeedsReload, WatchLoad,
     LoadFails, WatchStore, WatchStat, WatchEngineCfg, WatchEngineAccess,
     StoreAccess, memory
<1>8. Acked'
  BY <1>2, <1>4 DEF Acked, Watch, WatchNeedsReload, WatchLoad,
     LoadFails, WatchStore, WatchStat, WatchEngineCfg, WatchEngineAccess,
     StoreAccess, memory
<1> QED
  BY <1>3, <1>7, <1>8

(* A step of a POST that has come alone.                                   *)
LEMMA PostIInv ==
  ASSUME TypeOK, TypeOK', NEW p \in Posts, Post(p), Next, ~overlap',
         Alone, Follows, Acked
  PROVE  Alone' /\ Follows' /\ Acked'
<1> USE DEF Post, PostGet, PostTruncate, PostWrite, PostFails, PostStore,
            PostStat, PostEngineCfg, PostEngineAccess
<1>1. /\ \A q, t \in Writing' : q = t
      /\ \A q \in Writing' : wpc' = "idle" /\ ~editing' /\ edits' = edits
      /\ editing' \/ edits' # edits => wpc' \notin {"store", "stat"}
  BY NoOverlapMeans
<1>2. wpc' = wpc /\ wcfg' = wcfg /\ editing' = editing
  BY DEF disk, watcher
<1>3. p \in Writing \/ p \in Writing'
  BY DEF Goto, TypeOK, Writing
<1>4. wpc = "idle" /\ ~editing
  BY <1>1, <1>2, <1>3 DEF Alone
<1>5. \A q \in Posts \ {p} :
        ppc[q] \in {"idle", "done", "failed"} /\ ppc'[q] = ppc[q]
  <2>1. \A q \in Posts \ {p} : ppc'[q] = ppc[q]
    BY GotoMeans
  <2> QED
    BY <2>1, <1>1, <1>3 DEF Alone, Writing
<1>6. /\ ppc[p] # "idle" => expect = NoPolicy
      /\ expect' = NoPolicy \/ ppc'[p] = "done"
  <2>1. ppc[p] # "idle" => expect = NoPolicy
    BY <1>3 DEF Alone, Writing
  <2> QED
    BY <2>1, GotoMeans
<1>7. Alone'
  BY <1>1, <1>2, <1>5, <1>6 DEF Alone, Writing
<1>8. \A l : Goto(p, l) => ppc'[p] = l
  BY GotoMeans
<1>9. next \in [Posts -> Configs]
  BY DEF TypeOK
<1> USE <1>2, <1>4, <1>5, <1>6, <1>8, <1>9
<1>10. Follows' /\ Acked'
  <2>1. CASE PostGet(p)
    BY <2>1 DEF PostGet, Follows, Acked, disk, memory
  <2>2. CASE PostTruncate(p)
    BY <2>2 DEF PostTruncate, Write, Follows, Acked, memory
  <2>3. CASE PostWrite(p)
    BY <2>3 DEF PostWrite, Saved, Write, Follows, Acked, memory
  <2>4. CASE PostFails(p)
    BY <2>4 DEF PostFails, Follows, Acked, disk, memory
  <2>5. CASE PostStore(p)
    BY <2>5 DEF PostStore, Follows, Acked, disk
  <2>6. CASE PostStat(p)
    BY <2>6 DEF PostStat, Follows, Acked, disk
  <2>7. CASE PostEngineCfg(p)
    BY <2>7 DEF PostEngineCfg, Follows, Acked, disk
  <2>8. CASE PostEngineAccess(p)
    BY <2>8 DEF PostEngineAccess, StoreAccess, Follows, Acked, disk
  <2> QED
    BY <2>1, <2>2, <2>3, <2>4, <2>5, <2>6, <2>7, <2>8 DEF Post
<1> QED
  BY <1>7, <1>10

(* An edit or a tick of the clock, while nothing it could spoil runs.      *)
LEMMA DiskIInv ==
  ASSUME TypeOK, TypeOK', ClockTicks \/ Operator, Next, ~overlap',
         Alone, Follows, Acked
  PROVE  Alone' /\ Follows' /\ Acked'
<1>1. /\ \A q, t \in Writing' : q = t
      /\ \A q \in Writing' : wpc' = "idle" /\ ~editing' /\ edits' = edits
      /\ editing' \/ edits' # edits => wpc' \notin {"store", "stat"}
  BY NoOverlapMeans
<1>2. UNCHANGED <<memory, watcher, posts>>
  BY DEF ClockTicks, Operator, Replace, TruncateByHand, WriteByHand
<1>3. /\ wpc' = wpc /\ wcfg' = wcfg /\ ppc' = ppc /\ next' = next
      /\ mgr' = mgr /\ ecfg' = ecfg /\ eaccess' = eaccess
  BY <1>2 DEF memory, watcher, posts
<1>4. Writing' = Writing
  BY <1>3 DEF Writing
<1>5. \/ file' = file /\ editing' = editing /\ expect' = expect
      \/ Writing' = {} /\ expect' = NoPolicy
  <2>1. CASE ClockTicks
    BY <2>1 DEF ClockTicks
  <2>2. CASE Replace \/ TruncateByHand \/ WriteByHand
    <3>1. editing' = TRUE \/ edits' # edits
      BY <2>2 DEF Replace, TruncateByHand, WriteByHand, TypeOK
    <3>2. Writing' = {}
      BY <1>1, <3>1
    <3>3. expect' = NoPolicy
      BY <2>2 DEF Replace, TruncateByHand, WriteByHand, Acked
    <3> QED
      BY <3>2, <3>3
  <2> QED
    BY <2>1, <2>2 DEF Operator
<1>6. Alone'
  BY <1>1, <1>3, <1>4, <1>5 DEF Alone
<1>7. Follows'
  <2>1. \A p \in Posts : ppc[p] \in {"store", "stat", "cfg", "access"}
                            => p \in Writing'
    BY <1>4 DEF Writing
  <2> QED
    BY <1>3, <1>5, <2>1 DEF Follows
<1>8. Acked'
  BY <1>3, <1>5 DEF Acked
<1> QED
  BY <1>6, <1>7, <1>8

LEMMA StepIInv == IInv /\ [Next]_vars => IInv'
<1> SUFFICES ASSUME IInv, [Next]_vars PROVE IInv'
  OBVIOUS
<1>1. TypeInv' /\ TypeOK /\ TypeOK'
  BY StepTypeInv DEF IInv, TypeInv
<1>2. CASE Next
  <2> SUFFICES ASSUME ~overlap' PROVE Alone' /\ Follows' /\ Acked'
    BY <1>1 DEF IInv
  <2>1. Alone /\ Follows /\ Acked
    BY <1>1, <1>2, NoOverlapMeans DEF IInv
  <2> QED
    BY <1>1, <1>2, <2>1, WatchIInv, PostIInv, DiskIInv DEF Next, Step
<1>3. CASE UNCHANGED vars
  BY <1>1, <1>3 DEF vars, disk, memory, watcher, posts, IInv,
                    Alone, Follows, Acked, Writing
<1> QED
  BY <1>2, <1>3

THEOREM SpecIInv == Spec => []IInv
  BY InitIInv, StepIInv, PTL DEF Spec

-----------------------------------------------------------------------------
(* Reloads and POSTs that come one by one leave both copies of the engine  *)
(* with what the manager has, whatever failed on the way                   *)
(* (config.go:315-339, engine.go:57-60).                                   *)
THEOREM SpecEngineFollowsManager == Spec => []EngineFollowsManager
<1>1. IInv => EngineFollowsManager
  BY DEF IInv, Follows, EngineFollowsManager, Running, Writing
<1> QED
  BY <1>1, SpecIInv, PTL

(* README:93: ... and a policy that was acknowledged stays in force, in    *)
(* memory and in the file, for as long as that.                            *)
THEOREM SpecAcknowledgedInForce == Spec => []AcknowledgedInForce
<1>1. IInv => AcknowledgedInForce
  BY DEF IInv, Acked, AcknowledgedInForce
<1> QED
  BY <1>1, SpecIInv, PTL
=============================================================================
