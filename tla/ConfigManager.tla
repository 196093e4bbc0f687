--------------------------- MODULE ConfigManager ---------------------------
(***************************************************************************)
(* The active configuration and its four copies: the file, Manager.cfg,    *)
(* and the two atomics of the engine, e.cfg and e.access.                  *)
(*                                                                         *)
(*   internal/config/config.go   Load, Save, NewManager, Reload, Update,   *)
(*                               NeedsReload, Watch                        *)
(*   internal/api/server.go      handleAccessControl (POST)                *)
(*   internal/engine/engine.go   UpdateConfig                              *)
(*                                                                         *)
(* The Watch goroutine reloads the file when its modification time has     *)
(* moved on, and hands the result to the engine.  Each POST of a policy    *)
(* runs in a goroutine of its own: it copies the configuration in memory,  *)
(* puts the policy in, saves the file, stores the copy and hands it to the *)
(* engine.  An operator edits the file.  There is no lock: the copies are  *)
(* written one at a time, and every step of one may come between two of    *)
(* another.  os.WriteFile truncates the file before it writes.             *)
(*                                                                         *)
(* Manager.modTime is read and written without synchronisation; here a     *)
(* racing access sees the value before or after.  The program that calls   *)
(* Watch passes Engine.UpdateConfig as onReload.                           *)
(***************************************************************************)
EXTENDS Integers, FiniteSets

CONSTANTS
  Policies,    \* values of access_control
  Thresholds,  \* values of everything else in the file
  Posts,       \* the calls of POST /config/access_control
  MaxEdits,    \* bound: how often the operator edits the file
  MaxClock     \* bound: the last value of the file system's clock

ASSUME ConfigAssumption ==
  /\ Policies # {} /\ Thresholds # {}
  /\ IsFiniteSet(Posts) /\ "watch" \notin Posts
  /\ MaxEdits \in Nat /\ MaxClock \in Nat \ {0}

Configs == [access : Policies, detection : Thresholds]

(* What Load refuses: a file just truncated, and one that does not decode  *)
(* or does not pass Validate.                                              *)
Empty == [access |-> "empty", detection |-> "empty"]
Bad   == [access |-> "bad", detection |-> "bad"]
Contents == Configs \cup {Empty, Bad}

VARIABLES
  file, mtime,   \* the file and its modification time
  clock,         \* the file system's clock, which stamps every write
  editing,       \* an operator has truncated the file and not yet written it
  edits,
  mgr, modTime,  \* m.cfg and m.modTime
  ecfg, eaccess, \* e.cfg and e.access
  wpc, wcfg,     \* the Watch goroutine: where it is and what it has loaded
  ppc, next,     \* the POSTs: where each is and the configuration it stores
  expect,        \* ghost: the policy acknowledged last and not replaced since
  overlap        \* ghost: a POST, a reload and an edit did not come one by one

disk    == <<file, mtime, clock, editing, edits>>
memory  == <<mgr, modTime, ecfg, eaccess>>
watcher == <<wpc, wcfg>>
posts   == <<ppc, next>>
vars    == <<disk, memory, watcher, posts, expect, overlap>>

NoPolicy == "none"

Writing == {p \in Posts : ppc[p] \notin {"idle", "done", "failed"}}
Running == Writing \cup (IF wpc = "idle" THEN {} ELSE {"watch"})

-----------------------------------------------------------------------------
(* NewManager loaded the file, and NewEngine was given what it loaded.     *)
Init ==
  /\ file \in Configs /\ mtime = 1 /\ clock = 1
  /\ editing = FALSE /\ edits = 0
  /\ mgr = file /\ modTime = mtime
  /\ ecfg = file /\ eaccess = file.access
  /\ wpc = "idle" /\ wcfg = file
  /\ ppc = [p \in Posts |-> "idle"]
  /\ next = [p \in Posts |-> file]
  /\ expect = NoPolicy /\ overlap = FALSE

ClockTicks ==
  /\ clock < MaxClock
  /\ clock' = clock + 1
  /\ UNCHANGED <<file, mtime, editing, edits, memory, watcher, posts, expect>>

Write(content) == file' = content /\ mtime' = clock /\ UNCHANGED clock

(***************************************************************************)
(* The operator: a new file moved into place, or written in place.         *)
(***************************************************************************)
Replace ==
  /\ ~editing /\ edits < MaxEdits
  /\ \E c \in Configs \cup {Bad} : Write(c)
  /\ edits' = edits + 1
  /\ expect' = NoPolicy
  /\ UNCHANGED <<editing, memory, watcher, posts>>

TruncateByHand ==
  /\ ~editing /\ edits < MaxEdits
  /\ Write(Empty)
  /\ editing' = TRUE
  /\ expect' = NoPolicy
  /\ UNCHANGED <<edits, memory, watcher, posts>>

WriteByHand ==
  /\ editing
  /\ \E c \in Configs \cup {Bad} : Write(c)
  /\ editing' = FALSE /\ edits' = edits + 1
  /\ UNCHANGED <<memory, watcher, posts, expect>>

Operator == Replace \/ TruncateByHand \/ WriteByHand

(***************************************************************************)
(* Watch: one round of its loop, and the onReload it calls.                *)
(***************************************************************************)
WatchNeedsReload ==
  /\ wpc = "idle" /\ mtime > modTime
  /\ wpc' = "load"
  /\ UNCHANGED <<disk, memory, wcfg, posts, expect>>

(* Mutant: Watch returns where it continues.                               *)
LoadFailsReturns == wpc' = "returned" /\ UNCHANGED <<wcfg, modTime>>
(* Mutant: what does not load is used all the same.                        *)
LoadFailsOpen == wpc' = "store" /\ wcfg' = file /\ UNCHANGED modTime

LoadFails == wpc' = "idle" /\ UNCHANGED <<wcfg, modTime>>

WatchLoad ==
  /\ wpc = "load"
  /\ IF file \in Configs
     THEN wpc' = "store" /\ wcfg' = file /\ UNCHANGED modTime
     ELSE LoadFails
  /\ UNCHANGED <<disk, mgr, ecfg, eaccess, posts, expect>>

WatchStore ==
  /\ wpc = "store"
  /\ mgr' = wcfg
  /\ wpc' = "stat"
  /\ UNCHANGED <<disk, modTime, ecfg, eaccess, wcfg, posts, expect>>

WatchStat ==
  /\ wpc = "stat"
  /\ modTime' = mtime
  /\ wpc' = "cfg"
  /\ UNCHANGED <<disk, mgr, ecfg, eaccess, wcfg, posts, expect>>

WatchEngineCfg ==
  /\ wpc = "cfg"
  /\ ecfg' = wcfg
  /\ wpc' = "access"
  /\ UNCHANGED <<disk, mgr, modTime, eaccess, wcfg, posts, expect>>

(* Mutant: UpdateConfig leaves the access set of the engine alone.         *)
AccessKept(c) == UNCHANGED eaccess

StoreAccess(c) == eaccess' = c.access

WatchEngineAccess ==
  /\ wpc = "access"
  /\ StoreAccess(wcfg)
  /\ wpc' = "idle"
  /\ UNCHANGED <<disk, mgr, modTime, ecfg, wcfg, posts, expect>>

Watch == \/ WatchNeedsReload \/ WatchLoad \/ WatchStore \/ WatchStat
         \/ WatchEngineCfg \/ WatchEngineAccess

(***************************************************************************)
(* handleAccessControl: a copy of the configuration in memory with a new   *)
(* policy, Manager.Update (Save, Store, Stat), and Engine.UpdateConfig.    *)
(***************************************************************************)
Goto(p, label) == ppc' = [ppc EXCEPT ![p] = label]

PostGet(p) ==
  /\ ppc[p] = "idle"
  /\ \E a \in Policies : next' = [next EXCEPT ![p] = [mgr EXCEPT !.access = a]]
  /\ expect' = NoPolicy
  /\ Goto(p, "truncate")
  /\ UNCHANGED <<disk, memory, watcher>>

PostTruncate(p) ==
  /\ ppc[p] = "truncate"
  /\ Write(Empty)
  /\ Goto(p, "write")
  /\ UNCHANGED <<editing, edits, memory, watcher, next, expect>>

(* Mutant: Update is given the configuration that was in memory.           *)
SavedCurrent(p) == mgr

Saved(p) == next[p]

PostWrite(p) ==
  /\ ppc[p] = "write"
  /\ Write(Saved(p))
  /\ Goto(p, "store")
  /\ UNCHANGED <<editing, edits, memory, watcher, next, expect>>

(* Save fails before or after it truncated the file: status 500.           *)
PostFails(p) ==
  /\ ppc[p] \in {"truncate", "write"}
  /\ Goto(p, "failed")
  /\ UNCHANGED <<disk, memory, watcher, next, expect>>

PostStore(p) ==
  /\ ppc[p] = "store"
  /\ mgr' = next[p]
  /\ Goto(p, "stat")
  /\ UNCHANGED <<disk, modTime, ecfg, eaccess, watcher, next, expect>>

PostStat(p) ==
  /\ ppc[p] = "stat"
  /\ modTime' = mtime
  /\ Goto(p, "cfg")
  /\ UNCHANGED <<disk, mgr, ecfg, eaccess, watcher, next, expect>>

PostEngineCfg(p) ==
  /\ ppc[p] = "cfg"
  /\ ecfg' = next[p]
  /\ Goto(p, "access")
  /\ UNCHANGED <<disk, mgr, modTime, eaccess, watcher, next, expect>>

PostEngineAccess(p) ==
  /\ ppc[p] = "access"
  /\ StoreAccess(next[p])
  /\ expect' = next[p].access
  /\ Goto(p, "done")
  /\ UNCHANGED <<disk, mgr, modTime, ecfg, watcher, next>>

Post(p) == \/ PostGet(p) \/ PostTruncate(p) \/ PostWrite(p) \/ PostFails(p)
           \/ PostStore(p) \/ PostStat(p) \/ PostEngineCfg(p)
           \/ PostEngineAccess(p)

Step == ClockTicks \/ Operator \/ Watch \/ \E p \in Posts : Post(p)

(* Two of the program's own goroutines overlap as soon as both run.  An    *)
(* edit overlaps with a POST that runs, and with a reload that has read    *)
(* the file and not yet taken its modification time.                       *)
Overlaps ==
  \/ Cardinality(Running') > 1
  \/ /\ editing' \/ edits' # edits
     /\ Writing' # {} \/ wpc' \in {"store", "stat"}

Next == Step /\ overlap' = (overlap \/ Overlaps)

(* The ticker of Watch keeps firing, a handler that runs goes on, and a    *)
(* file that is being written gets written.                                *)
Spec == Init /\ [][Next]_vars

FairSpec ==
  /\ Spec
  /\ WF_vars(Next /\ Watch)
  /\ WF_vars(Next /\ WriteByHand)
  /\ \A p \in Posts : WF_vars(Next /\ Post(p) /\ ppc[p] # "idle")

-----------------------------------------------------------------------------
TypeOK ==
  /\ file \in Contents /\ mtime \in 1 .. clock /\ clock \in 1 .. MaxClock
  /\ editing \in BOOLEAN /\ edits \in 0 .. MaxEdits
  /\ mgr \in Configs /\ modTime \in 1 .. clock
  /\ ecfg \in Configs /\ eaccess \in Policies
  /\ wpc \in {"idle", "load", "store", "stat", "cfg", "access"}
  /\ wcfg \in Configs /\ next \in [Posts -> Configs]
  /\ ppc \in [Posts -> {"idle", "truncate", "write", "store", "stat", "cfg",
                        "access", "done", "failed"}]
  /\ expect \in Policies \cup {NoPolicy} /\ overlap \in BOOLEAN

(* One by one, reloads and POSTs leave the engine with what the manager    *)
(* has, the access set included (config.go:315-339, engine.go:57-60).      *)
EngineFollowsManager ==
  Running = {} /\ ~overlap => ecfg = mgr /\ eaccess = mgr.access

(* README:93: a policy acknowledged to the UI is in force and in the file, *)
(* whatever reloads follow, as long as POSTs, reloads and edits come one   *)
(* by one: the reload that finds the saved file brings the policy back.    *)
AcknowledgedInForce ==
  Running = {} /\ ~overlap /\ expect # NoPolicy
    => eaccess = expect /\ mgr.access = expect /\ file.access = expect

(* README:93 without the proviso.  A reload that read the file before the  *)
(* POST saved it puts the old policy back after the POST was acknowledged; *)
(* it then takes the modification time of the new file for its own, and    *)
(* the policy in the file is never loaded (config.go:315-325).             *)
AcknowledgedStaysInForce ==
  Running = {} /\ expect # NoPolicy => eaccess = expect

(* README:89, hot reload: a file that loads and is newer than what the     *)
(* manager has seen ends up in force, unless it is overwritten first or an *)
(* overlap comes in.  Watch may have met any number of half written and    *)
(* invalid files before (config.go:347-381).                               *)
EditsReachEngine ==
  \A c \in Configs :
    (file = c /\ ~editing /\ mtime > modTime)
      ~> \/ ecfg = c /\ eaccess = c.access
         \/ file # c
         \/ overlap
=============================================================================
