# A formal model of RFGuard

RFGuard reads authentication events of RFID readers from several transports,
measures them over sliding windows and raises alerts about brute force, card
enumeration and forbidden cards. This directory holds TLA+ models of its core,
the TLC runs that check them, and proofs that TLAPS checks. `PROJECT.json` maps
every definition to the lines of `src/` it stands for.

## 1. Inventory

| Component | State | Operations | Status |
|---|---|---|---|
| Pipeline (`engine/engine.go`) | `e.cfg`, `e.access` (atomics), `e.readers` (map under a mutex), `e.cooldown`, `e.deDupe` | `Start`/`ProcessEvent` in one goroutine; `UpdateConfig` and `Reset` from other goroutines | `Engine` |
| Sliding window (`engine/window.go`) | slice with a dead prefix, counters, UID counts | `Evict`, `Add`, `Metrics` | `Window`, `SlidingWindow` |
| Access policy, streaks, cooldown (`engine.go`, `access_control.go`, `cooldown.go`) | UID lists, streak of each card on each reader, last alert per key | `evaluateAccess`, `evaluateAuthStreak`, `Allow`, `AllowKey` | `Alerting` |
| Window rules (`window.go: Metrics`, `engine.go: evaluate`) | none | figures of a window against thresholds | `Rules` |
| Duplicate suppression (`engine/dedupe.go`) | map from hash to last seen | `Seen`, `compact` | `Dedupe` |
| Configuration manager (`config/config.go`) | `Manager.cfg`, `modTime`, the file | `Load`, `Save`, `Reload`, `Update`, `NeedsReload`, `Watch` | `ConfigManager` |
| HTTP API (`api/server.go`) | none of its own | `/restart`, `/clear`, `POST /config/access_control` change state; the rest reads | handlers that change state: `Engine`, `ConfigManager` |
| Alert store, metrics store (`alerts`, `metrics`) | bounded slice; bounded map with update times | `Add`, `Update`, `Clear`, `List`, `Since`, `evictOldest` | `Stores`; against the pipeline also `Engine` |
| File tailer (`ingest/filetail.go`) | the open file, its reader, `offset` | `tailFile`, one goroutine per path | `FileTail` |
| Channel and other adapters (`ingest/*`) | a bounded channel | `SendNonBlocking`; a goroutine per UDP listener, TCP connection and Kafka reader; `POST /events` | `Ingest` |
| Parser (`ingest/parser.go`, `json.go`) | the CSV header, shared without a lock | `ParseLine`, `CSVParser.Parse`, `ParseJSONMap` | `Ingest` |
| Normalisation (`normalize`) | none | `Normalize`, `ParseTimestamp`, `ParseResult` | `Ingest` |
| Storage (`storage`) | two tables of an SQL database | `SaveAlert`, `SaveMetrics` in a transaction; nothing is read back, errors are dropped | `Storage` |
| Web UI, logging, plain types | none the server depends on | | not modelled |

The entry point `cmd/rfguard` is not in the repository. What it wires together is
taken from how the packages use each other and from the `Start` functions'
parameters: it loads the configuration, makes one `Parser` and one channel for all
adapters, starts `Engine.Start` on that channel, `Manager.Watch` with `Engine.UpdateConfig`
as `onReload`, and the HTTP server.

**How they interact.** Adapters write events to one channel; one goroutine takes
them out and runs `ProcessEvent` to its end: clamp the timestamp, ask the dedupe
cache, the access policy, the streak, each window; every wish for an alert passes
the cooldown; alerts and figures go to the two stores and, with storage enabled,
from there into the database. The HTTP handlers and
`Watch` run beside it and share the atomics, the maps behind their mutexes, and
pointers that `Reset` replaces. No lock spans two of these.

**What is hard, and what makes each part correct.**

- *Interleaving of the pipeline with restarts and clears.* `Reset` replaces the
  map of readers while the pipeline holds a reader of the old one. Correct: what
  survives a restart is bounded by the event in hand.
- *Hot reload.* Readers created earlier have to gain the windows of the new
  configuration and keep what they know. Correct: no figure loses an event. They do
  not gain every window: a reader keeps its windows under their whole seconds, so when
  a window of 1 s is changed to 1.5 s, the readers that exist keep the old one until a
  restart. `WindowsCovered` claims no more than a window for each whole second.
- *Counters adjusted, never recomputed*, over a slice whose front is advanced and
  sometimes copied. Correct: they equal what they count, and memory stays bounded.
- *Time.* Events come late, early, without a timestamp; the wall clock is read
  with `UTC()`, which drops the monotonic reading, so it can be set back; the skews
  that timestamps are clamped with are reloaded. Correct: while every configuration
  has both checks on, a window spans no more than its duration plus a slack that the
  widest skews and the clock determine (with a check off there is no such bound), and
  a flood is noticed in any case; the dedupe cache drops only what has a twin, of the
  same clamped timestamp, that went through within the window. It does not drop all
  copies: the timestamp is clamped before it is hashed, so one that comes when it has
  left the skews counts again, however long `dedupe_window` is. `CopiesSuppressed`
  says which are dropped.
- *A cooldown shared by three sources of alerts*, with a duration that is
  reloaded. Correct: an alert comes no sooner than the cooldown after the latest of
  its key, unless that one was raised while there was no cooldown, which leaves no
  trace; and an attack is never silenced for ever.
- *Four copies of the configuration* (file, manager, two atomics), written one at
  a time by three actors. Correct: they agree when all is quiet.
- *Limits.* A full alert buffer is shifted in place, a full metrics store evicts
  by the stamps of a clock. Correct: the API shows the latest of both.
- *Loss at the edges*: a full channel, a half-written line, a file that is
  truncated or rotated under the tailer. Correct: lines come in order and none twice,
  only lines that were met unfinished are torn, and a full channel costs events
  but never stalls a sender.
- *One CSV header for all senders*, taken from whichever line looks like one first.
  Correct: an event means what its sender meant, whoever was first.
- *Statements that fail and processes that end.* Errors of the database are
  dropped. Correct: batches are whole, nothing is saved twice, and a failure costs
  only what it was about.

## 2. Modules

    SlidingWindow   what a window promises                 <- refined by Window
    Window          window.go and clampTimestamp           MCWindow, WindowProofs
    Rules           the figures and rules, over Window     MCWindow, WindowProofs
    Engine          ProcessEvent against the handlers      MCEngine, EngineProofs
    Alerting        verdicts, streaks and the cooldown     MCAlerting, AlertingProofs
    Dedupe          dedupe.go, isDuplicate, hashEvent      MCDedupe, DedupeProofs
    ConfigManager   config.go, the POST, UpdateConfig      MCConfigManager,
                                                           ConfigManagerProofs
    Stores          alerts/store.go, metrics/store.go      StorageProofs
    Storage         the database, over Stores              MCStores, StorageProofs
    FileTail        filetail.go against a writer           MCFileTail, FileTailProofs
    Ingest          parsing, normalising, the channel      MCIngest, IngestProofs

Each module has a header that says what it stands for, its constants and their
assumption, the state, one action per operation or step, and its properties.
Definitions that begin with the comment `Mutant:` are plausible mistakes; each is
a variant of the definition below it that makes one property fail, and none is
used by the specifications.

### Window and SlidingWindow

`events`, `head`, `attempts`, `failures`, `uidCounts` are the fields of
`WindowState`; `report` is what `Metrics` returned. `ProcessEvent` is the whole of
`Evict; Add; Metrics` for one event, whose timestamp `ClampTimestamp` has put
between the skews around the clock. `skews` are those of the configuration in force,
which `UpdateConfig` replaces between two events. `EvictsTo(h, cutoff)` says where the loop of
`Evict` stops; `Kept(h)` is the slice after the test that copies it. One reader
has one such window per duration, and windows share nothing, so one is modelled.
`SlidingWindow` has no head and no counters: it holds the entries that count and
measures them afresh; `ImplementsWindow` says that `Window` implements it with
`live` the part of the slice behind `head`.

### Rules

`Rules` extends `Window`: `evaluate` runs right after `Add` on what the window has
become, so the rules are functions of its state. `RulesSpec` is `Spec` with a ghost,
`log`, the events received so far. A float is a fraction. `varianceDelta` is the running
mean and squared deviation of the code, as a recursive function over the steps
between the entries that count; `Trips` has the five rules and their guards.
`AlertsEarned` does not repeat them: it counts the events of `log`, those the window
has dropped included, that lie in the window's stretch of time, widened by the skews,
and claims that there are enough for each rule that trips. `FloodNoticed` is the
other direction for the rate rule. Together they are why the counters, the eviction
and the span matter.

### Engine

The pipeline is cut where another goroutine can come in: between two calls of
`ProcessEvent`. `heap` holds the `ReaderState` objects, named by the reader and
the epoch of the map they were made in, so that the pipeline can hold one that
`Reset` threw away; of a window it keeps the duration and how many events it was
fed. `update` is what each caller of `UpdateConfig` has yet to store: the watcher
and a POST may overlap between the two stores. `admin` is the rest of the calls a running handler has to do,
in the order of the code (`RestartSteps`, `ClearSteps`). `metrics` keeps of
the figures of each window the epoch of the reader they were computed in and how
many events they count, `alerts` the epoch of each alert's evidence: what a restart
and a reload are about. The caches are empty or not; `Alerting` and `Dedupe` have them in full.

### Alerting

One event is one step, because one goroutine processes them. `Process` runs the
three evaluations in the code's order through one cooldown map `age`, which
counts ticks since the key was recorded. A card is a canonical form, `Canonical`
is `normalizeUID`: spellings that differ in case and separators are one card, and
a spelling with no hex digit is none. Keys are the code's: `reader|seconds`, with
0 for the access alerts, and `reader|authfail|card`; a window
shorter than a second has the key of the access alerts. `cooldown` and `access` are
stored apart, as the two atomics are. `history` and `since` are ghosts that remember
what happened independently of the code's own state, so that the properties can
relate the two: the last two events of a card, and the time since any alert of a key,
one at a cooldown of zero included. `off` names the keys whose latest alert was such
a one.

### Dedupe

`items` is the map of the cache; a key is the attempt (reader, card, result,
code) with the clamped timestamp, as `hashEvent` builds it. `Receive` clamps and
hashes, `Suppress`, `Count` and `Unchecked` are the outcomes of `isDuplicate` at a
second reading of the clock. `cfg` is what a configuration says of `dedupe_window`
and the skews; an event keeps the one it was received under. `counted` is a ghost:
when each key last went through, and with which timestamp that event came, if it was
inside the skews (`Timely`); `CopiesSuppressed` compares those, which the code does not
keep, and not the keys.

### ConfigManager

The file is written by `os.WriteFile`, which truncates first, so `Save` is two
steps. `Watch` is cut into its test, `Load`, the store, the second `Stat` of
`Reload`, and the two stores of `UpdateConfig`; a POST likewise. An operator
replaces the file or writes it in place. A file that does not decode or validate
is `Bad`; how `Validate` decides is not modelled. `overlap` is a ghost that is set
when two of the actors meet, and it lets the properties say what holds when they
do not. `Overlaps` leaves out an edit that comes before `Load` reads the file,
because nothing is lost then.

### Stores

Every method holds its store's mutex throughout, so each is one action. Alerts are
numbered as they are added; `AlertsLatest` says what `List` returns for every
limit in terms of those numbers and of the last `Clear`, without a buffer.
`Update` of the metrics store stamps the reader with a clock that may stand still
or be set back; `turn` is a ghost that numbers the updates since the clear and keeps
of each reader its latest, `steady` one that says that the clock did neither where
it matters, and `LatestReadersKept` claims the eviction order only then. Without it the code may
evict the very reader it has just updated.

### Storage

`Storage` extends `Stores` with the database and with the order in which the engine
calls both: an alert is added, then inserted; figures are updated, then saved in a
transaction of one row for each window. `step` is where the engine is in that.
Each statement may fail (`Fault`), an insert and a commit may take effect and
report a failure, and `Crash` ends the process between any two of them: memory is
empty then, an open transaction gone, the tables as they were. A transaction left
open would make every later statement fail; `OpenAfterFailure` is the deferred
rollback that prevents it. Both drivers run the same statements.

### Ingest

A line is what its reader makes of it: the fields of a JSON object, the cells of a
CSV record, or the parts of a plain one. `ParseLine`, `SetHeader` and `Assign` cut
the parser where another goroutine can come in, around the test of the header and
its assignment; `NormalizeAndSend` is the rest, ending in a send that drops when the
channel is full. `POST /events` goes past the parser, object by object. Each event
on the channel carries the attempt it was to stand for, so that `AsMeant` can compare
the two; `lost` remembers attempts that got lost for any reason but a full channel
or the end. Both properties are about senders that write well (`WellWritten`): what
an attempt says has a column, key or place in the layout, its words are among those
`ParseResult` knows, its timestamp has a form that is read as it is meant, and all
CSV senders announce the same columns, a timestamp among them. The senders of
`MCIngest` do. A timestamp is a name whose form (`zoned`, `local`, `unix`, `syslog`,
`float`) decides what `ParseTimestamp` makes of it. After `Shutdown` a goroutine
looks at its context where its adapter does (`Over`): a syslog listener after each
datagram, a TCP connection only after a send, so that it may read on past lines that
are refused, a Kafka reader when it waits for the next message.

### FileTail

A file is a sequence of chunks, a line is one chunk or two, and the second chunk
may be written later. `pos` and `buf` are the descriptor's position and what
`bufio.Reader` has read ahead; `offset` is the tailer's own count, which the
truncation test uses. `Fill`, `Deliver` and `EndOfFile` are the three outcomes of
`ReadString`; what `EndOfFile` finds in `buf` is returned with `io.EOF` and
dropped. Rotation moves the file away. The program keeps writing to the file it has
open (`dest`) until it opens the new one (`OpenNew`), and the tailer keeps the old one
open until the new one is found to be shorter than `offset`; what is written to the
old file after that is not read, which no property claims. The writer, and what truncates
and rotates, is outside the repository. A delivered line is parsed and offered to
the channel: `Ingest` has what becomes of it there.

## 3. Runs

| Run | Question | Result |
|---|---|---|
| `window` | Do the counters, the head and the copying implement the abstract window? How far may a window reach through reloads of the skews? Is the timing variance exact, every alert earned, every flood noticed? | holds |
| `engine` | What can escape a restart? Does a figure ever lose an event to a reload? | holds |
| `engine_restart` | Does a restart reset everything `docs/api.md:190` says? | violated |
| `alerting` | Which events raise which alerts, under spellings, reloads and restarts; is a lasting attack ever silenced? | holds |
| `dedupe` | Is what is dropped a twin, what is let through not, and which copies are suppressed? | holds |
| `config_manager` | Do file, manager and engine agree, and does an edit get through? | holds |
| `config_stale` | Does an acknowledged policy stay in force (`README.md:93`)? | violated |
| `stores` | Does the API show the latest alerts and the readers updated last? What does the database miss, or have twice or in part, after failures and crashes? | holds |
| `file_tail` | Which lines does a tailer deliver that starts at the end? | holds |
| `ingest` | Do events mean what senders of several formats reported? What is lost, and can a sender be stalled? | holds |
| `ingest_header` | Are CSV lines without a header read (`README.md:156`)? | violated |
| `file_tail_again` | Does a tailer that starts at the beginning give each line once? | violated |

**What the violations show.**

- `engine_restart`: a window has counted an event; with the next one in hand the
  pipeline has its reader when `Reset` takes the map away; the handler clears the
  stores; the pipeline then writes figures that count both, and nothing removes
  them. `StaleOneReader` bounds the damage: one reader, because the handler resets
  before it clears. In the other order it would be unbounded.
- `config_stale`: a reload that read the file before a POST saved it stores the
  old policy after the POST was acknowledged, and then takes the new file's
  modification time, so the policy in the file is never loaded.
- `ingest_header`: the first CSV record with a cell that is a column's name is taken
  for the header, and `error` is such a name as well as a result. A sender that
  writes no header loses that row; its cells then name the columns for every
  adapter, and later rows come out as failures of the default reader. `NothingLost`
  says when this cannot happen: all CSV senders announce the same columns, and have
  a timestamp among them. Without one, a header that comes again would be taken for
  an attempt of the card `uid`, as only its unreadable timestamp gets it refused.
- `file_tail_again`: with `start_at_end: false` the file is opened again at its
  start after a truncation or a rotation, while `offset` keeps the old file's
  count and only grows. Every later end of file finds the file shorter than
  `offset`, and all of it is read again, five times a second. With the default,
  `start_at_end: true`, `offset` is set on opening and `LinesInOrder` holds.

**Bounds, and why they are enough.**

- `window`: `Duration` 1, two pairs of skews that a reload exchanges, a clock up to 5,
  a slice of up to 4 entries, one UID and none, 4 events. Four entries allow a dead
  prefix of one that is kept, one that is copied, and out-of-order entries on either
  side of it. The time that passes is longer than the duration and the slack together,
  so an entry that is too old could be found; the thresholds lie where one event more
  or less decides, and every rule trips in some state. The clock is not set back in
  this run: late and early timestamps give every order a set-back could, and how far
  it moves the span is in the theorems, which have no bounds.
- `engine`, `engine_restart`: two readers (one that escapes, one that must not), one
  UID, one admin goroutine, two updaters, one restart, two configurations of which the
  second shares a second with the first (1 s and 1.5 s), adds a window and turns the
  cooldown off. No event comes once a window has been fed more than `MaxFed`, so each
  window is fed twice at most: figures that are shown, and those that replace them.
  Two concurrent admins or two restarts multiply the states without a new kind of
  step: epochs are only compared with the current one.
- `alerting`: one reader (readers share no key), two cards with three spellings
  and one spelling of no card, two policies, one window shorter than a second, so that
  its alerts share the key of the access alerts, cooldowns of 0, 1 and 2 ticks; a key
  remembers at most the longest cooldown. Clock set-backs are not in this module. A
  policy that is switched off raises nothing; it is left to the theorems.
- `dedupe`: a limit of 2 entries in place of 10000 and at most 3, so that
  compaction happens and removes some, all or none; windows 0, 1 and 3, the past skew
  checked or not, so that copies come inside the skews and outside; clock up to 5 with
  a step back of 1.
- `config_manager`: two policies, two values of the rest, one POST, two edits and
  a clock of 3: a reload, an edit and a POST can meet, and a file can be invalid
  when `Watch` finds it and valid later. Two POSTs that overlap are outside the
  properties by their proviso. Deadlock is not checked: once the
  operator stops and the clock reaches its bound nothing is left to do.
- `stores`: alert limit 3 and 5 alerts, so that the buffer shifts and a clear
  comes before, at and after the limit; 3 readers for a limit of 2, and a clock of
  3 with a step back of 1, so that stamps tie, are in order and are not; 4 batches
  of 2 rows and 2 failures or crashes, so that a batch fails at each of its
  statements and is followed by one that does not, and a failure by a crash.
- `ingest`: four senders of one format each, one line or two, a channel of one
  place: two CSV senders race for the header while a plain and a JSON sender do not
  use it, and the channel is full or not. A year of 3 ticks and a clock of 2 put a
  syslog date before and after New Year. Lines may be read after `Shutdown`. Deadlock is not checked: when all lines
  are read, or after `Shutdown`, everything may stop.
- `ingest_header`: one sender is enough.
- `file_tail`: 3 lines of one or two chunks, 2 truncations or rotations and 1
  failed read; the violation needs 2 lines and 1 truncation. A line can be torn
  before a truncation and another be read from its middle after it.

**Fairness.** `Alerting!FairSpec`: the clock ticks, and for
`AttackKeepsAlerting` each card keeps being tried, which is the premise of the
property and not a claim about the code. `ConfigManager!FairSpec`: the ticker of
`Watch` fires for ever and `Watch` never returns while the program runs; a handler
that has begun goes on; an operator who began to write the file ends. Nothing is
assumed of when an operator edits or a POST comes. `FileTail!FairSpec`: the
tailer's goroutine runs on, as `tailFile` only returns when the program ends;
nothing is assumed of the writer. `Ingest!FairSpec`: a goroutine that has a line
goes on with it, as there is no blocking call between the read and the send, and the
send has a default case. Nothing is assumed of the engine, so `NeverStalled` holds
though nobody ever takes an event from the channel. The other specifications have
safety properties only and assume no fairness.

## 4. Proofs

All theorems hold for every value of the constants the modules' named assumptions
allow, which are types, that a window is not empty, and that sets the code holds in
memory are finite.

**The window** (`WindowProofs`), from `WindowAssumption`, and `RulesAssumption` for
`SpecAlertsEarned`:

- `SpecMemoryBounded`: the dead prefix is less than half of the slice.
- `SpecSpanBounded`: while every configuration has both checks on, every entry that
  counts lies within `Duration` plus the slack of the latest event's timestamp,
  whichever of the reloaded skews it was clamped with.
- `SpecCountersExact`: the counters are exact and the keys of the UID map are the
  UIDs present.
- `SpecTypeOK`: the types, among them that no UID keeps a count of zero.
- `SpecImplementsWindow`: `Window` implements `SlidingWindow`.
- `SpecAlertsEarned` and `SpecFloodNoticed`, of `Rules`, for all thresholds; the
  first while every configuration has both checks on, the second for any skews.
- `SpecTimingExact`, of `Rules`: the timing variance, for windows of every length.

`SpanBounded` is not inductive. An entry was clamped around the clock of its own
time, with the skews of its own time, and both have moved since. `IInv` relates entries to `peak`, the highest
clock value, and to each other: no entry is younger than an earlier one by less
than minus `Slack`, dead entries included, because the positions of the dead and
of the living change places when the slice is copied. The first living entry is
young enough by the test of `Evict`; everything behind it follows from the pairs.

`CountersExact` is inductive together with the slice's invariant. Its proof is
about sets of positions: an event drops `Pop`, moves `Stay` by `d` and adds one
position (`Moves`); `CountStep` counts, in any class of entries, what matches
before and after, and `ExactStep` puts the classes "failed" and "from card u"
through it. `ProcessShifts` shows that what `Evict` and `Add` do to the slice,
copied or not, is such a move. `TypeOK` follows: a count is the size of a set that
is not empty.

For the refinement `live` is `Alive`, the slice behind `head`. What `Evict` passes
over is a prefix of it, whether the slice is copied or not, so an event drops that
prefix and appends one entry; that the figures reported are those `SlidingWindow`
measures afresh is `CountersExact` (`MeasureMeans`). The ticks of the clock map to
stutters.

`AlertsEarned` and `FloodNoticed` are held against the log, so they need an invariant
that relates the slice to it (`LogInv`): the slice is the end of the log, and whatever
is dead or gone is more than `Duration` older than some event received. `CountersExact` says what the
counters count, `SpanBounded` that those events lie in the stretch `AlertsEarned`
speaks of, and a fraction that exceeds a threshold does so with a larger numerator.

`TimingExact` is about a loop, so it needs an induction over the slice. The
library's induction theorems take a formula, which no installed prover can
instantiate; `UpToN` takes a set of positions instead and follows from the
well-foundedness of `<`: the least position outside the set would have its
predecessor in it. With it, what the recursive functions `Running` and `Total`
give is known step by step (`RunningSteps`, `TotalSteps`). The invariant of the
loop is `SumsAt`: after n gaps the mean times n is their sum, and `m2` times n is n
times the sum of their squares less the square of their sum. That a step keeps it
(`MovedSums`) is the pair of identities `MeanStep` and `DeviationStep`, over
numerators and denominators since the fractions are never reduced. `TimingMeans`
adds that `Gaps` is about the entries that count (`SliceInv`).

**Verdicts, streaks, cooldown** (`AlertingProofs`): all but the liveness property,
for any readers, cards, spellings, windows and policies. The invariant says that
`age`, the map the code keeps, is never newer than `since`, the ghost that counts what
was raised, and equal to it but for the keys in `off`; and that a streak is positive when the last event of the card failed and two when
the last two did (`StreakInv`); neither is obvious, as one event goes through the
map up to three times. From the first, `AlertsSpaced` and `OffendersNoticed` are
about one step; from both, `StreakAlertsRaised`.

**The configuration** (`ConfigManagerProofs`): `EngineFollowsManager` and
`AcknowledgedInForce`, for any number of POSTs, policies and edits. While writers
come one by one (`~overlap`), a writer under way is alone (`Alone`); what manager and
engine have is known at each step of a reload and of a POST (`Follows`); and an
acknowledged policy is in the file as well as in everything a reload has read
(`Acked`). The last part is why a reload that follows brings it back.

**The pipeline** (`EngineProofs`): `StaleOneReader`, `WindowsCovered`,
`FiguresMoveOn` and the types, for any number of administrators, restarts,
readers and configurations. `StaleInv` names the one reader: figures of an earlier
epoch are its own unless some administrator has yet to clear the metrics, and so are
alerts, and an event of an earlier epoch that the pipeline holds is its own too. It
is inductive because a restart resets before it clears: the reset makes the event
in hand the only old one, before the clear takes the rest away. `WindowsCovered` rests
on `HeapInv`, by which a window is kept under the whole seconds of its duration, and
on the configuration being read once for each event. `FiguresMoveOn` rests on
`FiguresInv`: a figure that is shown counts what its window was fed, up to the event
in hand, as long as that window is one the pipeline can still reach; and no figure is
of a reader younger than the one in hand.

**The tailer** (`FileTailProofs`): the five safety properties, under `StartAtEnd`,
the code's default; without it they are false, which the run `file_tail_again` shows.
`WriterInv` says how files grow: lines rise in and across them, and only the last
chunk of the current file is unfinished. `OrderInv`: what was delivered, what is in
the buffer and what the descriptor is yet to read rise in that order, through
truncation and rotation. `LastInv`: nothing comes after the end of a line but younger
lines, so the rest of a line is not handed out behind the whole; this makes the order
of `LinesInOrder` a strict one. `TrackInv`, while the open file was not truncated: buffer
and position agree with the file, the point handed out so far is at the end of a line
or behind one that was met unfinished, `offset` is not ahead of it, and every whole
line before it was delivered. `OrderInv` and `TrackInv` give `NoNeedlessReopening` and
`NoLineSkipped`.

**Ingest** (`IngestProofs`): `AnswersAdd`; and `AsMeant` and `NothingLost`, for any
senders, layouts, attempts, zones and timestamps. A first part is about the operators:
what a JSON object, a record under a header or a plain line of an attempt is read as
(`ObjectMeans`, `RecordMeans`, `TextMeans`), that a header read as a record is refused
(`HeaderAsRecord`), and that a syslog date is off by whole years (`WholeYears`). The
invariant is about the race: once there is a header it is the one all CSV senders
announce; and while there is none, a sender that announces its columns has nothing
in hand but that announcement (`Announces`), so that no record of an attempt meets a
parser without a header, whoever sets it and however often it is set again.

**Duplicates** (`DedupeProofs`): the three properties of the run `dedupe`. `IInv` relates the cache to
what went through: they agree where the cache has an entry, the cache has
everything while it has never outgrown its limit, and what it dropped is, by the
highest clock value, older than the shortest window. The last part is stated over
`peak` since the clock may be set back after the compaction; this is where the
`ClockStep` of `TwinsApart` comes from. `KeyInv` says that a timestamp inside the skews
is part of the key, from which `CopiesSuppressed` follows.

**The stores** (`StorageProofs`), beside all that the pipeline and the database do:
`SpecAlertsLatest`, from `BufInv`, which says that the buffer is the last so many
numbers since the clear; `SpecReadersBounded`; and `SpecLatestReadersKept`, from
`StampsInOrder`: in a steady store the stamps are in the order of the updates, so
that the reader with the least stamp is the one updated longest ago.

**The database** (`StorageProofs`): `SpecSavedInOrder`, `SpecBatchesWhole` and
`SpecLossBounded`. `StepInv`, a part of `IInv`, says for each place the engine may
be in its calls which alert or batch is in hand, that the open transaction is its
own, and that the database has nothing of it yet; the rows of earlier batches are
whole. `LossBounded` is inductive on top of it: each statement that takes something
out of hand either puts it into a table or pays for it with a fault.

**Only model-checked.** `AttackKeepsAlerting`, `EditsReachEngine`,
`ShrinkingNoticed` and `NeverStalled` are liveness under fairness, which is out of
the prover's reach.

## 5. Plan

Done: every component of the server that keeps state or decides something, in the
order of section 2; every safety property the passing runs check is proved. Next:

1. Composition of `Engine` with the cooldown keys of `Alerting`: an alert lost
   between `Reset` and the clear of the same restart while its key stays muted.
2. An abstract duplicate filter, a set of keys with the times they went through,
   that `Dedupe` implements below its limit.

## 6. Not modelled

- In `Rules` a reload changes the skews only; the thresholds are those of one
  configuration, any one. `Window` has one duration; windows that come and go with a
  reload are in `Engine`.
- Lines written to a rotated file after the tailer left it: they are in the model and
  are lost there as in the code, but no property is about them.
- The rounding of floats in the figures (`Rules` computes with fractions) and in
  JSON numbers, and the overflow of a UNIX time in milliseconds.
- Text below the level of fields: quoting and trimming, which format a line is in,
  the layouts of time texts; the format and the defaults of the configuration file.
- Sockets, reconnecting and back-off, SQL and HTTP as such; a second process on the
  same database.
- The handlers that only read, `Since`, and the Web UI; logging.
- That `uidFailureStreak`, `readers` and `cooldown.last` grow with every card and
  reader ever seen: the code never prunes them, and no document promises that it does.
- The race detector's view of `modTime`, of the pointers `Reset` replaces and of the
  parser's header: a racing read sees the value before or after, which is what the
  builds the repository targets produce for a word; all headers of the models have
  one length.
- `cmd/rfguard`, which is not in the repository: that one `Parser` serves all
  adapters is inferred, as above.
