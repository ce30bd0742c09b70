# A formal model of DLADS

DLADS is a distributed, log-based anomaly detector. An **agent** on each host
reads a log (or Suricata's `eve.json`), detects attacks, and sends alerts over
ZeroMQ; a **coordinator** stores the alerts, correlates them into threats,
watches which agents are alive, and serves a REST API to the dashboards.

This directory holds TLA+ modules translated from that source, TLC
configurations that model-check them on small instances, and proofs that
TLAPS checks for every value of the constants. `PROJECT.json` lists the runs,
the mutants, the theorems, the hazards and, definition by definition, the
source lines each one models.

Run a model:     `tlc -workers 2 -config MCCorrelation.cfg MCCorrelation.tla`
Check a proof:   `tlapm CorrelationEngineProofs.tla`

## 1. The system

Paths are relative to the repository's root.

| Part | Source | State | Operations | Talks to |
|---|---|---|---|---|
| Agent process | `src/agent_main.cpp` | `g_ids_mode`, `g_watch_file`, `agent.yaml`, `g_ids_swap_mtx`, the two detectors, `g_stop` | boot, `do_ids_swap`, status server, shutdown | owns all agent parts |
| Log tailer | `src/log_tailer.cpp` | thread, `stop_`, file offset, `partial_`, inotify watch | start, stop, run, drain | calls back into the agent |
| Suricata adapter | `src/suricata_adapter.cpp` | thread, `stop_`, stream position | start, stop, run | calls back into the agent |
| Log parser | `src/log_parser.cpp` | none; reads the clock and the time zone | parse | called by the tailer's callback |
| Ring buffer | `include/dlads/ring_buffer.hpp` | `storage_`, `head_`, `tail_`, `size_` | push, clear, snapshot | feeds the rule engine |
| Rule engine | `src/rule_engine.cpp` | configuration, `cooldown_map_` | process | alerts go to the publisher |
| Alert publisher | `src/alert_publisher.cpp` | `queue_`, flags, counters, socket, send thread | start, stop, publish, send_loop | PUB socket to the coordinator |
| Heartbeat thread | `src/agent_main.cpp` 108-149 | socket | one heartbeat every 10 s | PUSH socket to the coordinator |
| Correlation engine | `include/dlads/correlation_engine.hpp` | `index_`, `threat_counter_` | ingest | called by the alert receiver |
| Alert store | `include/dlads/alert_store.hpp` | two SQLite tables, two caches | save_alert, save_threat, reads | alert receiver, REST API |
| Node registry | `include/dlads/node_registry.hpp` | `nodes_` | ping, record_alert, check_dead_nodes, all_nodes | both receivers, watchdog, REST API |
| Coordinator threads | `src/coordinator.cpp` | `reported_dead` | alert receiver, heartbeat receiver, watchdog, REST API | the three above |
| Dashboards | `src/dashboard.cpp`, `dashboard/agent/src` | last answers | poll | REST API, `POST /config` of the agent |
| Not part of the running system | `zscore_detector.hpp` (tests only), `suricata_parser.cpp`, `demo_main.cpp`, `log_simulator.cpp` (no CMake target), `subscriber.cpp` (prints) | | | |

What is hard here: four kinds of thread in the agent around one mutex; a
teardown that joins a thread which may want that mutex; a condition variable
whose flag and queue change under it; two clocks (log stamps and wall clock);
a coordinator whose memory dies while its database lives; identifiers that
begin at 1 in every process; a watchdog that looks only every ten seconds; two
readers of files that others write, rename and delete meanwhile; time stamps
without a year; dashboards whose requests overtake each other.
`PROJECT.json`, `"hazards"`, lists these one by one, at the line, with the
properties that watch them.

## 2. The modules

| Module | Models | Composes | Abstract specification it implements |
|---|---|---|---|
| `CorrelationEngine` | the correlation engine | | `Consensus` |
| `Coordinator` | alert receiver, alert store, failing statements, restarts | `CorrelationEngine` | `SlidingWindow` (GET /alerts) |
| `NodeRegistry` | the agents' heartbeat threads, both receivers, the registry, the watchdog | | |
| `AlertPublisher` | the publisher and its send thread | | `LossyChannel` |
| `AgentLifecycle` | main(), status thread, hot swap, the life of both detector threads | | |
| `LogFile` | a log that is written and rotated, and inotify (the environment) | | |
| `LogTailer` | run() and drain() of the tailer | `LogFile` | |
| `SuricataAdapter` | run() of the adapter | `LogFile` | |
| `Feed` | the detector an agent started, on its log | `LogTailer`, `SuricataAdapter` | |
| `LogParser` | the time stamps | | |
| `RingBuffer` | the circular array | | `SlidingWindow` |
| `RuleEngine` | the tailer's callback: push, snapshot, index, rules, cooldowns | `RingBuffer`, `LogParser` | `SlidingWindow` |
| `Dashboards` | the terminal's fetch thread, the web's polling hook | | |
| `MC*` | the inputs and constants of the runs | | |
| `*Proofs` | the theorems of the module they are named after; those of the ring buffer are in `RuleEngineProofs` | | |

Conventions. Variables keep the source's names without the trailing underscore.
A member function that holds its mutex from the first line to the last is one
action; where a function releases the mutex, sleeps, joins, makes a system call that
others can see, or crosses a thread boundary, it is one action per piece, and a
program counter (`sender`, `owner`, `status`, `main`, `receiver`, `watchdog`,
`tailer`, `adapter`, `turn`) says where the thread stands. Some variables are
history: they record what happened so that a property can speak about it, and no
guard reads them but those that bound a counter (`heard`, `sendLog`, `lost`,
`exitMark`, `failed`, `unsaved`, `late`, `log`, `lastAlert`, `received`, `announced`,
`joined`, `lostAlerts`, `lostThreats`, `saved`, `oldRows`, `delivered`, `start`, `quiet`, `due`, `known`,
`again`, `begun`, `converted`, `torn`, `changes`, `whole`).
Definitions commented "a bug" are not part of any specification: they are the
mutants of `PROJECT.json`, one per property, each of which TLC refutes.

### CorrelationEngine

`Ingest(a)` is `ingest()`. `Contribute` evicts expired entries of the alert's
key and adds the node if it is not present, without refreshing one that is;
below the threshold `Record` stores the result, otherwise `Raise` returns a
threat and erases the key. The entries of a key are a set: their order only
words the evidence. `Expired` keeps the truncation of
`duration_cast<seconds>`, so the clock runs in `TicksPerSec` ticks a second.
Severities are 0..3 for LOW..CRITICAL (1..4 in the enum). The rules take any token of a
log for an address, a host's name too, so `Ips` and `Nodes` may overlap: a key may then
hold alerts that named it as an address and alerts without address from the host of that
name. `OthersNameTheKey` says what is left of "local alerts do not correlate": of the
nodes that confirm a threat only the named host may have been silent about the address.

`Consensus` states the promise in terms of what was *heard* since the last
threat for a key. A node is *recent* when one of its alerts is inside the
window, *steady* when all are. A threat needs a quorum of recent nodes, the
sender among them; an alert may pass without a threat only while the steady
nodes are no quorum. Between the two lies what the missing refresh decides;
the stronger promise, that every recent node counts, fails (finding 1).

### Coordinator

An alert is fired, lost or put on its way (`inbox`), received, saved, ingested,
and its threat saved; `Restart` may strike between any two of these. The engine
is `INSTANCE CorrelationEngine` over the same variables, so the interplay of
ids, index and tables is that of the code. A statement of SQLite may fail
(`Execute`): nothing looks at what `sqlite3_step()` returns, so the receiver goes
on, the cache gets its entry and the table does not. `AgentRestarts` begins an
agent's alert numbers anew, as `next_id()` does, which with `INSERT OR IGNORE`
drops the rows of its second life; `boot` in a message tells the lives apart. Two
histories let the properties speak of every life of the coordinator: `saved`, the alerts
handed to `save_alert()`, and `oldRows`, the threats on disk at the last restart. The
registry calls of the alert receiver are in `NodeRegistry`: the two parts share no
state.

### NodeRegistry

One tick is a second. The age of a node's last ping stands for the difference of
the two clock readings. The watchdog's `WakeUp` and `Report` are two actions with
pings possible in between; `AlertArrives` and `RecordAlert` are the alert
receiver's two calls. An agent's heartbeat is due after `BeatPeriod` seconds and sent
within one more (the period is the sum of fifty sleeps); it arrives (`Heartbeat`) or
is left behind by a `zmq_send` that does not wait (`HeartbeatLost`). An agent may
stop or die at any time and start again.

### AlertPublisher

`Publish` is one critical section. `StopFlag`, `StopNotify`, `StopJoin` are the
three statements of `stop()` other threads can fall between; `Take`, `Sleep`,
`Exit`, `Send`, `SendFails` are the pieces of `send_loop()`. `notify_one` and
`notify_all` move an `asleep` sender to `check`, where it tests the predicate
again. `start()` sets `running_` before it makes the thread: when `std::thread` throws
(`StartThrows`) the publisher passes for running without one, takes alerts until its
queue is full, and `stop()` closes it without a join.

### AgentLifecycle

`tailer`, `adapter`, `status` and `main` are the program counters of the four
threads, `mutex` the holder of `g_ids_swap_mtx`. The callback of the tailer
parses (`want`), waits for the mutex and works (`hold`); one buffer may hold
several lines, so it may go from one callback to the next without looking at
`stop_`. The swap is cut at every place another thread can observe. The result
of rolling back `agent.yaml` is ignored by the code, so it succeeds or not
(`Rollback`). `Crash` and `Boot` keep only `agent.yaml` and `eve.json`.

### LogFile, LogTailer, SuricataAdapter, Feed

A line is three pieces (half its text, the rest of it, the newline), the content of
a file is the number of its pieces, and a write appends some: so a line may be
written, and read, in parts. A file may be renamed away, back or once more, and
removed; the writer opens the path again and creates the file when it is missing.
inotify's queue holds events with the descriptor of the watch they are for; an event
that repeats the last one waiting is merged with it. A removed file lives as long as
somebody has it open, and only then is its deletion reported: a watch for
modifications, moves and deletions gets nothing when the name goes (`Unlink`,
`Vanish`).

Every system call of the tailer is an action, so the log may change between any two:
`Open` and `AddWatch` (which watches whatever is behind the path by then),
`ReadEvents`, `HandleEvent`, `ReadChunk`, `DeliverLine` and `BufferRest` (the split of
a chunk into lines), `Rotate`. An event is not compared with the current watch.
`GetLine` and `GetTornLine` are the two outcomes of `std::getline` on a file that
grows; the end flag makes the next call fail (`ClearEnd`), and only a whole text
parses as JSON (`Convert`). `Feed` starts one of the two detectors, as the agent does.

### LogParser, RingBuffer and RuleEngine

`LogParser` stamps a line by its form: an RFC 3164 stamp has no year and gets that
of UTC's calendar, or the year before when the result lies more than a day ahead;
the nginx form carries its year; key=value lines get the moment of parsing. Years
have `YearLen` ticks. The host's clock is `Zone` ahead of UTC, and `Saving` more at the
moments of `Summer`; `MakeTimepoint` reads what that clock showed as standard time, as
`mktime` does with `tm_isdst = 0` (the comment at `log_parser.cpp:84` calls the parts
"UTC components", which `mktime` does not take them for).

`RuleEngine` is the agent's callback on one line: stamp, `Push` into the real
`RingBuffer`, snapshot, index, four rules, cooldowns. An event is what the rules tell
apart (source, class of text, address, port, sudo user, names mentioned) with its
stamp; a line may be read `Skews` seconds after it was written. "Failed password"
and "Invalid user" are one class. `SwapBack` replaces the engine and with it the
cooldowns, as a swap to Suricata and back does; the ring survives.

### Dashboards

What the coordinator holds is one sliding window per list, which a restart empties
(`Coordinator.AlertsAreRecent` is why this is a fair picture of it). The terminal
makes its requests one by one (`Fetch`), each of which may fail, and replaces what it
shows under its lock (`Refresh`). The web's timer starts a poll whether or not the
last one came back; an answer is taken when it arrives, whatever its age, but never
to empty a list (`PollArrives`). `viewer` says which of the two is open.

## 3. What the runs check

The type invariants of the modules with proofs are theorems and not repeated in the
runs; the publisher's is, because it bounds the queue.

**correlation** (`MCCorrelation`, 3 nodes, 1 address, 5 alerts, a window of 0 s in
half seconds, 1.5 s of clock, 2 threats; 281 000 states). `ExactConsensus`,
`OthersNameTheKey`, `OutranksTrigger`, `ImplementsConsensus`. An entry of no age is inside
the window, one of half a second only because the age is truncated, an older one outside:
so entries expire and are replaced, and the truncated age differs from the true one. The
address reads like the name of the third node, so that one key is used in both ways, and
the second node alerts with an address and without; two severities of one node let a
repeat be graver than the first. `MCCorrelationMissed` has a window of 1 s.

**publisher** (`MCAlertPublisher`, capacity 2, 5 publishes, 2 starts). `TypeOK`,
`Conservation`, `SocketOpenWhileSending`, `StopDrains`, `IsLossyChannel`,
`StopReturns`, `AcceptedIsSent`. Five publishes overfill a queue of two with one
in hand; two starts include the leftovers of a first life.

**lifecycle** (`MCAgentLifecycle`, 2 lines, 2 boots). `OneDetector`,
`ModeHasDetector`, `YamlNamesMode`, `ShutdownIsQuiet`, `WatchFileIsRead`,
`SwapEnds`, `ShutdownEnds`. The number of swaps is not bounded; two lines let a
callback be followed by another of the same buffer, two boots let a crashed swap
meet the next boot. System calls of the tailer may fail (`CallsFail`); the two runs that
expect a violation have them succeed, so that their traces owe nothing to such a failure.

**registry** (`MCNodeRegistry`, 2 nodes, threshold 4, watchdog period 2, a heartbeat
every second or two, one lost in a row, one alert each). `DeadIsSilent`,
`AliveIsFresh`, `DeathsAreReported`, `AlertsAreCounted`, `RunningIsAlive`. As in the
code the threshold is a multiple of the watchdog's period and greater, and two waits
for a heartbeat fit into it exactly; ages count up to one past the last the properties
tell apart. The nodes are interchangeable, so the run uses their symmetry. With the
periods of the code (10 s and up to one second more, against 30 s) a running agent
survives one lost heartbeat; two in a row only while the loop's jitter adds up to
nothing, which is why `RegistryAssumption` asks that
`(MaxMissed + 1) * (BeatPeriod + 1) <= DeadThreshold`.

**coordinator** (`MCCoordinator`, 2 nodes, 1 address, 3 alerts, 2 numbers per
life, one restart of one agent and of the coordinator, two alerts in flight, two
failing statements, caches of 2 and 1; 2.2 million states). `AlertsArePersisted`,
`ThreatsAreBacked`, `ShownThreatsAreStored`, `AlertsAreRecent`. The first three hold in
every life of the coordinator and of the agents and name what they excuse: a statement
that failed, an id that a row of another life has. One agent restarts so that ids of two
lives meet; two failures let the row of an alert and that of the
threat it raised both be missing.

**rules** (`MCRuleEngine`, 6 kinds of event, 4 events, ring of 3, years of
8 s, a host one second ahead of UTC and two in summer, a clock that runs from 13 s, the
last second of summer time, to 16 s and so over both New Years, lines read 0 or 2 s late;
1.08 million states).
`AlertsAreJustified`, `BurstsAreAlerted`, `CooldownsHold`, `StampErrors`,
`ImplementsWindow`. The thresholds are 3 failed logins (so that the count of one too
many is visible), 2 ports, 2 services; windows of 1 s and a ring of 3 let evidence
leave by age and by overwriting, which also drives the ring through wrap-around.

**feeds** (`MCFeed`, 2 files of 5 pieces, 2 renames or removals, read buffer of 2
pieces, event buffer of 2; 635 700 states). `LinesAreWhole`, `NoticesRotation`,
`LeavesNothingBehind`, `ReadsOnce`, `AppendsAreRead`, `MissedWereTorn`. Five pieces are
one line and the text of another, so a buffer of two cuts lines at every place; two
changes are the least that make a left-over event matter.

**dashboards** (`MCDashboards`, 4 alerts through a cache of 3 and 2 rows, 2 threats
through 2 and 1, one restart, two failing requests, three polls at a time; 955 610
states). `RefreshFitsTogether`, `ViewsCatchUp`.

Deadlock is checked where the system cannot stop: the registry and the dashboards.
The other configurations bound a counter (alerts, events, boots, files) or model
something that may rest for good.

### Findings

Four runs expect a violation; each refutes something the repository says of
itself.

1. `correlation_missed`: "need same src_ip from 2+ agents within 120s"
   (`tests/dlads.sh:252`). A node that reports again is not refreshed
   (`correlation_engine.hpp:61-68`); its first report expires, the recent one was
   never stored, and two agents within the window make no threat.
2. `swap_join`: "stop() is safe to call from any thread and always joins cleanly"
   (`log_tailer.hpp:24`). The swap and the shutdown join the tailer under the
   mutex its callback waits for.
3. `swap_aborted`: "swap aborted, staying on builtin" (`agent_main.cpp:263`). The
   tailer was torn down before; no detector runs.
4. `threat_lost`: "Save a correlated threat" (`alert_store.hpp:59`). After a
   restart the ids begin at 1 and `INSERT OR IGNORE` keeps the old rows.

What else the models record, in the properties that name the exception:

* The SSH rule counts the event twice and fires one failed login before `threshold`
  (`rule_engine.cpp:176`, `config/agent.yaml:25`; `AlertsAreJustified` says
  `SshThreshold - 1`). A rule's window has only a lower bound: events of the index
  younger than the one examined count too.
* The sudo rule's alerts have no address, so its cooldown is the host's: the first
  session of a second user within it raises nothing (`BurstsAreAlerted` asks for an
  alert on the key, not on the user).
* After a swap to Suricata and back the built-in detector reads `eve.json`
  (`agent_main.cpp:303`): `WatchFileIsRead` holds because the reported file and the
  read file are wrong together.
* A DEAD node is marked up to 40 s after its last ping, the watchdog's period later
  than the threshold; `tests/test_system.sh` waits 35 s.
* `log_tailer.hpp:22-23` promises that a deletion is noticed. While the writer keeps
  the file open (or the tailer itself, which always does) there is no event: the
  tailer follows the removed file until it is stopped (`NoticesRotation` names it).
  What is written to a rotated file after the last drain is lost.
* After a re-attach a `MOVE_SELF` of the old watch may still be queued and makes the
  tailer leave the new file and read it once more, from the beginning, if it is
  still behind the path (`ReadsOnce` names it: a file was renamed twice).
* `std::getline` hands out the half of a line that is there at the end of `eve.json`,
  and neither half parses: the event is lost (`MissedWereTorn`).
* East of UTC, between the host's New Year and UTC's, a syslog line is stamped a year
  early. In summer time `tm_isdst = 0` (`log_parser.cpp:96`) makes every syslog and nginx
  stamp an hour late, while key=value lines are stamped with the moment of parsing: in a
  log with both forms the windows compare stamps an hour apart. `StampErrors` says that
  stamps err in these two ways and in no other, on any day of the year.
* Between a swap's write of `agent.yaml` and its end a crash boots into the mode to come,
  not the one last shown (`YamlNamesMode` names it).
* Where a token read as an address is the name of a host, alerts on the token and that
  host's own alerts without address share a key (`correlation_engine.hpp:36-41`), and make
  a threat together (`OthersNameTheKey`).

## 4. Fairness and other assumptions

* `AlertPublisher`: weak fairness of the send thread and of the statements of
  `stop()`: the operating system runs a thread that can run. Nobody has to
  publish, start or stop. `StopReturns` is relative to finitely many publishes
  (`MaxPublish`): a caller that publishes for ever can keep the queue from being
  empty. `zmq_send` on a PUB socket does not block.
* `AgentLifecycle`: weak fairness of each thread where it can run; none for the
  client at the other end of a connection, for signals, lines or boots. With this
  `ShutdownEnds` must name the client that never sends (`recv()` has no timeout)
  and the join deadlock; without them it would be false. Finitely many lines are
  appended (`MaxLines`): the tailer looks at `stop_` only between buffers.
* `Feed`: weak fairness of the running detector's thread, none for writers, for
  rotation, or for `stop()`. `AppendsAreRead` speaks of what is appended after the
  watch was added: the code reads nothing between opening a file and its first event.
* `Dashboards`: weak fairness of the fetch thread's round, of the timer, and of the
  answer to each poll; failures are bounded. `ViewsCatchUp` needs that new alerts
  come to an end.
* `NodeRegistry`: the watchdog is punctual to the second, a heartbeat thread late by a
  second at most, a heartbeat under way for less than a second, and the system clock
  does not jump.
* `CorrelationEngine`, `RuleEngine`: the system clock does not run backwards.

Bounds that stand for something endless: `MaxTime`, `MaxThreats`, `MaxEvents`,
`MaxPublish`, `MaxStarts`, `MaxLines`, `MaxBoots`, `MaxSeq`, `InFlight`, `MaxRestarts`,
`MaxAgentRestarts`, `MaxFailures`, `MaxFiles`, `MaxLength`, `MaxChanges`, `MaxEntries`,
`MaxAlerts`, `AgeCap`. The proofs hold for each value of them.

## 5. What is proved

The proofs hold for every value of the constants that meets the named assumptions
(`EngineAssumption`, `CoordinatorAssumption`, `RegistryAssumption`,
`PublisherAssumption`, `LifecycleAssumption`, `FileAssumption`, `TailerAssumption`,
`RingAssumption`, `ParserAssumption`, `RuleEngineAssumption`, `ValuesAssumption`,
`DashboardAssumption`; TLC evaluates them in the runs). The method is the same in each: an inductive invariant
(`IInv`; `EngineInv` in `RuleEngine`, where `IInv` is the ring's) that TLC checked
first, one lemma or step per action, then the property from the invariant.

* **CorrelationEngineProofs.** `IInv` adds `Votes` to the invariants: a node has one
  entry per key, every entry is an alert that was heard, an alert heard without an
  entry is from a node whose entry expired meanwhile, and every entry's alert named the
  key as an address or came from the host of that name. The first part gives
  `ExactConsensus` (below the threshold before, one entry more at the most), the last
  `OthersNameTheKey`, the middle ones the refinement: the confirming nodes are recent, and the steady nodes all
  have an entry. The refinement's quorums are the sets of at least `Threshold`
  nodes. `NoPendingConsensus` and the uniqueness of threat ids are proved too.
* **CoordinatorProofs.** The engine's proofs are instantiated over the coordinator's
  variables and its lemmas are used as they are, with the restart as one more step.
  `IInv` says of the alerts anywhere in the system, on their way, in hand, cached or
  stored (`Known`), that their numbers are below their agent's next one (`Numbered`) and
  not shared within a life (`Unique`); that an alert is stored before the engine sees it,
  or its statement failed, or its id was taken by an earlier life, so that every vote in
  the index and every threat is backed by a saved alert (`EngineIsBacked`); and that the
  rows written since the last restart have ids below the next one (`RowsAreOlder`). From it:
  `AlertsArePersisted`, `ThreatsAreBacked`, `ShownThreatsAreStored` and `AlertsAreRecent`.
* **RuleEngineProofs.** First the ring: its `IInv` says that `head` is `size` slots after
  `tail` (`CursorsAgree`) and that the slots in between were written. The refinement
  needs that distinct positions of the window are distinct slots, which is arithmetic
  modulo `Cap`. Then the rules over it: `EngineInv` adds that the snapshot is the end of the log
  (`RingHoldsLog`) and that a cooldown runs exactly as long after its alert as its
  rule says (`CooldownsRun`). A place in the snapshot is then a place in the log,
  shifted: the sets a rule counts are the same, or of the same size by a bijection,
  and `AlertsAreJustified` and `BurstsAreAlerted` follow for any ring, window and
  threshold. `StampErrors` is arithmetic: the year a stamp is given is at most one
  off (`OneYearOff`), one too few only between the two New Years, and what summer time
  adds to the host's clock is never taken off again. That the ring of an agent is
  the window (`EngineIsWindow`) is the ring's refinement once `Spec` implies
  `RingSpec`.
* **AlertPublisherProofs.** `IInv` adds `IdsPublished` to the four invariants. The
  refinement maps the channel's pipe to the alert in hand followed by the queue.
  `NoLostWakeup` is the safety half of `StopReturns` and `AcceptedIsSent`: a sleeping
  thread has nothing to send, and one that is to stop is still to be notified. It is
  inductive with `OwnerInOrder`, on top of `IInv`.
* **NodeRegistryProofs.** `IInv` adds three facts: an ALIVE node was within the
  threshold when the watchdog last looked (`AliveWhenChecked`, hence `AliveIsFresh`);
  a node reported dead is still dead, or pinged since the watchdog fell asleep and so
  cannot be found silent when it wakes (`ReportedDeadIsKnown`, hence
  `DeathsAreReported`; this is where the period must not exceed the threshold); and the
  age of a heard agent is bounded by the heartbeats lost since (`JoinedIsHeard`, hence
  `RunningIsAlive`).
* **AgentLifecycleProofs.** `IInv` ties the program counters to the holder of the mutex
  (`MutexIsHeld`), says what the swap has torn down at each of its statements
  (`Teardown`), which mode it is on the way to and that it wrote it before the start (`SwapTarget`),
  and what main() has stopped (`MainStopped`). With the mutex excluding the swap from
  the shutdown, `ShutdownIsQuiet` follows but for the late swap it names. Of the two
  liveness properties the safety half is proved: a joined thread was told to stop and is
  still there (`JoinedIsTold`), so that a join hangs only where the thread does not come
  back to the head of its loop; and where it hangs by the join deadlock nothing but the
  end of the process undoes it (`DeadlockIsForGood`, an action property).
* **FeedProofs.** `LinesAreWhole` is inductive once the read positions are in order
  (`InOrder`), by a small algebra of pieces and lines: pieces join, a delivered line is
  the partial one and the pieces up to the newline, and the lines up to one more
  newline are one line more. `NoticesRotation` needs `IsInformed`: while attached, the
  watch is on the file behind the path, or on a removed one that is still open, or an
  event that will make the tailer leave is in the batch or in the queue
  (`WillRotate`). `LeavesNothingBehind` needs `IsDrained`, and `MissedWereTorn`
  `IsPassed`: a line of which the adapter has had only the first half is torn.
  `ReadsOnce` has an inductive invariant of its own, `OnceInv`, over `IInv`. As long as no
  file was changed twice, the file behind the path is the one that never was
  (`StillNamed`); each change is told of once, in the queue or in the batch or by the
  tailer being on its way out, and by the watch on the file that was changed
  (`ToldOnce`); so a tailer that has delivered a line of the file behind the path stays
  with it (`StaysWithPath`), and does not open it once more. `NothingWaits` is the safety
  half of `AppendsAreRead`: a tailer that waits with nothing queued has read what was
  appended since its watch was added. It needs `IsAsked` over `IInv`: whatever is still
  to be read is being read, or an event that makes the tailer drain is in the batch or in
  the queue; a write whose event inotify merges with the last one waiting finds it there.
* **DashboardsProofs.** `IInv` describes a round of requests half way: an answer there is
  to a request already made and from a life already begun (`AnswersInOrder`), and the
  totals count nothing that a list of the same life lacks, neither one answered nor, lists
  not growing shorter within a life, one still to be asked for (`TotalsFit`).
  `RefreshFitsTogether` is what `Refresh` makes of it; with the totals asked for last
  `TotalsFit` would be false.

Every invariant and every action property that a passing run checks is a theorem, and
so are the refinements. Only model-checked: liveness (`StopReturns`, `AcceptedIsSent`,
`SwapEnds`, `ShutdownEnds`, `AppendsAreRead`, `ViewsCatchUp`), which the installed
backends of TLAPS do not reach; whatever a mutant or a finding shows. The theorems that
no run repeats (`JoinedIsTold`, `DeadlockIsForGood`, `NoLostWakeup`, `NothingWaits`, the
inductive invariants) were model-checked on the same configurations before they were proved.

## 6. What is not modelled

* A log truncated in place (`copytruncate`): in the model files only grow. The code has
  no branch for it, so nothing but a wrong offset would be shown.
* A crash while `write_yaml_field()` rewrites `agent.yaml` (`agent_main.cpp:217`): in the
  model a file is its `ids_mode`, written at once. Listed as a hazard without a property.
* Text: the parser's fields and key=value pairs, the JSON of alerts, heartbeats and REST
  answers, ncurses drawing, the web views. They are functions without state, or layout;
  the models use the classes the rest of the system tells apart.
* `GET /feed` and `GET /status`, which restate what the modelled handlers read; the agent's
  statistics thread, which prints counters.
* The z-score detector (floating point, used by tests only) and the programs that no
  target builds (`suricata_parser.cpp`, `demo_main.cpp`, `log_simulator.cpp`) or that only
  print (`subscriber.cpp`).
* The vendored headers (`json.hpp`, `httplib.h`, `zmq.hpp`, `zmq_addon.hpp`), which are 48 000
  of the tree's 53 700 lines of code: how the system uses ZeroMQ and SQLite is in the
  models, their insides are not. Of the project's own C++ about two lines in five are mapped
  to a definition; most of the rest is text handling, drawing and start-up printing.

## 7. Plan

Done, in this order: correlation engine with its consensus, ring buffer, publisher,
agent life cycle, node registry with the heartbeats, coordinator, rule engine; then log,
tailer and adapter, the parser's stamps, the rule engine over the real ring, failing
statements and restarting agents in the coordinator, the dashboards; the proofs of
section 5, `ReadsOnce`, the dashboards and the safety halves of the liveness properties
last.

Left, in order of worth: `copytruncate` as one more action of `LogFile`; the
pipeline from `Feed` through `RuleEngine` to `AlertPublisher` as one composition, whose
parts share only the callback's argument; `agent.yaml` as lines rather than one field.
