--------------------------- MODULE AgentLifecycle ---------------------------
(***************************************************************************)
(* The threads of dlads-agent (src/agent_main.cpp): main() boots one of    *)
(* two detectors from agent.yaml and stops it on a signal, the status      *)
(* thread swaps them on a POST /config, and the detector's own thread runs *)
(* the callback.  g_ids_swap_mtx is `mutex'; each thread has a program     *)
(* counter, and a detector that was made and whose thread returned is      *)
(* "exited".                                                               *)
(***************************************************************************)
EXTENDS Naturals

CONSTANTS MaxLines,   \* bound on the lines appended to the watched file
          MaxBoots,   \* bound on the starts of the process
          CallsFail   \* whether inotify_init1() and poll() may fail

ASSUME LifecycleAssumption ==
    MaxLines \in Nat /\ MaxBoots \in Nat /\ CallsFail \in BOOLEAN

VARIABLES mode,         \* g_ids_mode
          yaml,         \* ids_mode in agent.yaml, which survives the process
          eve,          \* eve.json exists
          watch,        \* g_watch_file
          mutex,        \* who holds g_ids_swap_mtx
          tailer,       \* g_tailer and its thread
          tailerStop,   \* its stop_
          tailerFile,   \* its path_
          adapter,      \* g_suricata_adapter and its thread
          adapterStop,  \* its stop_
          status,       \* the status thread
          target,       \* new_mode of the swap in progress
          main,         \* the main thread
          stopReq,      \* g_stop
          lines, boots, \* lines appended and boots so far
          failed,       \* history: the last swap returned an error
          unsaved,      \* history: a write of agent.yaml went unnoticed
          late          \* history: a swap began after main() stopped detection

vars == <<mode, yaml, eve, watch, mutex, tailer, tailerStop, tailerFile, adapter,
          adapterStop, status, target, main, stopReq, lines, boots, failed,
          unsaved, late>>

detectorVars == <<tailer, tailerStop, tailerFile, adapter, adapterStop>>
configVars   == <<mode, yaml, watch>>
historyVars  == <<failed, unsaved, late>>

Modes == {"builtin", "suricata"}
Files == {"log", "eve"}

TypeOK ==
    /\ mode \in Modes \cup {"fallback"} /\ yaml \in Modes /\ target \in Modes
    /\ watch \in Files /\ tailerFile \in Files
    /\ eve \in BOOLEAN /\ stopReq \in BOOLEAN
    /\ tailerStop \in BOOLEAN /\ adapterStop \in BOOLEAN
    /\ failed \in BOOLEAN /\ unsaved \in BOOLEAN /\ late \in BOOLEAN
    /\ mutex \in {"free", "main", "status", "tailer"}
    /\ tailer \in {"none", "top", "poll", "want", "hold", "exited"}
    /\ adapter \in {"none", "open", "top", "call", "exited"}
    /\ status \in {"bind", "idle", "recv", "lock", "stopAdapter", "joinAdapter", "stopTailer",
                   "joinTailer", "write", "start", "exited"}
    /\ main \in {"off", "run", "stopAdapter", "joinAdapter", "stopTailer", "joinTailer",
                 "join", "done"}
    /\ lines \in 0..MaxLines /\ boots \in 0..MaxBoots
-----------------------------------------------------------------------------
(* The detectors.                                                          *)

NewTailer(file) == /\ tailer' = "top" /\ tailerStop' = FALSE /\ tailerFile' = file
                   /\ UNCHANGED <<adapter, adapterStop>>

NewAdapter == /\ adapter' = "open" /\ adapterStop' = FALSE
              /\ UNCHANGED <<tailer, tailerStop, tailerFile>>

TailerMoves(from, to) ==
    /\ tailer = from /\ tailer' = to
    /\ UNCHANGED <<configVars, eve, tailerStop, tailerFile, adapter, adapterStop,
                   status, target, main, stopReq, boots, historyVars>>

\* A bug: the loop does not look at stop_.
TailerTopDeaf == TailerMoves("top", "poll") /\ UNCHANGED <<mutex, lines>>

\* The head of LogTailer's loop is where it looks at stop_.
TailerTop == /\ TailerMoves("top", IF tailerStop THEN "exited" ELSE "poll")
             /\ UNCHANGED <<mutex, lines>>

\* inotify_init1() or poll() fails: the thread returns unasked.
TailerFails == /\ CallsFail
               /\ TailerMoves("top", "exited")
               /\ UNCHANGED <<mutex, lines>>

TailerTimeout == TailerMoves("poll", "top") /\ UNCHANGED <<mutex, lines>>

\* A line arrives and is parsed before the callback asks for the mutex.
TailerLine == /\ lines < MaxLines /\ lines' = lines + 1
              /\ TailerMoves("poll", "want")
              /\ UNCHANGED mutex

TailerLock == /\ mutex = "free" /\ mutex' = "tailer"
              /\ TailerMoves("want", "hold")
              /\ UNCHANGED lines

\* The callback returns; drain() may have the next line at hand, and goes on
\* to it without looking at stop_.
TailerUnlock ==
    /\ mutex' = "free"
    /\ \/ TailerMoves("hold", "top") /\ UNCHANGED lines
       \/ TailerMoves("hold", "want") /\ lines < MaxLines /\ lines' = lines + 1

AdapterMoves(from, to) ==
    /\ adapter = from /\ adapter' = to
    /\ UNCHANGED <<configVars, eve, mutex, tailer, tailerStop, tailerFile, adapterStop,
                   status, target, main, stopReq, boots, lines, historyVars>>

\* The adapter's thread opens eve.json once and returns if it cannot; its
\* callback takes no lock.
AdapterOpen == AdapterMoves("open", IF eve THEN "top" ELSE "exited")
AdapterStops == adapterStop /\ AdapterMoves("top", "exited")
AdapterAlert == ~adapterStop /\ AdapterMoves("top", "call")
AdapterPublished == AdapterMoves("call", "top")

TailerStep  == TailerTop \/ TailerFails \/ TailerTimeout \/ TailerLine \/ TailerLock \/ TailerUnlock
AdapterStep == AdapterOpen \/ AdapterStops \/ AdapterAlert \/ AdapterPublished
-----------------------------------------------------------------------------
(* The status thread.                                                      *)

StatusMoves(from, to) ==
    /\ status = from /\ status' = to
    /\ UNCHANGED <<eve, main, stopReq, lines, boots>>

\* Port 8081 is bound, or taken and the thread returns.
Bind == /\ main # "off"
        /\ StatusMoves("bind", "idle") \/ StatusMoves("bind", "exited")
        /\ UNCHANGED <<configVars, detectorVars, mutex, target, historyVars>>

Connect == /\ ~stopReq
           /\ StatusMoves("idle", "recv")
           /\ UNCHANGED <<configVars, detectorVars, mutex, target, historyVars>>

StatusExit == /\ stopReq
              /\ StatusMoves("idle", "exited")
              /\ UNCHANGED <<configVars, detectorVars, mutex, target, historyVars>>

\* The client sends a GET, hangs up, or asks for what the mode says already.
AnswerAtOnce == /\ StatusMoves("recv", "idle")
                /\ UNCHANGED <<configVars, detectorVars, mutex, target, historyVars>>

\* The client posts another mode.
RequestSwap == /\ \E m \in Modes \ {mode} : target' = m
               /\ StatusMoves("recv", "lock")
               /\ UNCHANGED <<configVars, detectorVars, mutex, historyVars>>

SwapLock == /\ mutex = "free" /\ mutex' = "status"
            /\ late' = (late \/ main \in {"join", "done"})
            /\ StatusMoves("lock", "stopAdapter")
            /\ UNCHANGED <<configVars, detectorVars, target, failed, unsaved>>

SwapStopAdapter ==
    /\ StatusMoves("stopAdapter", IF adapter = "none" THEN "stopTailer" ELSE "joinAdapter")
    /\ adapterStop' = (adapter # "none")
    /\ UNCHANGED <<configVars, adapter, tailer, tailerStop, tailerFile, mutex, target,
                   historyVars>>

\* A bug: the adapter is told to stop, not waited for.
SwapJoinAdapterNot ==
    /\ StatusMoves("joinAdapter", "stopTailer")
    /\ UNCHANGED <<configVars, adapter, adapterStop, tailer, tailerStop, tailerFile,
                   mutex, target, historyVars>>

SwapJoinAdapter ==
    /\ adapter = "exited" /\ adapter' = "none"
    /\ StatusMoves("joinAdapter", "stopTailer")
    /\ UNCHANGED <<configVars, adapterStop, tailer, tailerStop, tailerFile, mutex,
                   target, historyVars>>

SwapStopTailer ==
    /\ StatusMoves("stopTailer", IF tailer = "none" THEN "write" ELSE "joinTailer")
    /\ tailerStop' = (tailer # "none")
    /\ UNCHANGED <<configVars, tailer, tailerFile, adapter, adapterStop, mutex, target,
                   historyVars>>

SwapJoinTailer ==
    /\ tailer = "exited" /\ tailer' = "none"
    /\ StatusMoves("joinTailer", "write")
    /\ UNCHANGED <<configVars, tailerStop, tailerFile, adapter, adapterStop, mutex,
                   target, historyVars>>

SwapWrite == /\ yaml' = target
             /\ StatusMoves("write", "start")
             /\ UNCHANGED <<mode, watch, detectorVars, mutex, target, historyVars>>

\* A bug: the early return leaves the mutex locked.
SwapWriteFailsLocked ==
    /\ failed' = TRUE
    /\ StatusMoves("write", "idle")
    /\ UNCHANGED <<configVars, detectorVars, mutex, target, unsaved, late>>

\* agent.yaml cannot be written: both detectors are gone, the mode stays.
SwapWriteFails ==
    /\ failed' = TRUE /\ mutex' = "free"
    /\ StatusMoves("write", "idle")
    /\ UNCHANGED <<configVars, detectorVars, target, unsaved, late>>

\* The start fails: agent.yaml is written back, and nobody looks whether that
\* worked.
Rollback == /\ yaml' \in (Modes \ {target}) \cup {yaml}
            /\ unsaved' = (unsaved \/ yaml' = target)

\* A bug: no roll back of agent.yaml when eve.json is missing.
SwapNoEveKeepsYaml ==
    /\ target = "suricata" /\ ~eve
    /\ failed' = TRUE /\ mutex' = "free"
    /\ StatusMoves("start", "idle")
    /\ UNCHANGED <<configVars, detectorVars, target, unsaved, late>>

SwapNoEve ==
    /\ target = "suricata" /\ ~eve
    /\ Rollback
    /\ failed' = TRUE /\ mutex' = "free"
    /\ StatusMoves("start", "idle")
    /\ UNCHANGED <<mode, watch, detectorVars, target, late>>

\* std::thread throws out of start().
SwapStartThrows ==
    /\ target = "suricata" => eve
    /\ watch' = IF target = "suricata" THEN "eve" ELSE watch
    /\ Rollback
    /\ failed' = TRUE /\ mutex' = "free"
    /\ StatusMoves("start", "idle")
    /\ UNCHANGED <<mode, detectorVars, target, late>>

SwapToSuricata ==
    /\ target = "suricata" /\ eve
    /\ watch' = "eve"
    /\ NewAdapter
    /\ mode' = "suricata"
    /\ failed' = FALSE /\ mutex' = "free"
    /\ StatusMoves("start", "idle")
    /\ UNCHANGED <<yaml, target, unsaved, late>>

\* A bug: the new mode is not recorded.
SwapToBuiltinKeepsMode ==
    /\ target = "builtin"
    /\ NewTailer(watch)
    /\ failed' = FALSE /\ mutex' = "free"
    /\ StatusMoves("start", "idle")
    /\ UNCHANGED <<mode, yaml, watch, target, unsaved, late>>

\* A bug: back to the file the agent was started on, reported as before.
SwapToBuiltinOwnLog ==
    /\ target = "builtin"
    /\ NewTailer("log")
    /\ mode' = "builtin"
    /\ failed' = FALSE /\ mutex' = "free"
    /\ StatusMoves("start", "idle")
    /\ UNCHANGED <<yaml, watch, target, unsaved, late>>

SwapToBuiltin ==
    /\ target = "builtin"
    /\ NewTailer(watch)
    /\ mode' = "builtin"
    /\ failed' = FALSE /\ mutex' = "free"
    /\ StatusMoves("start", "idle")
    /\ UNCHANGED <<yaml, watch, target, unsaved, late>>

Swap == \/ SwapLock \/ SwapStopAdapter \/ SwapJoinAdapter \/ SwapStopTailer
        \/ SwapJoinTailer \/ SwapWrite \/ SwapWriteFails \/ SwapNoEve
        \/ SwapStartThrows \/ SwapToSuricata \/ SwapToBuiltin
-----------------------------------------------------------------------------
(* The main thread.                                                        *)

MainMoves(from, to) ==
    /\ main = from /\ main' = to
    /\ UNCHANGED <<configVars, eve, status, target, stopReq, lines, boots, historyVars>>

\* A boot starts the detector agent.yaml names, or the built-in one when
\* eve.json is missing; the write that records this is not looked at.
Boot ==
    /\ main = "off" /\ boots < MaxBoots
    /\ boots' = boots + 1
    /\ main' = "run"
    /\ watch' = "log"
    /\ \/ /\ yaml = "suricata" /\ eve
          /\ mode' = "suricata" /\ yaml' = yaml /\ unsaved' = FALSE
          /\ NewAdapter
       \/ /\ yaml = "suricata" /\ ~eve
          /\ mode' = "fallback" /\ yaml' \in Modes /\ unsaved' = (yaml' = "suricata")
          /\ NewTailer("log")
       \/ /\ yaml = "builtin"
          /\ mode' = "builtin" /\ yaml' = yaml /\ unsaved' = FALSE
          /\ NewTailer("log")
    /\ UNCHANGED <<eve, mutex, status, target, stopReq, lines, failed, late>>

MainLock == /\ stopReq
            /\ mutex = "free" /\ mutex' = "main"
            /\ MainMoves("run", "stopAdapter")
            /\ UNCHANGED detectorVars

MainStopAdapter ==
    /\ MainMoves("stopAdapter", IF adapter = "none" THEN "stopTailer" ELSE "joinAdapter")
    /\ adapterStop' = (adapter # "none")
    /\ UNCHANGED <<adapter, tailer, tailerStop, tailerFile, mutex>>

\* A bug: the detector is told to stop, not waited for.
MainJoinAdapterNot ==
    /\ MainMoves("joinAdapter", "stopTailer")
    /\ UNCHANGED <<detectorVars, mutex>>

MainJoinAdapter == /\ adapter = "exited"
                   /\ MainMoves("joinAdapter", "stopTailer")
                   /\ UNCHANGED <<detectorVars, mutex>>

MainStopTailer ==
    /\ MainMoves("stopTailer", IF tailer = "none" THEN "join" ELSE "joinTailer")
    /\ tailerStop' = (tailer # "none")
    /\ mutex' = IF tailer = "none" THEN "free" ELSE mutex
    /\ UNCHANGED <<tailer, tailerFile, adapter, adapterStop>>

MainJoinTailer == /\ tailer = "exited"
                  /\ mutex' = "free"
                  /\ MainMoves("joinTailer", "join")
                  /\ UNCHANGED detectorVars

\* Joined the status thread; the publisher is stopped and main() returns.
MainReturns == /\ status = "exited"
               /\ MainMoves("join", "done")
               /\ UNCHANGED <<detectorVars, mutex>>

MainStep == \/ MainLock \/ MainStopAdapter \/ MainJoinAdapter \/ MainStopTailer
            \/ MainJoinTailer \/ MainReturns
-----------------------------------------------------------------------------
(* The environment.                                                        *)

Off == /\ main' = "off" /\ status' = "bind" /\ mutex' = "free"
       /\ tailer' = "none" /\ adapter' = "none"
       /\ tailerStop' = FALSE /\ adapterStop' = FALSE /\ tailerFile' = "log"
       /\ mode' = "builtin" /\ target' = "builtin" /\ watch' = "log"
       /\ stopReq' = FALSE /\ failed' = FALSE /\ unsaved' = FALSE /\ late' = FALSE

\* The process ends, wherever it stands.
Crash == main # "off" /\ Off /\ UNCHANGED <<yaml, eve, lines, boots>>

Signal == /\ main # "off" /\ ~stopReq /\ stopReq' = TRUE
          /\ UNCHANGED <<configVars, eve, detectorVars, mutex, status, target, main,
                         lines, boots, historyVars>>

\* Suricata starts to write eve.json, or the file is rotated away.
EveAppears == ~eve /\ eve' = TRUE
EveVanishes == eve /\ eve' = FALSE
EveChanges ==
    /\ EveAppears \/ EveVanishes
    /\ UNCHANGED <<configVars, detectorVars, mutex, status, target, main, stopReq,
                   lines, boots, historyVars>>

Init == /\ main = "off" /\ status = "bind" /\ mutex = "free"
        /\ tailer = "none" /\ adapter = "none"
        /\ tailerStop = FALSE /\ adapterStop = FALSE /\ tailerFile = "log"
        /\ mode = "builtin" /\ target = "builtin" /\ watch = "log"
        /\ stopReq = FALSE /\ failed = FALSE /\ unsaved = FALSE /\ late = FALSE
        /\ yaml \in Modes /\ eve \in BOOLEAN
        /\ lines = 0 /\ boots = 0

StatusStep == Bind \/ Connect \/ StatusExit \/ AnswerAtOnce \/ RequestSwap \/ Swap

Next == TailerStep \/ AdapterStep \/ StatusStep \/ MainStep \/ Boot \/ Crash \/ Signal
        \/ EveChanges

\* The operating system runs every thread that can run: the tailer's, the
\* adapter's, the status thread outside of recv(), and main().  A client need
\* not connect nor send anything, and nobody has to signal or start the process.
Fairness == /\ WF_vars(TailerStep) /\ WF_vars(AdapterStep)
            /\ WF_vars(Swap) /\ WF_vars(Bind \/ StatusExit) /\ WF_vars(MainStep)

Spec == Init /\ [][Next]_vars /\ Fairness
-----------------------------------------------------------------------------
Quiet == main # "off" /\ status \in {"bind", "idle", "recv", "lock", "exited"}
TailerRuns == tailer \in {"top", "poll", "want", "hold"}
AdapterRuns == adapter \in {"open", "top", "call"}

\* A new detector is started only when no thread of an old one is left, and the two
\* kinds never run side by side: the joins see to it, so that no line is handled
\* twice and no alert comes from a detector that the swap replaced.
OneDetector == /\ status = "start" => tailer = "none" /\ adapter = "none"
               /\ ~(TailerRuns /\ AdapterRuns)

\* Between swaps the mode that GET /status reports is the one of the detector
\* that is there, unless the last swap failed.
ModeHasDetector ==
    Quiet /\ ~failed => /\ (mode = "suricata") = (adapter # "none")
                        /\ (mode # "suricata") = (tailer # "none")

\* At every moment, and so whenever the process dies, agent.yaml names the mode that
\* GET /status reports, through failed swaps too; only between a swap's write of it
\* and the end of that swap does it name the mode to come, and a write nobody looked
\* at may have failed.  (Not so in the fallback mode, where a failed swap to the
\* built-in engine "rolls back" to suricata.)
YamlNamesMode ==
    main # "off" /\ ~unsaved /\ mode # "fallback" =>
        yaml = mode \/ (status = "start" /\ yaml = target)

\* Once main() has stopped detection no detector calls back any more, and so
\* none publishes into the stopped publisher, unless a swap got in after it.
ShutdownIsQuiet == main \in {"join", "done"} /\ ~late => ~TailerRuns /\ ~AdapterRuns

\* The watch_file that GET /status reports is the file the built-in detector
\* reads, also where a swap to Suricata and back left it reading eve.json.
WatchFileIsRead == Quiet /\ TailerRuns => tailerFile = watch

-----------------------------------------------------------------------------
(* The inductive invariant.                                                *)

SwapHolds == {"stopAdapter", "joinAdapter", "stopTailer", "joinTailer", "write", "start"}
MainHolds == {"stopAdapter", "joinAdapter", "stopTailer", "joinTailer"}

\* The program counters say who holds the mutex.
MutexIsHeld == /\ (mutex = "status") <=> status \in SwapHolds
               /\ (mutex = "main") <=> main \in MainHolds
               /\ (mutex = "tailer") <=> tailer = "hold"

OffIsClean == main = "off" => /\ status = "bind" /\ tailer = "none" /\ adapter = "none"
                              /\ ~stopReq /\ ~late

\* What the swap has torn down so far; there is never more than one detector.
Teardown == /\ tailer = "none" \/ adapter = "none"
            /\ status \in {"stopTailer", "joinTailer", "write", "start"} => adapter = "none"
            /\ status \in {"write", "start"} => tailer = "none"

\* A swap goes to another mode than the one reported, and writes it before it
\* starts the detector.
SwapTarget ==
    /\ status \in SwapHolds \cup {"lock"} => target # mode
    /\ status = "start" => yaml = target

\* What main() has stopped stays stopped unless a late swap gets the mutex.
MainStopped ==
    /\ main \in {"stopTailer", "joinTailer"} => ~AdapterRuns
    /\ main \in {"join", "done"} /\ ~late =>
           ~TailerRuns /\ ~AdapterRuns /\ status \notin SwapHolds

TailerReadsWatch == TailerRuns => tailerFile = watch

IInv == /\ TypeOK /\ MutexIsHeld /\ OffIsClean /\ Teardown /\ SwapTarget /\ MainStopped
        /\ TailerReadsWatch /\ ModeHasDetector /\ YamlNamesMode
-----------------------------------------------------------------------------
\* The tailer's callback waits for the mutex of the thread that joins it.
JoinDeadlock == /\ tailer = "want"
                /\ \/ status = "joinTailer" /\ mutex = "status"
                   \/ main = "joinTailer" /\ mutex = "main"

\* Only the end of the process undoes it: neither the signal nor the other thread
\* that would stop detection gets past it.
DeadlockIsForGood == [][JoinDeadlock => JoinDeadlock' \/ main' = "off"]_vars

\* A thread that is joined was told to stop, and nobody takes that back or joins it
\* first: it ends at the head of its loop, unless it never gets there.
JoinedIsTold ==
    /\ "joinAdapter" \in {status, main} => adapterStop /\ adapter # "none"
    /\ "joinTailer" \in {status, main} => tailerStop /\ tailer # "none"

\* A swap ends, or is stuck for good in the one way above.
SwapEnds ==
    (status = "lock") ~> (status = "idle" \/ main = "off" \/ []JoinDeadlock)

\* A signal ends the process, unless a join is stuck or a client that connected
\* never sends anything.
ShutdownEnds ==
    stopReq ~> (main \in {"done", "off"} \/ []JoinDeadlock \/ [](status = "recv"))

\* LogTailer: stop() is safe to call from any thread and always joins cleanly.
StopJoinsCleanly == (status = "joinTailer") ~> (status # "joinTailer")

\* A swap aborted for want of eve.json stays on the built-in detector, as the
\* agent logs.  (To be read with CallsFail = FALSE: a tailer that ended by itself is
\* not there to stay on.)
AbortedSwapStaysOnBuiltin == [][SwapNoEve => TailerRuns']_vars
=============================================================================
