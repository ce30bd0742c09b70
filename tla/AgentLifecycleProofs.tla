------------------------ MODULE AgentLifecycleProofs ------------------------
(***************************************************************************)
(* Safety of the agent's threads, for any number of boots and lines: who   *)
(* holds the mutex and what the swap has torn down decide everything else. *)
(***************************************************************************)
EXTENDS AgentLifecycle, TLAPS

\* What every leaf below reads of the invariant.
USE DEF IInv, TypeOK, MutexIsHeld, OffIsClean, Teardown, SwapTarget, MainStopped,
        TailerReadsWatch, ModeHasDetector, YamlNamesMode, Quiet, TailerRuns, AdapterRuns,
        SwapHolds, MainHolds, Modes, Files, configVars, detectorVars, historyVars

LEMMA InitInvariant == Init => IInv
<1> SUFFICES ASSUME Init PROVE IInv
  OBVIOUS
<1>1. lines \in 0..MaxLines /\ boots \in 0..MaxBoots
  BY LifecycleAssumption DEF Init
<1>. QED
  BY <1>1 DEF Init

-----------------------------------------------------------------------------
\* The tailer's thread moves, and takes or returns the mutex around its callback.
LEMMA TailerInvariant ==
    ASSUME IInv, TailerStep
    PROVE  IInv'
<1>1. CASE TailerTop
  BY <1>1 DEF TailerTop, TailerMoves
<1>2. CASE TailerFails
  BY <1>2 DEF TailerFails, TailerMoves
<1>3. CASE TailerTimeout
  BY <1>3 DEF TailerTimeout, TailerMoves
<1>4. CASE TailerLine
  BY <1>4, LifecycleAssumption DEF TailerLine, TailerMoves
<1>5. CASE TailerLock
  BY <1>5 DEF TailerLock, TailerMoves
<1>6. CASE TailerUnlock
  BY <1>6, LifecycleAssumption DEF TailerUnlock, TailerMoves
<1>. QED
  BY <1>1, <1>2, <1>3, <1>4, <1>5, <1>6 DEF TailerStep

-----------------------------------------------------------------------------
\* The adapter's thread takes no lock.
LEMMA AdapterInvariant ==
    ASSUME IInv, AdapterStep
    PROVE  IInv'
<1>1. CASE AdapterOpen
  BY <1>1 DEF AdapterOpen, AdapterMoves
<1>2. CASE AdapterStops
  BY <1>2 DEF AdapterStops, AdapterMoves
<1>3. CASE AdapterAlert
  BY <1>3 DEF AdapterAlert, AdapterMoves
<1>4. CASE AdapterPublished
  BY <1>4 DEF AdapterPublished, AdapterMoves
<1>. QED
  BY <1>1, <1>2, <1>3, <1>4 DEF AdapterStep

-----------------------------------------------------------------------------
\* A swap that fails at its last step names in agent.yaml what it reports.
LEMMA RolledBack ==
    ASSUME IInv, Rollback, StatusMoves("start", "idle"), failed' = TRUE, mutex' = "free",
           UNCHANGED <<mode, detectorVars, target, late>>, watch' \in Files
    PROVE  IInv'
<1>1. yaml' \in Modes /\ (yaml' = yaml \/ yaml' # target) /\ (~unsaved' => ~unsaved /\ yaml' # target)
  BY Zenon DEF Rollback
<1>2. unsaved' \in BOOLEAN
  BY Zenon DEF Rollback
<1>3. TypeOK'
  BY <1>1, <1>2 DEF StatusMoves
<1>4. MutexIsHeld' /\ OffIsClean' /\ Teardown'
  BY DEF StatusMoves
<1>5. SwapTarget' /\ MainStopped' /\ TailerReadsWatch' /\ ModeHasDetector'
  BY DEF StatusMoves
<1>6. YamlNamesMode'
  BY <1>1 DEF StatusMoves
<1>. QED
  BY <1>3, <1>4, <1>5, <1>6

\* do_ids_swap(), statement by statement.
LEMMA SwapInvariant ==
    ASSUME IInv, Swap
    PROVE  IInv'
<1>1. CASE SwapLock
  <2>1. late' \in BOOLEAN
    BY <1>1, Zenon DEF SwapLock
  <2>2. TypeOK'
    BY <1>1, <2>1 DEF SwapLock, StatusMoves
  <2>. QED
    BY <1>1, <2>2 DEF SwapLock, StatusMoves
<1>2. CASE SwapStopAdapter
  BY <1>2 DEF SwapStopAdapter, StatusMoves
<1>3. CASE SwapJoinAdapter
  BY <1>3 DEF SwapJoinAdapter, StatusMoves
<1>4. CASE SwapStopTailer
  BY <1>4 DEF SwapStopTailer, StatusMoves
<1>5. CASE SwapJoinTailer
  BY <1>5 DEF SwapJoinTailer, StatusMoves
<1>6. CASE SwapWrite
  BY <1>6 DEF SwapWrite, StatusMoves
<1>7. CASE SwapWriteFails
  BY <1>7 DEF SwapWriteFails, StatusMoves
<1>8. CASE SwapNoEve
  <2>1. watch' \in Files
    BY <1>8 DEF SwapNoEve
  <2>2. /\ Rollback /\ StatusMoves("start", "idle") /\ failed' = TRUE /\ mutex' = "free"
        /\ UNCHANGED <<mode, detectorVars, target, late>>
    BY <1>8 DEF SwapNoEve
  <2>. QED
    BY <2>1, <2>2, RolledBack
<1>9. CASE SwapStartThrows
  <2>1. watch' \in Files
    BY <1>9 DEF SwapStartThrows
  <2>2. /\ Rollback /\ StatusMoves("start", "idle") /\ failed' = TRUE /\ mutex' = "free"
        /\ UNCHANGED <<mode, detectorVars, target, late>>
    BY <1>9 DEF SwapStartThrows
  <2>. QED
    BY <2>1, <2>2, RolledBack
<1>10. CASE SwapToSuricata
  BY <1>10 DEF SwapToSuricata, StatusMoves, NewAdapter
<1>11. CASE SwapToBuiltin
  <2>1. TypeOK' /\ OffIsClean'
    BY <1>11 DEF SwapToBuiltin, StatusMoves, NewTailer
  <2>2. MutexIsHeld' /\ SwapTarget'
    BY <1>11 DEF SwapToBuiltin, StatusMoves, NewTailer
  <2>3. Teardown' /\ MainStopped' /\ TailerReadsWatch' /\ ModeHasDetector' /\ YamlNamesMode'
    BY <1>11 DEF SwapToBuiltin, StatusMoves, NewTailer
  <2>. QED
    BY <2>1, <2>2, <2>3
<1>. QED
  BY <1>1, <1>2, <1>3, <1>4, <1>5, <1>6, <1>7, <1>8, <1>9, <1>10, <1>11 DEF Swap

-----------------------------------------------------------------------------
\* The rest of the status thread.
LEMMA StatusInvariant ==
    ASSUME IInv, StatusStep
    PROVE  IInv'
<1>1. CASE Bind
  BY <1>1 DEF Bind, StatusMoves
<1>2. CASE Connect
  BY <1>2 DEF Connect, StatusMoves
<1>3. CASE StatusExit
  BY <1>3 DEF StatusExit, StatusMoves
<1>4. CASE AnswerAtOnce
  BY <1>4 DEF AnswerAtOnce, StatusMoves
<1>5. CASE RequestSwap
  BY <1>5 DEF RequestSwap, StatusMoves
<1>6. CASE Swap
  BY <1>6, SwapInvariant
<1>. QED
  BY <1>1, <1>2, <1>3, <1>4, <1>5, <1>6 DEF StatusStep

-----------------------------------------------------------------------------
\* The shutdown in main().
LEMMA MainInvariant ==
    ASSUME IInv, MainStep
    PROVE  IInv'
<1>1. CASE MainLock
  BY <1>1 DEF MainLock, MainMoves
<1>2. CASE MainStopAdapter
  BY <1>2 DEF MainStopAdapter, MainMoves
<1>3. CASE MainJoinAdapter
  BY <1>3 DEF MainJoinAdapter, MainMoves
<1>4. CASE MainStopTailer
  BY <1>4 DEF MainStopTailer, MainMoves
<1>5. CASE MainJoinTailer
  BY <1>5 DEF MainJoinTailer, MainMoves
<1>6. CASE MainReturns
  BY <1>6 DEF MainReturns, MainMoves
<1>. QED
  BY <1>1, <1>2, <1>3, <1>4, <1>5, <1>6 DEF MainStep
-----------------------------------------------------------------------------
LEMMA StepInvariant == IInv /\ [Next]_vars => IInv'
<1> SUFFICES ASSUME IInv, [Next]_vars PROVE IInv'
  OBVIOUS
<1>1. CASE TailerStep
  BY <1>1, TailerInvariant
<1>2. CASE AdapterStep
  BY <1>2, AdapterInvariant
<1>3. CASE StatusStep
  BY <1>3, StatusInvariant
<1>4. CASE MainStep
  BY <1>4, MainInvariant
<1>5. CASE Boot
  <2>1. unsaved' \in BOOLEAN
    BY <1>5, Zenon DEF Boot
  <2>2. lines' \in 0..MaxLines /\ boots' \in 0..MaxBoots
    BY <1>5, LifecycleAssumption DEF Boot
  <2>3. TypeOK'
    BY <1>5, <2>1, <2>2 DEF Boot, NewAdapter, NewTailer
  <2>. QED
    BY <1>5, <2>3 DEF Boot, NewAdapter, NewTailer
<1>6. CASE Crash
  BY <1>6 DEF Crash, Off
<1>7. CASE Signal
  BY <1>7 DEF Signal
<1>8. CASE EveChanges
  <2>1. eve' \in BOOLEAN
    BY <1>8, Zenon DEF EveChanges, EveAppears, EveVanishes
  <2>. QED
    BY <1>8, <2>1 DEF EveChanges
<1>9. CASE UNCHANGED vars
  BY <1>9 DEF vars
<1>. QED
  BY <1>1, <1>2, <1>3, <1>4, <1>5, <1>6, <1>7, <1>8, <1>9 DEF Next

HIDE DEF IInv, TypeOK, MutexIsHeld, OffIsClean, Teardown, SwapTarget, MainStopped,
         TailerReadsWatch, ModeHasDetector, YamlNamesMode, Quiet, TailerRuns, AdapterRuns,
         SwapHolds, MainHolds, Modes, Files, configVars, detectorVars, historyVars

\* Whatever the threads of the agent do, the mutex, the teardown and the
\* configuration fit together.
THEOREM LifecycleInvariant == Spec => []IInv
<1>. QED
  BY InitInvariant, StepInvariant, PTL DEF Spec

\* Type correctness of the agent: every thread stands at a place of the code.
THEOREM LifecycleTypes == Spec => []TypeOK
<1>1. IInv => TypeOK
  BY DEF IInv
<1>. QED
  BY <1>1, LifecycleInvariant, PTL

\* do_ids_swap() and main() never leave two detector threads on one rule engine.
THEOREM NeverTwoDetectors == Spec => []OneDetector
<1>1. IInv => OneDetector
  BY DEF IInv, OneDetector, Teardown, TailerRuns, AdapterRuns
<1>. QED
  BY <1>1, LifecycleInvariant, PTL

\* Unless the last swap failed, GET /status names the detector that is there.
THEOREM ModeTellsDetector == Spec => []ModeHasDetector
<1>1. IInv => ModeHasDetector
  BY DEF IInv
<1>. QED
  BY <1>1, LifecycleInvariant, PTL

\* Through swaps and their roll backs agent.yaml names the reported mode.
THEOREM YamlTellsMode == Spec => []YamlNamesMode
<1>1. IInv => YamlNamesMode
  BY DEF IInv
<1>. QED
  BY <1>1, LifecycleInvariant, PTL

\* After main() stopped detection no detector calls back, a late swap apart.
THEOREM NoCallbackAfterShutdown == Spec => []ShutdownIsQuiet
<1>1. IInv => ShutdownIsQuiet
  BY DEF IInv, ShutdownIsQuiet, MainStopped
<1>. QED
  BY <1>1, LifecycleInvariant, PTL

\* The reported watch_file is the file the built-in detector reads.
THEOREM WatchFileIsTrue == Spec => []WatchFileIsRead
<1>1. IInv => WatchFileIsRead
  BY DEF IInv, WatchFileIsRead, TailerReadsWatch
<1>. QED
  BY <1>1, LifecycleInvariant, PTL
-----------------------------------------------------------------------------
\* Nobody but the owner of a detector touches its flag or waits for it, and while it
\* waits it holds the mutex the other owner would need.
LEMMA StepTold == IInv /\ JoinedIsTold /\ [Next]_vars => JoinedIsTold'
<1> SUFFICES ASSUME IInv, JoinedIsTold, [Next]_vars PROVE JoinedIsTold'
  OBVIOUS
<1>1. /\ ~(status \in SwapHolds /\ main \in MainHolds)
      /\ main = "off" => status = "bind"
  BY DEF IInv, MutexIsHeld, OffIsClean
<1> USE <1>1 DEF JoinedIsTold, SwapHolds, MainHolds, configVars, detectorVars, historyVars
<1>2. CASE TailerStep \/ AdapterStep
  <2>1. UNCHANGED <<status, main, tailerStop, adapterStop>>
    BY <1>2 DEF TailerStep, TailerTop, TailerFails, TailerTimeout, TailerLine, TailerLock,
       TailerUnlock, TailerMoves, AdapterStep, AdapterOpen, AdapterStops, AdapterAlert,
       AdapterPublished, AdapterMoves
  <2>2. (tailer # "none" => tailer' # "none") /\ (adapter # "none" => adapter' # "none")
    BY <1>2 DEF TailerStep, TailerTop, TailerFails, TailerTimeout, TailerLine, TailerLock,
       TailerUnlock, TailerMoves, AdapterStep, AdapterOpen, AdapterStops, AdapterAlert,
       AdapterPublished, AdapterMoves
  <2>. QED
    BY <2>1, <2>2
<1>3. CASE Swap
  <2>1. CASE SwapStopAdapter
    <3>1. adapter # "none" => adapterStop'
      BY <2>1, Zenon DEF SwapStopAdapter
    <3>. QED
      BY <2>1, <3>1 DEF SwapStopAdapter, StatusMoves
  <2>2. CASE SwapStopTailer
    <3>1. tailer # "none" => tailerStop'
      BY <2>2, Zenon DEF SwapStopTailer
    <3>. QED
      BY <2>2, <3>1 DEF SwapStopTailer, StatusMoves
  <2>3. CASE SwapLock
    BY <2>3 DEF SwapLock, StatusMoves
  <2>4. CASE SwapJoinAdapter \/ SwapJoinTailer \/ SwapWrite \/ SwapWriteFails
    BY <2>4 DEF SwapJoinAdapter, SwapJoinTailer, SwapWrite, SwapWriteFails, StatusMoves
  <2>5. CASE SwapNoEve \/ SwapStartThrows \/ SwapToSuricata \/ SwapToBuiltin
    <3>1. status = "start" /\ status' = "idle" /\ main' = main
      BY <2>5 DEF SwapNoEve, SwapStartThrows, SwapToSuricata, SwapToBuiltin, StatusMoves
    <3>. QED
      BY <3>1
  <2>. QED
    BY <1>3, <2>1, <2>2, <2>3, <2>4, <2>5 DEF Swap
<1>4. CASE Bind \/ Connect \/ StatusExit \/ AnswerAtOnce \/ RequestSwap
  BY <1>4 DEF Bind, Connect, StatusExit, AnswerAtOnce, RequestSwap, StatusMoves
<1>5. CASE MainStep
  <2>1. CASE MainStopAdapter
    <3>1. adapter # "none" => adapterStop'
      BY <2>1, Zenon DEF MainStopAdapter
    <3>. QED
      BY <2>1, <3>1 DEF MainStopAdapter, MainMoves
  <2>2. CASE MainStopTailer
    <3>1. tailer # "none" => tailerStop'
      BY <2>2, Zenon DEF MainStopTailer
    <3>. QED
      BY <2>2, <3>1 DEF MainStopTailer, MainMoves
  <2>3. CASE MainLock \/ MainJoinAdapter \/ MainJoinTailer \/ MainReturns
    BY <2>3 DEF MainLock, MainJoinAdapter, MainJoinTailer, MainReturns, MainMoves
  <2>. QED
    BY <1>5, <2>1, <2>2, <2>3 DEF MainStep
<1>6. CASE Boot
  <2>1. main = "off" /\ main' = "run" /\ status' = status
    BY <1>6 DEF Boot
  <2>. QED
    BY <2>1
<1>7. CASE Crash
  BY <1>7 DEF Crash, Off
<1>8. CASE Signal \/ EveChanges \/ UNCHANGED vars
  BY <1>8 DEF Signal, EveChanges, vars
<1>. QED
  BY <1>2, <1>3, <1>4, <1>5, <1>6, <1>7, <1>8 DEF Next, StatusStep

\* Whoever joins a detector's thread has told it to stop, and it is still there: a
\* join can only hang where the thread never looks at stop_ again.
THEOREM JoinedIsAlwaysTold == Spec => []JoinedIsTold
<1>1. Init => JoinedIsTold
  BY DEF Init, JoinedIsTold
<1>. QED
  BY <1>1, StepTold, LifecycleInvariant, PTL DEF Spec

\* In the join deadlock the mutex's holder waits for the thread that waits for the
\* mutex; everybody else needs the mutex or touches neither.
LEMMA StepStuck == IInv /\ JoinDeadlock /\ [Next]_vars => JoinDeadlock' \/ main' = "off"
<1> SUFFICES ASSUME IInv, JoinDeadlock, [Next]_vars PROVE JoinDeadlock' \/ main' = "off"
  OBVIOUS
<1>1. /\ tailer = "want" /\ mutex \in {"status", "main"}
      /\ mutex = "status" => status = "joinTailer" /\ main \notin MainHolds
      /\ mutex = "main" => main = "joinTailer" /\ status \notin SwapHolds
      /\ main # "off"
  BY DEF JoinDeadlock, IInv, MutexIsHeld, OffIsClean
<1> USE <1>1 DEF JoinDeadlock, SwapHolds, MainHolds
<1>2. ~TailerStep
  BY DEF TailerStep, TailerTop, TailerFails, TailerTimeout, TailerLine, TailerLock,
     TailerUnlock, TailerMoves
<1>3. CASE AdapterStep
  BY <1>3 DEF AdapterStep, AdapterOpen, AdapterStops, AdapterAlert, AdapterPublished,
     AdapterMoves
<1>4. ~Swap
  BY DEF Swap, SwapLock, SwapStopAdapter, SwapJoinAdapter, SwapStopTailer, SwapJoinTailer,
     SwapWrite, SwapWriteFails, SwapNoEve, SwapStartThrows, SwapToSuricata, SwapToBuiltin,
     StatusMoves
<1>5. CASE Bind \/ Connect \/ StatusExit \/ AnswerAtOnce \/ RequestSwap
  BY <1>5 DEF Bind, Connect, StatusExit, AnswerAtOnce, RequestSwap, StatusMoves, detectorVars
<1>6. CASE MainStep
  BY <1>6 DEF MainStep, MainLock, MainStopAdapter, MainJoinAdapter, MainStopTailer,
     MainJoinTailer, MainReturns, MainMoves, detectorVars
<1>7. ~Boot
  BY DEF Boot
<1>8. CASE Crash
  BY <1>8 DEF Crash, Off
<1>9. CASE Signal \/ EveChanges \/ UNCHANGED vars
  BY <1>9 DEF Signal, EveChanges, vars, detectorVars
<1>. QED
  BY <1>2, <1>3, <1>4, <1>5, <1>6, <1>7, <1>8, <1>9 DEF Next, StatusStep

\* Once the swap or the shutdown joins a tailer whose callback waits for the mutex,
\* nothing but the end of the process gets the agent out.
THEOREM DeadlockIsFinal == Spec => DeadlockIsForGood
<1>1. IInv /\ [Next]_vars => [JoinDeadlock => JoinDeadlock' \/ main' = "off"]_vars
  BY StepStuck
<1>. QED
  BY <1>1, LifecycleInvariant, PTL DEF Spec, DeadlockIsForGood
=============================================================================
