---------------------------- MODULE MonitorProofs ----------------------------
(***************************************************************************)
(* What the monitors promise, as theorems about the program in which one   *)
(* part is there.  Each part has an inductive invariant: it holds of the   *)
(* part's initial states, and every step keeps it.  At the end are the     *)
(* types of all parts.                                                     *)
(***************************************************************************)
EXTENDS BeaconGuardian, PartProofs, NaturalsInduction

\* A step of one part leaves the variables of all others alone.
LEMMA PartSteps ==
  ASSUME [Next]_vars
  PROVE  /\ UNCHANGED part
         /\ SuricataNext \/ UNCHANGED suricataVars
         /\ WazuhNext \/ UNCHANGED wazuhVars
         /\ NetworkNext \/ UNCHANGED networkVars
         /\ BrowserNext \/ UNCHANGED browserVars
         /\ SnapshotNext \/ UNCHANGED snapshotVars
         /\ FileWatcherNext \/ UNCHANGED watcherVars
         /\ SecurityNext \/ UNCHANGED securityVars
         /\ AuthNext \/ UNCHANGED authVars
         /\ MouseLogNext \/ UNCHANGED mouseVars
         /\ BiometricNext \/ UNCHANGED biometricVars
         /\ LifeNext \/ UNCHANGED lifeVars
         /\ LoginNext \/ UNCHANGED loginVars
         /\ WindowNext \/ UNCHANGED windowVars
         /\ ConfigNext \/ UNCHANGED configVars
         /\ ConfigWatcherNext \/ UNCHANGED watcherOfConfigVars
  BY DEF Next, vars, Only, SuricataStep, WazuhStep, NetworkStep, BrowserStep, SnapshotStep,
         FileWatcherStep, SecurityStep, AuthStep, MouseLogStep, BiometricStep, LifeStep,
         LoginStep, WindowStep, ConfigStep, ConfigWatcherStep

-----------------------------------------------------------------------------
\* The watcher of directories.

WatchedInv ==
  /\ FileWatcherTypeOK
  /\ watcher.next \in 1 .. Len(directories) + 1
  /\ AddedIsWatched

\* What is remembered of a key, if anything, is its last report.
HeldInv ==
  /\ \A c \in Changes : last_events[c] \in {Never, lastReport[c]} /\ lastReport[c] <= time
  /\ HeldBackBriefly

FileWatcherInv == WatchedInv /\ HeldInv

LEMMA FileWatcherStarts == FileWatcherInit => FileWatcherInv
<1> SUFFICES ASSUME FileWatcherInit PROVE FileWatcherInv
  OBVIOUS
<1>1. FileWatcherTypeOK
  <2>1. directories \in Seq(Paths)
    BY FileWatcherAssumption, EmptySeq DEF FileWatcherInit
  <2> QED
    BY <2>1, FileWatcherAssumption DEF FileWatcherInit, FileWatcherTypeOK, Never
<1>2. watcher.next \in 1 .. Len(directories) + 1
  BY <1>1, LenProperties DEF FileWatcherInit, FileWatcherTypeOK
<1> QED
  BY <1>1, <1>2, FileWatcherAssumption
     DEF FileWatcherInit, FileWatcherInv, WatchedInv, HeldInv, AddedIsWatched, HeldBackBriefly,
         Never, dedup_interval

LEMMA WatchedStep ==
  ASSUME FileWatcherInv, FileWatcherNext
  PROVE  WatchedInv'
<1> USE DEF FileWatcherInv, WatchedInv
<1> DEFINE WatcherSteps == {"new", "schedule", "start", "alive", "ended", "stopped"}
<1>0. /\ watcher \in [step : WatcherSteps, next : Nat] /\ Len(directories) \in Nat
      /\ \A i \in 1 .. Len(directories) : directories[i] \in Paths
  BY LenProperties, ElementOfSeq DEF FileWatcherTypeOK
<1>1. FileWatcherTypeOK' /\ watcher'.next \in 1 .. Len(directories') + 1
  <2> USE FileWatcherAssumption DEF FileWatcherTypeOK
  <2>1. CASE StartWatcher \/ StartObserver \/ watcher_stop
    <3>1. PICK step \in WatcherSteps : watcher' = [watcher EXCEPT !.step = step]
      BY <2>1 DEF StartWatcher, StartObserver, watcher_stop
    <3> QED
      BY <1>0, <2>1, <3>1 DEF StartWatcher, StartObserver, watcher_stop
  <2>2. CASE ScheduleWatch
    <3>1. CASE watcher.next <= Len(directories)
      <4>1. directories[watcher.next] \in Paths
        BY <1>0, <3>1
      <4>2. watched' \subseteq Paths /\ refused' \subseteq Paths
        BY <2>2, <3>1, <4>1 DEF ScheduleWatch, _schedule_watch
      <4>3. /\ watcher' = [watcher EXCEPT !.next = @ + 1]
            /\ UNCHANGED <<directories, last_events, time, adding, tooLate, lastReport, hidden>>
        BY <2>2, <3>1 DEF ScheduleWatch
      <4>4. watcher' \in [step : WatcherSteps, next : Nat] /\ watcher'.next = watcher.next + 1
        BY <1>0, <4>3
      <4>5. watcher'.next \in 1 .. Len(directories') + 1
        BY <1>0, <3>1, <4>3, <4>4
      <4> QED
        BY <4>2, <4>3, <4>4, <4>5
    <3>2. CASE ~(watcher.next <= Len(directories))
      BY <1>0, <2>2, <3>2 DEF ScheduleWatch
    <3> QED
      BY <3>1, <3>2
  <2>3. ASSUME NEW path \in Paths, add_watch_path(path) \/ AddNow(path)
        PROVE  FileWatcherTypeOK' /\ watcher'.next \in 1 .. Len(directories') + 1
    BY <1>0, <2>3 DEF add_watch_path, AddNow, _schedule_watch
  <2>4. ASSUME NEW path \in Paths, AddLater(path)
        PROVE  FileWatcherTypeOK' /\ watcher'.next \in 1 .. Len(directories') + 1
    <3>1. directories' \in Seq(Paths) /\ Len(directories') = Len(directories) + 1
      BY <2>4, AppendProperties DEF AddLater, OnTheList
    <3> QED
      BY <1>0, <2>4, <3>1 DEF AddLater
  <2>5. ASSUME NEW c \in Changes, _event_callback(c)
        PROVE  FileWatcherTypeOK' /\ watcher'.next \in 1 .. Len(directories') + 1
    <3>1. \A f \in [Changes -> -1 .. MaxTime] : Purged(f) \in [Changes -> -1 .. MaxTime]
      BY DEF Purged, Never
    <3>2. /\ [last_events EXCEPT ![c] = time] \in [Changes -> -1 .. MaxTime]
          /\ [lastReport EXCEPT ![c] = time] \in [Changes -> -1 .. MaxTime]
      OBVIOUS
    <3>4. last_events' \in [Changes -> -1 .. MaxTime]
      BY <2>5, <3>1, <3>2 DEF _event_callback, WhenHeldBack
    <3>5. lastReport' \in [Changes -> -1 .. MaxTime]
      BY <2>5, <3>2 DEF _event_callback
    <3>3. hidden' \in -1 .. MaxTime
      <4>1. time \in 0 .. MaxTime /\ lastReport[c] \in -1 .. MaxTime
        OBVIOUS
      <4>2. CASE c \in Entries(last_events)
        <5>1. lastReport[c] # Never /\ lastReport[c] <= time
          BY <4>2 DEF HeldInv, Entries
        <5> QED
          BY <2>5, <4>1, <5>1 DEF _event_callback, Never
      <4>3. CASE c \notin Entries(last_events)
        BY <2>5, <4>3 DEF _event_callback
      <4> QED
        BY <4>2, <4>3
    <3> QED
      BY <1>0, <2>5, <3>3, <3>4, <3>5 DEF _event_callback
  <2>6. CASE Tick
    BY <1>0, <2>6 DEF Tick
  <2> QED
    BY <2>1, <2>2, <2>3, <2>4, <2>5, <2>6 DEF FileWatcherNext
<1>2. AddedIsWatched'
  <2> USE DEF AddedIsWatched, FileWatcherTypeOK
  <2>1. CASE StartWatcher
    BY <1>0, <2>1 DEF StartWatcher
  <2>2. CASE ScheduleWatch
    <3>1. CASE watcher.next <= Len(directories)
      <4>1. /\ watcher'.step = "schedule" /\ watcher'.next = watcher.next + 1
            /\ watched \cup refused \cup {directories[watcher.next]} \subseteq watched' \cup refused'
        BY <1>0, <2>2, <3>1 DEF ScheduleWatch, _schedule_watch
      <4>2. \A i \in watcher.next .. Len(directories) :
              i = watcher.next \/ i \in watcher.next + 1 .. Len(directories)
        BY <1>0
      <4> QED
        BY <1>0, <2>2, <4>1, <4>2 DEF ScheduleWatch
    <3>2. CASE ~(watcher.next <= Len(directories))
      BY <1>0, <2>2, <3>2 DEF ScheduleWatch
    <3> QED
      BY <3>1, <3>2
  <2>3. ASSUME NEW path \in Paths, AddLater(path) PROVE AddedIsWatched'
    <3>1. /\ Len(directories') = Len(directories) + 1
          /\ directories'[Len(directories) + 1] = path
          /\ \A i \in 1 .. Len(directories) : directories'[i] = directories[i]
      BY <2>3, AppendProperties DEF AddLater, OnTheList
    <3>2. SUFFICES ASSUME NEW other \in Paths, adding'[other] = "done",
                          other \notin watched \cup refused \cup tooLate'
                   PROVE  /\ watcher.step \in {"new", "schedule"}
                          /\ \E i \in watcher.next .. Len(directories') :
                               directories'[i] = other
      BY <2>3 DEF AddLater
    <3>3. CASE other = path
      <4>1. watcher.step \in {"new", "schedule"}
        BY <2>3, <3>2, <3>3 DEF AddLater
      <4>2. Len(directories) + 1 \in watcher.next .. Len(directories')
        BY <1>0, <3>1
      <4> QED
        BY <3>1, <3>3, <4>1, <4>2
    <3>4. CASE other # path
      <4>1. adding[other] = "done" /\ other \notin tooLate
        BY <2>3, <3>2, <3>4 DEF AddLater
      <4>2. PICK i \in watcher.next .. Len(directories) : directories[i] = other
        BY <3>2, <4>1
      <4>3. i \in watcher.next .. Len(directories') /\ directories'[i] = other
        BY <1>0, <3>1, <4>2
      <4> QED
        BY <3>2, <4>1, <4>3
    <3> QED
      BY <3>3, <3>4
  <2>4. ASSUME NEW path \in Paths, add_watch_path(path) \/ AddNow(path) PROVE AddedIsWatched'
    BY <2>4 DEF add_watch_path, AddNow, _schedule_watch
  <2>5. CASE StartObserver \/ watcher_stop
    BY <2>5 DEF StartObserver, watcher_stop, Alive
  <2>6. CASE Tick \/ \E c \in Changes : _event_callback(c)
    BY <2>6 DEF Tick, _event_callback
  <2> QED
    BY <2>1, <2>2, <2>3, <2>4, <2>5, <2>6 DEF FileWatcherNext
<1> QED
  BY <1>1, <1>2

LEMMA HeldStep ==
  ASSUME FileWatcherInv, FileWatcherNext
  PROVE  HeldInv'
<1> USE DEF HeldInv, HeldBackBriefly, dedup_interval, Never
<1>1. /\ last_events \in [Changes -> -1 .. MaxTime] /\ lastReport \in [Changes -> -1 .. MaxTime]
      /\ time \in Nat /\ hidden \in Int
  BY FileWatcherAssumption DEF FileWatcherInv, WatchedInv, FileWatcherTypeOK
<1>2. ASSUME NEW c \in Changes, _event_callback(c) PROVE HeldInv'
  <2>1. CASE last_events' = last_events /\ UNCHANGED lastReport
    BY <1>1, <1>2, <2>1 DEF FileWatcherInv, _event_callback, Entries
  <2>2. CASE /\ last_events' = Purged([last_events EXCEPT ![c] = time])
             /\ lastReport' = [lastReport EXCEPT ![c] = time] /\ UNCHANGED hidden
    <3> DEFINE f == [last_events EXCEPT ![c] = time]
    <3>1. \A d \in Changes : /\ last_events'[d] \in {f[d], Never}
                             /\ f[d] > time - 4 => last_events'[d] = f[d]
      BY <1>1, <2>2 DEF Purged
    <3>2. \A d \in Changes : f[d] = IF d = c THEN time ELSE last_events[d]
      BY <1>1
    <3>3. \A d \in Changes : lastReport'[d] = IF d = c THEN time ELSE lastReport[d]
      BY <1>1, <2>2
    <3>4. time' = time /\ hidden' = hidden
      BY <1>2, <2>2 DEF _event_callback
    <3> HIDE DEF f
    <3> QED
      BY <1>1, <3>1, <3>2, <3>3, <3>4 DEF FileWatcherInv
  <2> QED
    BY <1>2, <2>1, <2>2 DEF _event_callback, WhenHeldBack
<1>3. CASE Tick
  BY <1>1, <1>3 DEF FileWatcherInv, Tick
<1>4. CASE UNCHANGED <<last_events, time, lastReport, hidden>>
  BY <1>4 DEF FileWatcherInv
<1> QED
  BY <1>2, <1>3, <1>4
     DEF FileWatcherNext, StartWatcher, ScheduleWatch, StartObserver, add_watch_path, AddLater,
         AddNow, watcher_stop

LEMMA FileWatcherStays == FileWatcherInv /\ [Next]_vars => FileWatcherInv'
<1>1. ASSUME FileWatcherInv, UNCHANGED watcherVars PROVE FileWatcherInv'
  BY <1>1 DEF watcherVars, FileWatcherInv, WatchedInv, HeldInv, FileWatcherTypeOK,
              AddedIsWatched, HeldBackBriefly
<1> QED
  BY <1>1, PartSteps, WatchedStep, HeldStep DEF FileWatcherInv

LEMMA FileWatcherHolds == Spec => []FileWatcherInv
<1>1. Init => FileWatcherInv
  BY FileWatcherStarts DEF Init
<1> QED
  BY <1>1, FileWatcherStays, PTL DEF Spec

(* An event is held back only if the same was passed on less than an interval before,     *)
(* whatever events come and whenever the old entries are purged: for any paths, kinds of  *)
(* events and size of the table.  (file_watcher.py 105-114)                               *)
THEOREM HeldBackBrieflyHolds == Spec => []HeldBackBriefly
<1>1. FileWatcherInv => HeldBackBriefly
  BY DEF FileWatcherInv, HeldInv
<1> QED
  BY <1>1, FileWatcherHolds, PTL

(* A path that was added is watched, refused, or still ahead of the thread that schedules *)
(* the list, but for one that came when nobody would read the list any more: however the  *)
(* additions fall between the steps of that thread.  (file_watcher.py 138-172)            *)
THEOREM AddedIsWatchedHolds == Spec => []AddedIsWatched
<1>1. FileWatcherInv => AddedIsWatched
  BY DEF FileWatcherInv, WatchedInv
<1> QED
  BY <1>1, FileWatcherHolds, PTL

-----------------------------------------------------------------------------
\* The monitors of child processes: their steps are proved in ChildProcessProofs.

LEMMA SuricataHolds == Spec => []SuricataInv
<1>1. Init => SuricataInv
  BY SuricataStarts DEF Init
<1>2. SuricataInv /\ [Next]_vars => SuricataInv'
  BY SuricataKeeps, PartSteps
<1> QED
  BY <1>1, <1>2, PTL DEF Spec

(* The lines of the log are handled in their order and none twice; and what the position  *)
(* has passed was handled, but for torn lines and unless a cut of the log went unseen:    *)
(* however writing, cutting, reading and restarts fall.  (suricata_monitor.py 141-172)    *)
THEOREM AlertsInOrderHolds == Spec => []AlertsInOrder
<1> QED
  BY AlertsFromInv, SuricataHolds, PTL

LEMMA WazuhHolds == Spec => []WazuhInv
<1>1. Init => WazuhInv
  BY WazuhStarts DEF Init
<1>2. WazuhInv /\ [Next]_vars => WazuhInv'
  BY WazuhKeeps, PartSteps
<1> QED
  BY <1>1, <1>2, PTL DEF Spec

(* An alert that is serious enough and that a child has printed was passed on once the    *)
(* pipe is empty, unless it was no longer among the last lines when a child came; and     *)
(* only new children repeat it.  (wazuh_monitor.py 70-111)                                *)
THEOREM AlertsPassedHolds == Spec => []AlertsPassed
<1> QED
  BY AlertsPassedFromInv, WazuhHolds, PTL

-----------------------------------------------------------------------------
\* The parts of PartProofs.

LEMMA LifeHolds == Spec => []LifeInv
<1>1. Init => LifeInv
  BY LifeStarts DEF Init
<1>2. LifeInv /\ [Next]_vars => LifeInv'
  BY LifeKeeps, PartSteps
<1> QED
  BY <1>1, <1>2, PTL DEF Spec

(* The agent that has exited told every part to stop and left the server, in order, and   *)
(* only a stop before Wazuh's monitor ran, or a second one, may be cut short; and after   *)
(* their stop() neither Suricata nor the child that prints Wazuh's alerts runs, unless it *)
(* was just being started: for any number of signals, deaths and alerts.                  *)
(* (agent.py 625-675, 815-820, suricata_monitor.py 48-54, 174-187, wazuh_monitor.py       *)
(* 70-83, 145-153)                                                                        *)
THEOREM StopIsCompleteHolds == Spec => []StopIsComplete
<1>1. LifeInv /\ SuricataInv /\ WazuhInv => StopIsComplete
  BY MainStopsFromInv DEF StopIsComplete, SuricataInv, WazuhInv, ChildStopInv, ChildStops
<1> QED
  BY <1>1, LifeHolds, SuricataHolds, WazuhHolds, PTL

LEMMA AuthHolds == Spec => []AuthInv
<1>1. Init => AuthInv
  BY AuthStarts DEF Init
<1>2. AuthInv /\ [Next]_vars => AuthInv'
  BY AuthKeeps, PartSteps
<1> QED
  BY <1>1, <1>2, PTL DEF Spec

(* As long as the log keeps its records, a failed logon that the monitor has counted was  *)
(* reported unless its check failed, at most twice, and none from before the monitor      *)
(* started: for a log of any size, any number of read errors and any order of writing,    *)
(* counting and reading.  (auth_monitor.py 23-84)                                         *)
THEOREM FailuresReportedHolds == Spec => []FailuresReported
<1> QED
  BY AuthHolds, FailuresFromInv, PTL

LEMMA MouseHolds == Spec => []MouseInv
<1>1. Init => MouseInv
  BY MouseStarts DEF Init
<1>2. MouseInv /\ [Next]_vars => MouseInv'
  BY MouseKeeps, PartSteps
<1> QED
  BY <1>1, <1>2, PTL DEF Spec

(* The log of mouse events has the events in their order and none twice, and all that     *)
(* were taken to be logged but those of a write that failed: for any number of events     *)
(* and errors.  (input_biometric_monitor.py 74-141, 205-218)                              *)
THEOREM LogKeepsOrderHolds == Spec => []LogKeepsOrder
<1> QED
  BY MouseHolds, KeptFromInv, PTL

LEMMA SnapshotHolds == Spec => []SnapshotInv
<1>1. Init => SnapshotInv
  BY SnapshotStarts DEF Init
<1>2. SnapshotInv /\ [Next]_vars => SnapshotInv'
  BY SnapshotKeeps, PartSteps
<1> QED
  BY <1>1, <1>2, PTL DEF Spec

(* Whoever follows the reports of processes, users and devices knows what the monitor     *)
(* knows once a round's reports are handed on: for any finite set of things, and through  *)
(* any failed queries.  (process_monitor.py 43-150, usb_monitor.py 306-354)               *)
THEOREM ReportsAddUpHolds == Spec => []ReportsAddUp
<1> QED
  BY SnapshotHolds, ReportsFromInv, PTL

LEMMA NetworkHolds == Spec => []NetworkInv
<1>1. Init => NetworkInv
  BY NetworkStarts DEF Init
<1>2. NetworkInv /\ [Next]_vars => NetworkInv'
  BY NetworkKeeps, PartSteps
<1> QED
  BY <1>1, <1>2, PTL DEF Spec

(* Each captured packet is counted in exactly one place: in the dictionary, in a record   *)
(* or summary that waits or was handed on, or among those cleared at the limit: for any   *)
(* set of connections, any limits and any number of packets, in any order.                *)
(* (network_monitor.py 117-135, 165-200, 268-319)                                         *)
THEOREM PacketsAccountedHolds == Spec => []PacketsAccounted
<1> QED
  BY NetworkHolds, PacketsFromInv, PTL

LEMMA BrowserHolds == Spec => []BrowserInv
<1>1. Init => BrowserInv
  BY BrowserStarts DEF Init
<1>2. BrowserInv /\ [Next]_vars => BrowserInv'
  BY BrowserKeeps, PartSteps
<1> QED
  BY <1>1, <1>2, PTL DEF Spec

(* No visit is reported twice and none is lost but those that were overwritten or beyond  *)
(* the limit of a query before they were read: for any number of visits and URLs, and     *)
(* through failed reads.  (browser_monitor.py 94-131, 156-185, 209-219)                   *)
THEOREM VisitsReportedOnceHolds == Spec => []VisitsReportedOnce
<1> QED
  BY BrowserHolds, VisitsFromInv, PTL

LEMMA SecurityHolds == Spec => []SecurityInv
<1>1. Init => SecurityInv
  BY SecurityStarts DEF Init
<1>2. SecurityInv /\ [Next]_vars => SecurityInv'
  BY SecurityKeeps, PartSteps
<1> QED
  BY <1>1, <1>2, PTL DEF Spec

(* An event that tells the server its source was blocked is one whose source the firewall *)
(* did block: for any number of threads that handle events.                               *)
(* (agent.py 223-243, active_response.py 21-66)                                           *)
THEOREM BlockedIsTrueHolds == Spec => []BlockedIsTrue
<1>1. SecurityInv => BlockedIsTrue
  BY DEF SecurityInv
<1> QED
  BY <1>1, SecurityHolds, PTL

LEMMA BiometricHolds == Spec => []BiometricInv
<1>1. Init => BiometricInv
  BY BiometricStarts DEF Init
<1>2. BiometricInv /\ [Next]_vars => BiometricInv'
  BY BiometricKeeps, PartSteps
<1> QED
  BY <1>1, <1>2, PTL DEF Spec

(* The model that guards is the work of one training, but after an interrupted save that  *)
(* was loaded or a reset during a training; and the thread that reports anomalies dies    *)
(* only of such a reset: for any number of trainings, samples, crashes and resets.        *)
(* (biometric_engine.py 69-92, 113-214, input_biometric_monitor.py 140-163)               *)
THEOREM GuardsWithOneModelHolds == Spec => []GuardsWithOneModel
<1> QED
  BY BiometricHolds, GuardsFromInv, PTL

LEMMA ConfigHolds == Spec => []ConfigInv
<1>1. Init => ConfigInv
  BY ConfigStarts DEF Init
<1>2. ConfigInv /\ [Next]_vars => ConfigInv'
  BY ConfigKeeps, PartSteps
<1> QED
  BY <1>1, <1>2, PTL DEF Spec

(* The file of settings holds what the last save wrote, and agents start with it, unless  *)
(* two processes wrote at a time or one was killed in the middle; and none fails to start *)
(* but for want of a whole file: for any number of agents, saves and versions.            *)
(* (setup_ui.py 96-106, 1205-1350, agent.py 539-566)                                      *)
THEOREM SavesKeptHolds == Spec => []SavesKept
<1> QED
  BY ConfigHolds, SavesFromInv, PTL

LEMMA LoginHolds == Spec => []LoginInv
<1>1. Init => LoginInv
  BY LoginStarts DEF Init
<1>2. LoginInv /\ [Next]_vars => LoginInv'
  BY LoginKeeps, PartSteps
<1> QED
  BY <1>1, <1>2, PTL DEF Spec

(* What opens is what was asked for: the login of a worker the server accepted; nothing   *)
(* after a cancelled dialog, but for the success of another worker behind its prompt; the *)
(* role of the window, until a worker finishes late; and no more agents than presses of   *)
(* the button beyond the automatic start: for any number of clicks, workers and presses,  *)
(* in any order.  (login_dialog.py 107-277, setup_ui.py 402-458, 1334-1350, 2000-2098)    *)
THEOREM OpensAsAskedHolds == Spec => []OpensAsAsked
<1> QED
  BY LoginHolds, OpensFromInv, PTL

-----------------------------------------------------------------------------
\* The types of the parts whose invariants above do not say all of them.

EngineRest ==
  /\ mode \in {"COLLECTING", "TRAINING", "GUARDING"}
  /\ inference_buffer \in 0 .. seq_len
  /\ troubles \in 0 .. MaxTroubles /\ resets \in 0 .. MaxResets
  /\ disturbed \subseteq {"reset", "save"}
  /\ running \in BOOLEAN
  /\ watch \in {"sleep", "analyze", "ended", "dead"}
  /\ asked \in BOOLEAN

LEMMA EngineRestStarts == BiometricInit => EngineRest
<1> SUFFICES ASSUME BiometricInit PROVE EngineRest
  OBVIOUS
<1>1. /\ mode = "COLLECTING" /\ inference_buffer = 0 /\ troubles = 0 /\ resets = 0
      /\ disturbed = {} /\ watch = "sleep"
  BY DEF BiometricInit, EngineInit
<1>2. running \in BOOLEAN /\ asked \in BOOLEAN
  BY DEF BiometricInit
<1> QED
  BY <1>1, <1>2, EngineAssumption DEF EngineRest

LEMMA EngineRestKeeps ==
  EngineRest /\ (BiometricNext \/ UNCHANGED biometricVars) => EngineRest'
<1> SUFFICES ASSUME EngineRest, BiometricNext \/ UNCHANGED biometricVars PROVE EngineRest'
  OBVIOUS
<1>0. /\ seq_len \in Nat \ {0} /\ MaxTroubles \in Nat /\ MaxResets \in Nat
      /\ inference_buffer \in 0 .. seq_len
      /\ troubles \in 0 .. MaxTroubles /\ resets \in 0 .. MaxResets
  BY EngineAssumption DEF EngineRest
<1>1. CASE UNCHANGED biometricVars
  BY <1>1 DEF EngineRest, biometricVars, engineVars, monitorVars
<1>2. CASE _handle_move
  <2>1. Window(inference_buffer) \in 0 .. seq_len
    BY <1>0 DEF Window
  <2> QED
    BY <1>2, <2>1
       DEF EngineRest, _handle_move, feed_data, Collect, Guard, Ignore, ModeWhenEnough, monitorVars
<1>3. CASE Watch
  BY <1>3 DEF EngineRest, Watch, WakeUp, Analyze, engineVars
<1>4. ASSUME NEW t \in Trainings, EngineStep(t) PROVE EngineRest'
  <2>1. /\ UNCHANGED <<inference_buffer, resets, running, watch, asked>>
        /\ mode' \in {mode, "COLLECTING", "GUARDING"}
        /\ disturbed' \in {disturbed, disturbed \cup {"save"}}
        /\ troubles' = troubles \/ Trouble
    BY <1>4
       DEF EngineStep, monitorVars, Train, Scale, FitForest, Learn, Save, Finish, Fail, Goto,
           ModeAfterFailure, SaveDisturbed
  <2>2. troubles' \in 0 .. MaxTroubles
    BY <1>0, <2>1 DEF Trouble
  <2> QED
    BY <2>1, <2>2 DEF EngineRest
<1>5. CASE Reset
  <2>1. resets' \in 0 .. MaxResets
    BY <1>0, <1>5 DEF Reset, reset_model
  <2> QED
    BY <1>5, <2>1 DEF EngineRest, Reset, reset_model, monitorVars
<1>6. CASE stop
  BY <1>6 DEF EngineRest, stop, engineVars
<1>7. CASE NewProcess
  <2>1. Restart /\ running' = TRUE /\ watch' = "sleep" /\ asked' = FALSE
    BY <1>7 DEF NewProcess
  <2>2. troubles' \in 0 .. MaxTroubles /\ inference_buffer' = 0 /\ resets' = resets
    BY <1>0, <2>1 DEF Restart, RestartWith, Trouble
  <2>3. /\ mode' \in {"COLLECTING", "GUARDING"}
        /\ disturbed' \in {disturbed, disturbed \cup {"save"}}
    BY <2>1 DEF Restart, RestartWith
  <2>4. inference_buffer' \in 0 .. seq_len /\ resets' \in 0 .. MaxResets
    BY <1>0, <2>2
  <2>5. running' \in BOOLEAN /\ asked' \in BOOLEAN
    BY <2>1
  <2>6. disturbed' \subseteq {"reset", "save"}
    BY <2>3 DEF EngineRest
  <2> QED
    BY <2>1, <2>2, <2>3, <2>4, <2>5, <2>6 DEF EngineRest
<1>8. CASE WindowReset
  <2>1. resets' \in 0 .. MaxResets
    BY <1>0, <1>8 DEF WindowReset
  <2> QED
    BY <1>8, <2>1 DEF EngineRest, WindowReset
<1> QED
  BY <1>1, <1>2, <1>3, <1>4, <1>5, <1>6, <1>7, <1>8 DEF BiometricNext

-----------------------------------------------------------------------------

ConfigRest ==
  /\ setup \in {"closed", "open", "saving", "starting"}
  /\ kills \in 0 .. MaxKills /\ saves \in 0 .. MaxSaves
  /\ crossed \in BOOLEAN /\ cut \in BOOLEAN
  /\ file.kind # "text" => file = Bad(file.kind)

LEMMA ConfigRestStarts == ConfigInit => ConfigRest
<1> SUFFICES ASSUME ConfigInit PROVE ConfigRest
  OBVIOUS
<1>1. file.kind # "text" => file = Bad(file.kind)
  BY DEF ConfigInit, Bad, Text
<1>2. setup = "closed" /\ kills = 0 /\ saves = 0
  BY DEF ConfigInit
<1>3. crossed \in BOOLEAN /\ cut \in BOOLEAN
  BY DEF ConfigInit
<1> QED
  BY <1>1, <1>2, <1>3, ConfigFileAssumption DEF ConfigRest

LEMMA ConfigRestKeeps ==
  ConfigInv /\ ConfigRest /\ (ConfigNext \/ UNCHANGED configVars) => ConfigRest'
<1> SUFFICES ASSUME ConfigInv, ConfigRest, ConfigNext \/ UNCHANGED configVars PROVE ConfigRest'
  OBVIOUS
<1>0. /\ MaxKills \in Nat /\ MaxSaves \in Nat /\ saves \in 0 .. MaxSaves
      /\ kills \in 0 .. MaxKills
  BY ConfigFileAssumption DEF ConfigRest
<1>1. setup' \in {"closed", "open", "saving", "starting"}
  BY DEF ConfigRest, ConfigNext, configVars, OpenSetup, Edit, BeginSave, EndSave, CloseSetup,
         StartAgent, _load_config, Truncate, Rewrite, AgentEnds
<1>2. kills' \in 0 .. MaxKills
  <2>1. kills' = kills \/ CloseSetup
    BY DEF ConfigNext, configVars, OpenSetup, Edit, BeginSave, EndSave,
           StartAgent, _load_config, Truncate, Rewrite, AgentEnds
  <2> QED
    BY <1>0, <2>1 DEF CloseSetup
<1>3. saves' \in 0 .. MaxSaves
  <2>1. saves' = saves \/ \E then \in {"saving", "starting"} : BeginSave(then)
    BY DEF ConfigNext, configVars, OpenSetup, Edit, CloseSetup, EndSave,
           StartAgent, _load_config, Truncate, Rewrite, AgentEnds
  <2> QED
    BY <1>0, <2>1 DEF BeginSave
<1>4. crossed' \in BOOLEAN /\ cut' \in BOOLEAN
  BY DEF ConfigRest, ConfigNext, configVars, OpenSetup, Edit, BeginSave, EndSave, CloseSetup,
         StartAgent, _load_config, Truncate, Rewrite, AgentEnds
<1>5. file'.kind # "text" => file' = Bad(file'.kind)
  <2>1. \/ file' = file \/ file' = Bad("empty")
        \/ file' = Bad("torn") \/ \E cfg : file' = Text(cfg)
    BY DEF ConfigNext, configVars, OpenSetup, Edit, BeginSave, EndSave, CloseSetup,
           StartAgent, _load_config, Truncate, Rewrite, AgentEnds, Fill
  <2>2. \A k : Bad(k).kind = k
    BY DEF Bad
  <2>3. \A cfg : Text(cfg).kind = "text"
    BY DEF Text
  <2>4. CASE file' = file
    BY <2>4 DEF ConfigRest
  <2>5. CASE \E cfg : file' = Text(cfg)
    BY <2>5, <2>3
  <2> QED
    BY <2>1, <2>2, <2>4, <2>5
<1> QED
  BY <1>1, <1>2, <1>3, <1>4, <1>5 DEF ConfigRest

LEMMA ConfigTyped == ConfigInv /\ ConfigRest => ConfigTypeOK
<1> SUFFICES ASSUME ConfigInv, ConfigRest PROVE ConfigTypeOK
  OBVIOUS
<1>1. file \in {Bad(k) : k \in {"missing", "empty", "torn"}} \cup {Text(c) : c \in Settings}
  <2>1. file \in [kind : {"missing", "empty", "torn", "text"}, cfg : Settings]
    BY DEF ConfigInv, ConfigTypes
  <2>2. CASE file.kind = "text"
    <3>1. file = Text(file.cfg) /\ file.cfg \in Settings
      BY <2>1, <2>2 DEF Text
    <3> QED
      BY <3>1
  <2>3. CASE file.kind # "text"
    <3>1. file = Bad(file.kind) /\ file.kind \in {"missing", "empty", "torn"}
      BY <2>1, <2>3 DEF ConfigRest
    <3> QED
      BY <3>1
  <2> QED
    BY <2>2, <2>3
<1> QED
  BY <1>1 DEF ConfigTypeOK, ConfigInv, ConfigTypes, ConfigRest

-----------------------------------------------------------------------------

LoginRest ==
  /\ poll \in {"armed", "batch", "ended"}
  /\ app_role \in Roles \cup {"none"}
  /\ mute \subseteq Workers
  /\ cancelled \in {"no", "yes", "prompt"}
  /\ starts \in 0 .. MaxStarts

LEMMA LoginRestStarts == LoginInit => LoginRest
<1> SUFFICES ASSUME LoginInit PROVE LoginRest
  OBVIOUS
<1>1. app_role \in Roles \cup {"none"}
  BY SetupIs DEF LoginInit
<1>2. poll \in {"armed", "ended"} /\ mute = {} /\ cancelled = "no" /\ starts = 0
  BY DEF LoginInit
<1> QED
  BY <1>1, <1>2, LoginAssumption DEF LoginRest

LEMMA LoginRestKeeps ==
  LoginInv /\ LoginRest /\ (LoginNext \/ UNCHANGED loginVars) => LoginRest'
<1> SUFFICES ASSUME LoginInv, LoginRest, LoginNext \/ UNCHANGED loginVars PROVE LoginRest'
  OBVIOUS
<1>1. /\ worker \in [Workers -> WorkerRecord] /\ gui_queue \in Seq(Tasks)
      /\ starts \in 0 .. MaxStarts /\ MaxStarts \in Nat
      /\ poll \in {"armed", "batch", "ended"}
  BY LoginAssumption DEF LoginInv, LoginTypes, LoginRest
<1>2. CASE UNCHANGED loginVars
  BY <1>2 DEF LoginRest, loginVars
<1>3. ASSUME NEW w \in Workers, Click(w) \/ Work(w) PROVE LoginRest'
  <2>1. UNCHANGED <<poll, mute, cancelled, starts>>
    BY <1>3
       DEF Click, Work, Login, AwaitCode, VerifyCode, PutDone, LeaveHandler, GiveUp, Raise, Grant,
           dialogVars, setupVars, history
  <2>2. app_role' = app_role \/ Grant(w)
    BY <1>3
       DEF Click, Work, Login, AwaitCode, VerifyCode, PutDone, LeaveHandler, GiveUp, Raise
  <2>3. CASE Grant(w)
    <3>1. app_role' \in Roles
      BY <2>3 DEF Grant, resolve_role_from_login_response, Roles
    <3> QED
      BY <2>1, <3>1 DEF LoginRest
  <2> QED
    BY <2>1, <2>2, <2>3 DEF LoginRest
<1>4. CASE Poll
  <2>1. UNCHANGED <<app_role, cancelled, starts>>
    BY <1>4 DEF Poll, PollFires, DoTask, EndBatch, setupVars, history
  <2>2. poll' \in {poll, "armed", "batch", "ended"}
    BY <1>4 DEF Poll, PollFires, DoTask, EndBatch, Rearm
  <2>3. mute' \subseteq Workers
    <3>1. CASE DoTask
      <4>1. gui_queue # <<>> /\ mute' \in {mute, mute \cup {NextTask.by}}
        BY <3>1 DEF DoTask
      <4>2. NextTask \in Tasks
        BY <1>1, <4>1, HeadTailProperties DEF NextTask
      <4>3. NextTask.by \in Workers
        BY <4>2 DEF Tasks
      <4> QED
        BY <4>1, <4>3 DEF LoginRest
    <3>2. CASE PollFires \/ EndBatch
      BY <3>2 DEF PollFires, EndBatch, history, LoginRest
    <3> QED
      BY <1>4, <3>1, <3>2 DEF Poll
  <2> QED
    BY <1>1, <2>1, <2>2, <2>3 DEF LoginRest
<1>5. CASE \E code \in {"none", "code"} : AnswerPrompt(code)
  BY <1>5 DEF LoginRest, AnswerPrompt, setupVars, history
<1>6. CASE Cancel
  BY <1>6 DEF LoginRest, Cancel, setupVars
<1>7. CASE on_user_background
  <2>1. app_role' \in Roles
    BY <1>7 DEF on_user_background, Roles
  <2> QED
    BY <1>7, <2>1 DEF LoginRest, on_user_background, setupVars, history
<1>8. CASE OpenWindow
  <2>1. UNCHANGED <<poll, mute, cancelled, starts>>
    BY <1>8 DEF OpenWindow, dialogVars, history
  <2>2. app_role' \in Roles \cup {"none"}
    <3>1. CASE result \in Workers /\ app_role' = worker[result].role
      <4>1. worker[result] \in WorkerRecord
        BY <1>1, <3>1
      <4> QED
        BY <3>1, <4>1 DEF WorkerRecord
    <3>2. CASE app_role' = app_role \/ app_role' = "user"
      BY <3>2 DEF LoginRest, Roles
    <3> QED
      BY <1>8, <3>1, <3>2 DEF OpenWindow, RoleWhenOpened
  <2> QED
    BY <2>1, <2>2 DEF LoginRest
<1>9. CASE _save_and_start
  <2>1. starts' \in 0 .. MaxStarts
    BY <1>1, <1>9 DEF _save_and_start
  <2> QED
    BY <1>9, <2>1 DEF LoginRest, _save_and_start, dialogVars, history
<1>10. CASE _enter_user_background \/ _on_admin_quit_request
  BY <1>10 DEF LoginRest, _enter_user_background, _on_admin_quit_request, dialogVars, history
<1> QED
  BY <1>2, <1>3, <1>4, <1>5, <1>6, <1>7, <1>8, <1>9, <1>10 DEF LoginNext

LEMMA LoginTyped == LoginInv /\ LoginRest => LoginTypeOK
<1> SUFFICES ASSUME LoginInv, LoginRest PROVE LoginTypeOK
  OBVIOUS
<1>1. agents \in 0 .. MaxStarts + 1
  BY LoginAssumption DEF LoginInv, LoginTypes, WindowInv, LoginRest
<1> QED
  BY <1>1 DEF LoginTypeOK, LoginInv, LoginTypes, LoginRest, WorkerRecord, Tasks, Windows

-----------------------------------------------------------------------------
\* The tabs of the settings window.

JobRecord == [step : {"free", "look", "hand over"}, value : Values]

LEMMA WindowTypesStart == (\E tab \in {"status", "events"} : WindowInit(tab)) => WindowTypeOK
<1> SUFFICES ASSUME NEW tab \in {"status", "events"}, WindowInit(tab) PROVE WindowTypeOK
  OBVIOUS
<1>1. /\ view \in {"status", "events"} /\ truth \in Values /\ shown = 0 /\ timers = 1
      /\ applies = <<>> /\ presses = 0 /\ flips = 0 /\ errors = 0
  BY DEF WindowInit
<1>2. open \in BOOLEAN /\ box \in BOOLEAN /\ token \in {"none", "good", "expired"}
  BY DEF WindowInit
<1>3. job \in [Slots -> [step : {"free", "look", "hand over"}, value : Values]]
  BY DEF WindowInit, Values
<1>4. shown \in Values /\ applies \in Seq(Values)
  BY <1>1 DEF Values
<1>5. MaxPresses \in Nat /\ MaxFlips \in Nat /\ MaxFailures \in Nat
  BY SettingsWindowAssumption
<1>6. presses \in 0 .. MaxPresses /\ flips \in 0 .. MaxFlips /\ errors \in 0 .. MaxFailures
  BY <1>1, <1>5
<1> QED
  BY <1>1, <1>2, <1>3, <1>4, <1>6 DEF WindowTypeOK

LEMMA WorkersStarted ==
  ASSUME WindowTypeOK, StartWorker \/ UNCHANGED job
  PROVE  job' \in [Slots -> JobRecord]
<1>1. job \in [Slots -> JobRecord]
  BY DEF WindowTypeOK, JobRecord
<1>2. CASE StartWorker
  <2>1. PICK j \in Slots : job' = [job EXCEPT ![j].step = "look"]
    BY <1>2 DEF StartWorker, Free
  <2>2. [job[j] EXCEPT !.step = "look"] \in JobRecord
    BY <1>1 DEF JobRecord
  <2> QED
    BY <1>1, <2>1, <2>2
<1> QED
  BY <1>1, <1>2

LEMMA WindowTypesKept ==
  WindowTypeOK /\ (WindowNext \/ UNCHANGED windowVars) => WindowTypeOK'
<1> SUFFICES ASSUME WindowTypeOK, WindowNext \/ UNCHANGED windowVars PROVE WindowTypeOK'
  OBVIOUS
<1>0. /\ job \in [Slots -> JobRecord] /\ applies \in Seq(Values) /\ timers \in Nat
      /\ truth \in Values /\ Values = {0, 1}
      /\ presses \in 0 .. MaxPresses /\ flips \in 0 .. MaxFlips /\ errors \in 0 .. MaxFailures
      /\ MaxPresses \in Nat /\ MaxFlips \in Nat /\ MaxFailures \in Nat
  BY SettingsWindowAssumption DEF WindowTypeOK, JobRecord, Values
<1>1. CASE UNCHANGED windowVars
  BY <1>1 DEF WindowTypeOK, windowVars
<1>2. ASSUME NEW j \in Slots, Look(j) PROVE WindowTypeOK'
  <2>1. job' \in [Slots -> JobRecord]
    <3>1. \A value \in Values : [step |-> "hand over", value |-> value] \in JobRecord
      BY DEF JobRecord
    <3>2. [job[j] EXCEPT !.step = "free"] \in JobRecord
      BY <1>0 DEF JobRecord
    <3>3. CASE \E value \in Values : job' = Saw(j, value)
      BY <1>0, <3>1, <3>3 DEF Saw
    <3>4. CASE job' = [job EXCEPT ![j].step = "free"]
      BY <1>0, <3>2, <3>4
    <3>5. truth \in Values /\ 0 \in Values
      BY <1>0
    <3> QED
      BY <1>2, <3>3, <3>4, <3>5 DEF Look
  <2>2. errors' \in 0 .. MaxFailures
    <3>1. errors' = errors \/ (errors < MaxFailures /\ errors' = errors + 1)
      BY <1>2 DEF Look
    <3> QED
      BY <1>0, <3>1
  <2> QED
    BY <1>2, <2>1, <2>2 DEF WindowTypeOK, JobRecord, Look
<1>3. ASSUME NEW j \in Slots, HandOver(j) PROVE WindowTypeOK'
  <2>1. job[j].value \in Values /\ [step |-> "free", value |-> 0] \in JobRecord
    BY <1>0 DEF JobRecord
  <2>2. job' \in [Slots -> JobRecord]
    BY <1>0, <1>3, <2>1 DEF HandOver
  <2>3. applies' \in Seq(Values)
    BY <1>0, <1>3, <2>1, AppendProperties DEF HandOver
  <2> QED
    BY <1>3, <2>2, <2>3 DEF WindowTypeOK, JobRecord, HandOver
<1>4. CASE Apply
  <2>1. shown' \in Values /\ applies' \in Seq(Values)
    BY <1>0, <1>4, HeadTailProperties DEF Apply
  <2> QED
    BY <1>4, <2>1 DEF WindowTypeOK, Apply
<1>5. CASE TimerFires
  <2>1. job' \in [Slots -> JobRecord] /\ timers' \in Nat
    <3>1. view \in {"status", "events"}
      BY DEF WindowTypeOK
    <3>2. StartWorker \/ UNCHANGED job
      BY <1>5, <3>1 DEF TimerFires, _fetch_monitor_data
    <3> QED
      BY <1>0, <1>5, <3>2, WorkersStarted DEF TimerFires, AfterCall
  <2> QED
    BY <1>5, <2>1 DEF WindowTypeOK, JobRecord, TimerFires
<1>6. ASSUME NEW v \in Values, _on_monitor_show(v) PROVE WindowTypeOK'
  <2>1. job' \in [Slots -> JobRecord] /\ presses' \in 0 .. MaxPresses
    <3>1. StartWorker \/ UNCHANGED job
      BY <1>6 DEF _on_monitor_show, _fetch_monitor_data
    <3> QED
      BY <1>0, <1>6, <3>1, WorkersStarted DEF _on_monitor_show
  <2> QED
    BY <1>6, <2>1 DEF WindowTypeOK, JobRecord, _on_monitor_show
<1>7. ASSUME NEW v \in Values, PressSwitch(v) PROVE WindowTypeOK'
  <2>1. presses' \in 0 .. MaxPresses /\ errors' \in 0 .. MaxFailures
    <3>1. errors' = errors \/ (errors < MaxFailures /\ errors' = errors + 1)
      BY <1>7 DEF PressSwitch
    <3>2. presses < MaxPresses /\ presses' = presses + 1
      BY <1>7 DEF PressSwitch
    <3> QED
      BY <1>0, <3>1, <3>2
  <2>2. truth' \in Values
    BY <1>0, <1>7 DEF PressSwitch
  <2>3. box' \in BOOLEAN
    BY <1>7 DEF PressSwitch, WindowTypeOK
  <2>4. UNCHANGED <<view, shown, open, token, timers, job, applies, flips>>
    BY <1>7 DEF PressSwitch
  <2> QED
    BY <2>1, <2>2, <2>3, <2>4 DEF WindowTypeOK
<1>8. CASE _on_tab_changed
  <2>1. open' \in BOOLEAN
    BY <1>8 DEF _on_tab_changed
  <2> QED
    BY <1>8, <2>1 DEF WindowTypeOK, _on_tab_changed
<1>9. CASE CloseBox
  <2>1. job' \in [Slots -> JobRecord] /\ timers' \in Nat
    BY <1>0, <1>9, WorkersStarted DEF CloseBox
  <2>2. box' \in BOOLEAN
    BY <1>9 DEF CloseBox
  <2>3. UNCHANGED <<view, truth, shown, open, token, applies, presses, flips, errors>>
    BY <1>9 DEF CloseBox
  <2> QED
    BY <2>1, <2>2, <2>3 DEF WindowTypeOK, JobRecord
<1>10. CASE OthersSwitch
  <2>1. truth' \in Values /\ flips' \in 0 .. MaxFlips
    BY <1>0, <1>10 DEF OthersSwitch
  <2> QED
    BY <1>10, <2>1 DEF WindowTypeOK, OthersSwitch
<1>11. CASE TokenExpires
  BY <1>11 DEF TokenExpires, WindowTypeOK
<1> QED
  BY <1>1, <1>2, <1>3, <1>4, <1>5, <1>6, <1>7, <1>8, <1>9, <1>10, <1>11 DEF WindowNext, Refreshing

-----------------------------------------------------------------------------
\* The watcher of the settings file.

\* Each change causes one event at most, an event sets one timer, and a timer that goes off
\* makes one call.
WaitingTimers == {r \in Runs : timer[r] = "waiting"}
CallsFromChanges ==
  /\ events \in Nat /\ calls \in Nat
  /\ events + Cardinality(WaitingTimers) + calls <= version

PollerRecord ==
  [step : {"none", "baseline", "sleep", "call", "ended"}, last_mtime : 0 .. MaxWrites]

ConfigWatcherInv == ConfigWatcherTypeOK /\ CallsFromChanges

LEMMA TimerForEvent ==
  ASSUME NEW e \in Nat, NEW m \in Nat, NEW k \in Nat, NEW c \in Nat, NEW v \in Nat,
         e > 0, e + m + c <= v, k <= m + 1
  PROVE  e - 1 \in Nat /\ (e - 1) + k + c <= v
OBVIOUS

LEMMA TimersFinite == IsFiniteSet(WaitingTimers) /\ Cardinality(WaitingTimers) \in Nat
<1>1. IsFiniteSet(Runs)
  BY ConfigWatcherAssumption, FS_Interval DEF Runs
<1>2. WaitingTimers \subseteq Runs
  BY DEF WaitingTimers
<1>3. IsFiniteSet(WaitingTimers)
  BY <1>1, <1>2, FS_Subset
<1> QED
  BY <1>3, FS_CardinalityType

LEMMA ConfigWatcherStarts == ConfigWatcherInit => ConfigWatcherInv
<1> SUFFICES ASSUME ConfigWatcherInit PROVE ConfigWatcherInv
  OBVIOUS
<1>1. /\ runs = 0 /\ version = 0 /\ seen = 0 /\ events = 0 /\ calls = 0
      /\ timer = [r \in Runs |-> "none"]
      /\ poller = [r \in Runs |-> [step |-> "none", last_mtime |-> 0]]
  BY DEF ConfigWatcherInit
<1>2. watchdog \in BOOLEAN /\ _running \in BOOLEAN /\ missed \in BOOLEAN
  BY DEF ConfigWatcherInit
<1>3. poller \in [Runs -> PollerRecord]
  <2>1. [step |-> "none", last_mtime |-> 0] \in PollerRecord
    BY ConfigWatcherAssumption DEF PollerRecord
  <2> QED
    BY <1>1, <2>1
<1>4. timer \in [Runs -> {"none", "waiting", "fired"}]
  BY <1>1
<1>5. Cardinality(WaitingTimers) = 0
  <2>1. WaitingTimers = {}
    BY <1>1 DEF WaitingTimers
  <2> QED
    BY <2>1, FS_EmptySet
<1>6. ConfigWatcherTypeOK
  BY <1>1, <1>2, <1>3, <1>4, ConfigWatcherAssumption DEF ConfigWatcherTypeOK, PollerRecord
<1> QED
  BY <1>1, <1>5, <1>6 DEF ConfigWatcherInv, CallsFromChanges

LEMMA ConfigWatcherKeeps ==
  ConfigWatcherInv /\ (ConfigWatcherNext \/ UNCHANGED watcherOfConfigVars) => ConfigWatcherInv'
<1> SUFFICES ASSUME ConfigWatcherInv, ConfigWatcherNext \/ UNCHANGED watcherOfConfigVars
             PROVE  ConfigWatcherInv'
  OBVIOUS
<1> DEFINE n == Cardinality(WaitingTimers)
<1>0. /\ MaxWrites \in Nat /\ MaxWatches \in Nat /\ n \in Nat
      /\ runs \in 0 .. MaxWatches /\ version \in 0 .. MaxWrites /\ seen \in 0 .. version
      /\ events \in Nat /\ calls \in Nat /\ events + n + calls <= version
      /\ timer \in [Runs -> {"none", "waiting", "fired"}]
      /\ poller \in [Runs -> PollerRecord]
  BY ConfigWatcherAssumption, TimersFinite
     DEF ConfigWatcherInv, ConfigWatcherTypeOK, CallsFromChanges, PollerRecord
<1>00. watchdog \in BOOLEAN /\ _running \in BOOLEAN /\ missed \in BOOLEAN
  BY DEF ConfigWatcherInv, ConfigWatcherTypeOK
<1>a. ASSUME watchdog' \in BOOLEAN, _running' \in BOOLEAN, missed' \in BOOLEAN,
             runs' \in 0 .. MaxWatches, version' \in 0 .. MaxWrites, seen' \in 0 .. version',
             events' \in Nat, calls' \in Nat, n' \in Nat, events' + n' + calls' <= version',
             timer' \in [Runs -> {"none", "waiting", "fired"}],
             poller' \in [Runs -> PollerRecord]
      PROVE  ConfigWatcherInv'
  <2>1. events' \in 0 .. MaxWrites /\ calls' \in 0 .. MaxWrites
    BY <1>0, <1>a
  <2> QED
    BY <1>a, <2>1 DEF ConfigWatcherInv, ConfigWatcherTypeOK, CallsFromChanges, PollerRecord
<1>b. UNCHANGED timer => n' = n
  BY DEF WaitingTimers
<1> HIDE DEF n
<1>1. CASE UNCHANGED watcherOfConfigVars
  BY <1>0, <1>00, <1>1, <1>a, <1>b DEF watcherOfConfigVars
<1>2. CASE start_watching
  <2>1. /\ UNCHANGED <<watchdog, version, events, timer, calls>>
        /\ runs' = runs + 1 /\ runs < MaxWatches /\ seen' = version
    BY <1>2 DEF start_watching
  <2>2. _running' \in BOOLEAN /\ missed' \in BOOLEAN
    BY <1>2 DEF start_watching
  <2>3. poller' \in [Runs -> PollerRecord]
    <3>1. CASE poller' = poller
      BY <1>0, <3>1
    <3>2. CASE poller' = [poller EXCEPT ![runs'].step = "baseline"]
      <4>1. runs' \in Runs
        BY <1>0, <2>1 DEF Runs
      <4>2. [poller[runs'] EXCEPT !.step = "baseline"] \in PollerRecord
        BY <1>0, <4>1 DEF PollerRecord
      <4> QED
        BY <1>0, <3>2, <4>1, <4>2
    <3> QED
      BY <1>2, <3>1, <3>2 DEF start_watching
  <2>4. runs' \in 0 .. MaxWatches /\ seen' \in 0 .. version'
    BY <1>0, <2>1
  <2> QED
    BY <1>0, <1>00, <1>a, <1>b, <2>1, <2>2, <2>3, <2>4
<1>3. CASE stop_watching
  <2>1. /\ UNCHANGED <<watchdog, runs, version, timer, calls, poller, seen, missed>>
        /\ events' = 0
    BY <1>3 DEF stop_watching
  <2>2. _running' \in BOOLEAN
    BY <1>3 DEF stop_watching
  <2>3. events' + n' + calls' <= version'
    BY <1>0, <1>b, <2>1
  <2> QED
    BY <1>0, <1>00, <1>a, <1>b, <2>1, <2>2, <2>3
<1>4. ASSUME NEW renamed \in BOOLEAN, WriteConfig(renamed) PROVE ConfigWatcherInv'
  <2>1. /\ UNCHANGED <<watchdog, _running, runs, timer, calls, poller, seen>>
        /\ version < MaxWrites /\ version' = version + 1 /\ events' \in {events, events + 1}
    BY <1>4 DEF WriteConfig
  <2>2. missed' \in BOOLEAN
    BY <1>4 DEF WriteConfig
  <2>3. /\ events' \in Nat /\ events' + n' + calls' <= version'
        /\ version' \in 0 .. MaxWrites /\ seen' \in 0 .. version'
    <3>1. n' = n /\ calls' = calls /\ seen' = seen
      BY <1>b, <2>1
    <3>2. CASE events' = events
      BY <1>0, <2>1, <3>1, <3>2
    <3>3. CASE events' = events + 1
      BY <1>0, <2>1, <3>1, <3>3
    <3> QED
      BY <2>1, <3>2, <3>3
  <2> QED
    BY <1>0, <1>00, <1>a, <1>b, <2>1, <2>2, <2>3
<1>5. CASE _schedule_reload
  <2>1. /\ UNCHANGED <<watchdog, _running, runs, version, calls, poller, seen, missed>>
        /\ events > 0 /\ events' = events - 1 /\ timer' = [timer EXCEPT ![runs] = "waiting"]
    BY <1>5 DEF _schedule_reload, Rescheduled
  <2>2. timer' \in [Runs -> {"none", "waiting", "fired"}]
    BY <1>0, <2>1
  <2>3. n' \in Nat /\ n' <= n + 1
    <3>1. IsFiniteSet(WaitingTimers \cup {runs})
          /\ Cardinality(WaitingTimers \cup {runs}) <= n + 1
      <4>1. /\ IsFiniteSet(WaitingTimers \cup {runs})
            /\ \/ Cardinality(WaitingTimers \cup {runs}) = Cardinality(WaitingTimers)
               \/ Cardinality(WaitingTimers \cup {runs}) = Cardinality(WaitingTimers) + 1
        BY TimersFinite, FS_AddElement
      <4>2. Cardinality(WaitingTimers) = n
        BY DEF n
      <4> QED
        BY <1>0, <4>1, <4>2
    <3>2. WaitingTimers' \subseteq WaitingTimers \cup {runs}
      <4>1. \A r \in Runs : r # runs => timer'[r] = timer[r]
        BY <1>0, <2>1
      <4> QED
        BY <4>1 DEF WaitingTimers
    <3>3. IsFiniteSet(WaitingTimers') /\ Cardinality(WaitingTimers') \in Nat
          /\ Cardinality(WaitingTimers') <= Cardinality(WaitingTimers \cup {runs})
      BY <3>1, <3>2, FS_Subset, FS_CardinalityType
    <3>4. Cardinality(WaitingTimers \cup {runs}) \in Nat
      BY <3>1, FS_CardinalityType
    <3> QED
      BY <1>0, <3>1, <3>3, <3>4 DEF n
  <2>4. events' \in Nat /\ events' + n' + calls' <= version'
    <3>1. version \in Nat
      BY <1>0
    <3>2. events - 1 \in Nat /\ (events - 1) + n' + calls <= version
      BY <1>0, <2>1, <2>3, <3>1, TimerForEvent
    <3> QED
      BY <2>1, <3>2
  <2> QED
    BY <1>0, <1>00, <1>a, <2>1, <2>2, <2>3, <2>4
<1>6. CASE _do_reload
  <2>1. /\ UNCHANGED <<watchdog, _running, runs, version, events, timer, poller, missed>>
        /\ calls > 0 /\ calls' = calls - 1 /\ seen' = version
    BY <1>6 DEF _do_reload
  <2>2. calls' \in Nat /\ events' + n' + calls' <= version' /\ seen' \in 0 .. version'
    BY <1>0, <1>b, <2>1
  <2> QED
    BY <1>0, <1>00, <1>a, <1>b, <2>1, <2>2
<1>7. ASSUME NEW r \in Runs, TimerGoesOff(r) PROVE ConfigWatcherInv'
  <2>1. /\ UNCHANGED <<watchdog, _running, runs, version, events, poller, seen, missed>>
        /\ timer[r] = "waiting" /\ timer' = [timer EXCEPT ![r] = "fired"]
        /\ calls' = calls + 1
    BY <1>7 DEF TimerGoesOff
  <2>2. timer' \in [Runs -> {"none", "waiting", "fired"}]
    BY <1>0, <2>1
  <2>3. n' = n - 1 /\ n' \in Nat
    <3>1. WaitingTimers' = WaitingTimers \ {r} /\ r \in WaitingTimers
      BY <1>0, <2>1 DEF WaitingTimers
    <3>2. /\ IsFiniteSet(WaitingTimers \ {r})
          /\ Cardinality(WaitingTimers \ {r}) = Cardinality(WaitingTimers) - 1
      BY <3>1, TimersFinite, FS_RemoveElement
    <3>3. Cardinality(WaitingTimers \ {r}) \in Nat
      BY <3>2, FS_CardinalityType
    <3> QED
      BY <3>1, <3>2, <3>3 DEF n
  <2>4. calls' \in Nat /\ events' + n' + calls' <= version'
    BY <1>0, <2>1, <2>3
  <2> QED
    BY <1>0, <1>00, <1>a, <2>1, <2>2, <2>3, <2>4
<1>8. ASSUME NEW r \in Runs, Baseline(r) PROVE ConfigWatcherInv'
  <2>1. /\ UNCHANGED <<watchdog, _running, runs, version, events, timer, calls, seen>>
        /\ poller' = [poller EXCEPT ![r] = [step |-> "sleep", last_mtime |-> version]]
    BY <1>8 DEF Baseline
  <2>2. missed' \in BOOLEAN
    BY <1>8 DEF Baseline
  <2>3. [step |-> "sleep", last_mtime |-> version] \in PollerRecord
    BY <1>0 DEF PollerRecord
  <2>4. poller' \in [Runs -> PollerRecord]
    BY <1>0, <2>1, <2>3
  <2> QED
    BY <1>0, <1>00, <1>a, <1>b, <2>1, <2>2, <2>4
<1>9. ASSUME NEW r \in Runs, CheckTime(r) \/ CallBack(r) PROVE ConfigWatcherInv'
  <2>1. /\ UNCHANGED <<watchdog, _running, runs, version, events, timer, calls, missed>>
        /\ seen' \in {seen, version}
    BY <1>9 DEF CheckTime, CallBack
  <2>2. PICK record : /\ poller' = [poller EXCEPT ![r] = record]
                      /\ \/ record = [step |-> "call", last_mtime |-> version]
                         \/ record = [poller[r] EXCEPT !.step = "sleep"]
                         \/ record = [poller[r] EXCEPT !.step = "ended"]
    BY <1>0, <1>9 DEF CheckTime, CallBack
  <2>3. record \in PollerRecord
    BY <1>0, <2>2 DEF PollerRecord
  <2>4. poller' \in [Runs -> PollerRecord] /\ seen' \in 0 .. version'
    BY <1>0, <2>1, <2>2, <2>3
  <2> QED
    BY <1>0, <1>00, <1>a, <1>b, <2>1, <2>4
<1> QED
  BY <1>1, <1>2, <1>3, <1>4, <1>5, <1>6, <1>7, <1>8, <1>9 DEF ConfigWatcherNext, Watching

-----------------------------------------------------------------------------
\* All parts together.

RestInv == EngineRest /\ ConfigRest /\ LoginRest /\ WindowTypeOK /\ ConfigWatcherInv

LEMMA RestHolds == Spec => [](ConfigInv /\ LoginInv /\ RestInv)
<1>1. Init => ConfigInv /\ LoginInv /\ RestInv
  BY ConfigStarts, LoginStarts, EngineRestStarts, ConfigRestStarts, LoginRestStarts,
     WindowTypesStart, ConfigWatcherStarts
     DEF Init, RestInv
<1>2. ConfigInv /\ LoginInv /\ RestInv /\ [Next]_vars => (ConfigInv /\ LoginInv /\ RestInv)'
  BY ConfigKeeps, LoginKeeps, EngineRestKeeps, ConfigRestKeeps, LoginRestKeeps, WindowTypesKept,
     ConfigWatcherKeeps, PartSteps
     DEF RestInv
<1> QED
  BY <1>1, <1>2, PTL DEF Spec

LEMMA PartStays == Spec => [](part \in PartNames)
<1>1. Init => part \in PartNames
  BY DEF Init
<1>2. part \in PartNames /\ [Next]_vars => (part \in PartNames)'
  BY PartSteps
<1> QED
  BY <1>1, <1>2, PTL DEF Spec

\* Each part's types follow from its invariant.
LEMMA TypesFromInvs ==
  ASSUME SuricataInv, WazuhInv, NetworkInv, BrowserInv, SnapshotInv, FileWatcherInv, SecurityInv,
         AuthInv, MouseInv, BiometricInv, LifeInv, ConfigInv, LoginInv, RestInv,
         part \in PartNames
  PROVE  TypeOK
<1>1. SuricataTypeOK /\ WazuhTypeOK /\ NetworkTypeOK /\ BrowserTypeOK /\ SnapshotTypeOK
  BY PacketsFromInv, VisitsFromInv DEF SuricataInv, WazuhInv, SnapshotInv
<1>2. FileWatcherTypeOK /\ SecurityTypeOK /\ AuthTypeOK /\ MouseLogTypeOK /\ LifeTypeOK
  BY DEF FileWatcherInv, WatchedInv, SecurityInv, AuthInv, MouseInv, LifeInv
<1>3. BiometricTypeOK
  BY DEF BiometricInv, EngineTypes, RestInv, EngineRest, BiometricTypeOK, EngineTypeOK
<1>4. LoginTypeOK /\ WindowTypeOK /\ ConfigTypeOK /\ ConfigWatcherTypeOK
  BY LoginTyped, ConfigTyped DEF RestInv, ConfigWatcherInv
<1> QED
  BY <1>1, <1>2, <1>3, <1>4 DEF TypeOK

(* The state of every part beside the firewall, the session and the queue is well-typed,  *)
(* and its counters and buffers keep their bounds: no more calls of the settings watcher  *)
(* than changes, no more samples than the engine's window, no more records than the       *)
(* limits of the network monitor.  (biometric_engine.py 94-111, config_watcher.py 52-70,  *)
(* network_monitor.py 117-135, 165-200)                                                   *)
THEOREM TypeCorrect == Spec => []TypeOK
<1> QED
  BY SuricataHolds, WazuhHolds, NetworkHolds, BrowserHolds, SnapshotHolds, FileWatcherHolds,
     SecurityHolds, AuthHolds, MouseHolds, BiometricHolds, LifeHolds, RestHolds, PartStays,
     TypesFromInvs, PTL

-----------------------------------------------------------------------------
\* What the liveness properties of three parts rest on: something is always under way.

TrainingIsUnderWay == mode = "TRAINING" => Running # {}

LEMMA UnderWayKeeps ==
  ASSUME BiometricInv, TrainingIsUnderWay, BiometricNext \/ UNCHANGED biometricVars
  PROVE  TrainingIsUnderWay'
<1>0. training \in [Trainings -> Task]
  BY DEF BiometricInv, EngineTypes, Task
<1>1. CASE UNCHANGED <<mode, training>>
  BY <1>1 DEF TrainingIsUnderWay, Running
<1>2. ASSUME NEW t \in Trainings, training'[t].step # "none" PROVE TrainingIsUnderWay'
  BY <1>2 DEF TrainingIsUnderWay, Running
<1>3. CASE mode' \in {"COLLECTING", "GUARDING"}
  BY <1>3 DEF TrainingIsUnderWay
<1>4. CASE _handle_move
  <2>1. CASE Collect /\ Enough
    <3>1. PICK t \in Unused : training' = [training EXCEPT ![t].step = "scale"]
      BY <2>1 DEF Collect
    <3>2. t \in Trainings /\ training'[t].step = "scale"
      BY <1>0, <3>1 DEF Unused, Task
    <3> QED
      BY <1>2, <3>2
  <2>2. CASE UNCHANGED <<mode, training>>
    BY <1>1, <2>2
  <2> QED
    BY <1>4, <2>1, <2>2 DEF _handle_move, feed_data, Collect, Guard, Ignore
<1>5. ASSUME NEW t \in Trainings, Train(t) PROVE TrainingIsUnderWay'
  <2>1. CASE Fail(t) \/ Finish(t)
    BY <1>3, <2>1 DEF Fail, ModeAfterFailure, Finish
  <2>2. CASE training' = [training EXCEPT ![t] = [step |-> "forest", samples |-> training_buffer]]
    <3>1. training'[t].step = "forest"
      BY <1>0, <2>2
    <3> QED
      BY <1>2, <3>1
  <2>3. ASSUME NEW step \in Steps \ {"none"}, Goto(t, step) PROVE TrainingIsUnderWay'
    <3>1. training'[t].step = step
      BY <1>0, <2>3 DEF Goto, Task
    <3> QED
      BY <1>2, <2>3, <3>1
  <2>4. \/ Fail(t) \/ Finish(t)
        \/ training' = [training EXCEPT ![t] = [step |-> "forest", samples |-> training_buffer]]
        \/ Goto(t, "learn") \/ Goto(t, SaveOrder[1])
        \/ \E p \in Pieces : Goto(t, AfterSaving(p))
    BY <1>5 DEF Train, Scale, FitForest, Learn, Save
  <2>5. {"learn", "model"} \subseteq Steps \ {"none"}
    BY DEF Steps, Pieces
  <2> QED
    BY <2>1, <2>2, <2>3, <2>4, <2>5, StepsOf
<1>6. CASE Reset
  BY <1>3, <1>6 DEF Reset, reset_model
<1>7. CASE NewProcess
  <2>1. mode' \in {"COLLECTING", "GUARDING"}
    BY <1>7, RestartIs DEF NewProcess, BiometricInv
  <2> QED
    BY <1>3, <2>1
<1>8. CASE Watch \/ stop \/ WindowReset \/ UNCHANGED biometricVars
  BY <1>1, <1>8 DEF Watch, WakeUp, Analyze, stop, WindowReset, biometricVars, engineVars
<1> QED
  BY <1>4, <1>5, <1>6, <1>7, <1>8 DEF BiometricNext, EngineStep

(* The engine is in the mode "TRAINING", in which it takes no samples, only as long as a  *)
(* training thread is there that will end it: no failure, reset or restart leaves it      *)
(* there for good.  (biometric_engine.py 94-163, 165-214)                                 *)
THEOREM TrainingIsUnderWayHolds == Spec => []TrainingIsUnderWay
<1>1. Init => TrainingIsUnderWay
  BY DEF Init, BiometricInit, EngineInit, TrainingIsUnderWay
<1>2. BiometricInv /\ TrainingIsUnderWay /\ [Next]_vars => TrainingIsUnderWay'
  BY UnderWayKeeps, PartSteps
<1> QED
  BY <1>1, <1>2, BiometricHolds, PTL DEF Spec

-----------------------------------------------------------------------------
\* The outcomes of logins.

Outcomes == {"fail", "error", "done"}
Waits(w, tasks) ==
  \E i \in 1 .. Len(tasks) : tasks[i].by = w /\ tasks[i].task \in Outcomes

OutcomeIsComing ==
  dialog = "open" =>
    /\ poll # "ended"
    /\ \A w \in Workers : worker[w].step \in {"raised", "ended"} =>
         worker[w].told \/ w \in mute \/ Waits(w, gui_queue)

LEMMA WaitsOn ==
  ASSUME LoginInv, NEW w \in Workers, NEW task \in Outcomes \cup {"ask_mfa"}, Put(task, w)
  PROVE  /\ \A v \in Workers : Waits(v, gui_queue) => Waits(v, gui_queue')
         /\ task \in Outcomes => Waits(w, gui_queue')
<1> DEFINE e == [task |-> task, by |-> w]
<1>1. e \in Tasks /\ e.task = task /\ e.by = w
  BY DEF Tasks, Outcomes
<1>2. gui_queue' = Append(gui_queue, e)
  BY DEF Put
<1> HIDE DEF e
<1>3. /\ Len(gui_queue') = Len(gui_queue) + 1 /\ Len(gui_queue) \in Nat
      /\ \A i \in 1 .. Len(gui_queue) : gui_queue'[i] = gui_queue[i]
      /\ gui_queue'[Len(gui_queue) + 1] = e
  BY <1>1, <1>2, LoginTypesOf, AppendProperties
<1>4. /\ \A i \in 1 .. Len(gui_queue) : i \in 1 .. Len(gui_queue')
      /\ Len(gui_queue) + 1 \in 1 .. Len(gui_queue')
  BY <1>3
<1> QED
  BY <1>1, <1>3, <1>4 DEF Waits

LEMMA OutcomeKept ==
  ASSUME LoginInv, OutcomeIsComing, LoginNext \/ UNCHANGED loginVars
  PROVE  OutcomeIsComing'
<1>0. worker \in [Workers -> WorkerRecord]
  BY LoginTypesOf
<1>1. CASE UNCHANGED <<dialog, poll, worker, mute, gui_queue>>
  BY <1>1 DEF OutcomeIsComing
<1>2. CASE dialog' = "closed"
  BY <1>2 DEF OutcomeIsComing
\* A worker's step: only w's record changes.
<1>3. ASSUME NEW w \in Workers, NEW r \in WorkerRecord, worker' = [worker EXCEPT ![w] = r],
             UNCHANGED <<dialog, poll, mute>>,
             \A v \in Workers : Waits(v, gui_queue) => Waits(v, gui_queue'),
             r.step \in {"raised", "ended"} =>
               Waits(w, gui_queue') \/ (worker[w].step = "raised" /\ r.told = worker[w].told)
      PROVE  OutcomeIsComing'
  <2>1. worker'[w] = r /\ \A v \in Workers : v # w => worker'[v] = worker[v]
    BY <1>0, <1>3
  <2> QED
    BY <1>3, <2>1 DEF OutcomeIsComing
<1>4. ASSUME NEW w \in Workers, Click(w) \/ Work(w) PROVE OutcomeIsComing'
  <2>0. UNCHANGED <<dialog, poll, mute>>
    BY <1>4
       DEF Click, Work, Login, AwaitCode, VerifyCode, PutDone, LeaveHandler, GiveUp, Raise, Grant,
           dialogVars, history
  <2>1. CASE \E task \in Outcomes, step \in {"raised", "ended"} : Put(task, w) /\ WorkerStep(w, step)
    <3>1. PICK task \in Outcomes, step \in {"raised", "ended"} : Put(task, w) /\ WorkerStep(w, step)
      BY <2>1
    <3>2. PICK r \in WorkerRecord : worker' = [worker EXCEPT ![w] = r]
      BY <3>1, StepIs
    <3>3. Waits(w, gui_queue') /\ \A v \in Workers : Waits(v, gui_queue) => Waits(v, gui_queue')
      BY <3>1, WaitsOn
    <3> QED
      BY <1>3, <2>0, <3>2, <3>3
  <2>2. CASE Put("ask_mfa", w) /\ WorkerStep(w, "wait")
    <3>1. PICK r \in WorkerRecord : r.step = "wait" /\ worker' = [worker EXCEPT ![w] = r]
      BY <2>2, StepIs
    <3>2. \A v \in Workers : Waits(v, gui_queue) => Waits(v, gui_queue')
      BY <2>2, WaitsOn
    <3> QED
      BY <1>3, <2>0, <3>1, <3>2
  <2>3. CASE UNCHANGED gui_queue /\ \E step \in {"post", "verify"} : WorkerStep(w, step)
    <3>1. PICK step \in {"post", "verify"} : WorkerStep(w, step)
      BY <2>3
    <3>2. PICK r \in WorkerRecord : r.step = step /\ worker' = [worker EXCEPT ![w] = r]
      BY <3>1, StepIs
    <3> QED
      BY <1>3, <2>0, <2>3, <3>2
  <2>4. CASE Grant(w)
    <3>1. UNCHANGED gui_queue
      BY <2>4 DEF Grant, dialogVars
    <3>2. PICK role \in Roles :
            worker' = [worker EXCEPT ![w].step = "granted", ![w].role = role]
      BY <2>4 DEF Grant, resolve_role_from_login_response, Roles
    <3>3. PICK r \in WorkerRecord : r.step = "granted" /\ worker' = [worker EXCEPT ![w] = r]
      <4> DEFINE r == [worker[w] EXCEPT !.step = "granted", !.role = role]
      <4>1. r \in WorkerRecord /\ r.step = "granted"
        BY <1>0 DEF WorkerRecord
      <4>2. worker' = [worker EXCEPT ![w] = r]
        BY <1>0, <3>2 DEF WorkerRecord
      <4> QED
        BY <4>1, <4>2
    <3> QED
      BY <1>3, <2>0, <3>1, <3>3
  <2>5. CASE LeaveHandler(w)
    <3>1. UNCHANGED gui_queue /\ worker[w].step = "raised"
          /\ worker' = [worker EXCEPT ![w].step = "ended"]
      BY <2>5 DEF LeaveHandler, WorkerStep, dialogVars
    <3>2. PICK r \in WorkerRecord : /\ r.told = worker[w].told
                                    /\ worker' = [worker EXCEPT ![w] = r]
      <4> DEFINE r == [worker[w] EXCEPT !.step = "ended"]
      <4>1. r \in WorkerRecord /\ r.told = worker[w].told
        BY <1>0 DEF WorkerRecord
      <4>2. worker' = [worker EXCEPT ![w] = r]
        BY <1>0, <3>1
      <4> QED
        BY <4>1, <4>2
    <3> QED
      BY <1>3, <2>0, <3>1, <3>2
  <2>6. "fail" \in Outcomes /\ "error" \in Outcomes /\ "done" \in Outcomes
    BY DEF Outcomes
  <2>7. \/ \E task \in Outcomes, step \in {"raised", "ended"} : Put(task, w) /\ WorkerStep(w, step)
        \/ Put("ask_mfa", w) /\ WorkerStep(w, "wait")
        \/ UNCHANGED gui_queue /\ \E step \in {"post", "verify"} : WorkerStep(w, step)
        \/ Grant(w) \/ LeaveHandler(w)
    BY <1>4, <2>6
       DEF Click, Work, Login, AwaitCode, VerifyCode, PutDone, GiveUp, Raise, dialogVars
  <2> QED
    BY <2>1, <2>2, <2>3, <2>4, <2>5, <2>7
\* The main thread takes a task.
<1>5. CASE DoTask
  <2> SUFFICES ASSUME dialog' = "open" PROVE OutcomeIsComing'
    BY <1>2 DEF OutcomeIsComing
  <2> DEFINE head == Head(gui_queue)
             nameless == head.task = "error" /\ worker[head.by].step # "raised"
  <2>1. /\ gui_queue # <<>> /\ gui_queue' = Tail(gui_queue) /\ poll = "batch"
        /\ mute' = IF nameless THEN mute \cup {head.by} ELSE mute
    BY <1>5 DEF DoTask, NextTask
  <2>2. /\ head \in Tasks /\ head = gui_queue[1] /\ Len(gui_queue) \in Nat /\ Len(gui_queue) > 0
        /\ Len(gui_queue') = Len(gui_queue) - 1
        /\ \A i \in 1 .. Len(gui_queue') : gui_queue'[i] = gui_queue[i + 1]
    BY <2>1, LoginTypesOf, HeadTailProperties, EmptySeq
  <2>3. /\ head.task \in Outcomes \cup {"ask_mfa"} /\ head.by \in Workers
    BY <2>2 DEF Tasks, Outcomes
  <2>4. \/ /\ head.task \in {"fail", "error"} /\ ~nameless /\ Tell(head.by) /\ dialog' = dialog
        \/ nameless /\ UNCHANGED <<dialog, worker>>
        \/ head.task = "ask_mfa" /\ UNCHANGED <<dialog, worker>>
        \/ head.task = "done" /\ dialog' = "closed" /\ UNCHANGED worker
    BY <1>5 DEF DoTask, NextTask
  <2> HIDE DEF head
  <2>5. dialog = "open" /\ head.task # "done"
    BY <2>4
  <2>6. poll' \in {"batch", "armed"}
    BY <1>5, <2>5 DEF DoTask, Rearm
  <2>7. /\ \A v \in Workers : /\ worker'[v].step = worker[v].step
                              /\ worker[v].told => worker'[v].told
        /\ head.task \in {"fail", "error"} => worker'[head.by].told \/ head.by \in mute'
    <3>1. CASE worker' = [worker EXCEPT ![head.by].told = TRUE]
      BY <1>0, <2>3, <3>1 DEF WorkerRecord
    <3>2. CASE nameless /\ UNCHANGED worker
      BY <2>1, <3>2
    <3>3. CASE head.task = "ask_mfa" /\ UNCHANGED worker
      BY <3>3
    <3> QED
      BY <2>4, <2>5, <3>1, <3>2, <3>3 DEF Tell
  <2>8. ASSUME NEW v \in Workers, Waits(v, gui_queue)
        PROVE  Waits(v, gui_queue') \/ worker'[v].told \/ v \in mute'
    <3>1. PICK i \in 1 .. Len(gui_queue) : gui_queue[i].by = v /\ gui_queue[i].task \in Outcomes
      BY <2>8 DEF Waits
    <3>2. CASE i = 1
      <4>1. head.by = v /\ head.task \in {"fail", "error"}
        BY <2>2, <2>5, <3>1, <3>2 DEF Outcomes
      <4> QED
        BY <2>7, <4>1
    <3>3. CASE i # 1
      <4>1. i - 1 \in 1 .. Len(gui_queue') /\ (i - 1) + 1 = i
        BY <2>2, <3>3
      <4>2. gui_queue'[i - 1] = gui_queue[i]
        BY <2>2, <4>1
      <4> QED
        BY <3>1, <4>1, <4>2 DEF Waits
    <3> QED
      BY <3>2, <3>3
  <2>9. mute \subseteq mute'
    BY <2>1
  <2> QED
    BY <2>5, <2>6, <2>7, <2>8, <2>9 DEF OutcomeIsComing
<1>6. CASE PollFires \/ EndBatch
  <2>1. UNCHANGED <<dialog, worker, mute, gui_queue>>
    BY <1>6 DEF PollFires, EndBatch, history
  <2>2. dialog = "open" => poll' # "ended"
    BY <1>6 DEF PollFires, EndBatch, Rearm
  <2> QED
    BY <2>1, <2>2 DEF OutcomeIsComing
<1>7. ASSUME NEW code \in {"none", "code"}, AnswerPrompt(code) PROVE OutcomeIsComing'
  <2>1. UNCHANGED <<dialog, poll, gui_queue, mute>> /\ prompt \in Workers
        /\ worker' = [worker EXCEPT ![prompt].code = code]
    BY <1>7, LoginTypesOf DEF AnswerPrompt, history
  <2>2. \A v \in Workers : worker'[v].step = worker[v].step /\ worker'[v].told = worker[v].told
    BY <1>0, <2>1 DEF WorkerRecord
  <2> QED
    BY <2>1, <2>2 DEF OutcomeIsComing
<1>8. CASE Cancel \/ on_user_background
  BY <1>2, <1>8 DEF Cancel, on_user_background
<1>9. CASE OpenWindow \/ _enter_user_background \/ _save_and_start \/ _on_admin_quit_request
  BY <1>1, <1>9
     DEF OpenWindow, _enter_user_background, _save_and_start, _on_admin_quit_request, dialogVars,
         history
<1> QED
  BY <1>1, <1>4, <1>5, <1>6, <1>7, <1>8, <1>9 DEF LoginNext, Poll, loginVars

(* As long as the login dialog is open its queue goes on being worked off, and a worker   *)
(* that has ended has told its outcome, could not, or has left it in the queue: however   *)
(* many workers there are, and behind however many prompts.                               *)
(* (login_dialog.py 125-140, 163-234)                                                     *)
THEOREM OutcomeIsComingHolds == Spec => []OutcomeIsComing
<1>1. ASSUME Init PROVE OutcomeIsComing
  <2>1. dialog = "open" => poll = "armed"
    BY <1>1 DEF Init, LoginInit
  <2>2. worker = [w \in Workers |->
          [step |-> "unused", role |-> "user", code |-> "unset", told |-> FALSE]]
    BY <1>1 DEF Init, LoginInit
  <2>3. \A w \in Workers : worker[w].step = "unused"
    BY <2>2
  <2> QED
    BY <2>1, <2>3 DEF OutcomeIsComing
<1>2. LoginInv /\ OutcomeIsComing /\ [Next]_vars => OutcomeIsComing'
  BY OutcomeKept, PartSteps
<1> QED
  BY <1>1, <1>2, LoginHolds, PTL DEF Spec

-----------------------------------------------------------------------------
\* The watcher of the settings file: a change that has not been read is on its way.

EventOnItsWay == events > 0 \/ calls > 0 \/ WaitingTimers # {}
PollerLooks(p) ==
  /\ p.step \in {"baseline", "sleep", "call"}
  /\ p.step = "sleep" => p.last_mtime # version \/ seen = version \/ missed
ChangeIsComing ==
  /\ _running => runs \in Runs
  /\ _running /\ watchdog /\ seen # version /\ ~missed => EventOnItsWay
  /\ _running /\ ~watchdog => PollerLooks(poller[runs])
LooksWereBefore == \A r \in Runs : poller[r].last_mtime <= version
ComingInv == ChangeIsComing /\ LooksWereBefore

LEMMA ComingKept ==
  ASSUME ConfigWatcherInv, ComingInv, ConfigWatcherNext \/ UNCHANGED watcherOfConfigVars
  PROVE  ComingInv'
<1>0. /\ MaxWrites \in Nat /\ MaxWatches \in Nat
      /\ runs \in 0 .. MaxWatches /\ version \in 0 .. MaxWrites /\ seen \in 0 .. version
      /\ events \in Nat /\ calls \in Nat
      /\ timer \in [Runs -> {"none", "waiting", "fired"}]
      /\ poller \in [Runs -> PollerRecord]
  BY ConfigWatcherAssumption
     DEF ConfigWatcherInv, ConfigWatcherTypeOK, CallsFromChanges, PollerRecord
<1>00. \A r \in Runs : poller[r].last_mtime \in Int
  BY <1>0 DEF PollerRecord
<1>1. CASE UNCHANGED watcherOfConfigVars
  BY <1>1
     DEF watcherOfConfigVars, ComingInv, ChangeIsComing, LooksWereBefore, EventOnItsWay,
         WaitingTimers, PollerLooks
<1>2. CASE start_watching
  <2>1. /\ UNCHANGED <<watchdog, version>> /\ runs' = runs + 1 /\ runs < MaxWatches
        /\ seen' = version
        /\ poller' = IF watchdog THEN poller ELSE [poller EXCEPT ![runs'].step = "baseline"]
    BY <1>2 DEF start_watching
  <2>2. runs' \in Runs
    BY <1>0, <2>1 DEF Runs
  <2>3. ~watchdog => poller'[runs'].step = "baseline"
    BY <1>0, <2>1, <2>2 DEF PollerRecord
  <2>4. \A r \in Runs : poller'[r].last_mtime = poller[r].last_mtime
    BY <1>0, <2>1, <2>2 DEF PollerRecord
  <2>5. ChangeIsComing'
    BY <2>1, <2>2, <2>3 DEF ChangeIsComing, PollerLooks
  <2> QED
    BY <2>1, <2>4, <2>5 DEF ComingInv, LooksWereBefore
<1>3. CASE stop_watching
  <2>1. _running' = FALSE /\ UNCHANGED <<version, poller>>
    BY <1>3 DEF stop_watching
  <2> QED
    BY <2>1 DEF ComingInv, ChangeIsComing, LooksWereBefore
<1>4. ASSUME NEW renamed \in BOOLEAN, WriteConfig(renamed) PROVE ComingInv'
  <2>1. /\ UNCHANGED <<watchdog, _running, runs, timer, calls, poller, seen>>
        /\ version' = version + 1
        /\ _running /\ watchdog => (renamed => missed') /\ (~renamed => events' = events + 1)
    BY <1>4 DEF WriteConfig
  <2>2. \A r \in Runs : poller[r].last_mtime <= version' /\ poller[r].last_mtime # version'
    BY <1>0, <1>00, <2>1 DEF ComingInv, LooksWereBefore
  <2>3. events + 1 > 0
    BY <1>0
  <2>4. _running /\ watchdog => missed' \/ events' > 0
    BY <2>1, <2>3
  <2>5. ASSUME _running, ~watchdog PROVE PollerLooks(poller[runs])'
    <3>1. runs \in Runs /\ poller[runs].step \in {"baseline", "sleep", "call"}
      BY <2>5 DEF ComingInv, ChangeIsComing, PollerLooks
    <3>2. poller[runs].last_mtime # version' /\ poller'[runs'] = poller[runs]
      BY <2>1, <2>2, <3>1
    <3> QED
      BY <3>1, <3>2 DEF PollerLooks
  <2> QED
    BY <2>1, <2>2, <2>4, <2>5
       DEF ComingInv, ChangeIsComing, LooksWereBefore, EventOnItsWay
\* An event, a timer and a callback.
<1>5. ASSUME UNCHANGED <<watchdog, _running, runs, version, missed, poller>>,
             seen' \in {seen, version},
             _running /\ seen # version /\ ~missed => EventOnItsWay' \/ seen' = version
      PROVE  ComingInv'
  BY <1>5 DEF ComingInv, ChangeIsComing, LooksWereBefore, PollerLooks
<1>6. CASE _schedule_reload
  <2>1. /\ UNCHANGED <<watchdog, _running, runs, version, missed, poller, seen>>
        /\ timer' = [timer EXCEPT ![runs] = "waiting"]
    BY <1>6 DEF _schedule_reload, Rescheduled
  <2>2. _running => runs \in WaitingTimers'
    BY <1>0, <2>1 DEF ComingInv, ChangeIsComing, WaitingTimers
  <2> QED
    BY <1>5, <2>1, <2>2 DEF EventOnItsWay
<1>7. CASE _do_reload
  BY <1>5, <1>7 DEF _do_reload
<1>8. ASSUME NEW r \in Runs, TimerGoesOff(r) PROVE ComingInv'
  <2>1. /\ UNCHANGED <<watchdog, _running, runs, version, missed, poller, seen>>
        /\ calls' = calls + 1
    BY <1>8 DEF TimerGoesOff
  <2>2. calls' > 0
    BY <1>0, <2>1
  <2> QED
    BY <1>5, <2>1, <2>2 DEF EventOnItsWay
\* A thread's step, in the only record it changes.
<1>9. ASSUME NEW r \in Runs, Baseline(r) \/ CheckTime(r) \/ CallBack(r) PROVE ComingInv'
  <2>1. /\ UNCHANGED <<watchdog, _running, runs, version, events, timer, calls>>
        /\ seen' \in {seen, version} /\ (missed => missed')
    <3>1. missed \in BOOLEAN
      BY DEF ConfigWatcherInv, ConfigWatcherTypeOK
    <3>2. CASE Baseline(r)
      BY <3>1, <3>2 DEF Baseline
    <3>3. CASE CheckTime(r) \/ CallBack(r)
      BY <3>1, <3>3 DEF CheckTime, CallBack
    <3> QED
      BY <1>9, <3>2, <3>3
  <2>2. PICK p \in PollerRecord :
          /\ poller' = [poller EXCEPT ![r] = p]
          /\ p.last_mtime \in {poller[r].last_mtime, version}
          /\ _running /\ poller[r].step \in {"baseline", "sleep", "call"} =>
               /\ p.step \in {"sleep", "call"}
               /\ p.step = "sleep" => \/ seen' = version \/ missed'
                                      \/ /\ poller[r].step = "sleep"
                                         /\ p.last_mtime = poller[r].last_mtime
    <3>1. CASE Baseline(r)
      <4> DEFINE p == [step |-> "sleep", last_mtime |-> version]
      <4>1. p \in PollerRecord /\ p.step = "sleep" /\ p.last_mtime = version
        BY <1>0 DEF PollerRecord
      <4>2. poller' = [poller EXCEPT ![r] = p] /\ (seen' = version \/ missed')
        BY <3>1 DEF Baseline
      <4> QED
        BY <4>1, <4>2
    <3>2. CASE CheckTime(r) /\ version # poller[r].last_mtime
      <4> DEFINE p == [step |-> "call", last_mtime |-> version]
      <4>1. p \in PollerRecord /\ p.step = "call" /\ p.last_mtime = version
        BY <1>0 DEF PollerRecord
      <4>2. poller' = [poller EXCEPT ![r] = p]
        BY <1>0, <3>2 DEF CheckTime
      <4> QED
        BY <4>1, <4>2
    <3>3. CASE CheckTime(r) /\ version = poller[r].last_mtime
      <4> DEFINE p == [poller[r] EXCEPT !.step = IF _running THEN "sleep" ELSE "ended"]
      <4>1. /\ p \in PollerRecord /\ p.last_mtime = poller[r].last_mtime
            /\ _running => p.step = "sleep"
        BY <1>0 DEF PollerRecord
      <4>2. poller' = [poller EXCEPT ![r] = p] /\ poller[r].step = "sleep"
        BY <1>0, <3>3 DEF CheckTime
      <4> QED
        BY <4>1, <4>2
    <3>4. CASE CallBack(r)
      <4> DEFINE p == [poller[r] EXCEPT !.step = IF _running THEN "sleep" ELSE "ended"]
      <4>1. /\ p \in PollerRecord /\ p.last_mtime = poller[r].last_mtime
            /\ _running => p.step = "sleep"
        BY <1>0 DEF PollerRecord
      <4>2. poller' = [poller EXCEPT ![r] = p] /\ seen' = version
        BY <1>0, <3>4 DEF CallBack
      <4> QED
        BY <4>1, <4>2
    <3> QED
      BY <1>9, <3>1, <3>2, <3>3, <3>4
  <2>3. poller'[r] = p /\ \A s \in Runs : s # r => poller'[s] = poller[s]
    BY <1>0, <2>2
  <2>4. LooksWereBefore'
    BY <1>0, <2>1, <2>2, <2>3 DEF ComingInv, LooksWereBefore
  <2>5. _running /\ ~watchdog => PollerLooks(poller[runs])'
    <3> SUFFICES ASSUME _running, ~watchdog PROVE PollerLooks(poller[runs])'
      OBVIOUS
    <3>1. runs \in Runs /\ PollerLooks(poller[runs])
      BY DEF ComingInv, ChangeIsComing
    <3>2. CASE runs = r
      BY <2>1, <2>2, <2>3, <3>1, <3>2 DEF PollerLooks
    <3>3. CASE runs # r
      BY <2>1, <2>3, <3>1, <3>3 DEF PollerLooks
    <3> QED
      BY <3>2, <3>3
  <2>6. _running /\ watchdog /\ seen' # version /\ ~missed' => EventOnItsWay'
    BY <2>1 DEF ComingInv, ChangeIsComing, EventOnItsWay, WaitingTimers
  <2> QED
    BY <2>1, <2>4, <2>5, <2>6 DEF ComingInv, ChangeIsComing
<1> QED
  BY <1>1, <1>2, <1>3, <1>4, <1>6, <1>7, <1>8, <1>9 DEF ConfigWatcherNext, Watching

(* While the watcher of the settings file runs, a change that has not been read and was   *)
(* not missed for good is on its way: with watchdog as an event, a timer that waits or a  *)
(* callback, and without it because the thread of the last start looks on and does not    *)
(* yet know the time of the change.  (config_watcher.py 52-70, 98-147)                    *)
THEOREM ChangeIsComingHolds == Spec => []ChangeIsComing
<1>1. ASSUME Init PROVE ComingInv
  <2>1. /\ _running = FALSE /\ version = 0
        /\ poller = [r \in Runs |-> [step |-> "none", last_mtime |-> 0]]
    BY <1>1 DEF Init, ConfigWatcherInit
  <2>2. LooksWereBefore
    BY <2>1 DEF LooksWereBefore
  <2> QED
    BY <2>1, <2>2 DEF ComingInv, ChangeIsComing
<1>2. ConfigWatcherInv /\ ComingInv /\ [Next]_vars => ComingInv'
  BY ComingKept, PartSteps
<1>3. RestInv => ConfigWatcherInv
  BY DEF RestInv
<1>4. ComingInv => ChangeIsComing
  BY DEF ComingInv
<1> QED
  BY <1>1, <1>2, <1>3, <1>4, RestHolds, PTL DEF Spec
=============================================================================
