---------------------------- MODULE ConfigWatcher ----------------------------
(***************************************************************************)
(* core/config_watcher.py: calls back when config.yaml has changed.  With  *)
(* watchdog, an observer thread sees the events of the directory, and each *)
(* sets a timer anew; without it, a thread compares the file's time again  *)
(* and again.  The class is complete, but no other module uses it yet.     *)
(***************************************************************************)
EXTENDS Integers, FiniteSets

CONSTANTS
  MaxWrites,  \* of the file
  MaxWatches

ASSUME ConfigWatcherAssumption == MaxWrites \in Nat /\ MaxWatches \in Nat

Runs == 1 .. MaxWatches   \* the calls of start() that did something

VARIABLES
  watchdog,   \* _WATCHDOG_AVAILABLE
  _running,
  runs,       \* the number of starts
  version,    \* of the file: how often it was written
  events,     \* those the observer has not dispatched yet
  timer,      \* timer[r]: _timer of the handler of a start: None, waiting, or fired
  calls,      \* callbacks that are about to read the file
  poller,     \* poller[r]: the step of a start's thread, and its last_mtime
  \* (history)
  seen,       \* the version that was read last
  missed      \* did nothing tell of the file's last change?

watcherOfConfigVars ==
  <<watchdog, _running, runs, version, events, timer, calls, poller, seen, missed>>

ConfigWatcherTypeOK ==
  /\ watchdog \in BOOLEAN /\ _running \in BOOLEAN /\ missed \in BOOLEAN
  /\ runs \in 0 .. MaxWatches
  /\ version \in 0 .. MaxWrites /\ seen \in 0 .. version
  /\ events \in 0 .. MaxWrites
  /\ timer \in [Runs -> {"none", "waiting", "fired"}]
  /\ calls \in 0 .. MaxWrites
  /\ poller \in [Runs -> [step : {"none", "baseline", "sleep", "call", "ended"},
                          last_mtime : 0 .. MaxWrites]]

ConfigWatcherInit ==
  /\ watchdog \in BOOLEAN
  /\ _running = FALSE /\ runs = 0
  /\ version = 0 /\ events = 0
  /\ timer = [r \in Runs |-> "none"]
  /\ calls = 0
  /\ poller = [r \in Runs |-> [step |-> "none", last_mtime |-> 0]]
  /\ seen = 0 /\ missed = FALSE

-----------------------------------------------------------------------------

\* Who starts it has just read the file.
start_watching ==
  /\ ~_running /\ runs < MaxWatches
  /\ _running' = TRUE /\ runs' = runs + 1
  /\ poller' = IF watchdog THEN poller ELSE [poller EXCEPT ![runs'].step = "baseline"]
  /\ seen' = version /\ missed' = FALSE
  /\ UNCHANGED <<watchdog, version, events, timer, calls>>

\* The observer ends; a timer that is set stays set.
stop_watching ==
  /\ _running /\ _running' = FALSE
  /\ events' = 0
  /\ UNCHANGED <<watchdog, runs, version, timer, calls, poller, seen, missed>>

\* The file is written, by itself or by renaming another one to it: an event of its own,
\* which the handler does not handle.
WriteConfig(renamed) ==
  /\ version < MaxWrites /\ version' = version + 1
  /\ events' = IF _running /\ watchdog /\ ~renamed THEN events + 1 ELSE events
  /\ missed' = (_running /\ watchdog /\ renamed)
  /\ UNCHANGED <<watchdog, _running, runs, timer, calls, poller, seen>>

\* self._timer is not reset when the timer fires.
ScheduledOnce(t) == IF t = "none" THEN "waiting" ELSE t
Rescheduled(t) == "waiting"

\* on_modified, on_created and _schedule_reload: a timer that waits is cancelled.
_schedule_reload ==
  /\ events > 0 /\ events' = events - 1
  /\ timer' = [timer EXCEPT ![runs] = Rescheduled(@)]
  /\ UNCHANGED <<watchdog, _running, runs, version, calls, poller, seen, missed>>

\* debounce later
TimerGoesOff(r) ==
  /\ timer[r] = "waiting"
  /\ timer' = [timer EXCEPT ![r] = "fired"]
  /\ calls' = calls + 1
  /\ UNCHANGED <<watchdog, _running, runs, version, events, poller, seen, missed>>

\* The callback, in the timer's thread: others may run beside it.
_do_reload ==
  /\ calls > 0 /\ calls' = calls - 1
  /\ seen' = version
  /\ UNCHANGED <<watchdog, _running, runs, version, events, timer, poller, missed>>

\* _poll_loop: a change that came before the first look goes unseen by this thread.
Baseline(r) ==
  /\ poller[r].step = "baseline"
  /\ poller' = [poller EXCEPT ![r] = [step |-> "sleep", last_mtime |-> version]]
  /\ missed' = (missed \/ seen # version)
  /\ UNCHANGED <<watchdog, _running, runs, version, events, timer, calls, seen>>

\* After the sleep it looks once more, and goes on if the watcher runs, or runs again.
CheckTime(r) ==
  /\ poller[r].step = "sleep"
  /\ poller' = [poller EXCEPT ![r] =
       IF version # @.last_mtime THEN [step |-> "call", last_mtime |-> version]
       ELSE [@ EXCEPT !.step = IF _running THEN "sleep" ELSE "ended"]]
  /\ UNCHANGED <<watchdog, _running, runs, version, events, timer, calls, seen, missed>>

CallBack(r) ==
  /\ poller[r].step = "call"
  /\ poller' = [poller EXCEPT ![r].step = IF _running THEN "sleep" ELSE "ended"]
  /\ seen' = version
  /\ UNCHANGED <<watchdog, _running, runs, version, events, timer, calls, missed>>

Watching ==
  \/ _schedule_reload
  \/ _do_reload
  \/ \E r \in Runs : TimerGoesOff(r) \/ Baseline(r) \/ CheckTime(r) \/ CallBack(r)

ConfigWatcherNext ==
  \/ start_watching
  \/ stop_watching
  \/ \E renamed \in BOOLEAN : WriteConfig(renamed)
  \/ Watching

-----------------------------------------------------------------------------
(* While the watcher runs, every change is read in the end, however the writes fall       *)
(* between events, timers that are cancelled, callbacks that overlap, and threads of an   *)
(* earlier start; but for a file that was renamed into place under watchdog, and one that *)
(* was written before the polling thread's first look.  (config_watcher.py 52-70, 98-147) *)
ChangesReloaded ==
  _running /\ seen # version /\ ~missed ~> ~_running \/ seen = version \/ missed
=============================================================================
