----------------------------- MODULE FileWatcher -----------------------------
(***************************************************************************)
(* monitors/file_watcher.py: the directories it watches, and the events it *)
(* passes on, of which it holds back those that repeat within an interval. *)
(*                                                                         *)
(* Time is counted in halves of the interval.  Events of ignored paths and *)
(* of large files change nothing and are left out.                         *)
(***************************************************************************)
EXTENDS Integers, Sequences, FiniteSets, SequencesExt

CONSTANTS
  Paths,         \* directories
  InitialPaths,  \* the configured ones
  Changes,       \* pairs of a path and a kind of event
  MaxEntries,    \* size of last_events that starts a purge (1000 in reality)
  MaxTime

ASSUME FileWatcherAssumption == InitialPaths \in Seq(Paths) /\ MaxTime \in Nat

VARIABLES
  watcher,      \* run(): step, and the directory it schedules next; it ends by itself when
                \* there is nothing to watch
  directories,
  watched,      \* the paths the observer has
  last_events,  \* the time of the last report by key; -1 for a key it does not have
  time,
  adding,       \* the calls of add_watch_path: what each is about to do with its path
  \* (history)
  refused,      \* paths that are missing or could not be watched
  tooLate,      \* paths that were put on the list when nobody would read it any more
  lastReport,   \* when a key was last passed on; -1 for never
  hidden        \* how long before a held-back event its key was last passed on, at most

watcherVars == <<watcher, directories, watched, last_events, time, adding, refused, tooLate,
                 lastReport, hidden>>

dedup_interval == 2
Never == -1

FileWatcherTypeOK ==
  /\ watcher \in [step : {"new", "schedule", "start", "alive", "ended", "stopped"}, next : Nat]
  /\ directories \in Seq(Paths) /\ watched \subseteq Paths
  /\ last_events \in [Changes -> -1 .. MaxTime]
  /\ time \in 0 .. MaxTime
  /\ adding \in [Paths -> {"no", "append", "schedule", "done"}]
  /\ refused \subseteq Paths /\ tooLate \subseteq Paths
  /\ lastReport \in [Changes -> -1 .. MaxTime]
  /\ hidden \in -1 .. MaxTime

\* The paths are configured, or none is: with the Wazuh engine only USB drives are watched.
FileWatcherInit ==
  /\ watcher = [step |-> "new", next |-> 1]
  /\ directories \in {InitialPaths, <<>>}
  /\ watched = {}
  /\ last_events = [c \in Changes |-> Never]
  /\ time = 0
  /\ adding = [p \in Paths |-> "no"]
  /\ refused = {} /\ tooLate = {}
  /\ lastReport = [c \in Changes |-> Never]
  /\ hidden = Never

-----------------------------------------------------------------------------

Alive == watcher.step = "alive"

\* A directory that is missing or cannot be watched is logged and passed over.
_schedule_watch(path) ==
  \/ watched' = watched \cup {path} /\ UNCHANGED refused
  \/ refused' = refused \cup {path} /\ UNCHANGED watched

\* start()
StartWatcher ==
  /\ watcher.step = "new"
  /\ watcher' = [watcher EXCEPT !.step = "schedule"]
  /\ UNCHANGED <<directories, watched, last_events, time, adding, refused, tooLate, lastReport,
                 hidden>>

\* for directory in self.directories, to which others may still append
ScheduleWatch ==
  /\ watcher.step = "schedule"
  /\ IF watcher.next <= Len(directories)
     THEN /\ _schedule_watch(directories[watcher.next])
          /\ watcher' = [watcher EXCEPT !.next = @ + 1]
     ELSE /\ watcher' = [watcher EXCEPT !.step = "start"]
          /\ UNCHANGED <<watched, refused>>
  /\ UNCHANGED <<directories, last_events, time, adding, tooLate, lastReport, hidden>>

\* Without a directory the observer is not started.
StartObserver ==
  /\ watcher.step = "start"
  /\ watcher' = [watcher EXCEPT !.step = IF watched # {} THEN "alive" ELSE "ended"]
  /\ UNCHANGED <<directories, watched, last_events, time, adding, refused, tooLate, lastReport,
                 hidden>>

\* add_watch_path: whether the observer runs, and then what follows from it.  The code calls
\* it for a USB drive that was plugged in, from the diagnosis of the settings window.
add_watch_path(path) ==
  /\ adding[path] = "no"
  /\ adding' = [adding EXCEPT ![path] = IF Alive THEN "schedule" ELSE "append"]
  /\ UNCHANGED <<watcher, directories, watched, last_events, time, refused, tooLate, lastReport,
                 hidden>>

OnlyLogged(path) == directories
OnTheList(path) == Append(directories, path)

AddLater(path) ==
  /\ adding[path] = "append" /\ adding' = [adding EXCEPT ![path] = "done"]
  /\ directories' = OnTheList(path)
  /\ tooLate' = IF watcher.step \in {"new", "schedule"} THEN tooLate ELSE tooLate \cup {path}
  /\ UNCHANGED <<watcher, watched, last_events, time, refused, lastReport, hidden>>

AddNow(path) ==
  /\ adding[path] = "schedule" /\ adding' = [adding EXCEPT ![path] = "done"]
  /\ _schedule_watch(path)
  /\ UNCHANGED <<watcher, directories, last_events, time, tooLate, lastReport, hidden>>

\* An observer that does not run yet is not stopped, and starts later.
watcher_stop ==
  /\ Alive
  /\ watcher' = [watcher EXCEPT !.step = "stopped"]
  /\ UNCHANGED <<directories, watched, last_events, time, adding, refused, tooLate, lastReport,
                 hidden>>

-----------------------------------------------------------------------------

Entries(f) == {c \in Changes : f[c] # Never}

\* More than MaxEntries: those of the last two intervals are kept.
Purged(f) ==
  IF Cardinality(Entries(f)) > MaxEntries
  THEN [c \in Changes |-> IF f[c] > time - 2 * dedup_interval THEN f[c] ELSE Never]
  ELSE f

Refreshed(c) == [last_events EXCEPT ![c] = time]

\* An event that is held back leaves no trace.
WhenHeldBack(c) == last_events

\* The dispatcher of the observer calls it for one event after another.
_event_callback(c) ==
  /\ Alive
  /\ IF c \in Entries(last_events) /\ time - last_events[c] < dedup_interval
     THEN /\ last_events' = WhenHeldBack(c)
          /\ hidden' = IF time - lastReport[c] > hidden THEN time - lastReport[c] ELSE hidden
          /\ UNCHANGED lastReport
     ELSE /\ last_events' = Purged([last_events EXCEPT ![c] = time])
          /\ lastReport' = [lastReport EXCEPT ![c] = time]
          /\ UNCHANGED hidden
  /\ UNCHANGED <<watcher, directories, watched, time, adding, refused, tooLate>>

Tick ==
  /\ time < MaxTime /\ time' = time + 1
  /\ UNCHANGED <<watcher, directories, watched, last_events, adding, refused, tooLate, lastReport,
                 hidden>>

FileWatcherNext ==
  \/ StartWatcher
  \/ ScheduleWatch
  \/ StartObserver
  \/ \E path \in Paths : add_watch_path(path) \/ AddLater(path) \/ AddNow(path)
  \/ watcher_stop
  \/ \E c \in Changes : _event_callback(c)
  \/ Tick

-----------------------------------------------------------------------------
(* An event is held back only if the same was passed on less than an interval before: a   *)
(* file that changes all the time is still reported every interval, and the purge of old  *)
(* entries loses none that counts.  (file_watcher.py 105-114)                             *)
HeldBackBriefly ==
  /\ hidden < dedup_interval
  /\ \A c \in Changes :
       lastReport[c] # Never /\ time - lastReport[c] < dedup_interval =>
         last_events[c] = lastReport[c]

(* A path that was added is watched, or refused by the observer, or will be scheduled     *)
(* when the thread comes to it; only one that comes after the thread went through its     *)
(* list and found no running observer is forgotten.  (file_watcher.py 138-172)            *)
AddedIsWatched ==
  \A path \in Paths :
    adding[path] = "done" =>
      \/ path \in watched \cup refused \cup tooLate
      \/ /\ watcher.step \in {"new", "schedule"}
         /\ \E i \in watcher.next .. Len(directories) : directories[i] = path
=============================================================================
