# BeaconGuardian in TLA+

TLA+ modules of the BeaconGuardian agent (Python, under `src/`), the TLC
configurations that check them on small instances, and TLAPS proofs of the
results that matter most. Paths below are relative to the repository's `src/src/`
unless they begin with `docs/`.

## 1. The system: inventory

The agent is one Python process (`agent.py`) with many threads; a settings window
(`ui/setup_ui.py`) and a script that Wazuh calls (`firewall/wazuh_responder.py`)
are processes of their own that act on the same machine. The server ("Beacon")
is not in the repository.

| Component | State it keeps | Operations | Meets others through | Hard because |
|---|---|---|---|---|
| Firewall channel A, `firewall/desired_state_sync.py`, `revision_policy.py` | stored revision, delay | poll a snapshot, reconcile the whole firewall, save the revision | the firewall, the state file, BeaconClient | each PowerShell script is a step of its own and may fail; B and the local blocks interleave; crash before the save |
| Firewall channel B, `command_receiver.py` | stored cursor | long poll, carry out a batch, save the cursor | the firewall, the state file, BeaconClient | replays after a crash, commands that raise, failures in the batch |
| Firewall applier, `wfas_applier.py` | none (the firewall's rules) | list, remove, upsert (remove, then add), set profiles | PowerShell | not atomic, no lock between threads and processes |
| Local block controller, `local_block_controller.py` | none (rules 9998, 9999) | block, release, query | the firewall | called by monitors, the window and Wazuh's script |
| State file, `local_state_store.py` | a JSON file, its temporary, a lock | load, merge_update | channels A and B | crash between two writes, failed reads |
| Beacon client, `beacon/beacon_client.py` | token, back-off, password, `_session_lock`, heartbeat thread | login, heartbeat, send_event, send_traffic, the firewall's requests, disconnect, clear_credentials | the server; all threads share it | retries with the lock given up in between, 401 and 423, tokens of other threads |
| Offline event queue, `core/event_queue.py` | a SQLite table, a flush thread | enqueue, flush, start, stop | nobody: no module creates one | flushes in two threads, limits, crashes |
| Biometric engine and monitor, `core/biometric_engine.py`, `monitors/input_biometric_monitor.py` | mode, buffers, model in memory and in four files, training threads | feed, train, analyse, reset, load | BeaconClient, block controller, the window's reset | training without the lock, saves that are cut short |
| Suricata monitor | position in eve.json, the child process | start, follow, restart, stop | security events | half-written lines, truncation, stop against restart |
| Wazuh monitor | the child that prints alerts | connect, read, stop | security events | reconnects repeat or skip alerts |
| Network monitor | a dictionary of connections, a lock | count a packet, take and send, stop | send_traffic | two threads, two limits |
| Browser monitor | a cursor per browser | read the newest visits, hand on | send_event | query limit, failed reads |
| Process and USB monitors | the last snapshots | compare, hand on | send_event, security events | queries that fail half-way |
| File watcher | watched paths, times of last reports | watch, add a path, hold back, stop | security events | paths added before or after the start; hold-back with purge |
| Security events and active response, `agent.py` 223-320, `core/active_response.py` | thresholds, white list | evaluate, block, normalise, send | block controller, BeaconClient | concurrent callers share one rule |
| Agent life cycle, `agent.py` | the list of all of these, `running` | run, stop, signals | everything | first login fails, heartbeat thread; a signal stops the main thread anywhere, also in `stop()` |
| Logon monitor, `monitors/auth_monitor.py` | count of records | count, read backwards, stop | security events | the log grows between the count and the read, and drops records when full |
| Mouse log, `monitors/input_biometric_monitor.py` | queue, buffer, file | hook, handle, flush | a file | buffer swapped while the worker appends; failed writes |
| Login dialog, `ui/login_dialog.py`, `core/role_utils.py`, `core/app_context.py` | result, task queue, role of the process | click, answer a prompt, cancel, background login | the settings window and the agents it starts | one worker thread per click, prompts that block the queue, late answers |
| Settings window, `ui/setup_ui.py` | the form, what two tabs show | edit, save, start an agent, refresh, filter, block, release | config.yaml, the firewall, agents | refreshes overlap; several processes |
| Configuration file, `ui/setup_ui.py`, `agent.py` 539-561 | config.yaml | load, save, encrypt and write again | window and agents | no lock, writes that are not atomic, stale copies |
| Configuration watcher, `core/config_watcher.py` | a timer, the last time of the file | start, stop, debounce, poll | nobody: no module creates one | cancelled timers, restarts |
| Credentials, TLS, network helpers | | | | not modelled |

What makes each component correct is stated as its module's properties (section 4);
the lines at which each can go wrong are the hazards of `PROJECT.json`.

## 2. Modules and how they correspond to the code

An action is a step of one thread between two points at which another can get in:
a PowerShell script, a request, a statement under a lock, a file operation. Names
of actions are the code's where it has a name for them. Variables marked
"(history)" are not in the code: they record what happened, for the properties,
and no guard reads them but to bound a run.

**Firewall.** `Wfas` (the rules and the scripts that change them; an upsert is two
steps, and the budget `faults` lets a script fail at either) <- `FirewallServer`
(external: revisions, snapshots and the command log as the client sees them) <-
`DesiredStateSync` (channel A; the state file is `StateStore`, by INSTANCE) <-
`CommandReceiver` (channel B) <- `LocalBlockController` (any number of threads and
processes) <- `FirewallAgent`, which composes them with the agent's crash, after
which any subset of the scripts that were running takes effect. Each extends the
one before, as they all work on one firewall. Rule bodies are told apart by how
the agent and PowerShell take them: sound, refused by the agent, refused by
PowerShell.

**State file.** `StateStore` is what its users may rely on: a merge is atomic and
changes its own field alone, or starts from the defaults when the file could not
be read. `LocalStateStore` has the lock, the open of the temporary file, the dump
and the replacement as single steps, with failures and crashes, and implements
`StateStore` (`AtomicUpdates`: `Abstract!Spec` under `store <- Content(file)`).

**Client.** `BeaconSession`: the token as the server and the clock see it, the lock,
the back-off after a 423, and the main, heartbeat, sender and poller threads step
by step. A sender tries three times and gives the lock up between tries; a poller
tries twice and keeps it (`get_firewall_desired_state` three times: one more round of
the same steps).

**Event queue.** `EventQueue`: the table, any number of flush threads (a restart may
leave an old one running) and of threads in `stop()`, which flush whether anything runs
or not and do not keep a `start()` waiting; rows sent one by one without the lock, the
final transaction, crashes. A call of the sender is up to three posts
(`BeaconClient.send_event`): the server may have taken any of them although the answer was lost,
and the call then returns False, or True by a later post. `Taken` records both.

**Biometrics.** `BiometricEngine` has the collecting, a training thread step by
step, the four files written and read one by one, reset and restart;
`InputBiometricMonitor` adds the worker, the analysing thread, `stop()` and the
reset of the settings window. A piece of a model is the number of the training it
comes from. `MouseLog` is the same monitor's local log: hook, worker, swap of the
buffer, write.

**Monitors.** `SuricataMonitor`, `WazuhMonitor`, `NetworkMonitor`, `BrowserMonitor`,
`SnapshotMonitors` (process and USB), `FileWatcher`, `AuthMonitor` and `SecurityEvents`.
`AuthMonitor` has the Security log as Windows keeps it (numbers, a capacity,
clearing). Where a sequential read of a handle that stays open begins is not in the
sources, so both readings are modelled (`anew`). An exception ends a round: a report that
raises drops the rest of its list (`BrowserMonitor`, `SnapshotMonitors`), a line that is not
UTF-8 makes `WazuhMonitor` start a second child and forget the first, and what raises in
`SecurityEvents` has the event itself sent, after its normalised form or instead of it.

**Life cycle.** `AgentLifecycle` is the main thread of `run()` and `stop()`: a signal
puts it at the beginning of `stop()` from wherever it is, and `sys.exit` or an exception
means that what was interrupted never goes on. Both lists are the code's, with
every collector configured; `auth_mon` is there without Wazuh, `wazuh_mon` with it.

**Windows.** `LoginDialog`: each click's worker, the task queue that the main thread
works off in batches, the prompt that keeps a batch waiting, closing, and then what
`run_setup` opens and which agents the window starts. `SettingsWindow`: the refresh of
the tab that shows whether the network is blocked and of the one that lists events,
which follow the same scheme (timer, worker that looks, hand-over to the main thread);
a behaviour is about one of them. A listing of the rules that fails hands over "not blocked",
and the tab shows it; the window's token, without which the tab of events asks for nothing,
may run out, and nothing renews it. `ConfigFile`: config.yaml between a window and two
agents, each write in two steps. `ConfigWatcher`: watchdog's observer with the debounce
timer, or the polling threads, over several starts.

**Composition.** These parts share no variable with each other: they meet in the client
and in the firewall, or not at all. `BeaconGuardian` therefore composes them as
programs in which one part is there (`part`, chosen in `Init`): the product of
their states would show nothing more.

## 3. Runs

| Run | Module | What it shows |
|---|---|---|
| `fw_channels` | MCFirewallAgent | A and B under a failure, a crash, rollbacks and an ill-formed command: the firewall agrees with the server whenever both have caught up (`QuiescentAgreement`), the cursor passes nothing untried (`CursorBehindAttempts`), both channels get to the server's last word and stay there (`Convergence`), every command ends up behind the cursor (`CommandsConsumed`) |
| `fw_local` | MCFirewallAgent | a window and a thread of the agent that block and release, beside both channels with two revisions and two commands and a crash, leave no block behind (`NoOrphanBlock`) |
| `event_queue` | EventQueue | limit, no silent loss, tries before expiry, an event taken twice only for a cause (an overlap, a crash, a lost answer), every event leaves, also one behind a full batch of rows that fail |
| `state_store` | MCLocalStateStore | refinement of `StateStore`, ownership of the temporary file, every call returns |
| `session` | BeaconSession | at most one login into a back-off, tokens not thrown away over and over, heartbeats resume, calls and a stop end |
| `parts` | MCBeaconGuardian | every other part: one training's model guards and the analysing thread survives; what a monitor passes is neither lost nor told twice; a claimed block was one; the window that opens and the agents that start are the ones asked for; a save stays and reaches the agents; the mouse log keeps its order; an added path is watched; a stop is complete. Each property names its exceptions |
| `progress` | MCBeaconGuardian | the engine learns, a login that was begun has an outcome, the tabs end up showing what is, the configuration's last change is read |
| `fw_b_failure` (violation) | MCFirewallAgent | `docs/FIREWALL_INTEGRATION.md:144`: "B alone fails: restored by the next A". A skips its cycle when the revision is the stored one |
| `fw_local_block` (violation) | MCFirewallAgent | `ui/setup_ui.py:1897`: a block lasts until it is released. Channel A's next reconcile removes it |
| `session_login` (violation) | BeaconSession | `agent.py:635`: a failed first login "will retry automatically". Without traffic nothing retries, and no heartbeat thread exists |
| `bio_reset` (violation) | InputBiometricMonitor | `ui/setup_ui.py:1873`: after the window's reset the next start learns anew. It removes another directory than the engine's |
| `config_save` (violation) | ConfigFile | `ui/setup_ui.py:1331`: "the settings were saved". Once the file has a value for automatic blocking, the window's is never saved |

### Bounds

Every bound is a constant whose name begins with `Max` or a set given in the cfg.

* Firewall: one server rule with bodies of each kind, two changes of revision and
  two commands (a change that is overtaken by a second one is the longest chain the
  code reacts to: A keeps one revision, B one cursor), one failure and one crash. Rules
  with different ids never touch each other but in the two local ids, which are
  always there. A second failure
  only makes the firewall `dirty` once more. In `fw_local` the server's
  rules have the one body that the local blocks have too (`ServerBodies`), so that a rule of the
  server can be taken for a block.
* Event queue: a table of two rows, three events, batches of one, two tries: the
  limit is hit, also while a batch is out, a row can expire, and a row can wait behind a full
  batch. The flush thread and one that stops can overlap, one crash can come between, and
  of one event any number of answers can be lost. More threads in `stop()` or after a
  restart, and batches of more rows, are in the proofs.
* State file: two threads with a field each, as in the agent; three values; two
  failures, one crash.
* Session: a sender, a poller, the heartbeat and the main thread, one trouble of the
  server (an outage, an account lock, a revocation, or a failed request) beside any
  initial state of the server. One more caller or trouble adds time and no new kind
  of step; the safety properties are proved without these bounds.
* Biometrics: two samples for a training, windows of two, four names for trainings
  (a name is used again when nothing of its training is left). `parts` has one error or
  restart and one reset; `progress` has three errors and no reset, as no module of the
  repository calls `reset_model` (the window removes files instead).
* Monitors: three lines of eve.json in two pieces each, one truncation, one death of
  Suricata; three alerts, two hang-ups or lines that are not UTF-8, one old line for a new
  child; four connections against a dictionary of three and batches of two, six packets; four
  visits of three URLs in two browsers against a query limit of two; two things that come and
  go, two queries or reports that fail; two kinds of file event against a purge at two entries, two and a half intervals of time, a
  configured directory and an added one; two threads with events and three addresses;
  four records in a log of three; four mouse events.
* Life cycle: three signals, so that one can hit the stop that interrupted a stop.
* Login: two clicks (one prompt in front of another worker's task), two starts. A third
  worker only waits in the same queue.
* Window: two or three refreshes at a time, two presses, one or two changes from outside,
  one or two failures.
* Configuration: a window and two agents, one save, one kill; three or four writes and
  two starts of the watcher.

`CHECK_DEADLOCK FALSE` is set where a bound or the agent's stop ends every behaviour.

### Fairness and why the code gives it

* `FirewallAgent`: weak fairness of A and of B. Each is a thread in an endless loop
  whose waits are timed.
* `EventQueue`: weak fairness of each flush: the thread sleeps a fixed interval.
* `LocalStateStore`: strong fairness of each thread's steps: a lock that is free again
  and again is got in the end, as holders only do file operations.
* `BeaconSession`: strong fairness of the callers, the heartbeat and the main thread for
  the same reason (`_session_lock` is held for requests with a timeout and for short sleeps only), weak
  fairness of the end of a back-off. The server and the account owe nothing:
  the properties say what they assume of them.
* `BeaconGuardian`, each formula on the part it is about:
  `TrainingEnds` (a training's own thread; that samples come is in the property);
  `LoginGoesOn` (requests have timeouts of 12 s, the wait for a code one of 120 s, the
  main loop's timer fires; that prompts get closed is in the property);
  `RefreshGoesOn` (workers end, `after` calls back, the main loop runs; that the tab
  stays open, or is open, is in the property); `WatchingGoesOn` (timers, the observer's
  dispatch, the polling threads' sleep). Users, writers of files and stops are never fair.

## 4. What is proved

With TLAPS, for all values of the constants that satisfy the named ASSUMEs (each in the
module that declares the constants; TLC evaluates them in the runs), thus for any number of
threads, rules, events, packets, failures and crashes. Every invariant and action property that a
passing run checks is also a theorem; what TLC alone checks is at the end of this section.

| Module | Theorems |
|---|---|
| `EventQueueProofs` | `TypeOK`, `Bounded`, `Accounted`, `ExpiredWereTried`, `TwiceOnlyForCause` |
| `LocalStateStoreProofs` | `TypeOK`, `OwnTemporary`, `AtomicUpdates` (the refinement of `StateStore`) |
| `FirewallAgentProofs` | `TypeOK`, `CursorBehindAttempts`, `NoOrphanBlock` |
| `FirewallAgreementProofs` | `QuiescentAgreement` |
| `BeaconSessionProofs` | `TypeOK`, `OneHastyLogin`, `FewWastedTokens` |
| `MonitorProofs` | `TypeOK` of the composition, and `HeldBackBriefly`, `AddedIsWatched`, `AlertsInOrder`, `AlertsPassed`, `StopIsComplete`, `FailuresReported`, `LogKeepsOrder`, `ReportsAddUp`, `PacketsAccounted`, `VisitsReportedOnce`, `BlockedIsTrue`, `GuardsWithOneModel`, `SavesKept`, `OpensAsAsked`; and, of what no run lists, `TrainingIsUnderWay`, `OutcomeIsComing`, `ChangeIsComing` |

`ChildProcessProofs` (the monitors of Suricata and of Wazuh's children) and `PartProofs` (all
other parts but the file watcher) hold the lemmas for `MonitorProofs`: for each part, that its initial states
satisfy its invariant, that its steps keep it, and that the property follows. `MonitorProofs` draws the
theorems from them with one fact more, that a step of one part leaves the variables of the
others alone (`PartSteps`).

### Firewall, state file, session and queue

* Queue. None of its properties but `TypeOK` is inductive. `LossInv` adds that what a
  worker has noted as sent was acknowledged, so its delete loses nothing. `RetryInv`
  says that the retry count in the table, plus the workers that have still to
  increment it, is at most the number of failures: two workers with an old count
  can only count too little. `DropInv` carries that to the rows noted for deletion.
  `OverlapInv` says that, while nothing overlapped, one worker alone knows the rows
  that were acknowledged and are still in the table: so a row that is sent again was
  taken before, if at all, without its sender hearing of it.
* State file. The invariant adds that the file is never torn and that a thread
  between its read and its replacement has merged into what the file still holds:
  the lock is needed exactly there.
* Cursor of channel B. `BatchInv` relates the batch in progress to the commands carried to their
  end; channel A and the local actors leave it alone because a merge touches one field.
* Types of the firewall. `TypeOK` alone is not inductive: `TypeInv` adds that every script that adds a
  rule has one to add, in A's cycle (`CycleToAdd`) and in the log that B reads (`LogToAdd`).
* `NoOrphanBlock`. `OrphanInv`: a local rule that is there was asked for by someone, or the release
  that is going to remove it is under way; and only actors that outlive the agent
  release. The theorem has a hypothesis, `LocalActors \cap Faulty = {}`, which the run's constants satisfy:
  `unblock_network` does not look whether its script failed, so that with a failing one the
  statement would be false.
* `QuiescentAgreement`. The argument is by who is still going to write a rule. Channel B owes
  it a command as long as one about it lies ahead, in the batch or beyond the cursor
  (`NextDue`); channel A has it to do as long as its cycle has not come to it. A rule that
  neither will write says what it should, or a script that removed it is about to add
  that (`AgreeInv`). It needs that the revision says of each rule what the last
  command about it says (`LogInv`), that a cycle and a batch hold what their step needs and no more (`ShapeInv`),
  and `CursorBehindAttempts`: a lost cursor only makes B write again.
* Session. `LoginInv` says that outside a back-off no login was hasty and that the heartbeat's login,
  the only one outside the lock, can only be the first; `TokenInv` says who can still
  hold a 401 of a dead token.

### Parts

* File watcher (`WatchedInv`, `HeldInv`): what is remembered of a key, if anything, is its last
  report; so a purge forgets only what no longer counts.
* Suricata (`OrderInv`, `SettledInv`, `StopInv`): unless a truncation went unseen, the buffer holds
  the last pieces before the offset, and what lies before them was handled or is torn.
* Wazuh (`PipeInv`, `PassedInv`): what a child has printed is in its pipe or was passed on; what it has
  yet to print was passed on by earlier children only.
* Life cycle (`StoppingInv`): a stop has told the parts it has passed, and the handle was closed
  at most once for each signal.
* Logons (`RecordsInv`, `CountedInv`): as long as the log drops no records its counts are the records'
  numbers, and what lies beyond the counted ones was reported at most once.
* Mouse log (`RowsInOrder`, `RowsKept`, `EventsInOrder`): events keep their order from the queue
  through the worker and the buffer to the file, over the swap of the buffer.
* Snapshots (`LeadsInv`): what was told and what is known differ by the reports still to be handed on,
  in the collection the round is at, and by those dropped with a list that raised (`untold`), and
  nowhere else.
* Network (`NetworkInv`): the counts in the dictionary, the batch, what was handed on and what was
  cleared add up. How many packets some records count is the size of a set of pairs (`Counted`),
  so that sums are facts about cardinalities of disjoint unions.
* Browsers (`OneVisitARow`, `GoneInv`): no two rows have the same time, so a row is read once; the
  newest rows in their order are a bijection from their places (`NewestFirst`), and what a query
  leaves out lies below the cursor it sets.
* Events (`RespondingInv`): only a block lets a handler say that it blocked.
* Biometrics (`TrainingInv`, `ModelInv`): without a reset under a training there is one training at a
  time, which has made the pieces its step says; without a broken save either, the files are
  of one training but while they are written.
* Settings file (`FileInv`, `AgentsInv`): the file is empty while one process writes it, and whole
  else; what an agent is about to write again is what was saved, up to the secret's encryption.
* Login (`AcceptedInv`, `ClosedInv`, `WindowInv`): only a worker with an accepted login says "done",
  a closed dialog stays closed, and the role follows the window until a late worker.
* Types: the parts without a property above need more than their types as well. The settings watcher
  makes no more calls than there were changes because an event sets one timer and a timer that
  goes off makes one call (`CallsFromChanges`).

### What liveness rests on

Of three liveness properties the safety half is proved, that what must happen in the end is under way
or set up at every moment; what remains to TLC is that fairness carries it through.

* `TrainingIsUnderWay` (`LearnsInTheEnd`): an engine in TRAINING has a training that runs.
* `OutcomeIsComing` (`ClicksAnswered`): while the dialog is open its poll is armed or at work, and
  what a worker that has ended had to say was shown, could not be, or is in the queue.
* `ChangeIsComing` (`ChangesReloaded`): a change that was not read is an event, a timer that waits or a
  callback; without watchdog the thread of the last start looks on, and the time it
  remembers is not the file's (`PollerLooks`; `LooksWereBefore`: it never remembers a later one).

### Only model-checked

All liveness: `Convergence`, `CommandsConsumed`, `EveryEventLeaves`, `CallsReturn`, `CallsEnd`,
`HeartbeatsResume`, `LearnsInTheEnd`, `ClicksAnswered`, `WindowCatchesUp` and `ChangesReloaded`. Fairness and
ENABLED are out of the prover's reach. The violated runs are counterexamples and need no proof.
Induction over data is not available either, as the library's induction theorems take an operator as
a parameter: where an argument needs a least or a newest element it goes by cardinalities and
well-founded minima of sets of numbers (`Smallest`, `NewestFirstIs`).

## 5. Remarks on the code met while modelling

Beside the five violated runs:

* In `SecurityEvents` the branch `WAZUH_RESPONSE` of `Evaluate` can never be taken:
  `active_response.py:64` looks for the level in the alert, whose level is in its
  `rule`.
* A failed listing of the rules is taken for an empty one: the window shows a blocked network
  as normal until its next refresh (`local_block_controller.py:59`, `wfas_applier.py:95`).
* The tab of events stops refreshing for good when the window's token runs out: nothing logs
  the window in again, and the answer 401 is not looked at (`ui/setup_ui.py:923`).
* A post that the server took without its answer coming back is posted again, by
  `send_event` itself and then by whoever calls it (`TwiceOnlyForCause`).
* All blocked addresses share rule 9998, so a second block replaces the first.
  `BlockedIsTrue` therefore says "was blocked", not "is blocked".
* In the Wazuh mode `agent.py:131` makes a file watcher without directories to watch USB
  drives; its observer is not started without a directory, and `add_watch_path` only
  appends to a list that `run()` has passed (`tooLate` in `FileWatcher`). Its one caller is the
  diagnosis of the settings window (`agent.py:491`), whose agent never starts its watcher.
* `biometric_target_samples` has the fate of `biometric_auto_block` (`config_save`). And while
  neither is in the file, the window shows "Auto Block" as on (`ui/setup_ui.py:647`) where
  the agent takes it as off (`agent.py:159`).
* `ui/login_dialog.py:225`: the task for a request that raised names `e` after Python has
  deleted it, so the main thread raises NameError and the user is told nothing,
  unless the task runs before the worker has left its handler (`mute`).
* Every block or release from the window begins one more endless refresh loop
  (`_update_zt_status` sets a timer of its own; `timers`).
* A second worker of the login that is accepted late sets the role of the process after the
  window has opened with the first one's (`late`).
* A signal in the Wazuh mode before that monitor runs makes `stop()` raise in
  `wazuh_monitor.py:153` (a thread that never started cannot be joined): the server is not
  told, and the channels are not stopped (`AgentLifecycle`, step "crash").
* When the Security log is full its count stays, and failed logons go unseen (`dropped`);
  if a sequential read goes on where the last one ended, only the first check sees any.
* An agent started while the window writes config.yaml finds an empty or a torn
  file and ends; one that encrypts a secret can put back settings that were just replaced
  (`crossed`).
* `EventQueue` would keep events over an outage, but nobody creates one: an event whose
  retries are used up is lost.
* A network dictionary that is full is emptied without being sent (`cleared`).
* The psutil fall-back divides the bytes of an interval by the number of connections seen so
  far (`network_monitor.py`, `_poll_psutil`), so that n connections are given the bytes of
  the interval 1 + 1/2 + ... + 1/n times. It is not modelled.

## 6. Not modelled, and why

* Of the settings window: layout, the tray icon, the connection test, the scan of
  connections, the diagnosis tab (snapshots compared on demand) and the self tests of
  `agent.py`; `run_setup(force=False)`, which nobody calls.
* Credentials, TLS, DNS and address helpers: sequential calls into libraries without
  state that others share. That a secret gets encrypted is in `ConfigFile`.
* What Windows' event log functions do beyond what `AuthMonitor` says; file times that do
  not change with a write; a watchdog observer that fails.
* Texts, severities and fields of events; the normalisation's wording.
* The psutil fall-back of the network monitor: one thread, whose only state is the last
  counters of the interfaces.
* Time, but for `FileWatcher`, which counts half intervals: delays, timeouts and
  token ages are events that may come at any moment.
* Loss of power (a file that was not synchronised) and errors of sqlite3 other than a
  crash.
* Two agents on one machine, but for the configuration they share (`ConfigFile`) and the
  local blocks (`FirewallAgent`): the state file of the firewall then has two writers with
  a lock each.

## 7. Plan

Done, in this order: the firewall with its state file and the session; the queue, the
biometrics and the monitors; then the life cycle, the windows, the configuration, the
logon monitor and the mouse log, composed in `BeaconGuardian`; then the theorems for every
invariant of a passing run. Left:

1. The safety half of the other liveness properties, as invariants: that a row of the event
   queue that was taken is not left behind by its worker; that a desired state the firewall has not
   reached has a cycle under way or a poll due; that a call of the session always has an end it can come to.
2. An abstract firewall ("the rules are those of some revision, plus the local
   ones") that channel A implements when it runs alone.
3. A second agent process on the firewall's state file (`LocalStateStore` with a lock per
   process and one temporary file).
