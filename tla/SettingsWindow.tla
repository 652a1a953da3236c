---------------------------- MODULE SettingsWindow ----------------------------
(***************************************************************************)
(* ui/setup_ui.py: the two tabs that keep what they show up to date.       *)
(*                                                                         *)
(* "status" shows whether the network is blocked, a fact that this window  *)
(* and the agent, another process, change.  "events" shows the list that   *)
(* the chosen filter selects at the server.  Both refresh themselves with  *)
(* a timer and a worker thread: the worker looks, and has the main thread  *)
(* show what it saw.  Refreshes overlap, and fail.                         *)
(*                                                                         *)
(* The two tabs share nothing, and a behaviour is about one of them.       *)
(***************************************************************************)
EXTENDS Integers, Sequences, FiniteSets

CONSTANTS
  MaxJobs,     \* refreshes under way (any number in reality)
  MaxPresses,  \* of the tab's buttons
  MaxFlips,    \* how often the agent blocks or releases the network
  MaxFailures  \* refreshes and commands that fail

ASSUME SettingsWindowAssumption ==
  MaxJobs \in Nat \ {0} /\ {MaxPresses, MaxFlips, MaxFailures} \subseteq Nat

Slots == 1 .. MaxJobs
Values == {0, 1}   \* released and blocked; _monitor_filter_high_risk

VARIABLES
  view,     \* which tab
  truth,    \* what it should show
  shown,
  open,     \* current_step is the tab's
  token,    \* the window's login; nobody renews it
  timers,   \* how many refresh loops wait for their timer
  job,      \* the workers: their step and what they saw
  applies,  \* after(0, ...): what the main thread is still to show
  box,      \* is a message box open, behind which the refresh waits?
  presses, flips, errors

windowVars == <<view, truth, shown, open, token, timers, job, applies, box, presses, flips, errors>>

WindowTypeOK ==
  /\ view \in {"status", "events"} /\ truth \in Values /\ shown \in Values
  /\ open \in BOOLEAN /\ box \in BOOLEAN /\ token \in {"none", "good", "expired"}
  /\ timers \in Nat
  /\ job \in [Slots -> [step : {"free", "look", "hand over"}, value : Values]]
  /\ applies \in Seq(Values)
  /\ presses \in 0 .. MaxPresses /\ flips \in 0 .. MaxFlips /\ errors \in 0 .. MaxFailures

\* _build_step6, _build_step7: the loop begins with the window.
WindowInit(tab) ==
  /\ view = tab
  /\ truth \in Values /\ (tab = "events" => truth = 0)
  /\ shown = 0
  /\ open = (tab = "status")
  /\ token \in (IF tab = "events" THEN {"none", "good"} ELSE {"none"})
  /\ timers = 1
  /\ job = [j \in Slots |-> [step |-> "free", value |-> 0]]
  /\ applies = <<>>
  /\ box = FALSE
  /\ presses = 0 /\ flips = 0 /\ errors = 0

-----------------------------------------------------------------------------

Free == {j \in Slots : job[j].step = "free"}
Room == Len(applies) < Cardinality(Free)

\* A new thread.
StartWorker ==
  /\ Room
  /\ \E j \in Free : /\ \A i \in Free : j <= i
                     /\ job' = [job EXCEPT ![j].step = "look"]

Saw(j, value) == [job EXCEPT ![j] = [step |-> "hand over", value |-> value]]

\* is_blocked(), which asks PowerShell; or the request for the events, for which the thread
\* itself reads the filter.  A listing of the rules that fails has no rules: "not blocked".
Look(j) ==
  /\ job[j].step = "look"
  /\ \/ /\ token # "expired"
        /\ job' = Saw(j, truth)
        /\ UNCHANGED errors
     \/ /\ token = "expired"
        /\ job' = [job EXCEPT ![j].step = "free"]
        /\ UNCHANGED errors
     \/ /\ errors < MaxFailures /\ errors' = errors + 1
        /\ \/ job' = [job EXCEPT ![j].step = "free"]
           \/ view = "status" /\ job' = Saw(j, 0)
  /\ UNCHANGED <<view, truth, shown, open, token, timers, applies, box, presses, flips>>

HandOver(j) ==
  /\ job[j].step = "hand over"
  /\ applies' = Append(applies, job[j].value)
  /\ job' = [job EXCEPT ![j] = [step |-> "free", value |-> 0]]
  /\ UNCHANGED <<view, truth, shown, open, token, timers, box, presses, flips, errors>>

\* _apply_zt_updates, _update_event_table
Apply ==
  /\ applies # <<>>
  /\ shown' = Head(applies) /\ applies' = Tail(applies)
  /\ UNCHANGED <<view, truth, open, token, timers, job, box, presses, flips, errors>>

\* Each call of the loop sets the timer again, whatever becomes of its worker.
OneCallOnly(n) == n - 1
AfterCall(n) == n

\* _fetch_monitor_data asks for nothing before the login.
_fetch_monitor_data == IF token = "none" THEN UNCHANGED job ELSE StartWorker

\* _monitor_loop looks only when its tab is open, _update_zt_status always.
TimerFires ==
  /\ timers > 0
  /\ CASE view = "status" -> StartWorker
       [] view = "events" -> IF open THEN _fetch_monitor_data ELSE UNCHANGED job
  /\ timers' = AfterCall(timers)
  /\ UNCHANGED <<view, truth, shown, open, token, applies, box, presses, flips, errors>>

-----------------------------------------------------------------------------

\* _on_monitor_show_all, _on_monitor_show_high_risk, and the button that refreshes
_on_monitor_show(filter) ==
  /\ view = "events" /\ open
  /\ presses < MaxPresses /\ presses' = presses + 1
  /\ truth' = filter
  /\ _fetch_monitor_data
  /\ UNCHANGED <<view, shown, open, token, timers, applies, box, flips, errors>>

\* The server no longer takes the window's token.
TokenExpires ==
  /\ view = "events" /\ token = "good" /\ token' = "expired"
  /\ UNCHANGED <<view, truth, shown, open, timers, job, applies, box, presses, flips, errors>>

\* _on_tab_changed
_on_tab_changed ==
  /\ view = "events"
  /\ open' = ~open
  /\ UNCHANGED <<view, truth, shown, token, timers, job, applies, box, presses, flips, errors>>

\* _on_unblock_network, _on_manual_block_network: only a success is followed by a refresh,
\* once the user has closed the box that tells of it.  unblock_network reports a success
\* whatever its scripts do; a script that blocks and fails may have removed the rule, or
\* added it.
PressSwitch(blocked) ==
  /\ view = "status" /\ ~box
  /\ presses < MaxPresses /\ presses' = presses + 1
  /\ \/ truth' = blocked /\ box' = TRUE /\ UNCHANGED errors
     \/ /\ errors < MaxFailures /\ errors' = errors + 1
        /\ \/ blocked = 0 /\ box' = TRUE /\ UNCHANGED truth
           \/ blocked = 1 /\ truth' \in Values /\ UNCHANGED box
  /\ UNCHANGED <<view, shown, open, token, timers, job, applies, flips>>

\* _update_zt_status, called once more, begins a loop of its own.
CloseBox ==
  /\ box /\ box' = FALSE
  /\ StartWorker
  /\ timers' = timers + 1
  /\ UNCHANGED <<view, truth, shown, open, token, applies, presses, flips, errors>>

\* The agent blocks or releases the network.
OthersSwitch ==
  /\ view = "status" /\ flips < MaxFlips /\ flips' = flips + 1
  /\ truth' = 1 - truth
  /\ UNCHANGED <<view, shown, open, token, timers, job, applies, box, presses, errors>>

Refreshing == (\E j \in Slots : Look(j) \/ HandOver(j)) \/ Apply \/ TimerFires

WindowNext ==
  \/ Refreshing
  \/ \E v \in Values : _on_monitor_show(v) \/ PressSwitch(v)
  \/ TokenExpires
  \/ _on_tab_changed
  \/ CloseBox
  \/ OthersSwitch

-----------------------------------------------------------------------------
(* The window catches up: when the network, or the filter, no longer changes, the tab     *)
(* ends up showing it for good, although refreshes overlap, an old answer may be shown    *)
(* after a newer one, and some fail, of which a failed listing of the rules shows a       *)
(* blocked network as normal meanwhile.  The tab of events does so only as long as it     *)
(* stays open and the server takes the window's token.                                    *)
(* (setup_ui.py 885-935, 1638-1700, 1877-1907, wfas_applier.py 60-95)                     *)
WindowCatchesUp ==
  view = "status" \/ <>[](open /\ token = "good") => <>[](shown = truth)
=============================================================================
