----------------------------- MODULE LoginDialog -----------------------------
(***************************************************************************)
(* ui/login_dialog.py with core/app_context.py and core/role_utils.py, and *)
(* what setup_ui.py opens and starts after it.                             *)
(*                                                                         *)
(* Every click on the login button starts a worker thread.  A worker talks *)
(* to the dialog through gui_queue, whose tasks the main thread carries    *)
(* out in batches.  A task may open the prompt for a code: it waits inside *)
(* the batch until the prompt closes, and so do all tasks behind it.       *)
(***************************************************************************)
EXTENDS Integers, Sequences, FiniteSets

CONSTANTS
  MaxClicks,   \* on the login button
  MaxStarts    \* of the agent with the button of the settings window

ASSUME LoginAssumption == MaxClicks \in Nat /\ MaxStarts \in Nat

Workers == 1 .. MaxClicks
NoWorker == 0
Background == -1   \* USER_LOGIN_BACKGROUND
Skipped == -2      \* ui.skip_login: no dialog
Roles == {"user", "admin"}

VARIABLES
  dialog,     \* "open" or "closed" (destroyed)
  result,     \* result[0]: NoWorker, Background, Skipped, or the worker whose login it is
  gui_queue,
  poll,       \* poll_queue: "armed" as a timer, in a "batch", or "ended"
  prompt,     \* the worker whose code is asked for, or NoWorker
  worker,     \* worker[w]: its step, the role it was given, mfa_holder, and (history)
              \* whether the user was told why it failed
  app_role,   \* AppContext._role
  window,     \* what run_setup opens: its kind, its role, whether the automatic start
              \* of the agent is still to come, and _agent_launched_session
  agents,     \* how many agents were started
  \* (history)
  accepted,   \* the workers whose login the server accepted
  cancelled,  \* "no", "yes", or "prompt": the dialog was closed while a prompt was open
  mute,       \* the workers whose exception could not be told
  late,       \* the workers that were given a role when the window was already there
  starts      \* how often the user pressed the button that starts the agent

loginVars == <<dialog, result, gui_queue, poll, prompt, worker, app_role, window, agents,
               accepted, cancelled, late, mute, starts>>
dialogVars == <<dialog, result, gui_queue, poll, prompt>>
setupVars == <<window, agents, starts>>
history == <<accepted, cancelled, late, mute>>

LoginTypeOK ==
  /\ dialog \in {"open", "closed"}
  /\ result \in Workers \cup {NoWorker, Background, Skipped}
  /\ gui_queue \in Seq([task : {"fail", "error", "ask_mfa", "done"}, by : Workers])
  /\ poll \in {"armed", "batch", "ended"}
  /\ prompt \in Workers \cup {NoWorker}
  /\ worker \in [Workers ->
       [step : {"unused", "post", "wait", "verify", "granted", "raised", "ended"},
        role : Roles, code : {"unset", "none", "code"}, told : BOOLEAN]]
  /\ app_role \in Roles \cup {"none"}
  /\ window \in [kind : {"none", "shell", "setup", "gone"}, role : Roles, auto : BOOLEAN,
                 launched : BOOLEAN]
  /\ agents \in 0 .. MaxStarts + 1
  /\ {accepted, late, mute} \subseteq SUBSET Workers
  /\ cancelled \in {"no", "yes", "prompt"}
  /\ starts \in 0 .. MaxStarts

NoWindow == [kind |-> "none", role |-> "user", auto |-> FALSE, launched |-> FALSE]

\* SetupApp.__init__ with _apply_role_ui: a user's window starts the agent by itself soon
\* after, if there is a configuration.
SetupApp(role, auto) ==
  [NoWindow EXCEPT !.kind = "setup", !.role = role, !.auto = auto /\ role = "user"]

\* run_setup: ui.skip_login opens the window without the dialog.
LoginInit ==
  /\ \/ dialog = "open" /\ result = NoWorker /\ poll = "armed"
        /\ window = NoWindow /\ app_role = "none"
     \/ dialog = "closed" /\ result = Skipped /\ poll = "ended"
        /\ \E role \in Roles, auto \in BOOLEAN : window = SetupApp(role, auto)
        /\ app_role = window.role
  /\ gui_queue = <<>> /\ prompt = NoWorker
  /\ worker = [w \in Workers |->
       [step |-> "unused", role |-> "user", code |-> "unset", told |-> FALSE]]
  /\ agents = 0
  /\ accepted = {} /\ cancelled = "no" /\ late = {} /\ mute = {} /\ starts = 0

-----------------------------------------------------------------------------
\* The workers.

WorkerStep(w, step) == worker' = [worker EXCEPT ![w].step = step]
Put(task, w) == gui_queue' = Append(gui_queue, [task |-> task, by |-> w])

\* The worker's last task, which tells why it failed.
GiveUp(w) ==
  /\ Put("fail", w) /\ WorkerStep(w, "ended")
  /\ UNCHANGED <<dialog, result, poll, prompt, app_role, setupVars, history>>

\* A request that raises: the task for that names the exception, a variable that Python
\* deletes when the worker leaves the handler.
Raise(w) ==
  /\ Put("error", w) /\ WorkerStep(w, "raised")
  /\ UNCHANGED <<dialog, result, poll, prompt, app_role, setupVars, history>>

LeaveHandler(w) ==
  /\ worker[w].step = "raised" /\ WorkerStep(w, "ended")
  /\ UNCHANGED <<dialogVars, app_role, setupVars, history>>

\* claim: the role or userRole of the answer, if it says one that is known.
resolve_role_from_login_response(claim, listed) ==
  IF claim \in Roles THEN claim ELSE IF listed THEN "admin" ELSE "user"

\* AppContext.set_role, in the worker's thread
Grant(w) ==
  \E claim \in Roles \cup {"unsaid"}, listed \in BOOLEAN :
    LET role == resolve_role_from_login_response(claim, listed)
    IN  /\ worker' = [worker EXCEPT ![w].step = "granted", ![w].role = role]
        /\ app_role' = role
        /\ accepted' = accepted \cup {w}
        /\ late' = IF window.kind # "none" THEN late \cup {w} ELSE late
        /\ UNCHANGED <<dialogVars, setupVars, cancelled, mute>>

\* POST /api/auth/login
Login(w) ==
  /\ worker[w].step = "post"
  /\ \/ GiveUp(w)
     \/ Raise(w)
     \/ Grant(w)
     \/ /\ Put("ask_mfa", w) /\ WorkerStep(w, "wait")
        /\ UNCHANGED <<dialog, result, poll, prompt, app_role, setupVars, history>>

\* mfa_event.wait(timeout=120), which may end without an answer
AwaitCode(w) ==
  /\ worker[w].step = "wait"
  /\ \/ worker[w].code # "code" /\ GiveUp(w)
     \/ /\ worker[w].code = "code" /\ WorkerStep(w, "verify")
        /\ UNCHANGED <<dialogVars, app_role, setupVars, history>>

\* POST /api/auth/mfa/verify
VerifyCode(w) ==
  /\ worker[w].step = "verify"
  /\ GiveUp(w) \/ Raise(w) \/ Grant(w)

PutDone(w) ==
  /\ worker[w].step = "granted"
  /\ Put("done", w) /\ WorkerStep(w, "ended")
  /\ UNCHANGED <<dialog, result, poll, prompt, app_role, setupVars, history>>

Work(w) == Login(w) \/ AwaitCode(w) \/ VerifyCode(w) \/ PutDone(w) \/ LeaveHandler(w)

-----------------------------------------------------------------------------
\* poll_queue, in the main thread

NextTask == Head(gui_queue)

\* While the dialog is open the timer is set again after every batch.
EndsWhenEmpty == IF gui_queue = <<>> THEN "ended" ELSE "armed"
Rearm == IF dialog = "open" THEN "armed" ELSE "ended"

PollFires ==
  /\ poll = "armed" /\ dialog = "open"
  /\ poll' = "batch"
  /\ UNCHANGED <<dialog, result, gui_queue, prompt, worker, app_role, setupVars, history>>

\* fail, while the dialog is there
Tell(w) == worker' = IF dialog = "open" THEN [worker EXCEPT ![w].told = TRUE] ELSE worker

\* A task that raises ends the batch: one that touches a destroyed dialog (done has set the
\* result by then), and one for an exception that is no longer there.
DoTask ==
  /\ poll = "batch" /\ prompt = NoWorker /\ gui_queue # <<>>
  /\ gui_queue' = Tail(gui_queue)
  /\ LET w == NextTask.by
         nameless == NextTask.task = "error" /\ worker[w].step # "raised"
     IN  /\ poll' = IF dialog = "open" /\ ~nameless THEN poll ELSE Rearm
         /\ mute' = IF nameless THEN mute \cup {w} ELSE mute
         /\ \/ NextTask.task \in {"fail", "error"} /\ ~nameless /\ Tell(w)
               /\ UNCHANGED <<dialog, result, prompt>>
            \/ nameless /\ UNCHANGED <<dialog, result, prompt, worker>>
            \/ /\ NextTask.task = "ask_mfa"
               /\ prompt' = IF dialog = "open" THEN w ELSE NoWorker
               /\ UNCHANGED <<dialog, result, worker>>
            \/ /\ NextTask.task = "done"
               /\ result' = w /\ dialog' = "closed"
               /\ UNCHANGED <<prompt, worker>>
  /\ UNCHANGED <<app_role, setupVars, accepted, cancelled, late>>

EndBatch ==
  /\ poll = "batch" /\ prompt = NoWorker /\ gui_queue = <<>>
  /\ poll' = Rearm
  /\ UNCHANGED <<dialog, result, gui_queue, prompt, worker, app_role, setupVars, history>>

Poll == PollFires \/ DoTask \/ EndBatch

-----------------------------------------------------------------------------
\* The user.  The prompt grabs all input but the close button of the dialog behind it.

Responsive == dialog = "open" /\ poll # "batch"

\* on_ok
Click(w) ==
  /\ Responsive
  /\ worker[w].step = "unused" /\ \A v \in Workers : v < w => worker[v].step # "unused"
  /\ WorkerStep(w, "post")
  /\ UNCHANGED <<dialogVars, app_role, setupVars, history>>

\* The prompt closes with a code or without: mfa_holder is set, whether or not the worker
\* still waits.
AnswerPrompt(code) ==
  /\ prompt # NoWorker
  /\ worker' = [worker EXCEPT ![prompt].code = code]
  /\ prompt' = NoWorker
  /\ UNCHANGED <<dialog, result, gui_queue, poll, app_role, setupVars, history>>

\* on_cancel; a prompt goes with the dialog, and its task returns into the batch.
Cancel ==
  /\ dialog = "open" /\ (poll = "batch" => prompt # NoWorker)
  /\ dialog' = "closed" /\ result' = NoWorker
  /\ prompt' = NoWorker
  /\ worker' = [w \in Workers |->
       IF w = prompt THEN [worker[w] EXCEPT !.code = "none"] ELSE worker[w]]
  /\ cancelled' = IF prompt = NoWorker THEN "yes" ELSE "prompt"
  /\ UNCHANGED <<gui_queue, poll, app_role, setupVars, accepted, late, mute>>

\* With a configuration that names the server and the user.
on_user_background ==
  /\ Responsive
  /\ dialog' = "closed" /\ result' = Background
  /\ app_role' = "user"
  /\ UNCHANGED <<gui_queue, poll, prompt, worker, setupVars, history>>

-----------------------------------------------------------------------------
\* After the dialog.

RoleAsItWas(role) == app_role
RoleWhenOpened(role) == role

\* run_login returns when the callback that destroyed the dialog does.
OpenWindow ==
  /\ dialog = "closed" /\ poll # "batch" /\ window.kind = "none"
  /\ \/ /\ result = NoWorker
        /\ window' = [window EXCEPT !.kind = "gone"]
        /\ UNCHANGED <<agents, app_role>>
     \/ /\ result = Background
        /\ window' = [window EXCEPT !.kind = "shell"]
        /\ app_role' = "user"
        /\ agents' \in {agents, agents + 1}   \* _launch_agent may fail
     \/ /\ result \in Workers
        /\ \E auto \in BOOLEAN : window' = SetupApp(worker[result].role, auto)
        /\ app_role' = RoleWhenOpened(worker[result].role)
        /\ UNCHANGED agents
  /\ UNCHANGED <<dialogVars, worker, history, starts>>

\* 400 ms after a user's window opened
_enter_user_background ==
  /\ window.kind = "setup" /\ window.auto
  /\ \/ /\ ~window.launched
        /\ agents' = agents + 1
        /\ window' = [window EXCEPT !.auto = FALSE, !.launched = TRUE]
     \/ window' = [window EXCEPT !.auto = FALSE] /\ UNCHANGED agents
  /\ UNCHANGED <<dialogVars, worker, app_role, history, starts>>

\* An administrator's window closes with it.
_save_and_start ==
  /\ window.kind = "setup" /\ starts < MaxStarts
  /\ agents' \in {agents, agents + 1}
  /\ window' = IF window.role = "user" THEN [window EXCEPT !.launched = TRUE]
                                       ELSE [window EXCEPT !.kind = "gone"]
  /\ starts' = starts + 1
  /\ UNCHANGED <<dialogVars, worker, app_role, history>>

_on_admin_quit_request ==
  /\ window.kind = "setup" /\ window.role = "admin"
  /\ window' = [window EXCEPT !.kind = "gone"]
  /\ UNCHANGED <<dialogVars, worker, app_role, agents, history, starts>>

LoginNext ==
  \/ \E w \in Workers : Click(w) \/ Work(w)
  \/ Poll
  \/ \E code \in {"none", "code"} : AnswerPrompt(code)
  \/ Cancel
  \/ on_user_background
  \/ OpenWindow
  \/ _enter_user_background
  \/ _save_and_start
  \/ _on_admin_quit_request

-----------------------------------------------------------------------------
(* What opens is what was asked for: a login comes from a worker the server accepted,     *)
(* however many run and answer late; a cancelled dialog opens nothing, unless it was      *)
(* closed over a prompt with another worker's success waiting behind it; AppContext has   *)
(* the window's role until a worker finishes after the window opened; and beyond the one  *)
(* automatic start there are no more agents than presses of the button.                   *)
(* (login_dialog.py 107-277, setup_ui.py 402-458, 1334-1350, 2000-2098)                   *)
OpensAsAsked ==
  /\ result \in Workers => result \in accepted
  /\ cancelled = "yes" => result = NoWorker
  /\ cancelled = "prompt" => result \in accepted \cup {NoWorker}
  /\ window.kind \in {"shell", "setup"} /\ late = {} => app_role = window.role
  /\ agents <= starts + 1

(* As long as prompts do not stay open, every login that was begun has an outcome: the    *)
(* dialog says why it failed, or closes.  Prompts of others, an unanswered one, and one   *)
(* that is answered too late only delay it.  Only the text for a request that raised,     *)
(* which raises itself, stays out.  (login_dialog.py 125-140, 163-234)                    *)
ClicksAnswered ==
  []<>(prompt = NoWorker) =>
    \A w \in Workers :
      worker[w].step # "unused" ~> worker[w].told \/ w \in mute \/ dialog = "closed"
=============================================================================
