------------------------------ MODULE ConfigFile ------------------------------
(***************************************************************************)
(* config.yaml: written by the settings window (ui/setup_ui.py), and read, *)
(* and sometimes written too, by every agent that starts (agent.py,        *)
(* core/credential_store.py).  Nothing locks it.  A write truncates the    *)
(* file and then fills it, as two steps that others may come between.      *)
(***************************************************************************)
EXTENDS Integers, FiniteSets

CONSTANTS
  Agents,     \* processes, at most one per start
  MaxSaves,
  MaxKills,   \* of the window
  Versions    \* values of the settings that need no distinction; 0 is among them

ASSUME ConfigFileAssumption ==
  MaxSaves \in Nat /\ MaxKills \in Nat /\ Versions \subseteq Nat /\ 0 \in Versions

\* block: biometric_auto_block.  secret: totp_secret, which the form does not show.
Settings == [block : {"unset", "off", "on"}, other : Versions, secret : {"plain", "enc"}]
DEFAULT_CONFIG == [block |-> "unset", other |-> 0, secret |-> "enc"]

Text(cfg) == [kind |-> "text", cfg |-> cfg]
Bad(kind) == [kind |-> kind, cfg |-> DEFAULT_CONFIG]

VARIABLES
  file,     \* "missing", "empty", "torn" (not YAML), or a "text" with its settings
  setup,    \* the window: closed, open, or in the middle of a save (and a start after it)
  data,     \* config_data, read when the window opened
  form,     \* what the window shows
  agent,    \* the agents: their step, and the settings they have read
  kills, saves,
  \* (history)
  saved,    \* the last save: the settings it wrote, and what the form showed
  crossed,  \* did a write come between another process's reading or truncating and its writing?
  cut,      \* was a process killed between truncating and writing?
  found     \* what an agent's start found: nothing yet, a "whole" file, one that was saved
            \* anew since ("old"), or "harm": none, half of one, one after such a mishap

configVars == <<file, setup, data, form, agent, kills, saves, saved, crossed, cut, found>>

ConfigTypeOK ==
  /\ file \in {Bad(k) : k \in {"missing", "empty", "torn"}} \cup {Text(c) : c \in Settings}
  /\ setup \in {"closed", "open", "saving", "starting"}
  /\ data \in Settings
  /\ form \in [block : {"off", "on"}, other : Versions]
  /\ agent \in [Agents -> [step : {"off", "load", "rewrite", "write", "run", "dead"},
                           cfg : Settings]]
  /\ kills \in 0 .. MaxKills /\ saves \in 0 .. MaxSaves
  /\ saved \in [cfg : Settings, form : [block : {"off", "on"}, other : Versions]]
  /\ crossed \in BOOLEAN /\ cut \in BOOLEAN
  /\ found \in [Agents -> {"nothing", "whole", "old", "harm"}]

\* _spin_field(..., 1 if mc.get("biometric_auto_block", True) else 0), and all the others
FormOf(cfg) ==
  [block |-> IF cfg.block = "unset" THEN "on" ELSE cfg.block, other |-> cfg.other]

ConfigInit ==
  /\ file \in {Bad("missing")} \cup {Text([block |-> b, other |-> 0, secret |-> s]) :
                                       b \in {"unset", "off", "on"}, s \in {"plain", "enc"}}
  /\ setup = "closed"
  /\ data = DEFAULT_CONFIG /\ form = FormOf(data)
  /\ agent = [a \in Agents |-> [step |-> "off", cfg |-> DEFAULT_CONFIG]]
  /\ kills = 0 /\ saves = 0
  /\ saved = [cfg |-> DEFAULT_CONFIG, form |-> FormOf(DEFAULT_CONFIG)]
  /\ crossed = FALSE /\ cut = FALSE
  /\ found = [a \in Agents |-> "nothing"]

-----------------------------------------------------------------------------
\* What others have under way.

WindowWrites == setup \in {"saving", "starting"}

\* A process that writes what it read before, or over what others write at the same time.
Rewriting(a) == agent[a].step \in {"rewrite", "write"} /\ agent[a].cfg.secret = "plain"
MidWrite == WindowWrites \/ \E a \in Agents : agent[a].step = "write"

\* The second half of a write: another's text that is there meanwhile is overwritten from
\* its beginning, and may be longer.
Fill(cfg) == file' \in IF file.kind = "empty" THEN {Text(cfg)} ELSE {Text(cfg), Bad("torn")}

-----------------------------------------------------------------------------
\* The window.

\* SetupApp.__init__ with load_config; a file that is not YAML ends it.
OpenSetup ==
  /\ setup = "closed" /\ file.kind # "torn"
  /\ setup' = "open"
  /\ data' = IF file.kind = "text" THEN file.cfg ELSE DEFAULT_CONFIG
  /\ form' = FormOf(data')
  /\ UNCHANGED <<file, agent, kills, saves, saved, crossed, cut, found>>

Edit ==
  /\ setup = "open"
  /\ form' \in [block : {"off", "on"}, other : Versions]
  /\ UNCHANGED <<file, setup, data, agent, kills, saves, saved, crossed, cut, found>>

\* The settings of config_data that are not listed as replaced come last and prevail:
\* biometric_auto_block (as biometric_target_samples) is not listed.
_collect_config ==
  [block |-> IF data.block = "unset" THEN form.block ELSE data.block,
   other |-> form.other, secret |-> data.secret]

\* What a window that is gone has read is gone with it.
Forget(next) ==
  IF next = "closed" THEN data' = DEFAULT_CONFIG /\ form' = FormOf(data')
                     ELSE UNCHANGED <<data, form>>

\* _save_only and _save_and_start: save_config truncates ...
BeginSave(then) ==
  /\ setup = "open" /\ saves < MaxSaves /\ saves' = saves + 1
  /\ setup' = then
  /\ file' = Bad("empty")
  /\ saved' = [cfg |-> _collect_config, form |-> form]
  /\ crossed' = (crossed \/ \E a \in Agents : Rewriting(a))
  /\ found' = [a \in Agents |-> IF found[a] = "whole" THEN "old" ELSE found[a]]
  /\ UNCHANGED <<data, form, agent, kills, cut>>

\* ... and writes; _launch_agent after it may fail, and an administrator's window closes.
EndSave ==
  /\ WindowWrites
  /\ Fill(saved.cfg)
  /\ \/ setup = "saving" /\ setup' = "open" /\ UNCHANGED agent
     \/ /\ setup = "starting" /\ setup' \in {"open", "closed"}
        /\ \/ UNCHANGED agent
           \/ \E a \in Agents : /\ agent[a].step = "off"
                                /\ agent' = [agent EXCEPT ![a].step = "load"]
  /\ Forget(setup')
  /\ UNCHANGED <<kills, saves, saved, crossed, cut, found>>

\* The window is closed, or killed.
CloseSetup ==
  /\ setup # "closed" /\ kills < MaxKills /\ kills' = kills + 1
  /\ setup' = "closed"
  /\ cut' = (cut \/ WindowWrites)
  /\ Forget("closed")
  /\ UNCHANGED <<file, agent, saves, saved, crossed, found>>

-----------------------------------------------------------------------------
\* The agents.

StartAgent(a) ==
  /\ agent[a].step = "off"
  /\ agent' = [agent EXCEPT ![a].step = "load"]
  /\ UNCHANGED <<file, setup, data, form, kills, saves, saved, crossed, cut, found>>

Encrypted(cfg) == [cfg EXCEPT !.secret = "enc"]
AlwaysDirty(cfg) == TRUE
Dirty(cfg) == cfg.secret = "plain"

\* _load_config: a missing file ends the process; an empty one has no settings to look into,
\* and the exception ends it too.
_load_config(a) ==
  /\ agent[a].step = "load"
  /\ agent' = [agent EXCEPT ![a] =
       [cfg |-> IF file.kind = "text" THEN file.cfg ELSE @.cfg,
        step |-> IF file.kind # "text" THEN "dead"
                 ELSE IF Dirty(file.cfg) THEN "rewrite" ELSE "run"]]
  /\ found' = [found EXCEPT ![a] =
       IF file.kind = "missing" \/ MidWrite \/ crossed \/ cut THEN "harm" ELSE "whole"]
  /\ UNCHANGED <<file, setup, data, form, kills, saves, saved, crossed, cut>>

\* A secret in plain text is encrypted, and the file written again.
Truncate(a) ==
  /\ agent[a].step = "rewrite"
  /\ agent' = [agent EXCEPT ![a].step = "write"]
  /\ file' = Bad("empty")
  /\ crossed' = (crossed \/ MidWrite)
  /\ UNCHANGED <<setup, data, form, kills, saves, saved, cut, found>>

Rewrite(a) ==
  /\ agent[a].step = "write"
  /\ Fill(Encrypted(agent[a].cfg))
  /\ agent' = [agent EXCEPT ![a] = [step |-> "run", cfg |-> Encrypted(@.cfg)]]
  /\ UNCHANGED <<setup, data, form, kills, saves, saved, crossed, cut, found>>

\* The agent's process ends.
AgentEnds(a) ==
  /\ agent[a].step \in {"load", "rewrite", "write", "run"}
  /\ agent' = [agent EXCEPT ![a] = [step |-> "dead", cfg |-> DEFAULT_CONFIG]]
  /\ cut' = (cut \/ agent[a].step = "write")
  /\ found' = [found EXCEPT ![a] = "harm"]
  /\ UNCHANGED <<file, setup, data, form, kills, saves, saved, crossed>>

ConfigNext ==
  \/ OpenSetup
  \/ Edit
  \/ \E then \in {"saving", "starting"} : BeginSave(then)
  \/ EndSave
  \/ CloseSetup
  \/ \E a \in Agents : \/ StartAgent(a) \/ _load_config(a)
                       \/ Truncate(a) \/ Rewrite(a) \/ AgentEnds(a)

ConfigSpec == ConfigInit /\ [][ConfigNext]_configVars

-----------------------------------------------------------------------------
(* What was saved stays, and agents start with it: unless two processes wrote at a time,  *)
(* or one was killed in the middle, the file holds what the last save wrote, up to the    *)
(* encryption of the secret; an agent that started since has just these settings; and     *)
(* none fails to start but for want of a whole file.                                      *)
(* (setup_ui.py 96-106, 1205-1350, agent.py 539-566)                                      *)
SavesKept ==
  /\ saves > 0 /\ ~MidWrite /\ ~crossed /\ ~cut =>
       file.kind = "text" /\ Encrypted(file.cfg) = Encrypted(saved.cfg)
  /\ \A a \in Agents :
       /\ agent[a].step = "dead" => found[a] = "harm"
       /\ saves > 0 /\ agent[a].step = "run" /\ found[a] = "whole" =>
            agent[a].cfg = Encrypted(saved.cfg)

-----------------------------------------------------------------------------
(* setup_ui.py:1331: what the window says it has saved is what it showed.                 *)
SavedIsShown == saves > 0 => FormOf(saved.cfg) = saved.form
=============================================================================
