---------------------------- MODULE AgentLifecycle ----------------------------
(***************************************************************************)
(* agent.py: run() and stop() of the agent, and the signals.  A signal     *)
(* calls stop() in the main thread wherever it is, also in stop() itself;  *)
(* stop() ends with sys.exit(), so what it interrupted never goes on.      *)
(*                                                                         *)
(* What each part does with start() and stop() is in its own module; here  *)
(* it only matters which of them may raise.                                *)
(***************************************************************************)
EXTENDS Integers, Sequences

CONSTANT MaxSignals

ASSUME AgentLifecycleAssumption == MaxSignals \in Nat

VARIABLES
  engine,     \* monitoring.engine
  main,       \* the main thread: its step, and the part it comes to next
  started, told,   \* the parts that start() and stop() have been called of
  closed,     \* how often the handle of the event log was closed
  finished,   \* disconnect, stop_heartbeat and clear_credentials that returned, in order
  signals

lifeVars == <<engine, main, started, told, closed, finished, signals>>

\* The order of both lists in agent.py; only one of the last two monitors is there.
MonitorsOf(e) ==
  IF e = "wazuh"
  THEN <<"usb_mon", "net_mon", "file_watcher", "browser_mon", "input_bio_mon",
         "suricata_mon", "wazuh_mon">>
  ELSE <<"usb_mon", "net_mon", "proc_mon", "file_watcher", "browser_mon", "input_bio_mon",
         "suricata_mon", "auth_mon">>

StartOrder == MonitorsOf(engine) \o <<"firewall_cmds", "firewall_sync">>
OldStopOrder ==
  SubSeq(MonitorsOf(engine), 1, Len(MonitorsOf(engine)) - 1)
    \o <<"firewall_sync", "firewall_cmds">>
StopOrder == MonitorsOf(engine) \o <<"firewall_sync", "firewall_cmds">>
Farewell == <<"disconnect", "stop_heartbeat", "clear_credentials">>

Parts == {StartOrder[i] : i \in 1 .. Len(StartOrder)}

LifeTypeOK ==
  /\ engine \in {"builtin", "wazuh"}
  /\ main \in [step : {"login", "start", "loop", "stop", "farewell", "exit", "crash"},
               next : 1 .. 11]
  /\ started \subseteq Parts /\ told \subseteq Parts
  /\ closed \in 0 .. MaxSignals
  /\ \E n \in 0 .. 3 : finished = SubSeq(Farewell, 1, n)
  /\ signals \in 0 .. MaxSignals

LifeInit(e) ==
  /\ engine = e
  /\ main = [step |-> "login", next |-> 1]
  /\ started = {} /\ told = {} /\ closed = 0 /\ finished = <<>>
  /\ signals = 0

MainGoto(step, next) == main' = [step |-> step, next |-> next]
Ended == main.step \in {"exit", "crash"}

-----------------------------------------------------------------------------

\* client.login(), whether or not it succeeds
LoginReturns ==
  /\ main.step = "login" /\ MainGoto("start", 1)
  /\ UNCHANGED <<engine, started, told, closed, finished, signals>>

StartPart ==
  /\ main.step = "start"
  /\ started' = started \cup {StartOrder[main.next]}
  /\ IF main.next < Len(StartOrder) THEN MainGoto("start", main.next + 1)
                                    ELSE MainGoto("loop", 1)
  /\ UNCHANGED <<engine, told, closed, finished, signals>>

\* SIGINT or SIGTERM
Signal ==
  /\ ~Ended /\ signals < MaxSignals /\ signals' = signals + 1
  /\ MainGoto("stop", 1)
  /\ finished' = <<>>
  /\ UNCHANGED <<engine, started, told, closed>>

\* WazuhMonitor.stop joins its thread, which must have been started; AuthMonitor.stop closes
\* its handle, and may fail to close it again.
MayRaise(part) ==
  \/ part = "wazuh_mon" /\ part \notin started
  \/ part = "auth_mon" /\ closed > 0
MustRaise(part) == part = "wazuh_mon" /\ part \notin started

\* An exception goes out of stop(), and of whatever the signal interrupted.
StopPart ==
  /\ main.step = "stop"
  /\ LET part == StopOrder[main.next] IN
       /\ told' = told \cup {part}
       /\ closed' = IF part = "auth_mon" THEN closed + 1 ELSE closed
       /\ \/ MayRaise(part) /\ MainGoto("crash", 1)
          \/ /\ ~MustRaise(part)
             /\ IF main.next < Len(StopOrder) THEN MainGoto("stop", main.next + 1)
                                              ELSE MainGoto("farewell", 1)
  /\ UNCHANGED <<engine, started, finished, signals>>

\* client.disconnect(), stop_heartbeat(), clear_credentials(), and then sys.exit(0)
SayFarewell ==
  /\ main.step = "farewell"
  /\ finished' = Append(finished, Farewell[main.next])
  /\ IF main.next < Len(Farewell) THEN MainGoto("farewell", main.next + 1)
                                  ELSE MainGoto("exit", 1)
  /\ UNCHANGED <<engine, started, told, closed, signals>>

LifeNext ==
  \/ LoginReturns
  \/ StartPart
  \/ Signal
  \/ StopPart
  \/ SayFarewell

-----------------------------------------------------------------------------
(* A stop is complete, wherever it comes and however many follow: when the agent has      *)
(* exited, every part was told to stop, and the server was left, in order; and only a     *)
(* stop before the Wazuh monitor ran, or a second one, is cut short by an exception.      *)
(* (agent.py 625-675, 815-820)                                                            *)
MainStops ==
  /\ main.step = "exit" => told = Parts /\ finished = Farewell
  /\ main.step = "crash" => "wazuh_mon" \in Parts \ started \/ signals > 1
=============================================================================
