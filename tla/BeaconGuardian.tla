---------------------------- MODULE BeaconGuardian ----------------------------
(***************************************************************************)
(* The parts of the program beside the firewall, the session with the      *)
(* server and the event queue.  Each has threads and state of its own, and *)
(* they meet only in BeaconClient and the firewall, which have modules of  *)
(* their own, or not at all; so each runs with its surroundings alone, as  *)
(* a program in which just that part is there.                             *)
(***************************************************************************)
EXTENDS SuricataMonitor, WazuhMonitor, NetworkMonitor, BrowserMonitor, SnapshotMonitors,
        FileWatcher, SecurityEvents, AuthMonitor, MouseLog, InputBiometricMonitor,
        AgentLifecycle, LoginDialog, SettingsWindow, ConfigFile, ConfigWatcher

PartNames ==
  {"suricata", "wazuh", "network", "browser_history", "process and usb", "filesystem",
   "events", "auth", "mouse log", "biometric", "agent", "login", "window", "config",
   "config watcher"}

VARIABLE part   \* the one that is there

vars == <<part, suricataVars, wazuhVars, networkVars, browserVars, snapshotVars,
          watcherVars, securityVars, authVars, mouseVars, biometricVars, lifeVars,
          loginVars, windowVars, configVars, watcherOfConfigVars>>

TypeOK ==
  /\ part \in PartNames
  /\ part = "suricata" => SuricataTypeOK
  /\ part = "wazuh" => WazuhTypeOK
  /\ part = "network" => NetworkTypeOK
  /\ part = "browser_history" => BrowserTypeOK
  /\ part = "process and usb" => SnapshotTypeOK
  /\ part = "filesystem" => FileWatcherTypeOK
  /\ part = "events" => SecurityTypeOK
  /\ part = "auth" => AuthTypeOK
  /\ part = "mouse log" => MouseLogTypeOK
  /\ part = "biometric" => BiometricTypeOK
  /\ part = "agent" => LifeTypeOK
  /\ part = "login" => LoginTypeOK
  /\ part = "window" => WindowTypeOK
  /\ part = "config" => ConfigTypeOK
  /\ part = "config watcher" => ConfigWatcherTypeOK

\* A part that is not there is in one of its initial states, no matter which.
Init ==
  /\ part \in PartNames
  /\ SuricataInit /\ (part # "suricata" => eve = <<>> /\ manage_process)
  /\ WazuhInit /\ NetworkInit /\ BrowserInit
  /\ SnapshotInit /\ (part # "process and usb" => \A kind \in Kinds : there[kind] = {})
  /\ FileWatcherInit /\ (part # "filesystem" => directories = <<>>)
  /\ SecurityInit /\ (part # "events" => ~enabled)
  /\ AuthInit /\ (part # "auth" => anew /\ newest = 0 /\ auth.step = "count")
  /\ MouseLogInit /\ BiometricInit
  /\ \E e \in {"builtin", "wazuh"} : LifeInit(e)
  /\ part # "agent" => engine = "builtin"
  /\ LoginInit /\ (part # "login" => dialog = "open")
  /\ \E tab \in {"status", "events"} : WindowInit(tab)
  /\ part # "window" => view = "status" /\ truth = 0
  /\ ConfigInit /\ (part # "config" => file = Bad("missing"))
  /\ ConfigWatcherInit /\ (part # "config watcher" => watchdog)

-----------------------------------------------------------------------------

\* A step of part p changes nothing else.
Only(p) ==
  /\ part = p /\ UNCHANGED part
  /\ p # "suricata" => UNCHANGED suricataVars
  /\ p # "wazuh" => UNCHANGED wazuhVars
  /\ p # "network" => UNCHANGED networkVars
  /\ p # "browser_history" => UNCHANGED browserVars
  /\ p # "process and usb" => UNCHANGED snapshotVars
  /\ p # "filesystem" => UNCHANGED watcherVars
  /\ p # "events" => UNCHANGED securityVars
  /\ p # "auth" => UNCHANGED authVars
  /\ p # "mouse log" => UNCHANGED mouseVars
  /\ p # "biometric" => UNCHANGED biometricVars
  /\ p # "agent" => UNCHANGED lifeVars
  /\ p # "login" => UNCHANGED loginVars
  /\ p # "window" => UNCHANGED windowVars
  /\ p # "config" => UNCHANGED configVars
  /\ p # "config watcher" => UNCHANGED watcherOfConfigVars

SuricataStep == part = "suricata" /\ SuricataNext /\ Only("suricata")
WazuhStep == part = "wazuh" /\ WazuhNext /\ Only("wazuh")
NetworkStep == part = "network" /\ NetworkNext /\ Only("network")
BrowserStep == part = "browser_history" /\ BrowserNext /\ Only("browser_history")
SnapshotStep == part = "process and usb" /\ SnapshotNext /\ Only("process and usb")
FileWatcherStep == part = "filesystem" /\ FileWatcherNext /\ Only("filesystem")
SecurityStep == part = "events" /\ SecurityNext /\ Only("events")
AuthStep == part = "auth" /\ AuthNext /\ Only("auth")
MouseLogStep == part = "mouse log" /\ MouseLogNext /\ Only("mouse log")
BiometricStep == part = "biometric" /\ BiometricNext /\ Only("biometric")
LifeStep == part = "agent" /\ LifeNext /\ Only("agent")
LoginStep == part = "login" /\ LoginNext /\ Only("login")
WindowStep == part = "window" /\ WindowNext /\ Only("window")
ConfigStep == part = "config" /\ ConfigNext /\ Only("config")
ConfigWatcherStep == part = "config watcher" /\ ConfigWatcherNext /\ Only("config watcher")

Next ==
  \/ SuricataStep
  \/ WazuhStep
  \/ NetworkStep
  \/ BrowserStep
  \/ SnapshotStep
  \/ FileWatcherStep
  \/ SecurityStep
  \/ AuthStep
  \/ MouseLogStep
  \/ BiometricStep
  \/ LifeStep
  \/ LoginStep
  \/ WindowStep
  \/ ConfigStep
  \/ ConfigWatcherStep

Spec == Init /\ [][Next]_vars

\* What a step of a part alone needs, the rest of the state being what it is.
There(p, A) == part = p /\ A

\* A training goes on to its end.
TrainingEnds == \A t \in Trainings : WF_biometricVars(There("biometric", EngineStep(t)))

\* Requests return, and the main thread's timer fires and works the queue off.
LoginGoesOn ==
  /\ \A w \in Workers : WF_loginVars(There("login", Work(w)))
  /\ WF_loginVars(There("login", Poll))

\* Workers look and hand over, timers fire, and the main thread gets round to its tasks.
RefreshGoesOn ==
  /\ \A j \in Slots : /\ WF_windowVars(There("window", Look(j)))
                      /\ WF_windowVars(There("window", HandOver(j)))
  /\ WF_windowVars(There("window", Apply))
  /\ WF_windowVars(There("window", TimerFires))

\* The observer dispatches, timers go off, callbacks run, and so do the polling threads.
WatchingGoesOn ==
  /\ WF_watcherOfConfigVars(There("config watcher", _schedule_reload))
  /\ WF_watcherOfConfigVars(There("config watcher", _do_reload))
  /\ \A r \in Runs : /\ WF_watcherOfConfigVars(There("config watcher", TimerGoesOff(r)))
                     /\ WF_watcherOfConfigVars(There("config watcher", Baseline(r)))
                     /\ WF_watcherOfConfigVars(There("config watcher", CheckTime(r)))
                     /\ WF_watcherOfConfigVars(There("config watcher", CallBack(r)))

\* The parts whose progress the runs look at.
FairInit == Init /\ part \in {"biometric", "login", "window", "config watcher"}

FairSpec ==
  /\ FairInit /\ [][Next]_vars
  /\ TrainingEnds /\ LoginGoesOn /\ RefreshGoesOn /\ WatchingGoesOn

-----------------------------------------------------------------------------
(* A stop leaves nothing behind: the agent that has exited told every part and the server *)
(* (see MainStops); and after their stop() neither Suricata nor the child of the monitor  *)
(* of Wazuh runs that self.process names, unless it was just being started.               *)
(* (agent.py 625-675, 815-820, suricata_monitor.py 48-54, 174-187, wazuh_monitor.py       *)
(* 70-83, 145-153)                                                                        *)
StopIsComplete ==
  /\ MainStops
  /\ SuricataStops
  /\ wazuhStop = "done" /\ child.state = "running" => racedChild
=============================================================================
