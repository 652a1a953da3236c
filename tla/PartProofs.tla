------------------------------ MODULE PartProofs ------------------------------
(***************************************************************************)
(* The inductive invariants of parts that have a thread or two: the life   *)
(* of the agent, the monitors of logons, of the mouse and of snapshots,    *)
(* what is done about events, the biometric engine with its monitor, the   *)
(* file of settings, the login dialog, and the monitors of the network and *)
(* of the browsers.  Each holds of the part's initial states, is kept by   *)
(* its steps, and has the part's property as a consequence; MonitorProofs  *)
(* draws the theorems about the program from them.                         *)
(***************************************************************************)
EXTENDS AgentLifecycle, AuthMonitor, MouseLog, SnapshotMonitors, SecurityEvents,
        InputBiometricMonitor, ConfigFile, LoginDialog, NetworkMonitor, BrowserMonitor,
        ChildProcessProofs, FiniteSetTheorems

\* The beginning of a sequence is one, too.
LEMMA FirstOfSeq ==
  ASSUME NEW S, NEW s \in Seq(S), NEW n \in 0 .. Len(s)
  PROVE  /\ SubSeq(s, 1, n) \in Seq(S) /\ Len(SubSeq(s, 1, n)) = n
         /\ \A i \in 1 .. n : SubSeq(s, 1, n)[i] = s[i]
<1> DEFINE begin == SubSeq(s, 1, n)
<1>1. Len(s) \in Nat /\ \A i \in 1 .. n : s[i] \in S
  BY LenProperties, ElementOfSeq
<1>2. /\ begin \in Seq(S)
      /\ Len(begin) = IF 1 <= n THEN n - 1 + 1 ELSE 0
      /\ \A i \in 1 .. n - 1 + 1 : begin[i] = s[1 + i - 1]
  <2> HIDE DEF begin
  <2> QED
    BY <1>1, SubSeqProperties DEF begin
<1> HIDE DEF begin
<1>3. Len(begin) = n /\ \A i \in 1 .. n : begin[i] = s[i]
  BY <1>1, <1>2
<1> QED
  BY <1>2, <1>3 DEF begin

-----------------------------------------------------------------------------
\* The life of the agent: agent.py.

\* All parts are in both orders, and a stop comes to the event log once.
LEMMA Orders ==
  ASSUME engine \in {"builtin", "wazuh"}
  PROVE  /\ Len(StartOrder) \in 9 .. 10 /\ Len(StopOrder) \in 9 .. 10
         /\ \A i \in 1 .. Len(StartOrder) : StartOrder[i] \in Parts
         /\ \A i \in 1 .. Len(StopOrder) : StopOrder[i] \in Parts
         /\ \A p \in Parts : \E i \in 1 .. Len(StopOrder) : StopOrder[i] = p
         /\ \A i \in 1 .. Len(StopOrder) : StopOrder[i] = "auth_mon" => i = 8
<1> DEFINE monitors == MonitorsOf(engine)
           fwStarts == <<"firewall_cmds", "firewall_sync">>
           fwStops == <<"firewall_sync", "firewall_cmds">>
           Names == {"usb_mon", "net_mon", "proc_mon", "file_watcher", "browser_mon",
                     "input_bio_mon", "suricata_mon", "wazuh_mon", "auth_mon",
                     "firewall_sync", "firewall_cmds"}
<1>1. /\ monitors \in Seq(Names) /\ Len(monitors) \in {7, 8}
      /\ \A i \in 1 .. Len(monitors) : monitors[i] = "auth_mon" => i = 8
  <2>1. CASE engine = "wazuh"
    <3>1. monitors = <<"usb_mon", "net_mon", "file_watcher", "browser_mon", "input_bio_mon",
                       "suricata_mon", "wazuh_mon">>
      BY <2>1 DEF MonitorsOf
    <3>2. Len(monitors) = 7 /\ \A i \in 1 .. 7 : monitors[i] # "auth_mon"
      BY <3>1
    <3>3. monitors \in Seq(Names)
      BY <3>1
    <3> QED
      BY <3>2, <3>3
  <2>2. CASE engine = "builtin"
    <3>1. monitors = <<"usb_mon", "net_mon", "proc_mon", "file_watcher", "browser_mon",
                       "input_bio_mon", "suricata_mon", "auth_mon">>
      BY <2>2 DEF MonitorsOf
    <3>2. Len(monitors) = 8 /\ \A i \in 1 .. 8 : monitors[i] = "auth_mon" => i = 8
      BY <3>1
    <3>3. monitors \in Seq(Names)
      BY <3>1
    <3> QED
      BY <3>2, <3>3
  <2> QED
    BY <2>1, <2>2
<1>2. /\ fwStarts \in Seq(Names) /\ Len(fwStarts) = 2
      /\ fwStarts[1] = "firewall_cmds" /\ fwStarts[2] = "firewall_sync"
      /\ fwStops \in Seq(Names) /\ Len(fwStops) = 2
      /\ fwStops[1] = "firewall_sync" /\ fwStops[2] = "firewall_cmds"
  <2>1. fwStarts \in Seq(Names) /\ fwStops \in Seq(Names)
    OBVIOUS
  <2> QED
    BY <2>1
<1>3. StartOrder = monitors \o fwStarts /\ StopOrder = monitors \o fwStops
  BY DEF StartOrder, StopOrder
<1> HIDE DEF monitors, fwStarts, fwStops, Names
<1>0. Len(monitors) \in Nat
  BY <1>1
<1>4. /\ Len(StartOrder) = Len(monitors) + 2
      /\ \A i \in 1 .. Len(monitors) + 2 :
           StartOrder[i] = IF i <= Len(monitors) THEN monitors[i] ELSE fwStarts[i - Len(monitors)]
  <2>1. /\ Len(monitors \o fwStarts) = Len(monitors) + Len(fwStarts)
        /\ \A i \in 1 .. Len(monitors) + Len(fwStarts) :
             (monitors \o fwStarts)[i] = IF i <= Len(monitors) THEN monitors[i]
                                                       ELSE fwStarts[i - Len(monitors)]
    BY <1>1, <1>2, ConcatProperties
  <2> QED
    BY <1>2, <1>3, <2>1
<1>5. /\ Len(StopOrder) = Len(monitors) + 2
      /\ \A i \in 1 .. Len(monitors) + 2 :
           StopOrder[i] = IF i <= Len(monitors) THEN monitors[i] ELSE fwStops[i - Len(monitors)]
  <2>1. /\ Len(monitors \o fwStops) = Len(monitors) + Len(fwStops)
        /\ \A i \in 1 .. Len(monitors) + Len(fwStops) :
             (monitors \o fwStops)[i] = IF i <= Len(monitors) THEN monitors[i]
                                                       ELSE fwStops[i - Len(monitors)]
    BY <1>1, <1>2, ConcatProperties
  <2> QED
    BY <1>2, <1>3, <2>1
<1> DEFINE n == Len(monitors)
<1>10. n \in {7, 8}
  BY <1>1
<1>11. /\ StartOrder[n + 1] = "firewall_cmds" /\ StartOrder[n + 2] = "firewall_sync"
       /\ StopOrder[n + 1] = "firewall_sync" /\ StopOrder[n + 2] = "firewall_cmds"
  BY <1>2, <1>4, <1>5, <1>10
<1>12. \A i \in 1 .. n : StartOrder[i] = monitors[i] /\ StopOrder[i] = monitors[i]
  BY <1>4, <1>5, <1>10
<1> HIDE DEF n
<1>13. \A i \in 1 .. n + 2 : i \in 1 .. n \/ i = n + 1 \/ i = n + 2
  BY <1>10
<1>14. n + 1 \in 1 .. n + 2 /\ n + 2 \in 1 .. n + 2 /\ 1 .. n \subseteq 1 .. n + 2
  BY <1>10
<1>15. Len(StartOrder) = n + 2 /\ Len(StopOrder) = n + 2
  BY <1>4, <1>5 DEF n
<1>6. \A i \in 1 .. Len(StartOrder) : StartOrder[i] \in Parts
  BY DEF Parts
<1>7. ASSUME NEW i \in 1 .. Len(StopOrder) PROVE StopOrder[i] \in Parts
  <2>1. \E j \in 1 .. Len(StartOrder) : StartOrder[j] = StopOrder[i]
    BY <1>11, <1>12, <1>13, <1>14, <1>15
  <2> QED
    BY <2>1, <1>6
<1>8. ASSUME NEW p \in Parts PROVE \E i \in 1 .. Len(StopOrder) : StopOrder[i] = p
  <2>1. PICK j \in 1 .. Len(StartOrder) : p = StartOrder[j]
    BY DEF Parts
  <2> QED
    BY <1>11, <1>12, <1>13, <1>14, <1>15, <2>1
<1>9. \A i \in 1 .. Len(StopOrder) : StopOrder[i] = "auth_mon" => i = 8
  BY <1>1, <1>11, <1>12, <1>13, <1>15 DEF n
<1> QED
  BY <1>6, <1>7, <1>8, <1>9, <1>10, <1>15

\* A stop has told the parts it has passed; the handle was closed at most once for each
\* signal, and by a stop that has not come to it only for an earlier one.
StoppingInv ==
  /\ main.step = "start" => main.next <= Len(StartOrder)
  /\ main.step = "stop" =>
       /\ main.next <= Len(StopOrder) /\ signals > 0 /\ finished = <<>>
       /\ \A i \in 1 .. main.next - 1 : StopOrder[i] \in told
       /\ main.next <= 8 => closed < signals
  /\ main.step \in {"farewell", "exit"} => told = Parts
  /\ main.step = "farewell" => main.next <= 3 /\ finished = SubSeq(Farewell, 1, main.next - 1)
  /\ main.step = "exit" => finished = Farewell
  /\ main.step = "crash" => "wazuh_mon" \in Parts \ started \/ signals > 1
  /\ closed <= signals

LifeInv == LifeTypeOK /\ StoppingInv

LEMMA LifeStarts == ASSUME NEW e \in {"builtin", "wazuh"}, LifeInit(e) PROVE LifeInv
<1>1. LifeTypeOK
  <2>1. 0 \in 0 .. 3 /\ SubSeq(Farewell, 1, 0) = <<>>
    BY EmptySeq DEF Farewell
  <2>2. \E n \in 0 .. 3 : finished = SubSeq(Farewell, 1, n)
    BY <2>1 DEF LifeInit
  <2>3. closed \in 0 .. MaxSignals /\ signals \in 0 .. MaxSignals
    BY AgentLifecycleAssumption DEF LifeInit
  <2> QED
    BY <2>2, <2>3 DEF LifeInit, LifeTypeOK
<1>2. main.step = "login" /\ closed = 0 /\ signals = 0
  BY DEF LifeInit
<1> QED
  BY <1>1, <1>2 DEF LifeInv, StoppingInv

MainSteps == {"login", "start", "loop", "stop", "farewell", "exit", "crash"}

LEMMA LifeTypes ==
  ASSUME LifeInv
  PROVE  /\ engine \in {"builtin", "wazuh"} /\ main \in [step : MainSteps, next : 1 .. 11]
         /\ started \subseteq Parts /\ told \subseteq Parts
         /\ signals \in 0 .. MaxSignals /\ closed \in 0 .. MaxSignals
         /\ signals \in Nat /\ closed \in Nat /\ closed <= signals
         /\ Len(StartOrder) \in Nat /\ Len(StartOrder) >= 9 /\ Len(StartOrder) <= 10
         /\ Len(StopOrder) \in Nat /\ Len(StopOrder) >= 9 /\ Len(StopOrder) <= 10
<1>1. /\ engine \in {"builtin", "wazuh"} /\ main \in [step : MainSteps, next : 1 .. 11]
      /\ started \subseteq Parts /\ told \subseteq Parts
      /\ signals \in 0 .. MaxSignals /\ closed \in 0 .. MaxSignals /\ closed <= signals
  BY DEF LifeInv, LifeTypeOK, MainSteps, StoppingInv
<1>2. \A n \in 9 .. 10 : n \in Nat /\ n >= 9 /\ n <= 10
  OBVIOUS
<1>3. Len(StartOrder) \in 9 .. 10 /\ Len(StopOrder) \in 9 .. 10
  BY <1>1, Orders
<1>4. signals \in Nat /\ closed \in Nat
  BY <1>1, AgentLifecycleAssumption
<1> QED
  BY <1>1, <1>2, <1>3, <1>4

LEMMA SameOrders ==
  ASSUME UNCHANGED engine
  PROVE  StartOrder' = StartOrder /\ StopOrder' = StopOrder /\ Parts' = Parts
  BY DEF StartOrder, StopOrder, Parts, MonitorsOf

\* The three calls of the farewell, as far as they have come.
LEMMA FarewellSaid ==
  /\ SubSeq(Farewell, 1, 0) = <<>>
  /\ \A n \in 1 .. 3 : Append(SubSeq(Farewell, 1, n - 1), Farewell[n]) = SubSeq(Farewell, 1, n)
  /\ SubSeq(Farewell, 1, 3) = Farewell
<1> DEFINE Calls == {"disconnect", "stop_heartbeat", "clear_credentials"}
<1>1. Farewell \in Seq(Calls) /\ Len(Farewell) = 3
  BY DEF Farewell
<1> HIDE DEF Calls
<1>2. ASSUME NEW n \in 1 .. 3
      PROVE  Append(SubSeq(Farewell, 1, n - 1), Farewell[n]) = SubSeq(Farewell, 1, n)
  <2> DEFINE former == SubSeq(Farewell, 1, n - 1)
             latter == SubSeq(Farewell, 1, n)
  <2>0. n - 1 \in 0 .. Len(Farewell) /\ n \in 0 .. Len(Farewell)
    BY <1>1
  <2>1. /\ former \in Seq(Calls) /\ Len(former) = n - 1
        /\ \A i \in 1 .. n - 1 : former[i] = Farewell[i]
    BY <1>1, <2>0, FirstOfSeq
  <2>2. /\ latter \in Seq(Calls) /\ Len(latter) = n
        /\ \A i \in 1 .. n : latter[i] = Farewell[i]
    BY <1>1, <2>0, FirstOfSeq
  <2>3. Farewell[n] \in Calls
    BY <1>1, ElementOfSeq
  <2> HIDE DEF former, latter
  <2>4. /\ Append(former, Farewell[n]) \in Seq(Calls) /\ Len(Append(former, Farewell[n])) = n
        /\ \A i \in 1 .. n : Append(former, Farewell[n])[i] = Farewell[i]
    BY <2>1, <2>3, AppendProperties
  <2>5. Append(former, Farewell[n]) = latter
    BY <2>2, <2>4, SeqEqual
  <2> QED
    BY <2>5 DEF former, latter
<1> QED
  BY <1>1, <1>2, FirstOfSeq, SeqEqual, EmptySeq

LEMMA LifeTypeStep ==
  ASSUME LifeInv, LifeNext
  PROVE  LifeTypeOK'
<1>1. /\ engine \in {"builtin", "wazuh"} /\ main \in [step : MainSteps, next : 1 .. 11]
      /\ started \subseteq Parts /\ told \subseteq Parts
      /\ signals \in 0 .. MaxSignals /\ closed \in 0 .. MaxSignals
      /\ Len(StartOrder) \in Nat /\ Len(StartOrder) >= 9 /\ Len(StartOrder) <= 10
      /\ Len(StopOrder) \in Nat /\ Len(StopOrder) >= 9 /\ Len(StopOrder) <= 10
  BY LifeTypes
<1>2. UNCHANGED engine /\ StartOrder' = StartOrder /\ StopOrder' = StopOrder /\ Parts' = Parts
  <2>1. UNCHANGED engine
    BY DEF LifeNext, LoginReturns, StartPart, Signal, StopPart, SayFarewell
  <2> QED
    BY <2>1, SameOrders
<1>3. \E n \in 0 .. 3 : finished' = SubSeq(Farewell, 1, n)
  <2>1. CASE UNCHANGED finished
    BY <2>1 DEF LifeInv, LifeTypeOK
  <2>2. CASE Signal
    <3>1. finished' = SubSeq(Farewell, 1, 0)
      BY <2>2, FarewellSaid DEF Signal
    <3> QED
      BY <3>1
  <2>3. CASE SayFarewell
    <3>1. main.next \in 1 .. 3 /\ finished = SubSeq(Farewell, 1, main.next - 1)
      BY <1>1, <2>3 DEF SayFarewell, LifeInv, StoppingInv
    <3>2. finished' = SubSeq(Farewell, 1, main.next)
      BY <2>3, <3>1, FarewellSaid DEF SayFarewell
    <3>3. main.next \in 0 .. 3
      BY <3>1
    <3> QED
      BY <3>2, <3>3, Zenon
  <2> QED
    BY <2>1, <2>2, <2>3 DEF LifeNext, LoginReturns, StartPart, StopPart
<1>4. main' \in [step : MainSteps, next : 1 .. 11]
  <2>1. CASE LoginReturns \/ Signal
    BY <2>1 DEF LoginReturns, Signal, MainGoto, MainSteps
  <2>2. CASE StartPart
    <3>1. \/ main' = [step |-> "start", next |-> main.next + 1] /\ main.next < Len(StartOrder)
          \/ main' = [step |-> "loop", next |-> 1]
      BY <2>2 DEF StartPart, MainGoto
    <3>2. main.next < Len(StartOrder) => main.next + 1 \in 1 .. 11
      <4>1. main.next \in 1 .. 11
        BY <1>1
      <4> QED
        BY <1>1, <4>1
    <3> QED
      BY <3>1, <3>2 DEF MainSteps
  <2>3. CASE StopPart
    BY <1>1, <2>3 DEF StopPart, MainGoto, MainSteps
  <2>4. CASE SayFarewell
    <3>1. Len(Farewell) = 3
      BY DEF Farewell
    <3> QED
      BY <1>1, <2>4, <3>1 DEF SayFarewell, MainGoto, MainSteps
  <2> QED
    BY <2>1, <2>2, <2>3, <2>4 DEF LifeNext
<1>5. started' \subseteq Parts
  <2>1. CASE UNCHANGED started
    BY <1>1, <2>1
  <2>2. CASE StartPart
    <3>1. main.next \in 1 .. Len(StartOrder)
      BY <1>1, <2>2 DEF StartPart, LifeInv, StoppingInv
    <3> QED
      BY <1>1, <2>2, <3>1, Orders DEF StartPart
  <2> QED
    BY <2>1, <2>2 DEF LifeNext, LoginReturns, Signal, StopPart, SayFarewell
<1>6. told' \subseteq Parts /\ closed' \in 0 .. MaxSignals
  <2>1. CASE UNCHANGED <<told, closed>>
    BY <1>1, <2>1
  <2>2. CASE StopPart
    <3>1. main.next \in 1 .. Len(StopOrder)
      BY <1>1, <2>2 DEF StopPart, LifeInv, StoppingInv
    <3>2. StopOrder[main.next] = "auth_mon" => closed < signals
      BY <1>1, <2>2, <3>1, Orders DEF StopPart, LifeInv, StoppingInv
    <3>3. closed' \in {closed, closed + 1} /\ (closed' = closed + 1 => closed < signals)
      <4>1. closed' = IF StopOrder[main.next] = "auth_mon" THEN closed + 1 ELSE closed
        BY <2>2 DEF StopPart
      <4> QED
        BY <1>1, <3>2, <4>1
    <3>4. told' = told \cup {StopOrder[main.next]}
      BY <2>2 DEF StopPart
    <3> QED
      BY <1>1, <3>1, <3>3, <3>4, Orders, AgentLifecycleAssumption
  <2> QED
    BY <2>1, <2>2 DEF LifeNext, LoginReturns, Signal, StartPart, SayFarewell
<1>7. signals' \in 0 .. MaxSignals
  BY <1>1, AgentLifecycleAssumption
     DEF LifeNext, LoginReturns, Signal, StartPart, SayFarewell, StopPart
<1> QED
  BY <1>1, <1>2, <1>3, <1>4, <1>5, <1>6, <1>7 DEF LifeTypeOK, MainSteps

LEMMA StoppingStep ==
  ASSUME LifeInv, LifeNext
  PROVE  StoppingInv'
<1>1. /\ main \in [step : MainSteps, next : 1 .. 11]
      /\ started \subseteq Parts /\ told \subseteq Parts
      /\ signals \in Nat /\ closed \in Nat /\ closed <= signals
      /\ Len(StartOrder) \in Nat /\ Len(StartOrder) >= 9 /\ Len(StartOrder) <= 10
      /\ Len(StopOrder) \in Nat /\ Len(StopOrder) >= 9 /\ Len(StopOrder) <= 10
      /\ engine \in {"builtin", "wazuh"}
  BY LifeTypes
<1>2. StartOrder' = StartOrder /\ StopOrder' = StopOrder /\ Parts' = Parts
  <2>1. UNCHANGED engine
    BY DEF LifeNext, LoginReturns, StartPart, Signal, StopPart, SayFarewell
  <2> QED
    BY <2>1, SameOrders
<1>3. CASE LoginReturns
  <2>1. main'.step = "start" /\ main'.next = 1 /\ UNCHANGED <<closed, signals>>
    BY <1>3 DEF LoginReturns, MainGoto
  <2>2. main'.next <= Len(StartOrder') /\ closed' <= signals'
    BY <1>1, <1>2, <2>1
  <2> QED
    BY <2>1, <2>2 DEF StoppingInv
<1>4. CASE StartPart
  <2>1. /\ \/ main'.step = "start" /\ main'.next = main.next + 1 /\ main.next < Len(StartOrder)
           \/ main'.step = "loop"
        /\ UNCHANGED <<closed, signals>>
    BY <1>4 DEF StartPart, MainGoto
  <2> QED
    BY <1>1, <1>2, <2>1 DEF StoppingInv
<1>5. CASE Signal
  <2>1. /\ main'.step = "stop" /\ main'.next = 1 /\ closed' = closed /\ signals' = signals + 1
        /\ finished' = <<>>
    BY <1>5 DEF Signal, MainGoto
  <2>2. /\ main'.next <= Len(StopOrder') /\ closed' < signals' /\ closed' <= signals'
        /\ signals' > 0
    BY <1>1, <1>2, <2>1
  <2>3. ~ \E i : i \in 1 .. main'.next - 1
    BY <2>1
  <2> QED
    BY <2>1, <2>2, <2>3 DEF StoppingInv
<1>6. CASE StopPart
  <2> DEFINE n == main.next
             p == StopOrder[main.next]
  <2>1. /\ n \in 1 .. Len(StopOrder) /\ signals > 0 /\ finished' = <<>>
        /\ \A i \in 1 .. n - 1 : StopOrder[i] \in told
        /\ n <= 8 => closed < signals
    BY <1>1, <1>6 DEF StopPart, LifeInv, StoppingInv
  <2>2. /\ told' = told \cup {p} /\ UNCHANGED <<signals, started>>
        /\ closed' = IF p = "auth_mon" THEN closed + 1 ELSE closed
        /\ \/ MayRaise(p) /\ main'.step = "crash"
           \/ main'.step = "stop" /\ main'.next = n + 1 /\ n < Len(StopOrder)
           \/ main'.step = "farewell" /\ main'.next = 1 /\ ~(n < Len(StopOrder))
    BY <1>6 DEF StopPart, MainGoto
  <2>3. p \in Parts /\ (p = "auth_mon" => n = 8)
    BY <1>1, <2>1, Orders
  <2> HIDE DEF n, p
  <2>4. closed' <= signals' /\ (n <= 7 => closed' < signals')
    BY <1>1, <2>1, <2>2, <2>3
  <2>5. CASE main'.step = "crash" /\ MayRaise(p)
    <3>1. "wazuh_mon" \in Parts \ started \/ signals > 1
      BY <1>1, <2>1, <2>3, <2>5 DEF MayRaise
    <3> QED
      BY <1>2, <2>2, <2>4, <2>5, <3>1 DEF StoppingInv
  <2>6. CASE main'.step = "stop" /\ main'.next = n + 1 /\ n < Len(StopOrder)
    <3>1. \A i \in 1 .. n : StopOrder[i] \in told'
      <4>1. \A i \in 1 .. n : i \in 1 .. n - 1 \/ i = n
        BY <2>1
      <4> QED
        BY <2>1, <2>2, <4>1 DEF n, p
    <3>2. (n + 1) - 1 = n /\ n + 1 <= Len(StopOrder) /\ (n + 1 <= 8 => n <= 7)
      BY <1>1, <2>1, <2>6
    <3> QED
      BY <1>2, <2>1, <2>2, <2>4, <2>6, <3>1, <3>2 DEF StoppingInv
  <2>7. CASE main'.step = "farewell" /\ main'.next = 1 /\ ~(n < Len(StopOrder))
    <3>1. \A i \in 1 .. Len(StopOrder) : i \in 1 .. n - 1 \/ i = n
      BY <1>1, <2>1, <2>7
    <3>2. \A i \in 1 .. Len(StopOrder) : StopOrder[i] \in told'
      BY <2>1, <2>2, <3>1 DEF n, p
    <3>3. told' = Parts
      BY <1>1, <2>2, <2>3, <3>2, Orders
    <3>4. finished' = SubSeq(Farewell, 1, main'.next - 1)
      <4>1. finished' = finished /\ main'.next - 1 = 0
        BY <1>6, <2>7 DEF StopPart
      <4>2. finished = <<>>
        BY <1>6 DEF StopPart, LifeInv, StoppingInv
      <4> QED
        BY <4>1, <4>2, FarewellSaid
    <3> QED
      BY <1>2, <2>4, <2>7, <3>3, <3>4 DEF StoppingInv
  <2> QED
    BY <2>2, <2>5, <2>6, <2>7
<1>7. CASE SayFarewell
  <2>1. /\ main.next \in 1 .. 3 /\ finished = SubSeq(Farewell, 1, main.next - 1) /\ told = Parts
        /\ Len(Farewell) = 3
    BY <1>1, <1>7 DEF SayFarewell, LifeInv, StoppingInv, Farewell
  <2>2. finished' = SubSeq(Farewell, 1, main.next)
    BY <1>7, <2>1, FarewellSaid DEF SayFarewell
  <2>3. /\ UNCHANGED <<told, closed, signals>>
        /\ \/ main'.step = "farewell" /\ main'.next = main.next + 1 /\ main.next < 3
           \/ main'.step = "exit" /\ main.next = 3
    BY <1>7, <2>1 DEF SayFarewell, MainGoto
  <2>4. main'.step = "farewell" => finished' = SubSeq(Farewell, 1, main'.next - 1)
    <3>1. (main.next + 1) - 1 = main.next
      BY <2>1
    <3> QED
      BY <2>2, <2>3, <3>1
  <2>5. main'.step = "exit" => finished' = Farewell
    BY <2>2, <2>3, FarewellSaid
  <2> QED
    BY <1>1, <1>2, <2>1, <2>3, <2>4, <2>5 DEF StoppingInv
<1> QED
  BY <1>3, <1>4, <1>5, <1>6, <1>7 DEF LifeNext

LEMMA LifeKeeps == LifeInv /\ [LifeNext]_lifeVars => LifeInv'
<1>1. ASSUME LifeInv, LifeNext PROVE LifeInv'
  BY <1>1, LifeTypeStep, StoppingStep DEF LifeInv
<1>2. ASSUME LifeInv, UNCHANGED lifeVars PROVE LifeInv'
  <2>1. /\ UNCHANGED <<engine, main, started, told, closed, finished, signals>>
        /\ StartOrder' = StartOrder /\ StopOrder' = StopOrder /\ Parts' = Parts
    BY <1>2, SameOrders DEF lifeVars
  <2> QED
    BY <1>2, <2>1 DEF LifeInv, LifeTypeOK, StoppingInv
<1> QED
  BY <1>1, <1>2

LEMMA MainStopsFromInv == LifeInv => MainStops
BY DEF LifeInv, StoppingInv, MainStops

-----------------------------------------------------------------------------
\* The monitor of logons: auth_monitor.py.

\* The log is no larger than it may be, and numbers are used once until it is cleared.
RecordsInv ==
  /\ Count <= Capacity /\ newest <= written
  /\ \A n \in failures : n <= newest

\* Before records are dropped, the counts are numbers of records.  What was reported once
\* before it was counted is counted when the next check reads it.
CountedInv ==
  ~dropped =>
    /\ oldest = 1 /\ first <= last_record_count /\ last_record_count <= newest
    /\ auth.step = "check" => last_record_count < auth.num_records /\ auth.num_records <= newest
    /\ \A n \in RecordNumbers :
         /\ n > newest \/ n <= first => reports[n] = 0
         /\ n > last_record_count => reports[n] <= 1
         /\ auth.step = "check" /\ n > auth.num_records => reports[n] = 0
    /\ FailuresReported

AuthInv == AuthTypeOK /\ RecordsInv /\ CountedInv

LEMMA AuthStarts == AuthInit => AuthInv
<1> SUFFICES ASSUME AuthInit PROVE AuthInv
  OBVIOUS
<1> USE AuthMonitorAssumption
<1>1. /\ newest \in {0, 1} /\ newest \in Nat /\ oldest = 1 /\ written = newest
      /\ last_record_count = newest /\ first = newest
      /\ failures \subseteq 1 .. newest /\ reports = [n \in RecordNumbers |-> 0]
  BY DEF AuthInit
<1>2. 0 \in 0 .. MaxRecords /\ 1 \in 0 .. MaxRecords /\ 0 \in 0 .. Capacity /\ 1 \in 0 .. Capacity
      /\ 0 \in 0 .. MaxReadErrors
  OBVIOUS
<1>3. AuthTypeOK
  <2>1. auth \in [step : {"count", "check", "ended"}, num_records : 0 .. Capacity]
    BY <1>2 DEF AuthInit
  <2>2. failures \subseteq RecordNumbers /\ oldest \in 1 .. newest + 1
    BY <1>1 DEF RecordNumbers
  <2>3. /\ newest \in 0 .. MaxRecords /\ written \in 0 .. MaxRecords
        /\ last_record_count \in 0 .. Capacity /\ first \in 0 .. Capacity
    BY <1>1, <1>2
  <2>4. reports \in [RecordNumbers -> Nat]
    BY <1>1
  <2> QED
    BY <1>2, <2>1, <2>2, <2>3, <2>4 DEF AuthInit, AuthTypeOK
<1>4. auth.step # "check"
  BY DEF AuthInit
<1>5. RecordsInv
  BY <1>1 DEF RecordsInv, Count
<1>6. \A n \in RecordNumbers : reports[n] = 0
  BY <1>1
<1>7. failures \subseteq RecordNumbers
  BY <1>3 DEF AuthTypeOK
<1>8. FailuresReported
  BY <1>1, <1>6, <1>7 DEF FailuresReported
<1> QED
  BY <1>1, <1>3, <1>4, <1>5, <1>6, <1>8 DEF AuthInv, CountedInv

AuthSteps == {"count", "check", "ended"}

LEMMA AuthTypes ==
  ASSUME AuthInv
  PROVE  /\ newest \in Nat /\ oldest \in Nat /\ oldest >= 1 /\ oldest <= newest + 1
         /\ newest <= MaxRecords /\ written \in Nat /\ written <= MaxRecords /\ newest <= written
         /\ auth \in [step : AuthSteps, num_records : 0 .. Capacity]
         /\ auth.num_records \in Nat /\ auth.num_records <= Capacity
         /\ last_record_count \in Nat /\ last_record_count <= Capacity /\ first \in Nat
         /\ Count \in Nat /\ Count <= Capacity
         /\ Capacity \in Nat /\ Capacity > 0 /\ MaxRecords \in Nat
         /\ failures \subseteq RecordNumbers /\ unread \subseteq RecordNumbers
         /\ reports \in [RecordNumbers -> Nat]
<1> USE AuthMonitorAssumption
<1>1. /\ newest \in 0 .. MaxRecords /\ oldest \in 1 .. newest + 1 /\ written \in 0 .. MaxRecords
      /\ auth \in [step : AuthSteps, num_records : 0 .. Capacity]
      /\ last_record_count \in 0 .. Capacity /\ first \in 0 .. Capacity
      /\ failures \subseteq RecordNumbers /\ unread \subseteq RecordNumbers
      /\ reports \in [RecordNumbers -> Nat]
  BY DEF AuthInv, AuthTypeOK, AuthSteps
<1>2. Count <= Capacity /\ newest <= written
  BY DEF AuthInv, RecordsInv
<1>3. newest \in Nat /\ oldest \in Nat /\ oldest >= 1 /\ oldest <= newest + 1 /\ Count \in Nat
  BY <1>1 DEF Count
<1>4. auth.num_records \in Nat /\ auth.num_records <= Capacity
  <2>1. auth.num_records \in 0 .. Capacity
    BY <1>1
  <2> QED
    BY <2>1
<1> QED
  BY <1>1, <1>2, <1>3, <1>4

LEMMA AuthTypeStep ==
  ASSUME AuthInv, AuthNext
  PROVE  AuthTypeOK' /\ RecordsInv'
<1> USE AuthMonitorAssumption
<1>0. AuthTypeOK /\ RecordsInv
  BY DEF AuthInv
<1>1. /\ newest \in Nat /\ oldest \in Nat /\ oldest >= 1 /\ oldest <= newest + 1
      /\ newest <= MaxRecords /\ written \in Nat /\ written <= MaxRecords /\ newest <= written
      /\ auth \in [step : AuthSteps, num_records : 0 .. Capacity]
      /\ last_record_count \in Nat /\ Count \in Nat /\ Count <= Capacity
      /\ Capacity \in Nat /\ Capacity > 0 /\ MaxRecords \in Nat
      /\ failures \subseteq RecordNumbers
  BY AuthTypes
<1>2. ASSUME NEW failed \in BOOLEAN, WriteRecord(failed)
      PROVE  AuthTypeOK' /\ RecordsInv'
  <2>1. /\ newest' = newest + 1 /\ written' = written + 1 /\ written < MaxRecords
        /\ oldest' = IF Count = Capacity THEN oldest + 1 ELSE oldest
        /\ failures' = failures \/ failures' = failures \cup {newest'}
        /\ UNCHANGED <<anew, auth, last_record_count, readErrors, checked, reports, first, unread>>
    BY <1>2 DEF WriteRecord
  <2>2. /\ newest' \in 0 .. MaxRecords /\ written' \in 0 .. MaxRecords /\ newest' \in RecordNumbers
        /\ newest' <= written'
    BY <1>1, <2>1 DEF RecordNumbers
  <2>3. oldest' \in 1 .. newest' + 1 /\ Count' <= Capacity
    <3>1. CASE Count = Capacity
      BY <1>1, <2>1, <3>1 DEF Count
    <3>2. CASE Count # Capacity
      BY <1>1, <2>1, <3>2 DEF Count
    <3> QED
      BY <3>1, <3>2
  <2>4. failures' \subseteq RecordNumbers
    BY <1>1, <2>1, <2>2
  <2>5. \A n \in failures' : n <= newest'
    <3>1. \A n \in failures : n \in Nat /\ n <= newest
      BY <1>0, <1>1 DEF RecordsInv, RecordNumbers
    <3>2. \A n \in Nat : n <= newest => n <= newest'
      BY <1>1, <2>1
    <3>3. newest' <= newest'
      BY <1>1, <2>1
    <3> QED
      BY <2>1, <3>1, <3>2, <3>3
  <2>6. dropped' \in BOOLEAN
    <3>1. dropped \in BOOLEAN
      BY <1>0 DEF AuthTypeOK
    <3>2. CASE dropped \/ Count = Capacity
      BY <1>2, <3>2 DEF WriteRecord
    <3>3. CASE ~(dropped \/ Count = Capacity)
      BY <1>2, <3>3 DEF WriteRecord
    <3> QED
      BY <3>2, <3>3
  <2> QED
    BY <1>0, <2>1, <2>2, <2>3, <2>4, <2>5, <2>6 DEF AuthTypeOK, RecordsInv
<1>3. CASE ClearLog
  <2>1. /\ newest' = 0 /\ oldest' = 1 /\ failures' = {} /\ dropped' = TRUE
        /\ UNCHANGED <<anew, written, auth, last_record_count, readErrors, checked, reports,
                       first, unread>>
    BY <1>3 DEF ClearLog
  <2>2. newest' \in 0 .. MaxRecords /\ oldest' \in 1 .. newest' + 1 /\ Count' <= Capacity
        /\ newest' <= written'
    BY <1>1, <2>1 DEF Count
  <2> QED
    BY <1>0, <2>1, <2>2 DEF AuthTypeOK, RecordsInv
<1>4. CASE CountRecords
  <2>1. UNCHANGED <<anew, oldest, newest, failures, written, readErrors, checked, reports, first,
                    dropped, unread>>
    BY <1>4 DEF CountRecords
  <2>2. /\ auth' \in [step : AuthSteps, num_records : 0 .. Capacity]
        /\ last_record_count' \in 0 .. Capacity
    <3>1. Count \in 0 .. Capacity /\ last_record_count \in 0 .. Capacity
      BY <1>0, <1>1 DEF AuthTypeOK
    <3>2. CASE Count > last_record_count
      BY <1>1, <1>4, <3>1, <3>2 DEF CountRecords, AuthSteps
    <3>3. CASE ~(Count > last_record_count)
      BY <1>1, <1>4, <3>1, <3>3 DEF CountRecords
    <3> QED
      BY <3>2, <3>3
  <2> QED
    BY <1>0, <2>1, <2>2 DEF AuthTypeOK, RecordsInv, Count, AuthSteps
<1>5. CASE _check_new_records
  <2>1. /\ UNCHANGED <<anew, oldest, newest, failures, written, first, dropped>>
        /\ auth' = [auth EXCEPT !.step = "count"] /\ last_record_count' = auth.num_records
        /\ checked' = TRUE
    BY <1>5 DEF _check_new_records
  <2>2. /\ auth' \in [step : AuthSteps, num_records : 0 .. Capacity]
        /\ last_record_count' \in 0 .. Capacity
    BY <1>1, <2>1 DEF AuthSteps
  <2>3. Fresh \subseteq RecordNumbers
    <3>1. oldest .. newest \subseteq RecordNumbers
      BY <1>1 DEF RecordNumbers
    <3> QED
      BY <3>1 DEF Fresh
  <2>4. readErrors' \in 0 .. MaxReadErrors /\ unread' \subseteq RecordNumbers
    BY <1>0, <1>5, <2>3 DEF _check_new_records, AuthTypeOK
  <2>5. reports' \in [RecordNumbers -> Nat]
    <3>1. reports \in [RecordNumbers -> Nat]
      BY <1>0 DEF AuthTypeOK
    <3>2. \/ reports' = reports
          \/ reports' = [n \in RecordNumbers |->
               IF n \in Fresh \cap failures THEN reports[n] + 1 ELSE reports[n]]
      BY <1>5 DEF _check_new_records
    <3> QED
      BY <3>1, <3>2
  <2> QED
    BY <1>0, <2>1, <2>2, <2>4, <2>5 DEF AuthTypeOK, RecordsInv, Count, AuthSteps
<1>6. CASE auth_stop
  <2>1. /\ UNCHANGED <<anew, oldest, newest, failures, written, last_record_count, readErrors,
                       checked, reports, first, dropped, unread>>
        /\ auth' \in [step : AuthSteps, num_records : 0 .. Capacity]
    BY <1>1, <1>6 DEF auth_stop, AuthSteps
  <2> QED
    BY <1>0, <2>1 DEF AuthTypeOK, RecordsInv, Count, AuthSteps
<1> QED
  BY <1>2, <1>3, <1>4, <1>5, <1>6 DEF AuthNext

LEMMA CountedStep ==
  ASSUME AuthInv, AuthNext
  PROVE  CountedInv'
<1> USE AuthMonitorAssumption
<1> SUFFICES ASSUME dropped' = FALSE PROVE CountedInv'
  BY AuthTypeStep DEF CountedInv, AuthTypeOK
<1>0. ~dropped
  BY DEF AuthNext, WriteRecord, ClearLog, CountRecords, _check_new_records, auth_stop
<1>1. /\ newest \in Nat /\ auth \in [step : AuthSteps, num_records : 0 .. Capacity]
      /\ auth.num_records \in Nat /\ last_record_count \in Nat /\ first \in Nat
      /\ Count \in Nat /\ failures \subseteq RecordNumbers
      /\ reports \in [RecordNumbers -> Nat]
      /\ \A n \in RecordNumbers : n \in Nat
  BY AuthTypes DEF RecordNumbers
<1>2. /\ oldest = 1 /\ first <= last_record_count /\ last_record_count <= newest
      /\ auth.step = "check" => last_record_count < auth.num_records /\ auth.num_records <= newest
  BY <1>0 DEF AuthInv, CountedInv
<1>3. \A n \in RecordNumbers :
        /\ n > newest \/ n <= first => reports[n] = 0
        /\ n > last_record_count => reports[n] <= 1
        /\ auth.step = "check" /\ n > auth.num_records => reports[n] = 0
  BY <1>0 DEF AuthInv, CountedInv
<1>4. Count = newest
  BY <1>1, <1>2 DEF Count
<1>5. \A n \in failures :
        /\ n <= newest /\ reports[n] <= 2
        /\ anew /\ first < n /\ n <= last_record_count => reports[n] > 0 \/ n \in unread
  BY <1>0 DEF AuthInv, CountedInv, FailuresReported, RecordsInv
<1>6. ASSUME NEW failed \in BOOLEAN, WriteRecord(failed)
      PROVE  CountedInv'
  <2>1. /\ newest' = newest + 1
        /\ failures' = failures \/ failures' = failures \cup {newest'}
        /\ UNCHANGED <<anew, auth, last_record_count, readErrors, checked, reports, first, unread>>
    BY <1>6 DEF WriteRecord
  <2>2. oldest' = 1
    <3>1. Count # Capacity
      BY <1>0, <1>6 DEF WriteRecord
    <3> QED
      BY <1>2, <1>6, <3>1 DEF WriteRecord
  <2>3. /\ first <= last_record_count' /\ last_record_count' <= newest'
        /\ auth.step = "check" =>
             last_record_count' < auth.num_records /\ auth.num_records <= newest'
    BY <1>1, <1>2, <2>1
  <2>4. \A n \in RecordNumbers : n > newest' => n > newest
    BY <1>1, <2>1
  <2>5. newest' \in RecordNumbers /\ newest' > newest /\ ~(newest' <= last_record_count)
    <3>1. newest' \in RecordNumbers
      BY <1>1, <1>6, <2>1, AuthTypes DEF WriteRecord, RecordNumbers
    <3> QED
      BY <1>1, <1>2, <2>1, <3>1
  <2>6. FailuresReported'
    <3>1. reports[newest'] = 0
      BY <1>3, <2>5
    <3>2. ASSUME NEW n \in failures'
          PROVE  /\ reports[n] <= 2
                 /\ n <= first => reports[n] = 0
                 /\ anew /\ first < n /\ n <= last_record_count => reports[n] > 0 \/ n \in unread
      <4>1. CASE n \in failures
        BY <1>1, <1>3, <1>5, <4>1
      <4>2. CASE n = newest'
        BY <2>5, <3>1, <4>2
      <4> QED
        BY <2>1, <3>2, <4>1, <4>2
    <3> QED
      BY <2>1, <3>2 DEF FailuresReported
  <2>7. \A n \in RecordNumbers :
          /\ n > newest' \/ n <= first => reports[n] = 0
          /\ n > last_record_count => reports[n] <= 1
          /\ auth.step = "check" /\ n > auth.num_records => reports[n] = 0
    BY <1>3, <2>4
  <2> QED
    BY <2>1, <2>2, <2>3, <2>6, <2>7 DEF CountedInv
<1>7. CASE ClearLog
  BY <1>7 DEF ClearLog
<1>8. CASE CountRecords
  <2>1. UNCHANGED <<anew, oldest, newest, failures, reports, first, dropped, unread>>
    BY <1>8 DEF CountRecords
  <2>2. CASE newest > last_record_count
    <3>1. /\ auth'.step = "check" /\ auth'.num_records = newest
          /\ last_record_count' = last_record_count
      BY <1>4, <1>8, <2>2 DEF CountRecords
    <3>2. newest <= newest
      BY <1>1
    <3>3. FailuresReported'
      BY <1>0, <2>1, <3>1 DEF FailuresReported, AuthInv, CountedInv
    <3> QED
      BY <1>2, <1>3, <2>1, <2>2, <3>1, <3>2, <3>3 DEF CountedInv
  <2>3. CASE ~(newest > last_record_count)
    <3>1. last_record_count' = last_record_count /\ auth' = auth
      BY <1>1, <1>2, <1>4, <1>8, <2>3 DEF CountRecords
    <3> QED
      BY <1>0, <2>1, <3>1 DEF FailuresReported, AuthInv, CountedInv
  <2> QED
    BY <2>2, <2>3
<1>9. CASE _check_new_records
  <2>1. /\ UNCHANGED <<anew, oldest, newest, failures, first>>
        /\ auth'.step = "count" /\ last_record_count' = auth.num_records
        /\ auth.step = "check"
    BY <1>1, <1>9 DEF _check_new_records
  <2>2. /\ last_record_count < auth.num_records /\ auth.num_records <= newest
        /\ first <= last_record_count'
    BY <1>1, <1>2, <2>1
  <2>3. \A n \in Fresh : n > last_record_count
    BY <1>1 DEF Fresh, IsNew
  <2>4. ASSUME NEW n \in RecordNumbers
        PROVE  /\ reports'[n] = reports[n] \/ (n \in Fresh \cap failures /\ reports'[n] = reports[n] + 1)
    BY <1>9 DEF _check_new_records
  <2>5. ASSUME NEW n \in RecordNumbers
        PROVE  /\ n > newest \/ n <= first => reports'[n] = 0
               /\ n > last_record_count' => reports'[n] <= 1
    <3>1. n \in Fresh \cap failures => n <= newest /\ n > last_record_count
      BY <1>5, <2>3
    <3>2. n \in Nat /\ reports[n] \in Nat
      BY <1>1
    <3>3. n > newest \/ n <= first => reports'[n] = 0
      <4>1. n > newest \/ n <= first => ~(n \in Fresh \cap failures)
        BY <1>1, <1>2, <3>1, <3>2
      <4> QED
        BY <1>3, <2>4, <4>1
    <3>4. n > last_record_count' => reports[n] = 0
      BY <1>3, <2>1
    <3> QED
      BY <2>4, <3>2, <3>3, <3>4
  <2>6. ASSUME NEW n \in failures
        PROVE  /\ reports'[n] <= 2
               /\ anew /\ first < n /\ n <= last_record_count' => reports'[n] > 0 \/ n \in unread'
    <3>1. n \in RecordNumbers /\ n \in Nat /\ reports[n] \in Nat
      BY <1>1
    <3>2. reports'[n] <= 2
      <4>1. n \in Fresh => reports[n] <= 1
        BY <1>3, <2>3, <3>1
      <4> QED
        BY <1>5, <2>4, <3>1, <4>1
    <3>3. ASSUME anew, first < n, n <= last_record_count'
          PROVE  reports'[n] > 0 \/ n \in unread'
      <4>1. CASE n <= last_record_count
        <5>1. reports[n] > 0 \/ n \in unread
          BY <1>5, <3>3, <4>1
        <5>2. reports'[n] >= reports[n]
          BY <2>4, <3>1
        <5>3. unread \subseteq unread'
          BY <1>9 DEF _check_new_records
        <5>4. reports'[n] \in Nat
          BY <2>4, <3>1
        <5> QED
          BY <3>1, <5>1, <5>2, <5>3, <5>4
      <4>2. CASE ~(n <= last_record_count)
        <5>1. n \in Fresh
          <6>1. n \in oldest .. newest /\ n > last_record_count
            BY <1>1, <1>2, <2>1, <2>2, <3>1, <3>3, <4>2, <1>5
          <6> QED
            BY <3>3, <6>1 DEF Fresh, IsNew
        <5>2. reports'[n] = reports[n] + 1 \/ n \in unread'
          BY <1>9, <3>1, <5>1 DEF _check_new_records
        <5> QED
          BY <3>1, <5>2
      <4> QED
        BY <4>1, <4>2
    <3> QED
      BY <3>2, <3>3
  <2>7. FailuresReported'
    BY <1>1, <2>1, <2>5, <2>6 DEF FailuresReported
  <2> QED
    BY <1>2, <2>1, <2>2, <2>5, <2>7 DEF CountedInv
<1>10. CASE auth_stop
  <2>1. /\ UNCHANGED <<anew, oldest, newest, failures, last_record_count, reports, first, dropped,
                       unread>>
        /\ auth'.step = "ended"
    BY <1>1, <1>10 DEF auth_stop
  <2>2. FailuresReported'
    BY <1>0, <2>1 DEF FailuresReported, AuthInv, CountedInv
  <2> QED
    BY <1>2, <1>3, <2>1, <2>2 DEF CountedInv
<1> QED
  BY <1>6, <1>7, <1>8, <1>9, <1>10 DEF AuthNext

LEMMA AuthKeeps == AuthInv /\ [AuthNext]_authVars => AuthInv'
<1>1. ASSUME AuthInv, AuthNext PROVE AuthInv'
  BY <1>1, AuthTypeStep, CountedStep DEF AuthInv
<1>2. AuthInv /\ UNCHANGED authVars => AuthInv'
  BY DEF authVars, AuthInv, AuthTypeOK, RecordsInv, CountedInv, FailuresReported, Count
<1> QED
  BY <1>1, <1>2

LEMMA FailuresFromInv == AuthInv => FailuresReported
  BY DEF AuthInv, CountedInv, FailuresReported

-----------------------------------------------------------------------------
\* The log of mouse events: input_biometric_monitor.py.

Ordered(s) == \A i, j \in 1 .. Len(s) : i < j => s[i] < s[j]
AllBefore(s, t) == \A m \in ToSet(s), n \in ToSet(t) : m < n

\* Nothing is written but in "write"; and events go in their order from the queue through
\* the worker and the buffer to the file.
RowsInOrder ==
  /\ Ordered(log) /\ Ordered(writing) /\ Ordered(_events_to_flush)
  /\ AllBefore(log, writing) /\ AllBefore(log, _events_to_flush)
  /\ AllBefore(writing, _events_to_flush)
  /\ flusher # "write" => writing = <<>>

RowsKept == ToSet(log) \cup ToSet(writing) \cup ToSet(_events_to_flush) = ToSet(rows) \ lostRows

EventsInOrder ==
  /\ Ordered(event_queue) /\ AllBefore(rows, event_queue)
  /\ \A n \in ToSet(event_queue) : n <= happened
  /\ \A r \in ToSet(rows) : r <= happened
  /\ item > 0 => /\ \A r \in ToSet(rows) : r < item
                 /\ \A n \in ToSet(event_queue) : item < n
                 /\ item <= happened
  /\ lostRows \subseteq ToSet(rows)

MouseInv == MouseLogTypeOK /\ RowsInOrder /\ RowsKept /\ EventsInOrder

LEMMA SetOfSeq ==
  ASSUME NEW S, NEW s \in Seq(S)
  PROVE  /\ ToSet(s) \subseteq S
         /\ \A i \in 1 .. Len(s) : s[i] \in ToSet(s)
         /\ \A e \in ToSet(s) : \E i \in 1 .. Len(s) : s[i] = e
         /\ s = <<>> => ToSet(s) = {}
<1>1. DOMAIN s = 1 .. Len(s) /\ \A i \in 1 .. Len(s) : s[i] \in S
  BY LenProperties, ElementOfSeq
<1>2. s = <<>> => 1 .. Len(s) = {}
  BY EmptySeq
<1> QED
  BY <1>1, <1>2 DEF ToSet

LEMMA AppendKeepsOrder ==
  ASSUME NEW S, NEW s \in Seq(S), NEW e \in S
  PROVE  /\ ToSet(Append(s, e)) = ToSet(s) \cup {e}
         /\ Ordered(s) /\ (\A m \in ToSet(s) : m < e) => Ordered(Append(s, e))
<1> DEFINE t == Append(s, e)
<1>1. /\ t \in Seq(S) /\ Len(t) = Len(s) + 1 /\ Len(s) \in Nat /\ t[Len(s) + 1] = e
      /\ \A i \in 1 .. Len(s) : t[i] = s[i]
  BY AppendProperties, LenProperties
<1> HIDE DEF t
<1>2. \A i \in 1 .. Len(t) : i \in 1 .. Len(s) \/ i = Len(s) + 1
  BY <1>1
<1>3. Len(s) + 1 \in 1 .. Len(t) /\ 1 .. Len(s) \subseteq 1 .. Len(t)
  BY <1>1
<1>4. ToSet(t) \subseteq ToSet(s) \cup {e}
  <2>1. ASSUME NEW x \in ToSet(t) PROVE x \in ToSet(s) \cup {e}
    BY <1>1, <1>2, SetOfSeq
  <2> QED
    BY <2>1
<1>5. ToSet(s) \cup {e} \subseteq ToSet(t)
  <2>1. ASSUME NEW x \in ToSet(s) PROVE x \in ToSet(t)
    BY <1>1, <1>3, SetOfSeq
  <2> QED
    BY <1>1, <1>3, <2>1, SetOfSeq
<1>6. ASSUME Ordered(s), \A m \in ToSet(s) : m < e PROVE Ordered(t)
  <2>1. ASSUME NEW i \in 1 .. Len(t), NEW j \in 1 .. Len(t), i < j PROVE t[i] < t[j]
    <3>1. i \in 1 .. Len(s)
      BY <1>1, <2>1
    <3>2. CASE j \in 1 .. Len(s)
      BY <1>1, <1>6, <2>1, <3>1, <3>2 DEF Ordered
    <3>3. CASE j = Len(s) + 1
      BY <1>1, <1>6, <3>1, <3>3, SetOfSeq
    <3> QED
      BY <1>2, <3>2, <3>3
  <2> QED
    BY <2>1 DEF Ordered
<1> QED
  BY <1>4, <1>5, <1>6 DEF t

LEMMA TailKeepsOrder ==
  ASSUME NEW S, NEW s \in Seq(S), s # <<>>
  PROVE  /\ Head(s) \in ToSet(s) /\ ToSet(Tail(s)) \subseteq ToSet(s)
         /\ Ordered(s) => Ordered(Tail(s)) /\ \A n \in ToSet(Tail(s)) : Head(s) < n
<1> DEFINE t == Tail(s)
<1>1. /\ t \in Seq(S) /\ Len(t) = Len(s) - 1 /\ Len(s) \in Nat /\ Len(s) > 0 /\ Head(s) = s[1]
      /\ \A i \in 1 .. Len(s) - 1 : t[i] = s[i + 1]
  BY HeadTailProperties, LenProperties, EmptySeq
<1> HIDE DEF t
<1>2. 1 \in 1 .. Len(s) /\ \A i \in 1 .. Len(t) : i + 1 \in 1 .. Len(s) /\ i + 1 > 1
  BY <1>1
<1>3. \A i \in 1 .. Len(t) : t[i] = s[i + 1]
  BY <1>1
<1>4. ASSUME NEW x \in ToSet(t) PROVE \E i \in 1 .. Len(s) : i > 1 /\ s[i] = x
  <2>1. PICK i \in 1 .. Len(t) : t[i] = x
    BY <1>1, SetOfSeq
  <2> QED
    BY <1>2, <1>3, <2>1
<1>5. ToSet(t) \subseteq ToSet(s)
  BY <1>4, SetOfSeq
<1>6. ASSUME Ordered(s) PROVE Ordered(t) /\ \A n \in ToSet(t) : Head(s) < n
  <2>1. ASSUME NEW i \in 1 .. Len(t), NEW j \in 1 .. Len(t), i < j PROVE t[i] < t[j]
    <3>1. i + 1 < j + 1
      BY <2>1
    <3> QED
      BY <1>2, <1>3, <1>6, <3>1 DEF Ordered
  <2>2. \A n \in ToSet(t) : Head(s) < n
    BY <1>1, <1>2, <1>4, <1>6 DEF Ordered
  <2> QED
    BY <2>1, <2>2 DEF Ordered
<1> QED
  BY <1>1, <1>2, <1>5, <1>6, SetOfSeq DEF t

LEMMA ConcatKeepsOrder ==
  ASSUME NEW S, NEW s \in Seq(S), NEW t \in Seq(S)
  PROVE  /\ s \o t \in Seq(S) /\ ToSet(s \o t) = ToSet(s) \cup ToSet(t)
         /\ Ordered(s) /\ Ordered(t) /\ AllBefore(s, t) => Ordered(s \o t)
<1> DEFINE u == s \o t
           n == Len(s)
<1>1. /\ u \in Seq(S) /\ n \in Nat /\ Len(t) \in Nat /\ Len(u) = n + Len(t)
      /\ \A i \in 1 .. n + Len(t) : u[i] = IF i <= n THEN s[i] ELSE t[i - n]
  BY ConcatProperties, LenProperties
<1>0. n = Len(s)
  OBVIOUS
<1> HIDE DEF u, n
<1>2. \A i \in 1 .. Len(u) : i \in 1 .. n \/ i - n \in 1 .. Len(t)
  BY <1>1
<1>3. \A i \in 1 .. n : i \in 1 .. Len(u) /\ u[i] = s[i]
  BY <1>1
<1>4. ASSUME NEW i \in 1 .. Len(t) PROVE n + i \in 1 .. Len(u) /\ u[n + i] = t[i]
  <2>1. n + i \in 1 .. n + Len(t) /\ ~(n + i <= n) /\ (n + i) - n = i
    BY <1>1
  <2> QED
    BY <1>1, <2>1
<1>5. ASSUME NEW i \in 1 .. Len(u), ~(i \in 1 .. n)
      PROVE  i - n \in 1 .. Len(t) /\ u[i] = t[i - n]
  <2>1. i \in 1 .. n + Len(t) /\ ~(i <= n)
    BY <1>1, <1>5
  <2> QED
    BY <1>1, <1>2, <1>5, <2>1
<1>6. ASSUME NEW x \in ToSet(u) PROVE x \in ToSet(s) \cup ToSet(t)
  <2>1. PICK i \in 1 .. Len(u) : u[i] = x
    BY <1>1, SetOfSeq
  <2>2. CASE i \in 1 .. n
    BY <1>0, <1>3, <2>1, <2>2, SetOfSeq
  <2>3. CASE ~(i \in 1 .. n)
    BY <1>5, <2>1, <2>3, SetOfSeq
  <2> QED
    BY <2>2, <2>3
<1>7. ASSUME NEW x \in ToSet(s) \cup ToSet(t) PROVE x \in ToSet(u)
  <2>1. CASE x \in ToSet(s)
    <3>1. PICK i \in 1 .. n : s[i] = x
      BY <1>0, <2>1, SetOfSeq
    <3> QED
      BY <1>1, <1>3, <3>1, SetOfSeq
  <2>2. CASE x \in ToSet(t)
    <3>1. PICK i \in 1 .. Len(t) : t[i] = x
      BY <2>2, SetOfSeq
    <3> QED
      BY <1>1, <1>4, <3>1, SetOfSeq
  <2> QED
    BY <2>1, <2>2
<1>8. ASSUME Ordered(s), Ordered(t), AllBefore(s, t),
             NEW i \in 1 .. Len(u), NEW j \in 1 .. Len(u), i < j
      PROVE  u[i] < u[j]
  <2>1. CASE j \in 1 .. n
    <3>1. i \in 1 .. n
      BY <1>1, <1>8, <2>1
    <3> QED
      BY <1>0, <1>3, <1>8, <2>1, <3>1 DEF Ordered
  <2>2. CASE i \in 1 .. n /\ ~(j \in 1 .. n)
    <3>1. u[i] \in ToSet(s)
      BY <1>0, <1>3, <2>2, SetOfSeq
    <3>2. u[j] \in ToSet(t)
      BY <1>5, <2>2, SetOfSeq
    <3> QED
      BY <1>8, <3>1, <3>2 DEF AllBefore
  <2>3. CASE ~(i \in 1 .. n) /\ ~(j \in 1 .. n)
    <3>1. i - n < j - n
      BY <1>1, <1>8
    <3> QED
      BY <1>5, <1>8, <2>3, <3>1 DEF Ordered
  <2> QED
    BY <2>1, <2>2, <2>3
<1> QED
  BY <1>1, <1>6, <1>7, <1>8 DEF u, Ordered

LEMMA SplitKeepsOrder ==
  ASSUME NEW S, NEW s \in Seq(S), NEW n \in 0 .. Len(s)
  PROVE  LET begin == SubSeq(s, 1, n)
             rest == SubSeq(s, n + 1, Len(s))
         IN  /\ begin \in Seq(S) /\ rest \in Seq(S) /\ ToSet(s) = ToSet(begin) \cup ToSet(rest)
             /\ Ordered(s) => Ordered(begin) /\ AllBefore(begin, rest)
<1> DEFINE begin == SubSeq(s, 1, n)
           rest == SubSeq(s, n + 1, Len(s))
<1>1. /\ begin \in Seq(S) /\ Len(begin) = n /\ \A i \in 1 .. n : begin[i] = s[i]
  BY FirstOfSeq
<1>2. /\ rest \in Seq(S) /\ Len(rest) = Len(s) - n
      /\ \A i \in 1 .. Len(s) - n : rest[i] = s[n + i]
  BY RestOfSeq
<1> HIDE DEF begin, rest
<1>3. Len(s) \in Nat
  BY LenProperties
<1>4. /\ \A i \in 1 .. Len(s) : i \in 1 .. n \/ i - n \in 1 .. Len(s) - n
      /\ \A i \in 1 .. n : i \in 1 .. Len(s)
      /\ \A i \in 1 .. Len(s) - n : n + i \in 1 .. Len(s) /\ n + i > n
      /\ \A i \in 1 .. Len(s) : n + (i - n) = i
  BY <1>3
<1>5. ASSUME NEW x \in ToSet(s) PROVE x \in ToSet(begin) \cup ToSet(rest)
  <2>1. PICK i \in 1 .. Len(s) : s[i] = x
    BY SetOfSeq
  <2>2. CASE i \in 1 .. n
    BY <1>1, <2>1, <2>2, SetOfSeq
  <2>3. CASE i - n \in 1 .. Len(s) - n
    <3>1. rest[i - n] = x
      BY <1>2, <1>4, <2>1, <2>3
    <3> QED
      BY <1>2, <2>3, <3>1, SetOfSeq
  <2> QED
    BY <1>4, <2>2, <2>3
<1>6. ASSUME NEW x \in ToSet(begin) PROVE \E i \in 1 .. n : i \in 1 .. Len(s) /\ s[i] = x
  <2>1. PICK i \in 1 .. Len(begin) : begin[i] = x
    BY <1>1, SetOfSeq
  <2> QED
    BY <1>1, <1>4, <2>1
<1>7. ASSUME NEW x \in ToSet(rest) PROVE \E i \in 1 .. Len(s) : i > n /\ s[i] = x
  <2>1. PICK i \in 1 .. Len(rest) : rest[i] = x
    BY <1>2, SetOfSeq
  <2> QED
    BY <1>2, <1>4, <2>1
<1>8. ToSet(s) = ToSet(begin) \cup ToSet(rest)
  BY <1>5, <1>6, <1>7, SetOfSeq
<1>9. ASSUME Ordered(s) PROVE Ordered(begin) /\ AllBefore(begin, rest)
  <2>1. Ordered(begin)
    BY <1>1, <1>4, <1>9 DEF Ordered
  <2>2. ASSUME NEW x \in ToSet(begin), NEW y \in ToSet(rest) PROVE x < y
    <3>1. PICK i \in 1 .. n : i \in 1 .. Len(s) /\ s[i] = x
      BY <1>6
    <3>2. PICK j \in 1 .. Len(s) : j > n /\ s[j] = y
      BY <1>7
    <3>3. i < j
      BY <1>3, <3>1, <3>2
    <3> QED
      BY <1>9, <3>1, <3>2, <3>3 DEF Ordered
  <2> QED
    BY <2>1, <2>2 DEF AllBefore
<1> QED
  BY <1>1, <1>2, <1>8, <1>9 DEF begin, rest

LEMMA MouseStarts == MouseLogInit => MouseInv
<1> SUFFICES ASSUME MouseLogInit PROVE MouseInv
  OBVIOUS
<1>1. ToSet(<<>>) = {}
  BY EmptySeq, SetOfSeq
<1>2. Ordered(<<>>) /\ AllBefore(<<>>, <<>>)
  <2>1. ~ \E i : i \in 1 .. Len(<<>>)
    BY EmptySeq
  <2> QED
    BY <1>1, <2>1 DEF Ordered, AllBefore
<1>3. MouseLogTypeOK
  <2>1. <<>> \in Seq(1 .. MaxMouseEvents)
    BY EmptySeq
  <2>2. happened \in 0 .. MaxMouseEvents /\ item \in -1 .. MaxMouseEvents
        /\ writeErrors \in 0 .. MaxWriteErrors
    BY MouseLogAssumption DEF MouseLogInit, NoItem
  <2> QED
    BY <2>1, <2>2 DEF MouseLogInit, MouseLogTypeOK
<1> QED
  BY <1>1, <1>2, <1>3
     DEF MouseLogInit, MouseInv, RowsInOrder, RowsKept, EventsInOrder, NoItem

\* The sequences of events, and their sets, are of numbers.
MouseEvents == 1 .. MaxMouseEvents

LEMMA MouseTypes ==
  ASSUME MouseLogTypeOK
  PROVE  /\ MouseEvents \subseteq Int /\ MouseEvents \subseteq Nat
         /\ event_queue \in Seq(MouseEvents) /\ _events_to_flush \in Seq(MouseEvents)
         /\ writing \in Seq(MouseEvents) /\ log \in Seq(MouseEvents) /\ rows \in Seq(MouseEvents)
         /\ ToSet(event_queue) \subseteq MouseEvents /\ ToSet(_events_to_flush) \subseteq MouseEvents
         /\ ToSet(writing) \subseteq MouseEvents /\ ToSet(log) \subseteq MouseEvents
         /\ ToSet(rows) \subseteq MouseEvents
         /\ happened \in Nat /\ item \in Int /\ item <= MaxMouseEvents
         /\ MaxMouseEvents \in Nat /\ MaxWriteErrors \in Nat
<1>1. /\ event_queue \in Seq(MouseEvents) /\ _events_to_flush \in Seq(MouseEvents)
      /\ writing \in Seq(MouseEvents) /\ log \in Seq(MouseEvents) /\ rows \in Seq(MouseEvents)
  BY DEF MouseLogTypeOK, MouseEvents
<1>2. /\ happened \in Nat /\ item \in Int /\ item <= MaxMouseEvents
      /\ MaxMouseEvents \in Nat /\ MaxWriteErrors \in Nat
  BY MouseLogAssumption DEF MouseLogTypeOK
<1>3. MouseEvents \subseteq Int /\ MouseEvents \subseteq Nat
  BY MouseLogAssumption DEF MouseEvents
<1> QED
  BY <1>1, <1>2, <1>3, SetOfSeq

LEMMA MouseTypeStep ==
  ASSUME MouseInv, MouseLogNext
  PROVE  MouseLogTypeOK'
<1> USE DEF MouseInv
<1>1. /\ event_queue \in Seq(MouseEvents) /\ _events_to_flush \in Seq(MouseEvents)
      /\ writing \in Seq(MouseEvents) /\ log \in Seq(MouseEvents) /\ rows \in Seq(MouseEvents)
      /\ MouseEvents \subseteq Int /\ happened \in Nat /\ item \in Int /\ item <= MaxMouseEvents
      /\ MaxMouseEvents \in Nat /\ MaxWriteErrors \in Nat
  BY MouseTypes
<1>2. CASE on_mouse
  <2>1. happened + 1 \in 0 .. MaxMouseEvents /\ happened + 1 \in MouseEvents
    BY <1>1, <1>2 DEF on_mouse, MouseLogTypeOK, MouseEvents
  <2>2. event_queue' \in Seq(MouseEvents)
    BY <1>1, <1>2, <2>1, AppendProperties DEF on_mouse
  <2> QED
    BY <1>2, <2>1, <2>2 DEF on_mouse, MouseLogTypeOK, MouseEvents
<1>3. CASE Take
  <2>1. event_queue' \in Seq(MouseEvents) /\ item' \in -1 .. MaxMouseEvents
    <3>3. Waiting \in -1 .. MaxMouseEvents /\ NoItem \in -1 .. MaxMouseEvents
      BY <1>1 DEF Waiting, NoItem
    <3>1. CASE event_queue # <<>>
      <4>1. Head(event_queue) \in MouseEvents /\ Tail(event_queue) \in Seq(MouseEvents)
        BY <1>1, <3>1, HeadTailProperties
      <4>2. Head(event_queue) \in -1 .. MaxMouseEvents
        BY <1>1, <4>1 DEF MouseEvents
      <4> QED
        BY <1>1, <1>3, <3>3, <4>1, <4>2 DEF Take
    <3>2. CASE event_queue = <<>>
      BY <1>1, <1>3, <3>2, <3>3 DEF Take
    <3> QED
      BY <3>1, <3>2
  <2> QED
    BY <1>3, <2>1 DEF Take, MouseLogTypeOK, MouseEvents
<1>4. CASE Handle
  <2>1. item \in MouseEvents /\ item' \in -1 .. MaxMouseEvents
    BY <1>1, <1>4 DEF Handle, MouseEvents, NoItem
  <2>2. Append(_events_to_flush, item) \in Seq(MouseEvents) /\ Append(rows, item) \in Seq(MouseEvents)
    BY <1>1, <2>1, AppendProperties
  <2>3. _events_to_flush' \in Seq(MouseEvents) /\ rows' \in Seq(MouseEvents)
    BY <1>1, <1>4, <2>2 DEF Handle
  <2> QED
    BY <1>4, <2>1, <2>3 DEF Handle, MouseLogTypeOK, MouseEvents
<1>5. CASE FlusherWakes \/ mouse_stop
  BY <1>5 DEF FlusherWakes, mouse_stop, MouseLogTypeOK
<1>6. CASE Swap
  <2>1. _events_to_flush' \in Seq(MouseEvents) /\ writing' \in Seq(MouseEvents)
    BY <1>1, <1>6, EmptySeq DEF Swap, EmptyBuffer
  <2>2. flusher' \in {"sleep", "flush", "write", "ended"}
    BY <1>6 DEF Swap, NextRound
  <2> QED
    BY <1>6, <2>1, <2>2 DEF Swap, MouseLogTypeOK, MouseEvents
<1>7. CASE WriteRows
  <2>1. writing' \in Seq(MouseEvents) /\ flusher' \in {"sleep", "flush", "write", "ended"}
    BY <1>7, EmptySeq DEF WriteRows, NextRound
  <2>2. log' \in Seq(MouseEvents) /\ lostRows' \subseteq MouseEvents
        /\ writeErrors' \in 0 .. MaxWriteErrors
    <3>1. CASE log' = log \o writing /\ UNCHANGED <<writeErrors, lostRows>>
      BY <1>1, <3>1, ConcatKeepsOrder DEF MouseLogTypeOK, MouseEvents
    <3>2. ASSUME NEW n \in 0 .. Len(writing) - 1, log' = log \o SubSeq(writing, 1, n),
                 lostRows' = lostRows \cup ToSet(SubSeq(writing, n + 1, Len(writing))),
                 writeErrors < MaxWriteErrors, writeErrors' = writeErrors + 1
          PROVE  log' \in Seq(MouseEvents) /\ lostRows' \subseteq MouseEvents
                 /\ writeErrors' \in 0 .. MaxWriteErrors
      <4>1. n \in 0 .. Len(writing)
        BY <1>1, LenProperties
      <4>2. /\ SubSeq(writing, 1, n) \in Seq(MouseEvents)
            /\ SubSeq(writing, n + 1, Len(writing)) \in Seq(MouseEvents)
        BY <1>1, <4>1, SplitKeepsOrder
      <4>3. ToSet(SubSeq(writing, n + 1, Len(writing))) \subseteq MouseEvents
        BY <4>2, SetOfSeq
      <4>4. lostRows' \subseteq MouseEvents
        BY <3>2, <4>3 DEF MouseLogTypeOK, MouseEvents
      <4>5. writeErrors' \in 0 .. MaxWriteErrors
        BY <1>1, <3>2 DEF MouseLogTypeOK
      <4> QED
        BY <1>1, <3>2, <4>2, <4>4, <4>5, ConcatKeepsOrder
    <3> QED
      BY <1>7, <3>1, <3>2 DEF WriteRows
  <2> QED
    BY <1>7, <2>1, <2>2 DEF WriteRows, MouseLogTypeOK, MouseEvents
<1> QED
  BY <1>2, <1>3, <1>4, <1>5, <1>6, <1>7 DEF MouseLogNext

LEMMA EventsStep ==
  ASSUME MouseInv, MouseLogNext
  PROVE  EventsInOrder'
<1>0. EventsInOrder
  BY DEF MouseInv
<1>1. /\ event_queue \in Seq(MouseEvents) /\ rows \in Seq(MouseEvents) /\ writing \in Seq(MouseEvents)
      /\ ToSet(event_queue) \subseteq MouseEvents /\ ToSet(rows) \subseteq MouseEvents
      /\ MouseEvents \subseteq Int /\ happened \in Nat /\ item \in Int /\ item <= MaxMouseEvents
      /\ MaxMouseEvents \in Nat /\ Len(writing) \in Nat
  BY MouseTypes, LenProperties DEF MouseInv
<1>2. CASE on_mouse
  <2>0. PICK e \in MouseEvents : e = happened + 1
    BY <1>1, <1>2 DEF on_mouse, MouseEvents
  <2>1. /\ happened' = e /\ event_queue' = Append(event_queue, e)
        /\ UNCHANGED <<item, rows, lostRows>>
    BY <1>2, <2>0 DEF on_mouse
  <2>2. /\ \A n \in ToSet(event_queue) : n < e
        /\ \A r \in ToSet(rows) : r < e
        /\ item > 0 => item < e
    <3>1. \A n \in Int : n <= happened => n < e
      BY <1>1, <2>0
    <3>2. \A n \in ToSet(event_queue) \cup ToSet(rows) : n \in Int /\ n <= happened
      BY <1>0, <1>1 DEF EventsInOrder
    <3>3. item > 0 => item <= happened
      BY <1>0 DEF EventsInOrder
    <3> QED
      BY <1>1, <3>1, <3>2, <3>3
  <2>3. ToSet(event_queue') = ToSet(event_queue) \cup {e} /\ Ordered(event_queue')
    <3>1. Ordered(event_queue)
      BY <1>0 DEF EventsInOrder
    <3>2. event_queue \in Seq(MouseEvents) /\ MouseEvents \subseteq Int
      BY <1>1
    <3> QED
      BY <2>1, <2>2, <3>1, <3>2, AppendKeepsOrder
  <2>4. AllBefore(rows', event_queue')
    BY <1>0, <2>1, <2>2, <2>3 DEF EventsInOrder, AllBefore
  <2>5. /\ \A n \in ToSet(event_queue') : n <= happened'
        /\ \A r \in ToSet(rows') : r <= happened'
    <3>1. \A n \in ToSet(event_queue) \cup ToSet(rows) \cup {e} : n \in Int /\ (n < e \/ n = e)
      BY <1>1, <2>2
    <3>2. \A n \in Int : n < e \/ n = e => n <= e
      BY <1>1
    <3> QED
      BY <2>1, <2>3, <3>1, <3>2
  <2>6. item' > 0 => /\ \A r \in ToSet(rows') : r < item'
                     /\ \A n \in ToSet(event_queue') : item' < n
                     /\ item' <= happened'
    BY <1>0, <1>1, <2>1, <2>2, <2>3 DEF EventsInOrder
  <2> QED
    BY <1>0, <2>1, <2>3, <2>4, <2>5, <2>6 DEF EventsInOrder
<1>3. CASE Take
  <2>1. UNCHANGED <<rows, lostRows, happened>>
    BY <1>3 DEF Take
  <2>2. CASE item' = Head(event_queue) /\ event_queue' = Tail(event_queue) /\ event_queue # <<>>
    <3>1. /\ item' \in ToSet(event_queue) /\ ToSet(event_queue') \subseteq ToSet(event_queue)
          /\ Ordered(event_queue') /\ \A n \in ToSet(event_queue') : item' < n
      BY <1>0, <1>1, <2>2, TailKeepsOrder DEF EventsInOrder
    <3>2. /\ \A r \in ToSet(rows) : r < item'
          /\ AllBefore(rows, event_queue')
      BY <1>0, <3>1 DEF EventsInOrder, AllBefore
    <3>3. AllBefore(rows', event_queue')
      BY <2>1, <3>2
    <3> QED
      BY <1>0, <2>1, <3>1, <3>2, <3>3 DEF EventsInOrder
  <2>3. CASE item' \in {NoItem, Waiting} /\ UNCHANGED event_queue
    <3>1. ~(item' > 0)
      BY <2>3 DEF NoItem, Waiting
    <3> QED
      BY <1>0, <2>1, <2>3, <3>1 DEF EventsInOrder, AllBefore
  <2> QED
    BY <1>3, <2>2, <2>3 DEF Take
<1>4. CASE Handle
  <2>1. item > 0 /\ item' = 0 /\ UNCHANGED <<event_queue, happened, lostRows>> /\ item \in MouseEvents
    BY <1>1, <1>4 DEF Handle, NoItem, MouseEvents
  <2>2. rows' = rows \/ rows' = Append(rows, item)
    BY <1>4 DEF Handle
  <2>3. ToSet(rows) \subseteq ToSet(rows') /\ ToSet(rows') \subseteq ToSet(rows) \cup {item}
    <3>1. rows \in Seq(MouseEvents) /\ MouseEvents \subseteq Int /\ item \in MouseEvents
      BY <1>1, <2>1
    <3>2. ToSet(Append(rows, item)) = ToSet(rows) \cup {item}
      BY <3>1, AppendKeepsOrder
    <3> QED
      BY <2>2, <3>2
  <2>4. /\ \A r \in ToSet(rows') : r <= happened
        /\ \A r \in ToSet(rows'), n \in ToSet(event_queue) : r < n
    BY <1>0, <2>1, <2>3 DEF EventsInOrder, AllBefore
  <2> QED
    BY <1>0, <2>1, <2>3, <2>4 DEF EventsInOrder, AllBefore
<1>5. CASE FlusherWakes \/ mouse_stop \/ Swap
  BY <1>0, <1>5 DEF FlusherWakes, mouse_stop, Swap, EventsInOrder, AllBefore
<1>6. CASE WriteRows
  <2>1. UNCHANGED <<happened, event_queue, item, rows>>
    BY <1>6 DEF WriteRows
  <2>2. lostRows' \subseteq ToSet(rows)
    <3>1. CASE UNCHANGED lostRows
      BY <1>0, <3>1 DEF EventsInOrder
    <3>2. ASSUME NEW n \in 0 .. Len(writing) - 1,
                 lostRows' = lostRows \cup ToSet(SubSeq(writing, n + 1, Len(writing)))
          PROVE  lostRows' \subseteq ToSet(rows)
      <4>1. ToSet(SubSeq(writing, n + 1, Len(writing))) \subseteq ToSet(writing)
        <5>1. writing \in Seq(MouseEvents) /\ MouseEvents \subseteq Int /\ n \in 0 .. Len(writing)
          BY <1>1
        <5> QED
          BY <5>1, SplitKeepsOrder
      <4>2. ToSet(writing) \subseteq ToSet(rows)
        BY DEF MouseInv, RowsKept
      <4> QED
        BY <1>0, <3>2, <4>1, <4>2 DEF EventsInOrder
    <3> QED
      BY <1>6, <3>1, <3>2 DEF WriteRows
  <2> QED
    BY <1>0, <2>1, <2>2 DEF EventsInOrder, AllBefore
<1> QED
  BY <1>2, <1>3, <1>4, <1>5, <1>6 DEF MouseLogNext

LEMMA RowsStep ==
  ASSUME MouseInv, MouseLogNext
  PROVE  RowsInOrder' /\ RowsKept'
<1> DEFINE former == ToSet(log) \cup ToSet(writing) \cup ToSet(_events_to_flush)
<1>0. RowsInOrder /\ RowsKept /\ former = ToSet(rows) \ lostRows /\ lostRows \subseteq ToSet(rows)
  BY DEF MouseInv, RowsKept, EventsInOrder
<1>1. /\ _events_to_flush \in Seq(MouseEvents) /\ writing \in Seq(MouseEvents) /\ log \in Seq(MouseEvents)
      /\ rows \in Seq(MouseEvents) /\ MouseEvents \subseteq Int /\ item \in Int /\ item <= MaxMouseEvents
      /\ Len(writing) \in Nat
  BY MouseTypes, LenProperties DEF MouseInv
<1> HIDE DEF former
<1>2. CASE on_mouse \/ Take \/ FlusherWakes \/ mouse_stop
  <2>1. /\ UNCHANGED <<log, writing, _events_to_flush, rows, lostRows>>
        /\ flusher' # "write" => flusher # "write"
    BY <1>2 DEF on_mouse, Take, FlusherWakes, mouse_stop
  <2> QED
    BY <1>0, <2>1 DEF RowsInOrder, RowsKept, AllBefore
<1>3. CASE Handle
  <2>1. /\ item > 0 /\ item \in MouseEvents /\ UNCHANGED <<log, writing, flusher, lostRows>>
        /\ \A r \in ToSet(rows) : r < item
    BY <1>1, <1>3 DEF Handle, MouseEvents, MouseInv, EventsInOrder
  <2>2. CASE UNCHANGED <<_events_to_flush, rows>>
    BY <1>0, <2>1, <2>2 DEF RowsInOrder, RowsKept, AllBefore
  <2>3. CASE _events_to_flush' = Append(_events_to_flush, item) /\ rows' = Append(rows, item)
    <3>1. \A r \in ToSet(log) \cup ToSet(writing) \cup ToSet(_events_to_flush) : r < item
      BY <1>0, <2>1 DEF former
    <3>2. /\ ToSet(_events_to_flush') = ToSet(_events_to_flush) \cup {item}
          /\ Ordered(_events_to_flush')
      <4>1. /\ _events_to_flush \in Seq(MouseEvents) /\ MouseEvents \subseteq Int /\ item \in MouseEvents
            /\ Ordered(_events_to_flush) /\ \A m \in ToSet(_events_to_flush) : m < item
        BY <1>0, <1>1, <2>1, <3>1 DEF RowsInOrder
      <4> QED
        BY <2>3, <4>1, AppendKeepsOrder
    <3>3. ToSet(rows') = ToSet(rows) \cup {item}
      <4>1. rows \in Seq(MouseEvents) /\ MouseEvents \subseteq Int /\ item \in MouseEvents
        BY <1>1, <2>1
      <4> QED
        BY <2>3, <4>1, AppendKeepsOrder
    <3>4. item \notin lostRows
      <4>1. ~(item < item)
        BY <1>1
      <4> QED
        BY <1>0, <2>1, <4>1
    <3>5. RowsKept'
      BY <1>0, <2>1, <3>2, <3>3, <3>4 DEF RowsKept
    <3>6. AllBefore(log, _events_to_flush') /\ AllBefore(writing, _events_to_flush')
      BY <1>0, <3>1, <3>2 DEF RowsInOrder, AllBefore
    <3> QED
      BY <1>0, <2>1, <3>2, <3>5, <3>6 DEF RowsInOrder, AllBefore
  <2> QED
    BY <1>3, <2>2, <2>3 DEF Handle
<1>4. CASE Swap
  <2>1. /\ writing' = _events_to_flush /\ _events_to_flush' = <<>> /\ writing = <<>>
        /\ flusher' # "write" => _events_to_flush = <<>>
        /\ UNCHANGED <<log, rows, lostRows>>
    BY <1>0, <1>4 DEF Swap, EmptyBuffer, RowsInOrder
  <2>2. ToSet(_events_to_flush') = {} /\ ToSet(writing) = {} /\ Ordered(_events_to_flush')
    <3>1. ToSet(<<>>) = {}
      BY EmptySeq, SetOfSeq
    <3>2. Ordered(<<>>)
      BY EmptySeq DEF Ordered
    <3> QED
      BY <2>1, <3>1, <3>2
  <2>3. RowsKept'
    BY <1>0, <2>1, <2>2 DEF RowsKept
  <2>4. AllBefore(writing', _events_to_flush') /\ AllBefore(log', _events_to_flush')
    BY <2>2 DEF AllBefore
  <2> QED
    BY <1>0, <2>1, <2>2, <2>3, <2>4 DEF RowsInOrder
<1>5. CASE WriteRows
  <2>1. writing' = <<>> /\ UNCHANGED <<_events_to_flush, rows>>
    BY <1>5 DEF WriteRows
  <2>2. ToSet(writing') = {} /\ Ordered(writing')
    <3>1. ToSet(<<>>) = {}
      BY EmptySeq, SetOfSeq
    <3>2. Ordered(<<>>)
      BY EmptySeq DEF Ordered
    <3> QED
      BY <2>1, <3>1, <3>2
  <2>3. ASSUME NEW begin \in Seq(MouseEvents), NEW lost \in SUBSET ToSet(writing),
               log' = log \o begin, lostRows' = lostRows \cup lost,
               ToSet(writing) = ToSet(begin) \cup lost, ToSet(begin) \cap lost = {},
               Ordered(begin)
        PROVE  RowsInOrder' /\ RowsKept'
    <3>1. AllBefore(log, begin)
      BY <1>0, <2>3 DEF RowsInOrder, AllBefore
    <3>2. ToSet(log') = ToSet(log) \cup ToSet(begin) /\ Ordered(log')
      BY <1>0, <1>1, <2>3, <3>1, ConcatKeepsOrder DEF RowsInOrder
    <3>3. AllBefore(log', _events_to_flush)
      BY <1>0, <2>3, <3>2 DEF RowsInOrder, AllBefore
    <3>4. /\ AllBefore(log', writing') /\ AllBefore(writing', _events_to_flush')
          /\ AllBefore(log', _events_to_flush')
      BY <2>1, <2>2, <3>3 DEF AllBefore
    <3>5. \A r \in lost : r \notin ToSet(log) \cup ToSet(_events_to_flush)
      <4>1. \A m, n \in MouseEvents : m < n => m # n
        BY <1>1
      <4>2. ToSet(log) \subseteq MouseEvents /\ ToSet(_events_to_flush) \subseteq MouseEvents
        BY <1>1, SetOfSeq
      <4> QED
        BY <1>0, <4>1, <4>2 DEF RowsInOrder, AllBefore
    <3>6. RowsKept'
      BY <1>0, <2>1, <2>2, <2>3, <3>2, <3>5 DEF RowsKept
    <3> QED
      BY <1>0, <2>1, <2>2, <3>2, <3>4, <3>6 DEF RowsInOrder
  <2>4. CASE log' = log \o writing /\ UNCHANGED lostRows
    <3>1. lostRows' = lostRows \cup {}
      BY <2>4
    <3> QED
      BY <1>0, <1>1, <2>3, <2>4, <3>1 DEF RowsInOrder
  <2>5. ASSUME NEW n \in 0 .. Len(writing) - 1, log' = log \o SubSeq(writing, 1, n),
               lostRows' = lostRows \cup ToSet(SubSeq(writing, n + 1, Len(writing)))
        PROVE  RowsInOrder' /\ RowsKept'
    <3> DEFINE begin == SubSeq(writing, 1, n)
               rest == SubSeq(writing, n + 1, Len(writing))
    <3>1. /\ begin \in Seq(MouseEvents) /\ rest \in Seq(MouseEvents) /\ Ordered(begin)
          /\ ToSet(writing) = ToSet(begin) \cup ToSet(rest) /\ AllBefore(begin, rest)
      <4>1. /\ writing \in Seq(MouseEvents) /\ MouseEvents \subseteq Int /\ n \in 0 .. Len(writing)
            /\ Ordered(writing)
        BY <1>0, <1>1 DEF RowsInOrder
      <4> QED
        BY <4>1, SplitKeepsOrder
    <3>2. log' = log \o begin /\ lostRows' = lostRows \cup ToSet(rest)
      BY <2>5
    <3> HIDE DEF begin, rest
    <3>3. ToSet(begin) \cap ToSet(rest) = {}
      <4>1. \A m, k \in MouseEvents : m < k => m # k
        BY <1>1
      <4>2. ToSet(begin) \subseteq MouseEvents /\ ToSet(rest) \subseteq MouseEvents
        BY <3>1, SetOfSeq
      <4> QED
        BY <3>1, <4>1, <4>2 DEF AllBefore
    <3> QED
      BY <2>3, <3>1, <3>2, <3>3
  <2> QED
    BY <1>5, <2>4, <2>5 DEF WriteRows
<1> QED
  BY <1>2, <1>3, <1>4, <1>5 DEF MouseLogNext

LEMMA MouseKeeps == MouseInv /\ [MouseLogNext]_mouseVars => MouseInv'
<1>1. ASSUME MouseInv, MouseLogNext PROVE MouseInv'
  BY <1>1, MouseTypeStep, EventsStep, RowsStep DEF MouseInv
<1>2. MouseInv /\ UNCHANGED mouseVars => MouseInv'
  BY DEF mouseVars, MouseInv, MouseLogTypeOK, RowsInOrder, RowsKept, EventsInOrder, AllBefore
<1> QED
  BY <1>1, <1>2

LEMMA KeptFromInv == MouseInv => LogKeepsOrder
<1> SUFFICES ASSUME MouseInv PROVE LogKeepsOrder
  OBVIOUS
<1> DEFINE begin == log \o writing
           kept == log \o writing \o _events_to_flush
<1>1. /\ _events_to_flush \in Seq(MouseEvents) /\ writing \in Seq(MouseEvents) /\ log \in Seq(MouseEvents)
      /\ MouseEvents \subseteq Int
  BY MouseTypes DEF MouseInv
<1>2. /\ begin \in Seq(MouseEvents) /\ ToSet(begin) = ToSet(log) \cup ToSet(writing) /\ Ordered(begin)
  BY <1>1, ConcatKeepsOrder DEF MouseInv, RowsInOrder
<1> HIDE DEF begin
<1>3. AllBefore(begin, _events_to_flush)
  BY <1>2 DEF MouseInv, RowsInOrder, AllBefore
<1>4. kept = begin \o _events_to_flush
  BY DEF begin
<1>5. ToSet(kept) = ToSet(begin) \cup ToSet(_events_to_flush) /\ Ordered(kept)
  <2>1. Ordered(_events_to_flush)
    BY DEF MouseInv, RowsInOrder
  <2>2. _events_to_flush \in Seq(MouseEvents) /\ MouseEvents \subseteq Int /\ begin \in Seq(MouseEvents)
    BY <1>1, <1>2
  <2>3. /\ ToSet(begin \o _events_to_flush) = ToSet(begin) \cup ToSet(_events_to_flush)
        /\ Ordered(begin \o _events_to_flush)
    BY <1>2, <1>3, <2>1, <2>2, ConcatKeepsOrder
  <2> QED
    BY <1>4, <2>3
<1>6. ToSet(kept) = ToSet(rows) \ lostRows
  BY <1>2, <1>5 DEF MouseInv, RowsKept
<1> QED
  BY <1>5, <1>6 DEF LogKeepsOrder, Ordered

-----------------------------------------------------------------------------
\* The monitors that compare snapshots: process_monitor.py and usb_monitor.py.

Event == [came : BOOLEAN, thing : Things]

\* A set becomes a sequence that has all its elements.
LEMMA SeqOfSet ==
  ASSUME NEW T, NEW S \in SUBSET T, IsFiniteSet(S)
  PROVE  /\ SetToSeq(S) \in Seq(T) /\ Len(SetToSeq(S)) \in Nat
         /\ \A i \in 1 .. Len(SetToSeq(S)) : SetToSeq(S)[i] \in S
         /\ \A e \in S : \E i \in 1 .. Len(SetToSeq(S)) : SetToSeq(S)[i] = e
<1> DEFINE n == Cardinality(S)
           f == SetToSeq(S)
<1>1. n \in Nat /\ ExistsBijection(1 .. n, S)
  BY FS_CardinalityType
<1>2. \E g \in [1 .. n -> S] : IsInjective(g)
  BY <1>1 DEF ExistsBijection, Bijection, Injection
<1>3. f \in [1 .. n -> S] /\ IsInjective(f)
  BY <1>2 DEF SetToSeq
<1>4. f \in Injection(1 .. n, S)
  BY <1>3 DEF Injection
<1>5. IsFiniteSet(1 .. n) /\ Cardinality(1 .. n) = n
  BY <1>1, FS_Interval
<1>6. f \in Surjection(1 .. n, S)
  <2> HIDE DEF f
  <2> QED
    BY <1>4, <1>5, FS_Injection
<1>7. f \in Seq(T) /\ Len(f) = n
  <2> HIDE DEF f, n
  <2>1. f \in [1 .. n -> T]
    BY <1>3
  <2>2. f \in Seq(T)
    BY <1>1, <2>1
  <2> QED
    BY <1>1, <2>1, <2>2, LenProperties
<1>8. \A e \in S : \E i \in 1 .. n : f[i] = e
  BY <1>6 DEF Surjection
<1> HIDE DEF f, n
<1>9. \A i \in 1 .. n : f[i] \in S
  BY <1>3
<1> QED
  BY <1>1, <1>7, <1>8, <1>9 DEF f

LEMMA Compared ==
  /\ Monitors = {"process", "usb"}
  /\ \A m \in Monitors : Len(Collections[m]) \in {1, 2}
  /\ \A m \in Monitors : \A i \in 1 .. Len(Collections[m]) : Collections[m][i] \in Kinds
  /\ \A m, o \in Monitors : \A i \in 1 .. Len(Collections[m]), j \in 1 .. Len(Collections[o]) :
       Collections[m][i] = Collections[o][j] => m = o /\ i = j
<1>1. Monitors = {"process", "usb"}
  BY DEF Monitors, Collections
<1>2. /\ Collections["process"] = <<"processes", "users">> /\ Collections["usb"] = <<"devices">>
  BY DEF Collections
<1>3. /\ Len(Collections["process"]) = 2 /\ Len(Collections["usb"]) = 1
      /\ Collections["process"][1] = "processes" /\ Collections["process"][2] = "users"
      /\ Collections["usb"][1] = "devices"
  BY <1>2
<1>4. (\A i \in 1 .. 2 : i = 1 \/ i = 2) /\ (\A i \in 1 .. 1 : i = 1)
  OBVIOUS
<1> QED
  BY <1>1, <1>3, <1>4 DEF Kinds

\* What monitor m has handed on and not yet leads to what it remembers.
Leads(m) ==
  LET events == round[m].events
  IN  /\ \A i \in 1 .. Len(events) : events[i].came <=> events[i].thing \in last[Kind(m)]
      /\ \A thing \in Things :
           \/ thing \in known[Kind(m)] <=> thing \in last[Kind(m)]
           \/ thing \in untold[Kind(m)]
           \/ \E i \in 1 .. Len(events) : events[i].thing = thing

\* Of the things whose report was not dropped, what one knows is what the monitor remembers.
Agree(kind) == known[kind] \ untold[kind] = last[kind] \ untold[kind]

LeadsInv ==
  \A m \in Monitors :
    /\ round[m].at <= Len(Collections[m])
    /\ \A i \in 1 .. Len(Collections[m]) :
         i # round[m].at => Agree(Collections[m][i])
    /\ Leads(m)

SnapshotInv == SnapshotTypeOK /\ LeadsInv

LEMMA SnapshotStarts == SnapshotInit => SnapshotInv
<1> SUFFICES ASSUME SnapshotInit PROVE SnapshotInv
  OBVIOUS
<1>1. /\ there \in [Kinds -> SUBSET Things] /\ last = there /\ known = there
      /\ untold \in [Kinds -> SUBSET Things]
      /\ \A m \in Monitors : round[m].at = 1 /\ round[m].events = <<>>
  BY DEF SnapshotInit
<1>2. SnapshotTypeOK
  <2>1. round \in [Monitors -> [at : 1 .. 2, events : Seq(Event)]]
    <3>1. <<>> \in Seq(Event) /\ 1 \in 1 .. 2
      OBVIOUS
    <3> QED
      BY <3>1 DEF SnapshotInit
  <2>2. moves \in 0 .. MaxMoves /\ queryErrors \in 0 .. MaxErrors
    BY SnapshotAssumption DEF SnapshotInit
  <2> QED
    BY <1>1, <2>1, <2>2 DEF SnapshotTypeOK, Event
<1>3. ASSUME NEW m \in Monitors
      PROVE  round[m].at <= Len(Collections[m]) /\ Leads(m)
  <2>1. round[m].at <= Len(Collections[m])
    <3>1. \A n \in {1, 2} : 1 <= n
      OBVIOUS
    <3> QED
      BY <1>1, <3>1, Compared
  <2>2. Len(round[m].events) = 0
    BY <1>1
  <2> QED
    BY <1>1, <2>1, <2>2 DEF Leads
<1> QED
  BY <1>1, <1>2, <1>3 DEF SnapshotInv, LeadsInv, Agree

LEMMA SnapshotTypes ==
  ASSUME SnapshotInv, NEW m \in Monitors
  PROVE  /\ round \in [Monitors -> [at : 1 .. 2, events : Seq(Event)]]
         /\ last \in [Kinds -> SUBSET Things] /\ known \in [Kinds -> SUBSET Things]
         /\ there \in [Kinds -> SUBSET Things] /\ untold \in [Kinds -> SUBSET Things]
         /\ round[m].events \in Seq(Event) /\ Len(round[m].events) \in Nat
         /\ \A i \in 1 .. Len(round[m].events) : round[m].events[i] \in Event
         /\ round[m].at \in 1 .. Len(Collections[m]) /\ Kind(m) \in Kinds
         /\ AfterKind(m) \in 1 .. Len(Collections[m]) /\ AfterKind(m) \in 1 .. 2
         /\ round[m].at \in 1 .. 2
<1>1. /\ round \in [Monitors -> [at : 1 .. 2, events : Seq(Event)]]
      /\ last \in [Kinds -> SUBSET Things] /\ known \in [Kinds -> SUBSET Things]
      /\ there \in [Kinds -> SUBSET Things] /\ untold \in [Kinds -> SUBSET Things]
  BY DEF SnapshotInv, SnapshotTypeOK, Event
<1>2. round[m].events \in Seq(Event) /\ round[m].at \in 1 .. 2
  BY <1>1
<1>3. round[m].at <= Len(Collections[m]) /\ Len(Collections[m]) \in {1, 2}
  BY Compared DEF SnapshotInv, LeadsInv
<1>4. round[m].at \in 1 .. Len(Collections[m])
  BY <1>2, <1>3
<1>5. Kind(m) \in Kinds
  BY <1>4, Compared DEF Kind
<1>6. AfterKind(m) \in 1 .. Len(Collections[m]) /\ AfterKind(m) \in 1 .. 2
  <2>1. CASE Len(Collections[m]) = 1
    <3>1. \A n \in 1 .. 2 : (n % 1) + 1 = 1
      OBVIOUS
    <3> QED
      BY <1>2, <2>1, <3>1 DEF AfterKind
  <2>2. CASE Len(Collections[m]) = 2
    <3>1. \A n \in 1 .. 2 : (n % 2) + 1 \in 1 .. 2
      OBVIOUS
    <3> QED
      BY <1>2, <2>2, <3>1 DEF AfterKind
  <2> QED
    BY <1>3, <2>1, <2>2
<1> QED
  BY <1>1, <1>2, <1>4, <1>5, <1>6, LenProperties, ElementOfSeq

\* What a round's step of monitor m does to others: nothing.
\* That step: upTo is the collection it comes to, and of kind Kind(m) it leaves these.
Turns(m, upTo, events, things, all, lost) ==
  /\ upTo \in 1 .. Len(Collections[m]) /\ (events = <<>> \/ upTo = round[m].at)
  /\ events \in Seq(Event)
  /\ things \in SUBSET Things /\ all \in SUBSET Things /\ lost \in SUBSET Things
  /\ round' = [round EXCEPT ![m] = [at |-> upTo, events |-> events]]
  /\ last' = [last EXCEPT ![Kind(m)] = things] /\ known' = [known EXCEPT ![Kind(m)] = all]
  /\ untold' = [untold EXCEPT ![Kind(m)] = lost]
  /\ \A i \in 1 .. Len(events) : events[i].came <=> events[i].thing \in things
  /\ \A thing \in Things :
       \/ thing \in all <=> thing \in things
       \/ thing \in lost
       \/ \E i \in 1 .. Len(events) : events[i].thing = thing

LEMMA RoundStep ==
  ASSUME SnapshotInv, NEW m \in Monitors, NEW upTo, NEW events, NEW things, NEW all, NEW lost,
         Turns(m, upTo, events, things, all, lost)
  PROVE  LeadsInv' /\ last' \in [Kinds -> SUBSET Things] /\ known' \in [Kinds -> SUBSET Things]
         /\ untold' \in [Kinds -> SUBSET Things]
         /\ round' \in [Monitors -> [at : 1 .. 2, events : Seq(Event)]]
<1> DEFINE k == Kind(m)
<1>0. /\ upTo \in 1 .. Len(Collections[m]) /\ (events = <<>> \/ upTo = round[m].at)
      /\ events \in Seq(Event)
      /\ things \in SUBSET Things /\ all \in SUBSET Things /\ lost \in SUBSET Things
      /\ round' = [round EXCEPT ![m] = [at |-> upTo, events |-> events]]
      /\ last' = [last EXCEPT ![k] = things] /\ known' = [known EXCEPT ![k] = all]
      /\ untold' = [untold EXCEPT ![k] = lost]
      /\ \A i \in 1 .. Len(events) : events[i].came <=> events[i].thing \in things
      /\ \A thing \in Things :
           \/ thing \in all <=> thing \in things
           \/ thing \in lost
           \/ \E i \in 1 .. Len(events) : events[i].thing = thing
  BY DEF Turns
<1>1. /\ round \in [Monitors -> [at : 1 .. 2, events : Seq(Event)]]
      /\ last \in [Kinds -> SUBSET Things] /\ known \in [Kinds -> SUBSET Things]
      /\ untold \in [Kinds -> SUBSET Things]
      /\ round[m].at \in 1 .. Len(Collections[m]) /\ k \in Kinds
      /\ upTo \in 1 .. 2
      /\ k = Collections[m][round[m].at]
  <2>1. Len(Collections[m]) \in {1, 2}
    BY Compared
  <2>2. upTo \in 1 .. 2
    <3>1. CASE Len(Collections[m]) = 1
      BY <1>0, <3>1
    <3>2. CASE Len(Collections[m]) = 2
      BY <1>0, <3>2
    <3> QED
      BY <2>1, <3>1, <3>2
  <2> QED
    BY <2>2, SnapshotTypes DEF Kind
<1>3. /\ round' \in [Monitors -> [at : 1 .. 2, events : Seq(Event)]]
      /\ round'[m].at = upTo /\ round'[m].events = events
      /\ \A o \in Monitors : o # m => round'[o] = round[o]
  BY <1>0, <1>1
<1> HIDE DEF k
<1>4. /\ last' \in [Kinds -> SUBSET Things] /\ known' \in [Kinds -> SUBSET Things]
      /\ untold' \in [Kinds -> SUBSET Things]
      /\ last'[k] = things /\ known'[k] = all /\ untold'[k] = lost
      /\ \A kind \in Kinds : kind # k => /\ last'[kind] = last[kind] /\ known'[kind] = known[kind]
                                         /\ untold'[kind] = untold[kind]
  BY <1>0, <1>1
<1>5. ASSUME NEW kind \in Kinds, kind # k, Agree(kind) PROVE Agree(kind)'
  BY <1>4, <1>5 DEF Agree
<1>6. ASSUME NEW o \in Monitors, o # m
      PROVE  /\ round'[o].at <= Len(Collections[o])
             /\ \A i \in 1 .. Len(Collections[o]) :
                  i # round'[o].at => Agree(Collections[o][i])'
             /\ Leads(o)'
  <2>1. \A i \in 1 .. Len(Collections[o]) : Collections[o][i] # k /\ Collections[o][i] \in Kinds
    BY <1>1, <1>6, Compared
  <2>2. round'[o] = round[o] /\ Kind(o)' = Kind(o)
    BY <1>3, <1>6 DEF Kind
  <2>3. Kind(o) # k /\ Kind(o) \in Kinds
    BY <2>1, SnapshotTypes DEF Kind
  <2>4. Leads(o)
    BY DEF SnapshotInv, LeadsInv
  <2>5. Leads(o)'
    BY <1>4, <2>2, <2>3, <2>4 DEF Leads
  <2>6. /\ round[o].at <= Len(Collections[o])
        /\ \A i \in 1 .. Len(Collections[o]) : i # round[o].at => Agree(Collections[o][i])
    BY DEF SnapshotInv, LeadsInv
  <2>7. ASSUME NEW i \in 1 .. Len(Collections[o]), i # round'[o].at
        PROVE  Agree(Collections[o][i])'
    BY <1>5, <2>1, <2>2, <2>6, <2>7
  <2> QED
    BY <2>2, <2>5, <2>6, <2>7
<1>7. ASSUME events = <<>> PROVE known'[k] \ untold'[k] = last'[k] \ untold'[k]
  <2>1. ~ \E i : i \in 1 .. Len(events)
    BY <1>7
  <2>2. \A thing \in Things : (thing \in all <=> thing \in things) \/ thing \in lost
    BY <1>0, <2>1
  <2>3. all \ lost = things \ lost
    BY <1>0, <2>2
  <2> QED
    BY <1>4, <2>3
<1>8. upTo <= Len(Collections[m])
  BY <1>0, Compared
<1>9. ASSUME NEW i \in 1 .. Len(Collections[m]), i # upTo \/ events = <<>>
      PROVE  Agree(Collections[m][i])'
  <2>1. CASE i # round[m].at
    <3>1. Agree(Collections[m][i])
      BY <2>1 DEF SnapshotInv, LeadsInv
    <3>2. Collections[m][i] \in Kinds /\ Collections[m][i] # k
      <4>1. k = Collections[m][round[m].at] /\ round[m].at \in 1 .. Len(Collections[m])
        BY <1>1
      <4> QED
        BY <2>1, <4>1, Compared
    <3> QED
      BY <1>5, <3>1, <3>2
  <2>2. CASE i = round[m].at
    <3>1. events = <<>> /\ k = Collections[m][i]
      BY <1>0, <1>1, <1>9, <2>2
    <3> QED
      BY <1>7, <3>1 DEF Agree
  <2> QED
    BY <2>1, <2>2
<1>10. Leads(m)'
  <2>1. CASE events = <<>>
    <3>1. Len(events) = 0 /\ Kind(m)' = Collections[m][upTo]
      BY <1>3, <2>1 DEF Kind
    <3>2. Agree(Collections[m][upTo])'
      BY <1>0, <1>9, <2>1
    <3> QED
      BY <1>3, <3>1, <3>2 DEF Leads, Agree
  <2>2. CASE events # <<>>
    <3>1. Kind(m)' = k
      BY <1>0, <1>1, <1>3, <2>2 DEF Kind
    <3> QED
      BY <1>0, <1>3, <1>4, <3>1 DEF Leads
  <2> QED
    BY <2>1, <2>2
<1>11. LeadsInv'
  <2>1. \A i \in 1 .. Len(Collections[m]) : i # round'[m].at => Agree(Collections[m][i])'
    BY <1>3, <1>9
  <2> QED
    BY <1>3, <1>6, <1>8, <1>10, <2>1 DEF LeadsInv
<1> QED
  BY <1>3, <1>4, <1>11

LEMMA FiniteEvents ==
  ASSUME NEW b, NEW things \in SUBSET Things
  PROVE  IsFiniteSet([came : {b}, thing : things])
<1> DEFINE f == [thing \in things |-> [came |-> b, thing |-> thing]]
           R == [came : {b}, thing : things]
<1>1. IsFiniteSet(things)
  BY SnapshotAssumption, FS_Subset
<1>2. \A r \in R : r.thing \in things /\ r.came = b /\ r = [came |-> r.came, thing |-> r.thing]
  OBVIOUS
<1>3. \A thing \in things : f[thing] = [came |-> b, thing |-> thing]
  OBVIOUS
<1>4. f \in [things -> R]
  OBVIOUS
<1> HIDE DEF f
<1>5. ASSUME NEW r \in R PROVE \E thing \in things : f[thing] = r
  <2>1. r.thing \in things /\ f[r.thing] = r
    BY <1>2, <1>3
  <2> QED
    BY <2>1
<1> HIDE DEF R
<1>6. f \in Surjection(things, R)
  BY <1>4, <1>5 DEF Surjection
<1>7. IsFiniteSet(R)
  BY <1>1, <1>6, FS_Surjection
<1> QED
  BY <1>7 DEF R

\* The events of a comparison say what came and what went.
LEMMA ComparedEvents ==
  ASSUME NEW former \in SUBSET Things, NEW current \in SUBSET Things
  PROVE  LET Events(came, things) == SetToSeq([came : {came}, thing : things])
             events == Events(TRUE, current \ former) \o Events(FALSE, former \ current)
         IN  /\ events \in Seq(Event)
             /\ \A i \in 1 .. Len(events) : events[i].came <=> events[i].thing \in current
             /\ \A thing \in Things :
                  (thing \in former <=> thing \in current)
                    \/ \E i \in 1 .. Len(events) : events[i].thing = thing
<1> DEFINE A == [came : {TRUE}, thing : current \ former]
           B == [came : {FALSE}, thing : former \ current]
           s == SetToSeq(A)
           t == SetToSeq(B)
           events == s \o t
<1>1. IsFiniteSet(A) /\ IsFiniteSet(B)
  <2>1. ASSUME NEW b \in BOOLEAN, NEW things \in SUBSET Things
        PROVE  IsFiniteSet([came : {b}, thing : things])
    BY FiniteEvents
  <2> QED
    BY <2>1
<1>3. A \in SUBSET Event /\ B \in SUBSET Event
  BY DEF Event
<1>10. \A e \in A \cup B : e.came <=> e.thing \in current
  OBVIOUS
<1>11. \A thing \in current \ former : \E e \in A : e.thing = thing
  <2>1. ASSUME NEW thing \in current \ former
        PROVE  /\ [came |-> TRUE, thing |-> thing] \in A
               /\ [came |-> TRUE, thing |-> thing].thing = thing
    OBVIOUS
  <2> HIDE DEF A
  <2> QED
    BY <2>1
<1>12. \A thing \in former \ current : \E e \in B : e.thing = thing
  <2>1. ASSUME NEW thing \in former \ current
        PROVE  /\ [came |-> FALSE, thing |-> thing] \in B
               /\ [came |-> FALSE, thing |-> thing].thing = thing
    OBVIOUS
  <2> HIDE DEF B
  <2> QED
    BY <2>1
<1> HIDE DEF A, B
<1>2. /\ s \in Seq(Event) /\ Len(s) \in Nat
      /\ \A i \in 1 .. Len(s) : s[i] \in A
      /\ \A e \in A : \E i \in 1 .. Len(s) : s[i] = e
  BY <1>1, <1>3, SeqOfSet
<1>4. /\ t \in Seq(Event) /\ Len(t) \in Nat
      /\ \A i \in 1 .. Len(t) : t[i] \in B
      /\ \A e \in B : \E i \in 1 .. Len(t) : t[i] = e
  BY <1>1, <1>3, SeqOfSet
<1> HIDE DEF s, t
<1>5. /\ events \in Seq(Event) /\ Len(events) = Len(s) + Len(t)
      /\ \A i \in 1 .. Len(s) + Len(t) : events[i] = IF i <= Len(s) THEN s[i] ELSE t[i - Len(s)]
  BY <1>2, <1>4, ConcatProperties
<1> HIDE DEF events
<1>6. ASSUME NEW i \in 1 .. Len(events) PROVE events[i] \in A \cup B
  <2>1. CASE i <= Len(s)
    <3>1. i \in 1 .. Len(s) /\ events[i] = s[i]
      BY <1>2, <1>5, <2>1
    <3> QED
      BY <1>2, <3>1
  <2>2. CASE ~(i <= Len(s))
    <3>1. i - Len(s) \in 1 .. Len(t) /\ events[i] = t[i - Len(s)]
      BY <1>2, <1>4, <1>5, <2>2
    <3> QED
      BY <1>4, <3>1
  <2> QED
    BY <2>1, <2>2
<1>7. \A i \in 1 .. Len(events) : events[i].came <=> events[i].thing \in current
  BY <1>6, <1>10
<1>8. ASSUME NEW e \in A \cup B PROVE \E i \in 1 .. Len(events) : events[i] = e
  <2>1. CASE e \in A
    <3>1. PICK i \in 1 .. Len(s) : s[i] = e
      BY <1>2, <2>1
    <3>2. i \in 1 .. Len(events) /\ events[i] = e
      BY <1>2, <1>4, <1>5, <3>1
    <3> QED
      BY <3>2
  <2>2. CASE e \in B
    <3>1. PICK i \in 1 .. Len(t) : t[i] = e
      BY <1>4, <2>2
    <3>2. Len(s) + i \in 1 .. Len(s) + Len(t) /\ ~(Len(s) + i <= Len(s)) /\ (Len(s) + i) - Len(s) = i
      BY <1>2, <1>4
    <3>3. events[Len(s) + i] = e
      BY <1>5, <3>1, <3>2
    <3> QED
      BY <1>5, <3>2, <3>3
  <2> QED
    BY <2>1, <2>2
<1>9. ASSUME NEW thing \in Things, ~(thing \in former <=> thing \in current)
      PROVE  \E i \in 1 .. Len(events) : events[i].thing = thing
  <2>1. \E e \in A \cup B : e.thing = thing
    BY <1>9, <1>11, <1>12
  <2> QED
    BY <1>8, <2>1
<1> QED
  BY <1>5, <1>7, <1>9 DEF events, s, t, A, B

\* A monitor that has nothing to hand on knows what it remembers.
LEMMA NothingToHandOn ==
  ASSUME SnapshotInv, NEW m \in Monitors, round[m].events = <<>>
  PROVE  Agree(Kind(m))
<1>1. \A i : i \notin 1 .. Len(round[m].events)
  BY SMT
<1>2. \A thing \in Things : \/ thing \in known[Kind(m)] <=> thing \in last[Kind(m)]
                            \/ thing \in untold[Kind(m)]
  BY <1>1 DEF SnapshotInv, LeadsInv, Leads
<1>3. known[Kind(m)] \in SUBSET Things /\ last[Kind(m)] \in SUBSET Things
  BY SnapshotTypes
<1> QED
  BY <1>2, <1>3 DEF Agree

LEMMA CompareStep ==
  ASSUME SnapshotInv, NEW m \in Monitors, round[m].events = <<>>,
         NEW current \in SUBSET Things, Compare(m, current), UNCHANGED <<known, untold>>
  PROVE  LeadsInv' /\ last' \in [Kinds -> SUBSET Things] /\ known' \in [Kinds -> SUBSET Things]
         /\ untold' \in [Kinds -> SUBSET Things]
         /\ round' \in [Monitors -> [at : 1 .. 2, events : Seq(Event)]]
<1> DEFINE former == last[Kind(m)]
           Listed(came, things) == SetToSeq([came : {came}, thing : things])
           lost == untold[Kind(m)]
           all == known[Kind(m)]
           events == Listed(TRUE, current \ former) \o Listed(FALSE, former \ current)
           upTo == IF events = <<>> THEN AfterKind(m) ELSE round[m].at
<1>1. /\ former \in SUBSET Things /\ lost \in SUBSET Things /\ all \in SUBSET Things
      /\ known \in [Kinds -> SUBSET Things] /\ untold \in [Kinds -> SUBSET Things]
      /\ Kind(m) \in Kinds
      /\ AfterKind(m) \in 1 .. Len(Collections[m]) /\ round[m].at \in 1 .. Len(Collections[m])
  BY SnapshotTypes
<1>2. \A thing \in Things : (thing \in all <=> thing \in former) \/ thing \in lost
  BY NothingToHandOn DEF Agree
<1>3. /\ events \in Seq(Event)
      /\ \A i \in 1 .. Len(events) : events[i].came <=> events[i].thing \in current
      /\ \A thing \in Things :
           (thing \in former <=> thing \in current)
             \/ \E i \in 1 .. Len(events) : events[i].thing = thing
  BY <1>1, ComparedEvents
<1>4. round' = [round EXCEPT ![m] = [at |-> upTo, events |-> events]]
  BY SnapshotTypes DEF Compare
<1>5. last' = [last EXCEPT ![Kind(m)] = current]
  BY DEF Compare, Remembered
<1> HIDE DEF events, former, lost, all
<1>6. /\ known' = [known EXCEPT ![Kind(m)] = all]
      /\ untold' = [untold EXCEPT ![Kind(m)] = lost]
  BY <1>1 DEF all, lost
<1>7. \A thing \in Things :
        \/ thing \in all <=> thing \in current
        \/ thing \in lost
        \/ \E i \in 1 .. Len(events) : events[i].thing = thing
  BY <1>2, <1>3
<1>8. upTo \in 1 .. Len(Collections[m]) /\ (events = <<>> \/ upTo = round[m].at)
  BY <1>1
<1> HIDE DEF upTo
<1>9. Turns(m, upTo, events, current, all, lost)
  BY <1>1, <1>3, <1>4, <1>5, <1>6, <1>7, <1>8 DEF Turns
<1> QED
  BY <1>9, RoundStep

LEMMA HandOnStep ==
  ASSUME SnapshotInv, NEW m \in Monitors, round[m].events # <<>>, last' = last,
         LET event == Head(round[m].events)
             rest == Tail(round[m].events)
         IN  /\ known' = [known EXCEPT ![Kind(m)] = IF event.came THEN @ \cup {event.thing}
                                                                ELSE @ \ {event.thing}]
             /\ untold' = [untold EXCEPT ![Kind(m)] = @ \ {event.thing}]
             /\ round' = [round EXCEPT ![m] = [at |-> IF rest = <<>> THEN AfterKind(m) ELSE @.at,
                                               events |-> rest]]
  PROVE  LeadsInv' /\ last' \in [Kinds -> SUBSET Things] /\ known' \in [Kinds -> SUBSET Things]
         /\ untold' \in [Kinds -> SUBSET Things]
         /\ round' \in [Monitors -> [at : 1 .. 2, events : Seq(Event)]]
<1> DEFINE events == round[m].events
           event == Head(events)
           rest == Tail(events)
           k == Kind(m)
           lost == untold[k] \ {event.thing}
           upTo == IF rest = <<>> THEN AfterKind(m) ELSE round[m].at
           all == IF event.came THEN known[k] \cup {event.thing} ELSE known[k] \ {event.thing}
<1>1. /\ last \in [Kinds -> SUBSET Things] /\ known \in [Kinds -> SUBSET Things]
      /\ untold \in [Kinds -> SUBSET Things]
      /\ events \in Seq(Event) /\ Len(events) \in Nat /\ k \in Kinds
      /\ \A i \in 1 .. Len(events) : events[i] \in Event
  BY SnapshotTypes
<1>2. events # <<>>
  OBVIOUS
<1>3. /\ round' = [round EXCEPT ![m] = [at |-> upTo, events |-> rest]]
      /\ known' = [known EXCEPT ![k] = all] /\ last' = last
      /\ untold' = [untold EXCEPT ![k] = lost]
      /\ upTo \in 1 .. Len(Collections[m]) /\ (rest = <<>> \/ upTo = round[m].at)
  BY SnapshotTypes
<1>4. /\ \A i \in 1 .. Len(events) : events[i].came <=> events[i].thing \in last[k]
      /\ \A thing \in Things :
           \/ thing \in known[k] <=> thing \in last[k]
           \/ thing \in untold[k]
           \/ \E i \in 1 .. Len(events) : events[i].thing = thing
  BY DEF SnapshotInv, LeadsInv, Leads
<1> HIDE DEF k, events, upTo
<1>5. /\ rest \in Seq(Event) /\ Len(rest) = Len(events) - 1 /\ Len(events) >= 1
      /\ \A i \in 1 .. Len(events) - 1 : rest[i] = events[i + 1]
      /\ event = events[1]
  <2>1. /\ events \in Seq(Event) /\ events # <<>>
    BY <1>1, <1>2
  <2> QED
    BY <2>1, HeadTailProperties, LenProperties
<1> HIDE DEF rest, event
<1>6. event \in Event /\ (event.came <=> event.thing \in last[k])
  BY <1>1, <1>4, <1>5
<1>7. event.thing \in Things /\ event.came \in BOOLEAN
  BY <1>6 DEF Event
<1>8. all \in SUBSET Things /\ lost \in SUBSET Things /\ last[k] \in SUBSET Things
  BY <1>1, <1>7
<1>9. \A i \in 1 .. Len(rest) : rest[i].came <=> rest[i].thing \in last[k]
  BY <1>1, <1>4, <1>5
<1>10. ASSUME NEW thing \in Things
       PROVE  \/ thing \in all <=> thing \in last[k]
              \/ thing \in lost
              \/ \E i \in 1 .. Len(rest) : rest[i].thing = thing
  <2>1. CASE thing = event.thing
    BY <1>6, <2>1
  <2>2. CASE thing # event.thing
    <3>1. (thing \in all <=> thing \in known[k]) /\ (thing \in untold[k] => thing \in lost)
      BY <2>2
    <3>2. CASE \E i \in 1 .. Len(events) : events[i].thing = thing
      <4>1. PICK i \in 1 .. Len(events) : events[i].thing = thing
        BY <3>2
      <4>2. i # 1
        BY <1>5, <2>2, <4>1
      <4>3. i - 1 \in 1 .. Len(rest) /\ rest[i - 1] = events[i]
        BY <1>1, <1>5, <4>2
      <4> QED
        BY <4>1, <4>3
    <3> QED
      BY <1>4, <3>1, <3>2
  <2> QED
    BY <2>1, <2>2
<1> HIDE DEF all, lost
<1>11. last' = [last EXCEPT ![k] = last[k]]
  BY <1>1, <1>3
<1> DEFINE things == last[k]
<1>12. /\ rest \in Seq(Event) /\ things \in SUBSET Things /\ all \in SUBSET Things
       /\ last' = [last EXCEPT ![Kind(m)] = things] /\ known' = [known EXCEPT ![Kind(m)] = all]
       /\ untold' = [untold EXCEPT ![Kind(m)] = lost] /\ lost \in SUBSET Things
  BY <1>3, <1>5, <1>8, <1>11 DEF k
<1>13. /\ \A i \in 1 .. Len(rest) : rest[i].came <=> rest[i].thing \in things
       /\ \A thing \in Things :
            \/ thing \in all <=> thing \in things
            \/ thing \in lost
            \/ \E i \in 1 .. Len(rest) : rest[i].thing = thing
  BY <1>9, <1>10
<1>14. /\ round' = [round EXCEPT ![m] = [at |-> upTo, events |-> rest]]
       /\ upTo \in 1 .. Len(Collections[m]) /\ (rest = <<>> \/ upTo = round[m].at)
  BY <1>3
<1> HIDE DEF things
<1>15. Turns(m, upTo, rest, things, all, lost)
  BY <1>12, <1>13, <1>14 DEF Turns
<1> QED
  BY <1>15, RoundStep

\* A report that raises: of what was to be handed on nobody will hear.
LEMMA DroppedStep ==
  ASSUME SnapshotInv, NEW m \in Monitors, UNCHANGED <<last, known>>,
         untold' = [untold EXCEPT ![Kind(m)] = @ \cup {e.thing : e \in ToSet(round[m].events)}],
         round' = [round EXCEPT ![m] = [at |-> 1, events |-> <<>>]]
  PROVE  LeadsInv' /\ last' \in [Kinds -> SUBSET Things] /\ known' \in [Kinds -> SUBSET Things]
         /\ untold' \in [Kinds -> SUBSET Things]
         /\ round' \in [Monitors -> [at : 1 .. 2, events : Seq(Event)]]
<1> DEFINE events == round[m].events
           k == Kind(m)
           lost == untold[k] \cup {e.thing : e \in ToSet(events)}
           all == known[k]
           things == last[k]
<1>1. /\ last \in [Kinds -> SUBSET Things] /\ known \in [Kinds -> SUBSET Things]
      /\ untold \in [Kinds -> SUBSET Things] /\ k \in Kinds
      /\ \A i \in 1 .. Len(events) : events[i] \in Event
  BY SnapshotTypes
<1>2. \A thing \in Things : \/ thing \in known[k] <=> thing \in last[k]
                            \/ thing \in untold[k]
                            \/ \E i \in 1 .. Len(events) : events[i].thing = thing
  BY DEF SnapshotInv, LeadsInv, Leads
<1>3. untold' = [untold EXCEPT ![k] = lost]
  OBVIOUS
<1> HIDE DEF k, events
<1>4. ToSet(events) = {events[i] : i \in 1 .. Len(events)}
  <2>1. events \in Seq(Event)
    BY SnapshotTypes DEF events
  <2> QED
    BY <2>1 DEF ToSet
<1>5. \A i \in 1 .. Len(events) : events[i].thing \in lost
  BY <1>4
<1>6. lost \in SUBSET Things /\ all \in SUBSET Things /\ things \in SUBSET Things
  BY <1>1, <1>4 DEF Event
<1>7. \A thing \in Things : (thing \in all <=> thing \in things) \/ thing \in lost
  BY <1>2, <1>5
<1>8. last' = [last EXCEPT ![k] = things] /\ known' = [known EXCEPT ![k] = all]
  BY <1>1
<1> HIDE DEF lost, all, things
<1> DEFINE none == <<>>
<1>9. none \in Seq(Event) /\ none = <<>> /\ ~ \E i : i \in 1 .. Len(none)
  OBVIOUS
<1>10. 1 \in 1 .. Len(Collections[m])
  <2>1. Len(Collections[m]) \in {1, 2}
    BY Compared
  <2> QED
    BY <2>1
<1>11. /\ round' = [round EXCEPT ![m] = [at |-> 1, events |-> none]]
       /\ last' = [last EXCEPT ![Kind(m)] = things] /\ known' = [known EXCEPT ![Kind(m)] = all]
       /\ untold' = [untold EXCEPT ![Kind(m)] = lost]
  BY <1>3, <1>8 DEF k
<1> HIDE DEF none
<1>12. /\ \A i \in 1 .. Len(none) : none[i].came <=> none[i].thing \in things
       /\ \A thing \in Things :
            \/ thing \in all <=> thing \in things
            \/ thing \in lost
            \/ \E i \in 1 .. Len(none) : none[i].thing = thing
  BY <1>7, <1>9
<1>13. Turns(m, 1, none, things, all, lost)
  BY <1>6, <1>9, <1>10, <1>11, <1>12 DEF Turns
<1> QED
  BY <1>13, RoundStep

LEMMA SnapshotNextStep == SnapshotInv /\ SnapshotNext => SnapshotInv'
<1> SUFFICES ASSUME SnapshotInv, SnapshotNext PROVE SnapshotInv'
  OBVIOUS
<1>1. /\ there \in [Kinds -> SUBSET Things] /\ moves \in 0 .. MaxMoves
      /\ queryErrors \in 0 .. MaxErrors /\ last \in [Kinds -> SUBSET Things]
      /\ round \in [Monitors -> [at : 1 .. 2, events : Seq(Event)]]
      /\ known \in [Kinds -> SUBSET Things] /\ untold \in [Kinds -> SUBSET Things]
  BY DEF SnapshotInv, SnapshotTypeOK, Event
<1>2. MaxMoves \in Nat /\ MaxErrors \in Nat
  BY SnapshotAssumption
<1>3. ASSUME NEW kind \in Kinds, NEW thing \in Things, ComesOrGoes(kind, thing)
      PROVE  SnapshotInv'
  <2>1. UNCHANGED <<last, round, queryErrors, known, untold>>
    BY <1>3 DEF ComesOrGoes
  <2>2. there' \in [Kinds -> SUBSET Things]
    BY <1>1, <1>3 DEF ComesOrGoes
  <2>3. moves' \in 0 .. MaxMoves
    BY <1>1, <1>2, <1>3 DEF ComesOrGoes
  <2>4. LeadsInv'
    BY <2>1 DEF SnapshotInv, LeadsInv, Leads, Kind, Agree
  <2>5. SnapshotTypeOK'
    BY <1>1, <2>1, <2>2, <2>3 DEF SnapshotTypeOK, Event
  <2> QED
    BY <2>4, <2>5 DEF SnapshotInv
<1>4. ASSUME NEW m \in Monitors, CheckEvents(m)
      PROVE  SnapshotInv'
  <2>1. UNCHANGED <<there, moves, known, untold>> /\ round[m].events = <<>>
    BY <1>4 DEF CheckEvents
  <2>2. queryErrors' \in 0 .. MaxErrors
    BY <1>1, <1>2, <1>4 DEF CheckEvents
  <2>3. Kind(m) \in Kinds
    BY SnapshotTypes
  <2>4. ASSUME NEW current \in SUBSET Things, Compare(m, current)
        PROVE  SnapshotInv'
    <3>1. LeadsInv' /\ last' \in [Kinds -> SUBSET Things] /\ known' \in [Kinds -> SUBSET Things]
          /\ untold' \in [Kinds -> SUBSET Things]
          /\ round' \in [Monitors -> [at : 1 .. 2, events : Seq(Event)]]
      BY <2>1, <2>4, CompareStep
    <3> QED
      BY <1>1, <2>1, <2>2, <3>1 DEF SnapshotInv, SnapshotTypeOK, Event
  <2>5. CASE Compare(m, there[Kind(m)])
    <3>1. there[Kind(m)] \in SUBSET Things
      BY <1>1, <2>3
    <3> QED
      BY <2>4, <2>5, <3>1
  <2>6. CASE \E current \in Partly(Kind(m)) : Compare(m, current)
    <3>1. PICK current \in Partly(Kind(m)) : Compare(m, current)
      BY <2>6
    <3>2. there[Kind(m)] \in SUBSET Things
      BY <1>1, <2>3
    <3>3. current \in SUBSET Things
      <4>1. CASE Kind(m) = "devices"
        BY <3>1, <3>2, <4>1 DEF Partly
      <4>2. CASE Kind(m) = "users"
        BY <3>1, <4>2 DEF Partly
      <4>3. CASE Kind(m) = "processes"
        BY <3>1, <4>3 DEF Partly
      <4> QED
        BY <2>3, <4>1, <4>2, <4>3 DEF Kinds
    <3> QED
      BY <2>4, <3>1, <3>3
  <2>7. CASE last' = last /\ round' = round
    <3>1. LeadsInv'
      BY <2>1, <2>7 DEF SnapshotInv, LeadsInv, Leads, Kind, Agree
    <3> QED
      BY <1>1, <2>1, <2>2, <2>7, <3>1 DEF SnapshotInv, SnapshotTypeOK, Event
  <2> QED
    BY <1>4, <2>5, <2>6, <2>7 DEF CheckEvents
<1>5. ASSUME NEW m \in Monitors, HandOn(m)
      PROVE  SnapshotInv'
  <2>1. UNCHANGED <<there, moves, last>> /\ round[m].events # <<>>
    BY <1>5 DEF HandOn
  <2>2. queryErrors' \in 0 .. MaxErrors
    <3>1. queryErrors' = queryErrors \/ (queryErrors < MaxErrors /\ queryErrors' = queryErrors + 1)
      BY <1>5 DEF HandOn
    <3> QED
      BY <1>1, <1>2, <3>1
  <2>3. LeadsInv' /\ last' \in [Kinds -> SUBSET Things] /\ known' \in [Kinds -> SUBSET Things]
        /\ untold' \in [Kinds -> SUBSET Things]
        /\ round' \in [Monitors -> [at : 1 .. 2, events : Seq(Event)]]
    <3>1. CASE UNCHANGED queryErrors
      BY <1>1, <1>5, <2>1, <3>1, HandOnStep DEF HandOn
    <3>2. CASE queryErrors' = queryErrors + 1
      BY <1>1, <1>5, <2>1, <3>2, DroppedStep DEF HandOn
    <3> QED
      BY <1>5, <3>1, <3>2 DEF HandOn
  <2> QED
    BY <1>1, <2>1, <2>2, <2>3 DEF SnapshotInv, SnapshotTypeOK, Event
<1> QED
  BY <1>3, <1>4, <1>5 DEF SnapshotNext

LEMMA SnapshotKeeps == SnapshotInv /\ [SnapshotNext]_snapshotVars => SnapshotInv'
<1>1. ASSUME SnapshotInv, UNCHANGED snapshotVars PROVE SnapshotInv'
  <2>1. UNCHANGED <<there, last, round, moves, queryErrors, known, untold>>
    BY <1>1 DEF snapshotVars
  <2>2. SnapshotTypeOK'
    BY <1>1, <2>1 DEF SnapshotInv, SnapshotTypeOK
  <2>3. LeadsInv'
    BY <1>1, <2>1 DEF SnapshotInv, LeadsInv, Leads, Kind, Agree
  <2> QED
    BY <2>2, <2>3 DEF SnapshotInv
<1> QED
  BY <1>1, SnapshotNextStep

LEMMA ReportsFromInv == SnapshotInv => ReportsAddUp
<1> SUFFICES ASSUME SnapshotInv, NEW m \in Monitors, NEW i \in 1 .. Len(Collections[m]),
                    round[m].events = <<>> \/ round[m].at # i
             PROVE  Agree(Collections[m][i])
  BY DEF ReportsAddUp, Agree
<1>1. CASE round[m].at # i
  BY <1>1 DEF SnapshotInv, LeadsInv
<1>2. CASE round[m].at = i
  <2>1. round[m].events = <<>> /\ Kind(m) = Collections[m][i]
    BY <1>2 DEF Kind
  <2> QED
    BY <2>1, NothingToHandOn
<1> QED
  BY <1>1, <1>2

-----------------------------------------------------------------------------
\* What is done about events: agent.py and active_response.py.

\* Only a block makes a handler say that it blocked; and it blocks what an alert names.
RespondingInv ==
  \A t \in Handlers :
    /\ handling[t].blocked => handling[t].step \in {"send", "resend", "sent"}
    /\ handling[t].step = "block" => handling[t].event.source \in Sources

SecurityInv == SecurityTypeOK /\ RespondingInv /\ BlockedIsTrue

HandlingSteps == {"idle", "evaluate", "block", "send", "resend", "sent"}

LEMMA IdleIs ==
  /\ Idle \in [step : HandlingSteps, event : SecurityEvent, action : Actions, blocked : BOOLEAN]
  /\ Idle.step = "idle" /\ Idle.blocked = FALSE /\ Idle.action = "None"
<1>1. NoEvent \in SecurityEvent
  BY DEF NoEvent, SecurityEvent
<1> QED
  BY <1>1 DEF Idle, HandlingSteps, Actions

LEMMA SecurityStarts == SecurityInit => SecurityInv
<1> SUFFICES ASSUME SecurityInit PROVE SecurityInv
  OBVIOUS
<1>1. \A t \in Handlers : handling[t] = Idle
  BY DEF SecurityInit
<1>2. SecurityTypeOK
  BY IdleIs DEF SecurityInit, SecurityTypeOK, HandlingSteps
<1> QED
  BY <1>1, <1>2, IdleIs DEF SecurityInv, RespondingInv, BlockedIsTrue

\* What a step of one handler makes of it decides whether the invariant is kept.
LEMMA HandlerStep ==
  ASSUME SecurityInv, NEW t \in Handlers,
         NEW h \in [step : HandlingSteps, event : SecurityEvent, action : Actions,
                    blocked : BOOLEAN],
         handling' = [handling EXCEPT ![t] = h],
         enabled' = enabled, rule9998' \in Sources \cup {NoAddress},
         everBlocked' \in SUBSET Sources, everBlocked \subseteq everBlocked',
         h.blocked => /\ h.step \in {"send", "resend", "sent"} /\ h.action = "BLOCK_IP"
                      /\ h.event.source \in everBlocked',
         h.step = "block" => h.event.source \in Sources
  PROVE  SecurityInv'
<1>1. /\ handling \in [Handlers -> [step : HandlingSteps, event : SecurityEvent,
                                    action : Actions, blocked : BOOLEAN]]
      /\ enabled \in BOOLEAN
  BY DEF SecurityInv, SecurityTypeOK, HandlingSteps
<1>2. SecurityTypeOK'
  BY <1>1 DEF SecurityTypeOK, HandlingSteps
<1>3. handling'[t] = h /\ \A o \in Handlers : o # t => handling'[o] = handling[o]
  BY <1>1
<1>4. RespondingInv'
  BY <1>3 DEF SecurityInv, RespondingInv
<1>5. BlockedIsTrue'
  BY <1>3 DEF SecurityInv, BlockedIsTrue
<1> QED
  BY <1>2, <1>4, <1>5 DEF SecurityInv

LEMMA SecurityKeeps == SecurityInv /\ [SecurityNext]_securityVars => SecurityInv'
<1> SUFFICES ASSUME SecurityInv, [SecurityNext]_securityVars PROVE SecurityInv'
  OBVIOUS
<1>1. /\ handling \in [Handlers -> [step : HandlingSteps, event : SecurityEvent,
                                    action : Actions, blocked : BOOLEAN]]
      /\ enabled \in BOOLEAN /\ rule9998 \in Sources \cup {NoAddress}
      /\ everBlocked \in SUBSET Sources
  BY DEF SecurityInv, SecurityTypeOK, HandlingSteps
<1>2. ASSUME NEW t \in Handlers, Receive(t) PROVE SecurityInv'
  <2>1. PICK e \in SecurityEvent :
          handling' = [handling EXCEPT ![t] = [Idle EXCEPT !.event = e, !.step = "evaluate"]]
    BY <1>2 DEF Receive
  <2> DEFINE h == [Idle EXCEPT !.event = e, !.step = "evaluate"]
  <2>2. /\ h \in [step : HandlingSteps, event : SecurityEvent, action : Actions,
                  blocked : BOOLEAN]
        /\ h.step = "evaluate" /\ ~h.blocked
    BY IdleIs DEF HandlingSteps
  <2>3. UNCHANGED <<enabled, rule9998, everBlocked>>
    BY <1>2 DEF Receive
  <2>4. handling' = [handling EXCEPT ![t] = h]
    BY <2>1
  <2> HIDE DEF h
  <2> QED
    BY <1>1, <2>2, <2>3, <2>4, HandlerStep
<1>3. ASSUME NEW t \in Handlers, NEW step \in HandlingSteps, Step(t, step),
             UNCHANGED enabled, rule9998' \in Sources \cup {NoAddress},
             everBlocked' \in SUBSET Sources, everBlocked \subseteq everBlocked',
             step = "block" => handling[t].event.source \in Sources,
             handling[t].blocked => step \in {"send", "resend", "sent"}
      PROVE  SecurityInv'
  <2> DEFINE h == [handling[t] EXCEPT !.step = step]
  <2>1. handling' = [handling EXCEPT ![t] = h]
    BY <1>1, <1>3 DEF Step
  <2>2. /\ h \in [step : HandlingSteps, event : SecurityEvent, action : Actions,
                  blocked : BOOLEAN]
        /\ h.step = step /\ h.blocked = handling[t].blocked /\ h.action = handling[t].action
        /\ h.event = handling[t].event
    BY <1>1, <1>3
  <2>3. h.blocked => h.action = "BLOCK_IP" /\ h.event.source \in everBlocked'
    BY <1>3, <2>2 DEF SecurityInv, BlockedIsTrue
  <2> HIDE DEF h
  <2> QED
    BY <1>1, <1>3, <2>1, <2>2, <2>3, HandlerStep
<1>4. ASSUME NEW t \in Handlers, Evaluate(t) PROVE SecurityInv'
  <2>1. handling[t].event \in SecurityEvent /\ ~handling[t].blocked
    BY <1>1, <1>4 DEF Evaluate, SecurityInv, RespondingInv
  <2>2. UNCHANGED <<enabled, rule9998, everBlocked>>
    BY <1>4 DEF Evaluate
  <2>3. ~_check_wazuh(handling[t].event)
    BY DEF _check_wazuh, LevelInMetadata, wazuh_min_lvl
  <2>4. CASE Step(t, "block") /\ _check_suricata(handling[t].event)
    <3>1. handling[t].event.source \in Sources
      BY <2>1, <2>4 DEF _check_suricata, SecurityEvent
    <3> QED
      BY <1>1, <1>3, <2>1, <2>2, <2>4, <3>1 DEF HandlingSteps
  <2>5. CASE Step(t, "send")
    BY <1>1, <1>3, <2>1, <2>2, <2>5 DEF HandlingSteps
  <2>6. CASE Step(t, "resend")
    BY <1>1, <1>3, <2>1, <2>2, <2>6 DEF HandlingSteps
  <2> QED
    BY <1>4, <2>3, <2>4, <2>5, <2>6 DEF Evaluate, Raises
<1>5. ASSUME NEW t \in Handlers, Block(t) PROVE SecurityInv'
  <2>1. /\ handling[t].step = "block" /\ handling[t].event.source \in Sources
        /\ ~handling[t].blocked /\ enabled' = enabled
    BY <1>1, <1>5 DEF Block, SecurityInv, RespondingInv
  <2>2. CASE /\ rule9998' = handling[t].event.source
             /\ everBlocked' = everBlocked \cup {handling[t].event.source}
             /\ handling' = [handling EXCEPT ![t].step = "send", ![t].action = "BLOCK_IP",
                                             ![t].blocked = TRUE]
    <3> DEFINE h == [handling[t] EXCEPT !.step = "send", !.action = "BLOCK_IP",
                                        !.blocked = TRUE]
    <3>1. handling' = [handling EXCEPT ![t] = h]
      BY <1>1, <2>2
    <3>2. /\ h \in [step : HandlingSteps, event : SecurityEvent, action : Actions,
                    blocked : BOOLEAN]
          /\ h.step = "send" /\ h.action = "BLOCK_IP" /\ h.event = handling[t].event
      BY <1>1 DEF HandlingSteps, Actions
    <3> HIDE DEF h
    <3> QED
      BY <1>1, <2>1, <2>2, <3>1, <3>2, HandlerStep
  <2>3. CASE /\ rule9998' \in {rule9998, NoAddress, handling[t].event.source}
             /\ everBlocked' = everBlocked \cup ({rule9998'} \ {NoAddress})
             /\ Step(t, "send") \/ Step(t, "resend")
    <3>1. rule9998' \in Sources \cup {NoAddress}
      BY <1>1, <2>1, <2>3
    <3>2. everBlocked' \in SUBSET Sources /\ everBlocked \subseteq everBlocked'
      BY <1>1, <2>3, <3>1
    <3> QED
      BY <1>3, <2>1, <2>3, <3>1, <3>2 DEF HandlingSteps
  <2> QED
    BY <1>5, <2>2, <2>3 DEF Block, Raises
<1>6. ASSUME NEW t \in Handlers, SendEvent(t) \/ Resend(t) PROVE SecurityInv'
  <2>1. Step(t, "sent") \/ Step(t, "resend")
    BY <1>6 DEF SendEvent, Resend, Raises
  <2>2. UNCHANGED <<enabled, rule9998, everBlocked>>
    BY <1>6 DEF SendEvent, Resend
  <2> QED
    BY <1>1, <1>3, <2>1, <2>2 DEF HandlingSteps
<1>7. ASSUME UNCHANGED <<enabled, handling, everBlocked>>,
             rule9998' \in Sources \cup {NoAddress}
      PROVE  SecurityInv'
  BY <1>7 DEF SecurityInv, SecurityTypeOK, RespondingInv, BlockedIsTrue
<1>8. CASE Unblock
  BY <1>7, <1>8 DEF Unblock
<1>9. CASE UNCHANGED securityVars
  BY <1>1, <1>7, <1>9 DEF securityVars
<1> QED
  BY <1>2, <1>4, <1>5, <1>6, <1>8, <1>9 DEF SecurityNext

-----------------------------------------------------------------------------
\* The monitor of the input devices and its engine: input_biometric_monitor.py.

\* The pieces that a training has made when it comes to a step, and those it has saved.
Fitted(step) ==
  CASE step = "scale" -> {}
    [] step = "forest" -> {"scaler"}
    [] step = "learn" -> {"scaler", "iforest"}
    [] OTHER -> Pieces
Stored(step) ==
  CASE step = "scaler" -> {"model"}
    [] step = "iforest" -> {"model", "scaler"}
    [] step = "meta" -> {"model", "scaler", "iforest"}
    [] step = "done" -> Pieces
    [] OTHER -> {}

EngineTypes ==
  /\ memory \in [Pieces -> Trainings \cup {None}]
  /\ disk \in [Pieces -> Trainings \cup {None, Damaged}]
  /\ training \in [Trainings -> [step : Steps, samples : Nat]]
  /\ training_buffer \in Nat

\* Without a reset under a training there is one training at a time, which has made what its
\* step says; and who guards has a model.
TrainingInv ==
  "reset" \notin disturbed =>
    /\ \A t, u \in Running : t = u
    /\ mode # "TRAINING" => Running = {}
    /\ \A t \in Running : \A p \in Fitted(training[t].step) : memory[p] = t
    /\ mode = "GUARDING" => \A p \in Pieces : memory[p] # None
    /\ watch # "dead"

\* Without a broken save either, the files are of one training, but while they are written.
ModelInv ==
  disturbed = {} =>
    /\ mode = "GUARDING" => \E t \in Trainings : \A p \in Pieces : memory[p] = t
    /\ \A t \in Running : \A p \in Stored(training[t].step) : disk[p] = t
    /\ (\A t \in Running : training[t].step \notin Pieces) =>
         \E t \in Trainings \cup {None} : \A p \in Pieces : disk[p] = t

BiometricInv == EngineTypes /\ TrainingInv /\ ModelInv

Task == [step : Steps, samples : Nat]

LEMMA BiometricStarts == BiometricInit => BiometricInv
<1> SUFFICES ASSUME BiometricInit PROVE BiometricInv
  OBVIOUS
<1>1. /\ mode = "COLLECTING" /\ training_buffer = 0 /\ disturbed = {} /\ watch = "sleep"
      /\ memory = [p \in Pieces |-> None] /\ disk = [p \in Pieces |-> None]
      /\ training = [t \in Trainings |-> NotRunning]
  BY DEF BiometricInit, EngineInit
<1>2. NotRunning \in Task /\ NotRunning.step = "none"
  BY DEF NotRunning, Task, Steps
<1>3. EngineTypes
  BY <1>1, <1>2 DEF EngineTypes, Task
<1>4. Running = {}
  BY <1>1, <1>2 DEF Running
<1>5. TrainingInv /\ ModelInv
  BY <1>1, <1>4 DEF TrainingInv, ModelInv
<1> QED
  BY <1>3, <1>5 DEF BiometricInv

LEMMA Lone ==
  ASSUME BiometricInv, "reset" \notin disturbed, NEW t \in Trainings, training[t].step # "none"
  PROVE  /\ Running = {t} /\ mode = "TRAINING"
         /\ \A p \in Fitted(training[t].step) : memory[p] = t
<1>1. t \in Running
  BY DEF Running
<1> QED
  BY <1>1 DEF BiometricInv, TrainingInv

\* A step of a training keeps the invariants if what it makes of the engine is as its new
\* step says.
LEMMA ThreadStep ==
  ASSUME BiometricInv, NEW t \in Trainings, training[t].step # "none",
         NEW r \in Task, training' = [training EXCEPT ![t] = r],
         UNCHANGED watch, disturbed \subseteq disturbed',
         "reset" \notin disturbed' =>
           \/ r.step = "none" /\ mode' = "COLLECTING"
           \/ r.step = "none" /\ mode' = "GUARDING" /\ \A p \in Pieces : memory'[p] = t
           \/ r.step # "none" /\ mode' = mode /\ \A p \in Fitted(r.step) : memory'[p] = t,
         disturbed' = {} =>
           /\ r.step # "none" => \A p \in Stored(r.step) : disk'[p] = t
           /\ r.step \notin Pieces => \E u \in Trainings \cup {None} : \A p \in Pieces : disk'[p] = u
  PROVE  TrainingInv' /\ ModelInv'
<1>1. training'[t] = r /\ \A u \in Trainings : u # t => training'[u] = training[u]
  BY DEF BiometricInv, EngineTypes
<1>2. t \in Nat /\ t # None
  BY EngineAssumption DEF None
<1>3. ASSUME "reset" \notin disturbed'
      PROVE  /\ mode = "TRAINING" /\ watch' # "dead"
             /\ \A u \in Running' : u = t /\ r.step # "none"
  <2>1. "reset" \notin disturbed
    BY <1>3
  <2>2. Running = {t} /\ mode = "TRAINING" /\ watch # "dead"
    BY <2>1, Lone DEF BiometricInv, TrainingInv
  <2> QED
    BY <1>1, <2>2 DEF Running
<1>4. TrainingInv'
  BY <1>1, <1>2, <1>3 DEF TrainingInv
<1>5. ASSUME disturbed' = {} PROVE "reset" \notin disturbed'
  BY <1>5
<1>6. ASSUME disturbed' = {}
      PROVE  mode' = "GUARDING" => \E u \in Trainings : \A p \in Pieces : memory'[p] = u
  BY <1>3, <1>5, <1>6
<1>7. ASSUME disturbed' = {}, NEW u \in Running'
      PROVE  \A p \in Stored(training'[u].step) : disk'[p] = u
  BY <1>1, <1>3, <1>5, <1>7
<1>8. ASSUME disturbed' = {}, \A u \in Running' : training'[u].step \notin Pieces
      PROVE  \E u \in Trainings \cup {None} : \A p \in Pieces : disk'[p] = u
  <2>1. r.step \notin Pieces
    <3>1. CASE r.step = "none"
      BY <3>1 DEF Pieces
    <3>2. CASE r.step # "none"
      <4>1. t \in Running'
        BY <1>1, <3>2 DEF Running
      <4> QED
        BY <1>1, <1>8, <4>1
    <3> QED
      BY <3>1, <3>2
  <2> QED
    BY <1>8, <2>1
<1> QED
  BY <1>4, <1>6, <1>7, <1>8 DEF ModelInv

LEMMA NotRunningIs == NotRunning \in Task /\ NotRunning.step = "none"
BY DEF NotRunning, Task, Steps

\* Until a training saves, the files are of one training.
LEMMA FilesOfOne ==
  ASSUME BiometricInv, disturbed = {}, NEW t \in Trainings, training[t].step # "none",
         training[t].step \notin Pieces
  PROVE  \E u \in Trainings \cup {None} : \A p \in Pieces : disk[p] = u
<1>1. Running = {t}
  <2>1. "reset" \notin disturbed
    OBVIOUS
  <2> QED
    BY <2>1, Lone
<1> QED
  BY <1>1 DEF BiometricInv, ModelInv

\* A training that fails before it saves leaves the engine as it was.
LEMMA FailStep ==
  ASSUME BiometricInv, NEW t \in Trainings, training[t].step # "none", Fail(t),
         UNCHANGED watch, disturbed \subseteq disturbed',
         disturbed' = {} => training[t].step \notin Pieces /\ UNCHANGED disk
  PROVE  TrainingInv' /\ ModelInv'
<1>1. training' = [training EXCEPT ![t] = NotRunning] /\ mode' = "COLLECTING"
  BY DEF Fail, ModeAfterFailure
<1>2. disturbed' = {} => \E u \in Trainings \cup {None} : \A p \in Pieces : disk'[p] = u
  BY FilesOfOne
<1> QED
  BY <1>1, <1>2, NotRunningIs, ThreadStep

\* A training that goes on.
LEMMA GotoStep ==
  ASSUME BiometricInv, NEW t \in Trainings, training[t].step # "none",
         NEW r \in Task, r.step # "none", training' = [training EXCEPT ![t] = r],
         mode' = mode, UNCHANGED <<watch, disturbed, disk>>,
         \A p \in Fitted(r.step) :
           memory'[p] = t \/ (memory'[p] = memory[p] /\ p \in Fitted(training[t].step)),
         Stored(r.step) = {}, training[t].step \notin Pieces
  PROVE  TrainingInv' /\ ModelInv'
<1>1. "reset" \notin disturbed => \A p \in Fitted(r.step) : memory'[p] = t
  BY Lone
<1>2. disturbed = {} => \E u \in Trainings \cup {None} : \A p \in Pieces : disk[p] = u
  BY FilesOfOne
<1>3. disturbed' = disturbed /\ disk' = disk /\ watch' = watch
  OBVIOUS
<1> QED
  BY <1>1, <1>2, <1>3, ThreadStep

LEMMA StepsOf ==
  /\ \A p \in Pieces : AfterSaving(p) \in Steps /\ AfterSaving(p) # "none"
  /\ AfterSaving("model") = "scaler" /\ AfterSaving("scaler") = "iforest"
  /\ AfterSaving("iforest") = "meta" /\ AfterSaving("meta") = "done"
  /\ SaveOrder[1] = "model"
<1>1. /\ SaveOrder[1] = "model" /\ SaveOrder[2] = "scaler" /\ SaveOrder[3] = "iforest"
      /\ SaveOrder[4] = "meta"
  BY DEF SaveOrder
<1>2. \A i \in 1 .. 4 : i = 1 \/ i = 2 \/ i = 3 \/ i = 4
  OBVIOUS
<1>3. (CHOOSE i \in 1 .. 4 : SaveOrder[i] = "model") = 1
  BY <1>1, <1>2
<1>4. (CHOOSE i \in 1 .. 4 : SaveOrder[i] = "scaler") = 2
  BY <1>1, <1>2
<1>5. (CHOOSE i \in 1 .. 4 : SaveOrder[i] = "iforest") = 3
  BY <1>1, <1>2
<1>6. (CHOOSE i \in 1 .. 4 : SaveOrder[i] = "meta") = 4
  BY <1>1, <1>2
<1>7. AfterSaving("model") = "scaler"
  BY <1>1, <1>3 DEF AfterSaving
<1>8. AfterSaving("scaler") = "iforest"
  BY <1>1, <1>4 DEF AfterSaving
<1>9. AfterSaving("iforest") = "meta"
  BY <1>1, <1>5 DEF AfterSaving
<1>10. AfterSaving("meta") = "done"
  BY <1>6 DEF AfterSaving
<1> QED
  BY <1>1, <1>7, <1>8, <1>9, <1>10 DEF Pieces, Steps

LEMMA SaveStep ==
  ASSUME BiometricInv, NEW t \in Trainings, NEW p \in Pieces, Save(t, p), UNCHANGED watch
  PROVE  TrainingInv' /\ ModelInv'
<1>1. training[t].step = p /\ p # "none"
  BY DEF Save, Pieces
<1>2. CASE Fail(t) /\ SaveDisturbed
  BY <1>1, <1>2, FailStep DEF SaveDisturbed
<1>3. CASE /\ memory[p] # None /\ disk' = [disk EXCEPT ![p] = memory[p]]
           /\ Goto(t, AfterSaving(p)) /\ UNCHANGED <<memory, disturbed>>
  <2> DEFINE r == [training[t] EXCEPT !.step = AfterSaving(p)]
  <2>1. /\ training \in [Trainings -> Task] /\ disk \in [Pieces -> Trainings \cup {None, Damaged}]
    BY DEF BiometricInv, EngineTypes, Task
  <2>2. r \in Task /\ r.step = AfterSaving(p) /\ r.step # "none"
    BY <2>1, StepsOf DEF Task
  <2>3. training' = [training EXCEPT ![t] = r] /\ mode' = mode
    BY <1>3, <2>1 DEF Goto
  <2>4. "reset" \notin disturbed => \A q \in Pieces : memory[q] = t
    <3>1. Fitted(p) = Pieces
      BY DEF Fitted, Pieces
    <3> QED
      BY <1>1, <3>1, Lone
  <2>5. \A s : Fitted(s) \subseteq Pieces
    BY DEF Fitted, Pieces
  <2>6. ASSUME disturbed = {} PROVE \A q \in Stored(p) \cup {p} : disk'[q] = t
    <3>1. Running = {t} /\ memory[p] = t
      BY <1>1, <2>4, <2>6, Lone
    <3>2. \A q \in Stored(p) : disk[q] = t
      BY <1>1, <2>6, <3>1 DEF BiometricInv, ModelInv
    <3>3. Stored(p) \subseteq Pieces
      BY DEF Stored, Pieces
    <3> QED
      BY <1>3, <2>1, <3>1, <3>2, <3>3
  <2>7. Stored(AfterSaving(p)) = Stored(p) \cup {p}
    <3>1. CASE p = "model"
      BY <3>1, StepsOf DEF Stored
    <3>2. CASE p = "scaler"
      BY <3>2, StepsOf DEF Stored
    <3>3. CASE p = "iforest"
      BY <3>3, StepsOf DEF Stored
    <3>4. CASE p = "meta"
      BY <3>4, StepsOf DEF Stored, Pieces
    <3> QED
      BY <3>1, <3>2, <3>3, <3>4 DEF Pieces
  <2>8. AfterSaving(p) \notin Pieces => Stored(AfterSaving(p)) = Pieces
    <3>1. p = "meta" \/ AfterSaving(p) \in Pieces
      BY StepsOf DEF Pieces
    <3> QED
      BY <3>1, StepsOf DEF Stored
  <2> HIDE DEF r
  <2>9. /\ "reset" \notin disturbed' => \A q \in Fitted(r.step) : memory'[q] = t
        /\ disturbed' = {} =>
             /\ \A q \in Stored(r.step) : disk'[q] = t
             /\ r.step \notin Pieces =>
                  \E u \in Trainings \cup {None} : \A q \in Pieces : disk'[q] = u
    BY <1>3, <2>2, <2>4, <2>5, <2>6, <2>7, <2>8
  <2> QED
    BY <1>1, <1>3, <2>2, <2>3, <2>9, ThreadStep
<1> QED
  BY <1>2, <1>3 DEF Save

LEMMA TrainStep ==
  ASSUME BiometricInv, NEW t \in Trainings, Train(t), UNCHANGED watch
  PROVE  TrainingInv' /\ ModelInv'
<1>1. /\ training \in [Trainings -> Task] /\ memory \in [Pieces -> Trainings \cup {None}]
      /\ training_buffer \in Nat
  BY DEF BiometricInv, EngineTypes, Task
<1>2. \A s \in {"scale", "forest", "learn", "done"} : s \notin Pieces /\ s # "none" /\ s \in Steps
  BY DEF Pieces, Steps
<1>3. /\ Fitted("scale") = {} /\ Fitted("forest") = {"scaler"}
      /\ Fitted("learn") = {"scaler", "iforest"} /\ Fitted("model") = Pieces
      /\ Fitted("done") = Pieces
      /\ Stored("forest") = {} /\ Stored("learn") = {} /\ Stored("model") = {}
      /\ Stored("done") = Pieces
  BY DEF Fitted, Stored
<1>4. ASSUME training[t].step \in {"scale", "forest", "learn"}, Fail(t),
             UNCHANGED <<disk, disturbed>>
      PROVE  TrainingInv' /\ ModelInv'
  BY <1>2, <1>4, FailStep
<1>5. CASE Scale(t) /\ UNCHANGED <<disk, disturbed>>
  <2>1. CASE /\ training' = [training EXCEPT ![t] = [step |-> "forest", samples |-> training_buffer]]
             /\ memory' = [memory EXCEPT !["scaler"] = t] /\ mode' = mode
    <3>1. PICK r \in Task : r.step = "forest" /\ training' = [training EXCEPT ![t] = r]
      <4>1. /\ [step |-> "forest", samples |-> training_buffer] \in Task
            /\ [step |-> "forest", samples |-> training_buffer].step = "forest"
        BY <1>1, <1>2 DEF Task
      <4> QED
        BY <2>1, <4>1
    <3>2. memory'["scaler"] = t
      BY <1>1, <2>1 DEF Pieces
    <3>3. training[t].step = "scale" /\ mode' = mode
      BY <1>5, <2>1 DEF Scale
    <3> QED
      BY <1>2, <1>3, <1>5, <3>1, <3>2, <3>3, GotoStep
  <2> QED
    BY <1>4, <1>5, <2>1 DEF Scale
<1>6. ASSUME NEW step \in Steps, Goto(t, step)
      PROVE  /\ [training[t] EXCEPT !.step = step] \in Task
             /\ [training[t] EXCEPT !.step = step].step = step
             /\ training' = [training EXCEPT ![t] = [training[t] EXCEPT !.step = step]]
             /\ mode' = mode
  BY <1>1, <1>6 DEF Goto, Task
<1>7. CASE FitForest(t) /\ UNCHANGED <<disk, disturbed>>
  <2>1. CASE memory' = [memory EXCEPT !["iforest"] = t] /\ Goto(t, "learn")
    <3>1. PICK r \in Task : r.step = "learn" /\ training' = [training EXCEPT ![t] = r]
      BY <1>2, <1>6, <2>1
    <3>2. memory'["iforest"] = t /\ memory'["scaler"] = memory["scaler"]
      BY <1>1, <2>1 DEF Pieces
    <3>3. training[t].step = "forest" /\ mode' = mode
      BY <1>7, <2>1 DEF FitForest, Goto
    <3> QED
      BY <1>2, <1>3, <1>7, <3>1, <3>2, <3>3, GotoStep
  <2> QED
    BY <1>4, <1>7, <2>1 DEF FitForest
<1>8. CASE Learn(t) /\ UNCHANGED <<disk, disturbed>>
  <2>1. CASE memory' = [memory EXCEPT !["meta"] = t, !["model"] = t] /\ Goto(t, SaveOrder[1])
    <3>1. PICK r \in Task : r.step = "model" /\ training' = [training EXCEPT ![t] = r]
      BY <1>6, <2>1, StepsOf DEF Steps, Pieces
    <3>2. /\ memory'["meta"] = t /\ memory'["model"] = t
          /\ memory'["iforest"] = memory["iforest"] /\ memory'["scaler"] = memory["scaler"]
      BY <1>1, <2>1 DEF Pieces
    <3>3. training[t].step = "learn" /\ mode' = mode
      BY <1>8, <2>1 DEF Learn, Goto
    <3>4. \A p \in Pieces : memory'[p] = t \/ (memory'[p] = memory[p] /\ p \in {"scaler", "iforest"})
      BY <3>2 DEF Pieces
    <3> QED
      BY <1>2, <1>3, <1>8, <3>1, <3>3, <3>4, GotoStep
  <2> QED
    BY <1>4, <1>8, <2>1 DEF Learn
<1>9. CASE \E p \in Pieces : Save(t, p)
  BY <1>9, SaveStep
<1>10. CASE Finish(t)
  <2>1. /\ training[t].step = "done" /\ training' = [training EXCEPT ![t] = NotRunning]
        /\ mode' = "GUARDING" /\ UNCHANGED <<memory, disk, disturbed>>
    BY <1>10 DEF Finish
  <2>2. "reset" \notin disturbed => \A p \in Pieces : memory[p] = t
    BY <1>2, <1>3, <2>1, Lone
  <2>3. disturbed = {} => \A p \in Pieces : disk[p] = t
    <3>1. t \in Running
      BY <1>2, <2>1 DEF Running
    <3> QED
      BY <1>3, <2>1, <3>1 DEF BiometricInv, ModelInv
  <2> QED
    BY <1>2, <2>1, <2>2, <2>3, NotRunningIs, ThreadStep
<1> QED
  BY <1>5, <1>7, <1>8, <1>9, <1>10 DEF Train

LEMMA LoadedIs ==
  /\ LoadOrder \in Seq(Pieces) /\ Len(LoadOrder) = 4
  /\ \A n \in 0 .. 4 : ToSet(SubSeq(LoadOrder, 1, n)) = {LoadOrder[i] : i \in 1 .. n}
  /\ ToSet(SubSeq(LoadOrder, 1, 4)) = Pieces
<1>1. LoadOrder \in Seq(Pieces) /\ Len(LoadOrder) = 4
  BY DEF LoadOrder, Pieces
<1>2. ASSUME NEW n \in 0 .. 4
      PROVE  ToSet(SubSeq(LoadOrder, 1, n)) = {LoadOrder[i] : i \in 1 .. n}
  <2> DEFINE s == SubSeq(LoadOrder, 1, n)
  <2>3. n \in 0 .. Len(LoadOrder) /\ LoadOrder \in Seq(Pieces)
    BY <1>1
  <2>1. s \in Seq(Pieces) /\ Len(s) = n /\ \A i \in 1 .. n : s[i] = LoadOrder[i]
    BY <2>3, FirstOfSeq
  <2> HIDE DEF s
  <2>2. DOMAIN s = 1 .. n
    BY <2>1, LenProperties
  <2> QED
    BY <2>1, <2>2 DEF ToSet, s
<1>3. /\ LoadOrder[1] = "scaler" /\ LoadOrder[2] = "iforest" /\ LoadOrder[3] = "meta"
      /\ LoadOrder[4] = "model"
  BY DEF LoadOrder
<1>4. \A i \in 1 .. 4 : i = 1 \/ i = 2 \/ i = 3 \/ i = 4
  OBVIOUS
<1>5. {LoadOrder[i] : i \in 1 .. 4} = Pieces
  BY <1>3, <1>4 DEF Pieces
<1>6. ToSet(SubSeq(LoadOrder, 1, 4)) = {LoadOrder[i] : i \in 1 .. 4}
  <2>1. 4 \in 0 .. 4
    OBVIOUS
  <2> QED
    BY <1>2, <2>1
<1> QED
  BY <1>1, <1>2, <1>5, <1>6

\* A new process has what the files hold: if it guards, it has loaded whole files.
LEMMA RestartIs ==
  ASSUME EngineTypes, Restart
  PROVE  /\ EngineTypes' /\ Running' = {} /\ mode' \in {"COLLECTING", "GUARDING"}
         /\ mode' = "GUARDING" => memory' = disk' /\ \A p \in Pieces : disk'[p] # None
         /\ (\A t \in Running : training[t].step \notin Pieces) => disk' = disk
         /\ disturbed' = {} =>
              disturbed = {} /\ \A t \in Running : training[t].step \notin Pieces
<1> DEFINE saving == {p \in Pieces : \E t \in Running : training[t].step = p}
<1>1. PICK damaged \in SUBSET saving :
        RestartWith([p \in Pieces |-> IF p \in damaged THEN Damaged ELSE disk[p]])
  BY DEF Restart
<1> DEFINE files == [p \in Pieces |-> IF p \in damaged THEN Damaged ELSE disk[p]]
           loaded(n) ==
             [p \in Pieces |-> IF p \in ToSet(SubSeq(LoadOrder, 1, n)) THEN files[p] ELSE None]
<1>2. disk \in [Pieces -> Trainings \cup {None, Damaged}]
  BY DEF EngineTypes
<1>3. files \in [Pieces -> Trainings \cup {None, Damaged}]
  BY <1>2
<1>4. saving = {} => files = disk
  BY <1>2
<1>5. disturbed' = IF saving = {} THEN disturbed ELSE disturbed \cup {"save"}
  BY DEF Restart
<1> HIDE DEF files
<1>6. /\ disk' = files /\ training_buffer' = 0 /\ training' = [t \in Trainings |-> NotRunning]
  BY <1>1 DEF RestartWith, files
<1>7. training' \in [Trainings -> Task] /\ Running' = {}
  BY <1>6, NotRunningIs DEF Running
<1>8. \/ /\ \A p \in Pieces : files[p] # None /\ files[p] # Damaged
         /\ memory' = loaded(4) /\ mode' = "GUARDING"
      \/ /\ mode' = "COLLECTING"
         /\ \E n \in 0 .. 3 : memory' = loaded(n) /\ \A i \in 1 .. n : files[LoadOrder[i]] # Damaged
  <2>1. \A i : i \notin 1 .. 0
    OBVIOUS
  <2> QED
    BY <1>1, <2>1 DEF RestartWith, files
<1>9. ASSUME NEW n \in 0 .. 4, \A i \in 1 .. n : files[LoadOrder[i]] # Damaged
      PROVE  loaded(n) \in [Pieces -> Trainings \cup {None}]
  <2>1. ASSUME NEW p \in Pieces, p \in ToSet(SubSeq(LoadOrder, 1, n))
        PROVE  files[p] \in Trainings \cup {None}
    <3>1. PICK i \in 1 .. n : p = LoadOrder[i]
      BY <2>1, LoadedIs
    <3> QED
      BY <1>3, <1>9, <3>1
  <2> QED
    BY <2>1
<1>10. loaded(4) = files
  <2>1. ToSet(SubSeq(LoadOrder, 1, 4)) = Pieces
    BY LoadedIs
  <2> DEFINE all == ToSet(SubSeq(LoadOrder, 1, 4))
  <2>2. [p \in Pieces |-> IF p \in all THEN files[p] ELSE None] = files
    <3> HIDE DEF all
    <3>1. all = Pieces
      BY <2>1 DEF all
    <3> QED
      BY <1>3, <3>1
  <2> QED
    BY <2>2
<1>11. memory' \in [Pieces -> Trainings \cup {None}]
  <2>1. CASE /\ \A p \in Pieces : files[p] # None /\ files[p] # Damaged
             /\ memory' = loaded(4)
    BY <1>3, <1>10, <2>1
  <2>2. CASE \E n \in 0 .. 3 : memory' = loaded(n) /\ \A i \in 1 .. n : files[LoadOrder[i]] # Damaged
    <3>1. PICK n \in 0 .. 3 : memory' = loaded(n) /\ \A i \in 1 .. n : files[LoadOrder[i]] # Damaged
      BY <2>2
    <3> HIDE DEF loaded
    <3>2. n \in 0 .. 4
      OBVIOUS
    <3> QED
      BY <1>9, <3>1, <3>2
  <2> QED
    BY <1>8, <2>1, <2>2
<1>12. mode' = "GUARDING" => memory' = disk' /\ \A p \in Pieces : disk'[p] # None
  BY <1>6, <1>8, <1>10
<1>13. mode' \in {"COLLECTING", "GUARDING"}
  BY <1>8
<1>14. EngineTypes'
  BY <1>3, <1>6, <1>7, <1>11 DEF EngineTypes, Task
<1>15. saving = {} <=> \A t \in Running : training[t].step \notin Pieces
  OBVIOUS
<1> HIDE DEF saving, loaded
<1> QED
  BY <1>4, <1>5, <1>6, <1>7, <1>12, <1>13, <1>14, <1>15

LEMMA EngineTypesStep == EngineTypes /\ BiometricNext => EngineTypes'
<1> SUFFICES ASSUME EngineTypes, BiometricNext PROVE EngineTypes'
  OBVIOUS
<1>1. /\ training \in [Trainings -> Task] /\ memory \in [Pieces -> Trainings \cup {None}]
      /\ disk \in [Pieces -> Trainings \cup {None, Damaged}] /\ training_buffer \in Nat
  BY DEF EngineTypes, Task
<1>2. ASSUME training' \in [Trainings -> Task], memory' \in [Pieces -> Trainings \cup {None}],
             disk' \in [Pieces -> Trainings \cup {None, Damaged}], training_buffer' \in Nat
      PROVE  EngineTypes'
  BY <1>2 DEF EngineTypes, Task
<1>3. ASSUME NEW t \in Trainings, NEW step \in Steps
      PROVE  [training EXCEPT ![t].step = step] \in [Trainings -> Task]
  BY <1>1 DEF Task
<1>4. /\ {"scale", "forest", "learn", "model", "none", "done"} \subseteq Steps
      /\ Pieces \subseteq Steps
  BY DEF Steps, Pieces
<1>5. CASE _handle_move
  <2>1. memory' = memory /\ disk' = disk
    BY <1>5 DEF _handle_move, feed_data
  <2>2. training_buffer' \in Nat /\ training' \in [Trainings -> Task]
    <3>1. CASE Collect
      BY <1>1, <1>3, <1>4, <3>1 DEF Collect, Unused
    <3>2. CASE Guard \/ Ignore
      BY <1>1, <3>2 DEF Guard, Ignore
    <3> QED
      BY <1>5, <3>1, <3>2 DEF _handle_move, feed_data
  <2> QED
    BY <1>1, <1>2, <2>1, <2>2
<1>6. CASE Watch \/ stop
  <2>1. UNCHANGED <<memory, disk, training, training_buffer>>
    BY <1>6 DEF Watch, WakeUp, Analyze, stop, engineVars
  <2> QED
    BY <1>1, <1>2, <2>1
<1>7. ASSUME NEW t \in Trainings, Train(t) PROVE EngineTypes'
  <2>1. ASSUME Fail(t)
        PROVE  /\ training' \in [Trainings -> Task] /\ training_buffer' \in Nat
               /\ memory' = memory
    BY <1>1, <2>1, NotRunningIs DEF Fail
  <2>2. ASSUME NEW step \in Steps, Goto(t, step)
        PROVE  training' \in [Trainings -> Task] /\ training_buffer' \in Nat
    BY <1>1, <1>3, <2>2 DEF Goto
  <2>3. CASE Scale(t) /\ UNCHANGED <<disk, disturbed>>
    <3>1. CASE /\ training' = [training EXCEPT ![t] =
                                 [step |-> "forest", samples |-> training_buffer]]
               /\ memory' = [memory EXCEPT !["scaler"] = t] /\ UNCHANGED training_buffer
      BY <1>1, <1>2, <1>4, <2>3, <3>1 DEF Task
    <3> QED
      BY <1>1, <1>2, <2>1, <2>3, <3>1 DEF Scale
  <2>4. CASE FitForest(t) /\ UNCHANGED <<disk, disturbed>>
    <3>1. CASE memory' = [memory EXCEPT !["iforest"] = t] /\ Goto(t, "learn")
      BY <1>1, <1>2, <1>4, <2>2, <2>4, <3>1
    <3> QED
      BY <1>1, <1>2, <2>1, <2>4, <3>1 DEF FitForest
  <2>5. CASE Learn(t) /\ UNCHANGED <<disk, disturbed>>
    <3>1. CASE memory' = [memory EXCEPT !["meta"] = t, !["model"] = t] /\ Goto(t, SaveOrder[1])
      BY <1>1, <1>2, <1>4, <2>2, <2>5, <3>1, StepsOf
    <3> QED
      BY <1>1, <1>2, <2>1, <2>5, <3>1 DEF Learn
  <2>6. ASSUME NEW p \in Pieces, Save(t, p) PROVE EngineTypes'
    <3>1. CASE /\ memory[p] # None /\ disk' = [disk EXCEPT ![p] = memory[p]]
               /\ Goto(t, AfterSaving(p)) /\ UNCHANGED memory
      BY <1>1, <1>2, <2>2, <3>1, StepsOf
    <3>2. CASE Fail(t) /\ UNCHANGED disk
      BY <1>1, <1>2, <2>1, <3>2
    <3>3. CASE Fail(t) /\ \E d \in {disk[p], Damaged} : disk' = [disk EXCEPT ![p] = d]
      BY <1>1, <1>2, <2>1, <3>3
    <3> QED
      BY <2>6, <3>1, <3>2, <3>3 DEF Save
  <2>7. CASE Finish(t)
    BY <1>1, <1>2, <2>7, NotRunningIs DEF Finish
  <2> QED
    BY <1>7, <2>3, <2>4, <2>5, <2>6, <2>7 DEF Train
<1>8. CASE Reset
  BY <1>1, <1>2, <1>8 DEF Reset, reset_model
<1>9. CASE NewProcess
  BY <1>2, <1>9, RestartIs DEF NewProcess, EngineTypes, Task
<1>10. CASE WindowReset
  BY <1>1, <1>2, <1>10 DEF WindowReset
<1> QED
  BY <1>5, <1>6, <1>7, <1>8, <1>9, <1>10 DEF BiometricNext, EngineStep

LEMMA OthersStep ==
  ASSUME BiometricInv, UNCHANGED <<memory, disk, training, disturbed, mode>>,
         watch' = "dead" => watch = "dead" \/ "reset" \in disturbed
  PROVE  TrainingInv' /\ ModelInv'
<1>1. Running' = Running
  BY DEF Running
<1> QED
  BY <1>1 DEF BiometricInv, TrainingInv, ModelInv

LEMMA BiometricNextStep ==
  ASSUME BiometricInv, BiometricNext
  PROVE  TrainingInv' /\ ModelInv'
<1>1. CASE _handle_move
  <2>1. UNCHANGED <<memory, disk, disturbed, watch>>
    BY <1>1 DEF _handle_move, feed_data, monitorVars
  <2>2. CASE UNCHANGED <<mode, training>>
    BY <2>1, <2>2, OthersStep
  <2>3. CASE mode = "COLLECTING" /\ \E t \in Unused : /\ training' = [training EXCEPT ![t].step = "scale"]
                                                      /\ mode' = ModeWhenEnough
    <3>1. PICK t \in Unused : training' = [training EXCEPT ![t].step = "scale"]
      BY <2>3
    <3>2. t \in Trainings /\ training \in [Trainings -> Task] /\ mode' = "TRAINING"
      BY <2>3 DEF Unused, BiometricInv, EngineTypes, Task, ModeWhenEnough
    <3>3. /\ training'[t].step = "scale"
          /\ \A u \in Trainings : u # t => training'[u] = training[u]
      BY <3>1, <3>2 DEF Task
    <3>4. "reset" \notin disturbed => Running = {} /\ watch # "dead"
      BY <2>3 DEF BiometricInv, TrainingInv
    <3>5. "reset" \notin disturbed => Running' = {t}
      BY <3>2, <3>3, <3>4 DEF Running
    <3>6. Fitted("scale") = {} /\ Stored("scale") = {} /\ "scale" \notin Pieces
      BY DEF Fitted, Stored, Pieces
    <3>7. TrainingInv'
      BY <2>1, <3>2, <3>3, <3>4, <3>5, <3>6 DEF TrainingInv
    <3>8. disturbed = {} => \E u \in Trainings \cup {None} : \A p \in Pieces : disk[p] = u
      BY <3>4 DEF BiometricInv, ModelInv
    <3>9. ModelInv'
      BY <2>1, <3>2, <3>3, <3>5, <3>6, <3>8 DEF ModelInv
    <3> QED
      BY <3>7, <3>9
  <2> QED
    BY <1>1, <2>2, <2>3 DEF _handle_move, feed_data, Collect, Guard, Ignore
<1>2. CASE WakeUp \/ stop
  <2>1. UNCHANGED <<memory, disk, training, disturbed, mode>> /\ (watch' = "dead" => watch = "dead")
    BY <1>2 DEF WakeUp, stop, engineVars
  <2> QED
    BY <2>1, OthersStep
<1>3. CASE Analyze
  <2>1. UNCHANGED <<memory, disk, training, disturbed, mode>>
    BY <1>3 DEF Analyze, engineVars
  <2>2. watch' = "dead" => "reset" \in disturbed
    BY <1>3 DEF Analyze, AnalysisRaises, Analyses, BiometricInv, TrainingInv
  <2> QED
    BY <2>1, <2>2, OthersStep
<1>4. CASE \E t \in Trainings : EngineStep(t)
  BY <1>4, TrainStep DEF EngineStep, monitorVars
<1>5. CASE Reset
  <2>1. /\ mode' = "COLLECTING" /\ disk' = [p \in Pieces |-> None]
        /\ disturbed' = IF Running # {} THEN disturbed \cup {"reset"} ELSE disturbed
        /\ UNCHANGED <<training, watch>>
    BY <1>5 DEF Reset, reset_model, monitorVars
  <2>2. Running' = Running
    BY <2>1 DEF Running
  <2>3. "reset" \notin disturbed' => Running = {} /\ "reset" \notin disturbed
    BY <2>1
  <2>4. TrainingInv'
    BY <2>1, <2>2, <2>3 DEF BiometricInv, TrainingInv
  <2>5. disturbed' = {} => "reset" \notin disturbed'
    OBVIOUS
  <2>6. ModelInv'
    BY <2>1, <2>2, <2>3, <2>5 DEF ModelInv
  <2> QED
    BY <2>4, <2>6
<1>6. CASE NewProcess
  <2>1. Restart /\ EngineTypes /\ watch' = "sleep"
    BY <1>6 DEF NewProcess, BiometricInv
  <2>2. /\ EngineTypes' /\ Running' = {} /\ mode' \in {"COLLECTING", "GUARDING"}
        /\ mode' = "GUARDING" => memory' = disk' /\ \A p \in Pieces : disk'[p] # None
        /\ (\A t \in Running : training[t].step \notin Pieces) => disk' = disk
        /\ disturbed' = {} =>
             disturbed = {} /\ \A t \in Running : training[t].step \notin Pieces
    BY <2>1, RestartIs
  <2>3. TrainingInv'
    BY <2>1, <2>2 DEF TrainingInv
  <2>4. disturbed' = {} => \E t \in Trainings \cup {None} : \A p \in Pieces : disk'[p] = t
    BY <2>2 DEF BiometricInv, ModelInv
  <2>5. ASSUME disturbed' = {}, mode' = "GUARDING"
        PROVE  \E t \in Trainings : \A p \in Pieces : memory'[p] = t
    <3>1. PICK t \in Trainings \cup {None} : \A p \in Pieces : disk'[p] = t
      BY <2>4, <2>5
    <3>2. t # None
      BY <2>2, <2>5, <3>1 DEF Pieces
    <3> QED
      BY <2>2, <2>5, <3>1, <3>2
  <2>6. ModelInv'
    BY <2>2, <2>4, <2>5 DEF ModelInv
  <2> QED
    BY <2>3, <2>6
<1>7. CASE WindowReset
  <2>1. default_model_dir # m_dir
    BY DEF default_model_dir, m_dir
  <2>2. UNCHANGED <<memory, disk, training, disturbed, mode, watch>>
    BY <1>7, <2>1 DEF WindowReset
  <2> QED
    BY <2>2, OthersStep
<1> QED
  BY <1>1, <1>2, <1>3, <1>4, <1>5, <1>6, <1>7 DEF BiometricNext, Watch

LEMMA BiometricKeeps == BiometricInv /\ [BiometricNext]_biometricVars => BiometricInv'
<1>1. ASSUME BiometricInv, BiometricNext PROVE BiometricInv'
  BY <1>1, EngineTypesStep, BiometricNextStep DEF BiometricInv
<1>2. ASSUME BiometricInv, UNCHANGED biometricVars PROVE BiometricInv'
  <2>1. UNCHANGED <<memory, disk, training, disturbed, mode, watch, training_buffer>>
    BY <1>2 DEF biometricVars, engineVars, monitorVars
  <2>2. TrainingInv' /\ ModelInv'
    BY <1>2, <2>1, OthersStep
  <2> QED
    BY <1>2, <2>1, <2>2 DEF BiometricInv, EngineTypes
<1> QED
  BY <1>1, <1>2

LEMMA GuardsFromInv == BiometricInv => GuardsWithOneModel
BY DEF BiometricInv, TrainingInv, ModelInv, GuardsWithOneModel

-----------------------------------------------------------------------------
\* The file of settings: setup_ui.py and agent.py.

ConfigTypes ==
  /\ file \in [kind : {"missing", "empty", "torn", "text"}, cfg : Settings]
  /\ data \in Settings
  /\ form \in [block : {"off", "on"}, other : Versions]
  /\ agent \in [Agents -> [step : {"off", "load", "rewrite", "write", "run", "dead"},
                           cfg : Settings]]
  /\ saved \in [cfg : Settings, form : [block : {"off", "on"}, other : Versions]]
  /\ found \in [Agents -> {"nothing", "whole", "old", "harm"}]
  /\ saves \in Nat

SameSettings(cfg, other) == Encrypted(cfg) = Encrypted(other)

\* As long as no two write at a time and none was cut short, the file is empty while it is
\* written and whole else; and what agents are about to write again is what was saved.
FileInv ==
  ~crossed /\ ~cut =>
    /\ MidWrite => file.kind = "empty"
    /\ ~MidWrite => file.kind \in {"missing", "text"}
    /\ saves > 0 /\ ~MidWrite => file.kind = "text" /\ SameSettings(file.cfg, saved.cfg)
    /\ \A a \in Agents : agent[a].step = "write" =>
         ~WindowWrites /\ \A b \in Agents : agent[b].step = "write" => b = a
    /\ \A a \in Agents : saves > 0 /\ agent[a].step \in {"rewrite", "write"} =>
         SameSettings(agent[a].cfg, saved.cfg)

\* An agent whose start found a whole file has its settings, up to the secret's encryption.
AgentsInv ==
  \A a \in Agents :
    /\ agent[a].step \in {"rewrite", "write"} => agent[a].cfg.secret = "plain"
    /\ agent[a].step = "run" => agent[a].cfg.secret = "enc"
    /\ agent[a].step = "dead" => found[a] = "harm"
    /\ agent[a].step \in {"off", "load"} => found[a] = "nothing"
    /\ saves > 0 /\ found[a] = "whole" => SameSettings(agent[a].cfg, saved.cfg)

ConfigInv == ConfigTypes /\ FileInv /\ AgentsInv

AgentSteps == {"off", "load", "rewrite", "write", "run", "dead"}
AgentRecord == [step : AgentSteps, cfg : Settings]

LEMMA EncryptedIs ==
  ASSUME NEW cfg \in Settings
  PROVE  /\ Encrypted(cfg) \in Settings /\ Encrypted(cfg).secret = "enc"
         /\ Encrypted(Encrypted(cfg)) = Encrypted(cfg)
         /\ cfg.secret = "enc" => Encrypted(cfg) = cfg
         /\ cfg.secret \in {"plain", "enc"}
BY DEF Encrypted, Settings

LEMMA DefaultIs == DEFAULT_CONFIG \in Settings
BY ConfigFileAssumption DEF DEFAULT_CONFIG, Settings

LEMMA FormIs ==
  ASSUME NEW cfg \in Settings
  PROVE  FormOf(cfg) \in [block : {"off", "on"}, other : Versions]
BY DEF FormOf, Settings

LEMMA FileIs ==
  /\ \A cfg \in Settings :
       /\ Text(cfg) \in [kind : {"missing", "empty", "torn", "text"}, cfg : Settings]
       /\ Text(cfg).kind = "text" /\ Text(cfg).cfg = cfg
  /\ \A kind \in {"missing", "empty", "torn"} :
       /\ Bad(kind) \in [kind : {"missing", "empty", "torn", "text"}, cfg : Settings]
       /\ Bad(kind).kind = kind
BY DefaultIs DEF Text, Bad

LEMMA ConfigStarts == ConfigInit => ConfigInv
<1> SUFFICES ASSUME ConfigInit PROVE ConfigInv
  OBVIOUS
<1>1. /\ saves = 0 /\ setup = "closed" /\ \A a \in Agents : agent[a].step = "off" /\ found[a] = "nothing"
  BY DEF ConfigInit
<1>2. file.kind \in {"missing", "text"}
      /\ file \in [kind : {"missing", "empty", "torn", "text"}, cfg : Settings]
  <2>1. CASE file = Bad("missing")
    BY <2>1, FileIs
  <2>2. CASE \E b \in {"unset", "off", "on"}, s \in {"plain", "enc"} :
               file = Text([block |-> b, other |-> 0, secret |-> s])
    <3>1. PICK b \in {"unset", "off", "on"}, s \in {"plain", "enc"} :
            file = Text([block |-> b, other |-> 0, secret |-> s])
      BY <2>2
    <3>2. [block |-> b, other |-> 0, secret |-> s] \in Settings
      BY ConfigFileAssumption DEF Settings
    <3> QED
      BY <3>1, <3>2, FileIs
  <2> QED
    BY <2>1, <2>2 DEF ConfigInit
<1>3. ConfigTypes
  <2>1. agent \in [Agents -> AgentRecord]
    BY DefaultIs DEF ConfigInit, AgentRecord, AgentSteps
  <2>2. data \in Settings /\ form \in [block : {"off", "on"}, other : Versions]
    BY DefaultIs, FormIs DEF ConfigInit
  <2>3. saved \in [cfg : Settings, form : [block : {"off", "on"}, other : Versions]]
    BY DefaultIs, FormIs DEF ConfigInit
  <2>4. found \in [Agents -> {"nothing", "whole", "old", "harm"}]
    BY DEF ConfigInit
  <2> QED
    BY <1>1, <1>2, <2>1, <2>2, <2>3, <2>4 DEF ConfigTypes, AgentRecord, AgentSteps
<1>4. ~MidWrite
  BY <1>1 DEF MidWrite, WindowWrites
<1>5. FileInv
  BY <1>1, <1>2, <1>4 DEF FileInv
<1>6. AgentsInv
  BY <1>1 DEF AgentsInv
<1> QED
  BY <1>3, <1>5, <1>6 DEF ConfigInv

\* A step that leaves alone what the invariants look at.
LEMMA QuietStep ==
  ASSUME ConfigInv, UNCHANGED <<file, saved, found, saves, crossed>>,
         data' \in Settings, form' \in [block : {"off", "on"}, other : Versions],
         agent' \in [Agents -> AgentRecord],
         \A a \in Agents : agent'[a] = agent[a] \/ (agent[a].step = "off" /\ agent'[a].step = "load"),
         ~cut' => ~cut /\ (WindowWrites' <=> WindowWrites)
  PROVE  ConfigInv'
<1>1. ConfigTypes'
  BY DEF ConfigInv, ConfigTypes, AgentRecord, AgentSteps
<1>2. ASSUME NEW a \in Agents, agent'[a].step \in {"rewrite", "write", "run", "dead"}
      PROVE  agent'[a] = agent[a]
  BY <1>2
<1>3. AgentsInv'
  <2>1. ASSUME NEW a \in Agents, agent[a].step = "off", agent'[a].step = "load"
        PROVE  found[a] = "nothing"
    BY <2>1 DEF ConfigInv, AgentsInv
  <2> QED
    BY <1>2, <2>1 DEF ConfigInv, AgentsInv
<1>4. ASSUME NEW a \in Agents, agent[a].step \in {"rewrite", "write"}
      PROVE  agent'[a] = agent[a]
  BY <1>4
<1>5. FileInv'
  <2>1. ~cut' => (MidWrite' <=> MidWrite)
    BY <1>2, <1>4 DEF MidWrite
  <2>2. \A a \in Agents : /\ agent'[a].step = "write" <=> agent[a].step = "write"
                          /\ agent'[a].step = "rewrite" <=> agent[a].step = "rewrite"
    BY <1>2, <1>4
  <2> QED
    BY <1>4, <2>1, <2>2 DEF ConfigInv, FileInv
<1> QED
  BY <1>1, <1>3, <1>5 DEF ConfigInv

LEMMA ConfigTypesOf ==
  ASSUME ConfigInv
  PROVE  /\ file \in [kind : {"missing", "empty", "torn", "text"}, cfg : Settings]
         /\ agent \in [Agents -> AgentRecord]
         /\ found \in [Agents -> {"nothing", "whole", "old", "harm"}]
         /\ saved.cfg \in Settings /\ data \in Settings /\ saves \in Nat
         /\ form \in [block : {"off", "on"}, other : Versions]
BY DEF ConfigInv, ConfigTypes, AgentRecord, AgentSteps

\* What a window forgets or keeps is of its types.
LEMMA ForgetIs ==
  ASSUME ConfigInv, NEW next, Forget(next)
  PROVE  data' \in Settings /\ form' \in [block : {"off", "on"}, other : Versions]
<1>1. CASE next = "closed"
  BY <1>1, DefaultIs, FormIs DEF Forget
<1>2. CASE next # "closed"
  BY <1>2, ConfigTypesOf DEF Forget
<1> QED
  BY <1>1, <1>2

LEMMA FilledIs ==
  ASSUME NEW cfg \in Settings, Fill(cfg)
  PROVE  /\ file' \in [kind : {"missing", "empty", "torn", "text"}, cfg : Settings]
         /\ file.kind = "empty" => file'.kind = "text" /\ file'.cfg = cfg
BY FileIs DEF Fill

LEMMA BeginSaveStep ==
  ASSUME ConfigInv, NEW then \in {"saving", "starting"}, BeginSave(then)
  PROVE  ConfigInv'
<1>1. /\ saves' = saves + 1 /\ setup' = then /\ file' = Bad("empty")
      /\ saved' = [cfg |-> _collect_config, form |-> form]
      /\ crossed' = (crossed \/ \E a \in Agents : Rewriting(a))
      /\ found' = [a \in Agents |-> IF found[a] = "whole" THEN "old" ELSE found[a]]
      /\ UNCHANGED <<data, form, agent, cut>>
  BY DEF BeginSave
<1>2. /\ agent \in [Agents -> AgentRecord]
      /\ found \in [Agents -> {"nothing", "whole", "old", "harm"}]
      /\ data \in Settings /\ saves \in Nat /\ form \in [block : {"off", "on"}, other : Versions]
  BY ConfigTypesOf
<1>3. _collect_config \in Settings
  BY <1>2 DEF _collect_config, Settings
<1>4. ConfigTypes'
  <2>1. file' \in [kind : {"missing", "empty", "torn", "text"}, cfg : Settings]
    BY <1>1, FileIs
  <2>2. saved' \in [cfg : Settings, form : [block : {"off", "on"}, other : Versions]]
    BY <1>1, <1>2, <1>3
  <2>3. found' \in [Agents -> {"nothing", "whole", "old", "harm"}]
    BY <1>1, <1>2
  <2> QED
    BY <1>1, <1>2, <2>1, <2>2, <2>3 DEF ConfigTypes, AgentRecord, AgentSteps
<1>5. \A a \in Agents : found'[a] # "whole" /\ (found[a] \in {"harm", "nothing"} => found'[a] = found[a])
  BY <1>1, <1>2
<1>6. AgentsInv'
  BY <1>1, <1>5 DEF ConfigInv, AgentsInv
<1>7. ASSUME ~crossed'
      PROVE  \A a \in Agents : agent'[a].step \notin {"rewrite", "write"}
  BY <1>1, <1>7 DEF ConfigInv, AgentsInv, Rewriting
<1>8. MidWrite' /\ file'.kind = "empty"
  BY <1>1, FileIs DEF MidWrite, WindowWrites
<1>9. FileInv'
  BY <1>7, <1>8 DEF FileInv
<1> QED
  BY <1>4, <1>6, <1>9 DEF ConfigInv

LEMMA EndSaveStep == ASSUME ConfigInv, EndSave PROVE ConfigInv'
<1>1. /\ WindowWrites /\ Fill(saved.cfg) /\ Forget(setup') /\ setup' \in {"open", "closed"}
      /\ UNCHANGED <<saves, saved, crossed, cut, found>>
  BY DEF EndSave
<1>2. /\ agent \in [Agents -> AgentRecord] /\ saved.cfg \in Settings
      /\ found \in [Agents -> {"nothing", "whole", "old", "harm"}]
  BY ConfigTypesOf
<1>3. agent' \in [Agents -> AgentRecord]
      /\ \A a \in Agents : agent'[a] = agent[a] \/ (agent[a].step = "off" /\ agent'[a].step = "load")
  <2>1. CASE UNCHANGED agent
    BY <1>2, <2>1
  <2>2. CASE \E a \in Agents : agent[a].step = "off" /\ agent' = [agent EXCEPT ![a].step = "load"]
    BY <1>2, <2>2 DEF AgentRecord, AgentSteps
  <2> QED
    BY <2>1, <2>2 DEF EndSave
<1>4. /\ file' \in [kind : {"missing", "empty", "torn", "text"}, cfg : Settings]
      /\ file.kind = "empty" => file'.kind = "text" /\ file'.cfg = saved.cfg
  BY <1>1, <1>2, FilledIs
<1>5. ConfigTypes'
  <2>1. data' \in Settings /\ form' \in [block : {"off", "on"}, other : Versions]
    BY <1>1, ForgetIs
  <2> QED
    BY <1>1, <1>3, <1>4, <2>1 DEF ConfigInv, ConfigTypes, AgentRecord, AgentSteps
<1>6. ASSUME NEW a \in Agents, agent'[a].step \in {"rewrite", "write", "run", "dead"}
      PROVE  agent'[a] = agent[a]
  BY <1>3, <1>6
<1>7. AgentsInv'
  <2>1. ASSUME NEW a \in Agents, agent[a].step = "off", agent'[a].step = "load"
        PROVE  found[a] = "nothing"
    BY <2>1 DEF ConfigInv, AgentsInv
  <2> QED
    BY <1>1, <1>3, <1>6, <2>1 DEF ConfigInv, AgentsInv
<1>8. FileInv'
  <2> SUFFICES ASSUME ~crossed, ~cut
               PROVE  /\ ~MidWrite' /\ file'.kind = "text" /\ file'.cfg = saved.cfg
                      /\ \A a \in Agents : agent'[a].step # "write"
                      /\ \A a \in Agents : saves > 0 /\ agent'[a].step = "rewrite" =>
                           SameSettings(agent'[a].cfg, saved.cfg)
    BY <1>1 DEF FileInv, SameSettings
  <2>1. \A a \in Agents : agent[a].step # "write"
    BY <1>1 DEF ConfigInv, FileInv
  <2>2. \A a \in Agents : agent'[a].step # "write"
    BY <1>3, <2>1
  <2>3. ~MidWrite'
    BY <1>1, <2>2 DEF MidWrite, WindowWrites
  <2>4. file.kind = "empty"
    BY <1>1 DEF ConfigInv, FileInv, MidWrite
  <2>5. \A a \in Agents : saves > 0 /\ agent'[a].step = "rewrite" =>
          SameSettings(agent'[a].cfg, saved.cfg)
    BY <1>6 DEF ConfigInv, FileInv
  <2> QED
    BY <1>4, <2>2, <2>3, <2>4, <2>5
<1> QED
  BY <1>5, <1>7, <1>8 DEF ConfigInv

LEMMA LoadStep ==
  ASSUME ConfigInv, NEW a \in Agents, _load_config(a)
  PROVE  ConfigInv'
<1> DEFINE r == [cfg |-> IF file.kind = "text" THEN file.cfg ELSE agent[a].cfg,
                 step |-> IF file.kind # "text" THEN "dead"
                          ELSE IF Dirty(file.cfg) THEN "rewrite" ELSE "run"]
           f == IF file.kind = "missing" \/ MidWrite \/ crossed \/ cut THEN "harm" ELSE "whole"
<1>1. /\ agent[a].step = "load" /\ agent' = [agent EXCEPT ![a] = r]
      /\ found' = [found EXCEPT ![a] = f]
      /\ UNCHANGED <<file, setup, data, form, saves, saved, crossed, cut>>
  <2>1. agent' = [agent EXCEPT ![a] = r]
    BY DEF _load_config
  <2> HIDE DEF r
  <2> QED
    BY <2>1 DEF _load_config
<1>2. /\ agent \in [Agents -> AgentRecord] /\ saved.cfg \in Settings
      /\ found \in [Agents -> {"nothing", "whole", "old", "harm"}]
      /\ file \in [kind : {"missing", "empty", "torn", "text"}, cfg : Settings]
  BY ConfigTypesOf
<1>3. r \in AgentRecord /\ f \in {"harm", "whole"}
  BY <1>2 DEF AgentRecord, AgentSteps
<1>4. /\ file.kind = "text" => r.cfg = file.cfg
      /\ r.step = "dead" <=> file.kind # "text"
      /\ r.step = "rewrite" => file.kind = "text" /\ r.cfg.secret = "plain"
      /\ r.step = "run" => file.kind = "text" /\ r.cfg.secret = "enc"
      /\ r.step \in {"dead", "rewrite", "run"}
  <2>1. file.cfg \in Settings
    BY <1>2
  <2> QED
    BY <2>1, EncryptedIs DEF Dirty
<1>5. f = "whole" => ~MidWrite /\ ~crossed /\ ~cut /\ file.kind # "missing"
  OBVIOUS
<1>6. f # "whole" => f = "harm"
  OBVIOUS
<1> HIDE DEF r, f
<1>7. ConfigTypes'
  <2>1. agent' \in [Agents -> AgentRecord] /\ found' \in [Agents -> {"nothing", "whole", "old", "harm"}]
    BY <1>1, <1>2, <1>3
  <2> QED
    BY <1>1, <2>1 DEF ConfigInv, ConfigTypes, AgentRecord, AgentSteps
<1>8. /\ agent'[a] = r /\ found'[a] = f
      /\ \A o \in Agents : o # a => agent'[o] = agent[o] /\ found'[o] = found[o]
  BY <1>1, <1>2
<1>9. f = "whole" => file.kind = "text" /\ (saves > 0 => SameSettings(file.cfg, saved.cfg))
  BY <1>5 DEF ConfigInv, FileInv
<1>10. AgentsInv'
  <2>1. ASSUME NEW o \in Agents, o # a
        PROVE  /\ agent'[o].step \in {"rewrite", "write"} => agent'[o].cfg.secret = "plain"
               /\ agent'[o].step = "run" => agent'[o].cfg.secret = "enc"
               /\ agent'[o].step = "dead" => found'[o] = "harm"
               /\ agent'[o].step \in {"off", "load"} => found'[o] = "nothing"
               /\ saves > 0 /\ found'[o] = "whole" => SameSettings(agent'[o].cfg, saved.cfg)
    BY <1>8, <2>1 DEF ConfigInv, AgentsInv
  <2>2. /\ r.step \in {"rewrite", "write"} => r.cfg.secret = "plain"
        /\ r.step = "run" => r.cfg.secret = "enc"
        /\ r.step = "dead" => f = "harm"
        /\ r.step \notin {"off", "load"}
        /\ saves > 0 /\ f = "whole" => SameSettings(r.cfg, saved.cfg)
    BY <1>4, <1>6, <1>9
  <2> QED
    BY <1>1, <1>8, <2>1, <2>2 DEF AgentsInv
<1>11. ASSUME NEW o \in Agents
       PROVE  agent'[o].step = "write" <=> agent[o].step = "write"
  BY <1>1, <1>4, <1>8
<1>12. MidWrite' <=> MidWrite
  BY <1>1, <1>11 DEF MidWrite, WindowWrites
<1>13. FileInv'
  <2>1. ASSUME ~crossed, ~cut, saves > 0, NEW o \in Agents, agent'[o].step \in {"rewrite", "write"}
        PROVE  SameSettings(agent'[o].cfg, saved.cfg)
    <3>1. CASE o # a
      BY <1>8, <2>1, <3>1 DEF ConfigInv, FileInv
    <3>2. CASE o = a
      <4>1. file.kind = "text" /\ agent'[o].cfg = file.cfg
        BY <1>4, <1>8, <2>1, <3>2
      <4>2. ~MidWrite
        BY <2>1, <4>1 DEF ConfigInv, FileInv
      <4> QED
        BY <2>1, <4>1, <4>2 DEF ConfigInv, FileInv
    <3> QED
      BY <3>1, <3>2
  <2>2. WindowWrites' = WindowWrites
    BY <1>1 DEF WindowWrites
  <2> QED
    BY <1>1, <1>11, <1>12, <2>1, <2>2 DEF ConfigInv, FileInv
<1> QED
  BY <1>7, <1>10, <1>13 DEF ConfigInv

\* What a step of agent a changes of the agents.
LEMMA AgentChanges ==
  ASSUME ConfigInv, NEW a \in Agents, NEW r \in AgentRecord, agent' = [agent EXCEPT ![a] = r]
  PROVE  /\ agent' \in [Agents -> AgentRecord] /\ agent'[a] = r
         /\ \A o \in Agents : o # a => agent'[o] = agent[o]
BY ConfigTypesOf

LEMMA TruncateStep ==
  ASSUME ConfigInv, NEW a \in Agents, Truncate(a)
  PROVE  ConfigInv'
<1>1. /\ agent[a].step = "rewrite" /\ agent' = [agent EXCEPT ![a].step = "write"]
      /\ file' = Bad("empty") /\ crossed' = (crossed \/ MidWrite)
      /\ UNCHANGED <<setup, data, form, saves, saved, cut, found>>
  BY DEF Truncate
<1> DEFINE r == [agent[a] EXCEPT !.step = "write"]
<1>2. r \in AgentRecord /\ r.step = "write" /\ r.cfg = agent[a].cfg /\ agent' = [agent EXCEPT ![a] = r]
  BY <1>1, ConfigTypesOf DEF AgentRecord, AgentSteps
<1> HIDE DEF r
<1>3. /\ agent' \in [Agents -> AgentRecord] /\ agent'[a] = r
      /\ \A o \in Agents : o # a => agent'[o] = agent[o]
  BY <1>2, AgentChanges
<1>4. file'.kind = "empty" /\ file' \in [kind : {"missing", "empty", "torn", "text"}, cfg : Settings]
  BY <1>1, FileIs
<1>5. ConfigTypes'
  BY <1>1, <1>3, <1>4 DEF ConfigInv, ConfigTypes, AgentRecord, AgentSteps
<1>6. AgentsInv'
  BY <1>1, <1>2, <1>3 DEF ConfigInv, AgentsInv
<1>7. MidWrite'
  BY <1>2, <1>3 DEF MidWrite
<1>8. ASSUME ~crossed'
      PROVE  ~WindowWrites' /\ \A o \in Agents : agent'[o].step = "write" => o = a
  BY <1>1, <1>3, <1>8 DEF MidWrite, WindowWrites
<1>9. ASSUME ~crossed', ~cut', NEW o \in Agents, saves > 0, agent'[o].step \in {"rewrite", "write"}
      PROVE  SameSettings(agent'[o].cfg, saved.cfg)
  BY <1>1, <1>2, <1>3, <1>9 DEF ConfigInv, FileInv
<1>10. FileInv'
  BY <1>1, <1>4, <1>7, <1>8, <1>9 DEF FileInv
<1> QED
  BY <1>5, <1>6, <1>10 DEF ConfigInv

LEMMA RewriteStep ==
  ASSUME ConfigInv, NEW a \in Agents, Rewrite(a)
  PROVE  ConfigInv'
<1> DEFINE cfg == agent[a].cfg
           r == [step |-> "run", cfg |-> Encrypted(cfg)]
<1>1. /\ agent[a].step = "write" /\ Fill(Encrypted(cfg)) /\ agent' = [agent EXCEPT ![a] = r]
      /\ UNCHANGED <<setup, data, form, saves, saved, crossed, cut, found>>
  BY DEF Rewrite
<1>2. cfg \in Settings
  BY ConfigTypesOf DEF AgentRecord
<1> HIDE DEF cfg
<1>3. /\ r \in AgentRecord /\ r.step = "run" /\ r.cfg = Encrypted(cfg) /\ r.cfg.secret = "enc"
      /\ Encrypted(cfg) \in Settings /\ Encrypted(r.cfg) = Encrypted(cfg)
  BY <1>2, EncryptedIs DEF AgentRecord, AgentSteps
<1> HIDE DEF r
<1>4. /\ agent' \in [Agents -> AgentRecord] /\ agent'[a] = r
      /\ \A o \in Agents : o # a => agent'[o] = agent[o]
  BY <1>1, <1>3, AgentChanges
<1>5. /\ file' \in [kind : {"missing", "empty", "torn", "text"}, cfg : Settings]
      /\ file.kind = "empty" => file'.kind = "text" /\ file'.cfg = r.cfg
  BY <1>1, <1>3, FilledIs
<1>6. ConfigTypes'
  BY <1>1, <1>4, <1>5 DEF ConfigInv, ConfigTypes, AgentRecord, AgentSteps
<1>7. saves > 0 /\ found[a] = "whole" => SameSettings(r.cfg, saved.cfg)
  BY <1>3 DEF ConfigInv, AgentsInv, SameSettings, cfg
<1>8. AgentsInv'
  BY <1>1, <1>3, <1>4, <1>7 DEF ConfigInv, AgentsInv
<1>9. ASSUME ~crossed, ~cut
      PROVE  /\ file.kind = "empty" /\ ~WindowWrites /\ \A o \in Agents : agent[o].step = "write" => o = a
             /\ saves > 0 => SameSettings(r.cfg, saved.cfg)
  <2>1. MidWrite
    BY <1>1 DEF MidWrite
  <2>2. saves > 0 => SameSettings(cfg, saved.cfg)
    BY <1>1, <1>9 DEF ConfigInv, FileInv, cfg
  <2> QED
    BY <1>1, <1>3, <1>9, <2>1, <2>2 DEF ConfigInv, FileInv, SameSettings
<1>10. FileInv'
  <2> SUFFICES ASSUME ~crossed, ~cut
               PROVE  /\ ~MidWrite' /\ file'.kind = "text" /\ file'.cfg = r.cfg
                      /\ saves > 0 => SameSettings(r.cfg, saved.cfg)
                      /\ \A o \in Agents : agent'[o].step # "write"
                      /\ \A o \in Agents : saves > 0 /\ agent'[o].step = "rewrite" =>
                           SameSettings(agent'[o].cfg, saved.cfg)
    BY <1>1 DEF FileInv
  <2>1. \A o \in Agents : agent'[o].step # "write"
    BY <1>3, <1>4, <1>9
  <2>2. ~MidWrite'
    BY <1>1, <1>9, <2>1 DEF MidWrite, WindowWrites
  <2>3. \A o \in Agents : saves > 0 /\ agent'[o].step = "rewrite" =>
          SameSettings(agent'[o].cfg, saved.cfg)
    BY <1>3, <1>4 DEF ConfigInv, FileInv
  <2> QED
    BY <1>5, <1>9, <2>1, <2>2, <2>3
<1> QED
  BY <1>6, <1>8, <1>10 DEF ConfigInv

LEMMA AgentEndsStep ==
  ASSUME ConfigInv, NEW a \in Agents, AgentEnds(a)
  PROVE  ConfigInv'
<1> DEFINE r == [step |-> "dead", cfg |-> DEFAULT_CONFIG]
<1>1. /\ agent' = [agent EXCEPT ![a] = r] /\ cut' = (cut \/ agent[a].step = "write")
      /\ found' = [found EXCEPT ![a] = "harm"]
      /\ UNCHANGED <<file, setup, data, form, saves, saved, crossed>>
  BY DEF AgentEnds
<1>2. r \in AgentRecord /\ r.step = "dead"
  BY DefaultIs DEF AgentRecord, AgentSteps
<1> HIDE DEF r
<1>3. /\ agent' \in [Agents -> AgentRecord] /\ agent'[a] = r
      /\ \A o \in Agents : o # a => agent'[o] = agent[o]
  BY <1>1, <1>2, AgentChanges
<1>4. /\ found' \in [Agents -> {"nothing", "whole", "old", "harm"}] /\ found'[a] = "harm"
      /\ \A o \in Agents : o # a => found'[o] = found[o]
  BY <1>1, ConfigTypesOf
<1>5. ConfigTypes'
  BY <1>1, <1>3, <1>4 DEF ConfigInv, ConfigTypes, AgentRecord, AgentSteps
<1>6. AgentsInv'
  BY <1>1, <1>2, <1>3, <1>4 DEF ConfigInv, AgentsInv
<1>7. ASSUME ~cut', NEW o \in Agents
      PROVE  /\ agent'[o].step = "write" <=> agent[o].step = "write"
             /\ agent'[o].step \in {"rewrite", "write"} => agent'[o] = agent[o]
  BY <1>1, <1>2, <1>3, <1>7
<1>8. ~cut' => (MidWrite' <=> MidWrite)
  BY <1>1, <1>7 DEF MidWrite, WindowWrites
<1>9. WindowWrites' = WindowWrites
  BY <1>1 DEF WindowWrites
<1>10. FileInv'
  BY <1>1, <1>7, <1>8, <1>9 DEF ConfigInv, FileInv
<1> QED
  BY <1>5, <1>6, <1>10 DEF ConfigInv

LEMMA ConfigKeeps == ConfigInv /\ [ConfigNext]_configVars => ConfigInv'
<1> SUFFICES ASSUME ConfigInv, [ConfigNext]_configVars PROVE ConfigInv'
  OBVIOUS
<1>1. /\ agent \in [Agents -> AgentRecord] /\ data \in Settings
      /\ form \in [block : {"off", "on"}, other : Versions]
      /\ file \in [kind : {"missing", "empty", "torn", "text"}, cfg : Settings]
  BY ConfigTypesOf
<1>2. CASE OpenSetup
  <2>1. data' \in Settings /\ form' \in [block : {"off", "on"}, other : Versions]
    <3>1. data' \in Settings
      BY <1>1, <1>2, DefaultIs DEF OpenSetup
    <3> QED
      BY <1>2, <3>1, FormIs DEF OpenSetup
  <2>2. UNCHANGED <<file, saved, found, saves, crossed, cut, agent>>
        /\ (WindowWrites' <=> WindowWrites)
    BY <1>2 DEF OpenSetup, WindowWrites
  <2> QED
    BY <1>1, <2>1, <2>2, QuietStep
<1>3. CASE Edit
  BY <1>1, <1>3, QuietStep DEF Edit, WindowWrites
<1>4. CASE CloseSetup
  <2>1. /\ UNCHANGED <<file, saved, found, saves, crossed, agent>>
        /\ ~cut' => ~cut /\ (WindowWrites' <=> WindowWrites)
    BY <1>4 DEF CloseSetup, WindowWrites
  <2>2. data' \in Settings /\ form' \in [block : {"off", "on"}, other : Versions]
    BY <1>4, ForgetIs DEF CloseSetup
  <2> QED
    BY <1>1, <2>1, <2>2, QuietStep
<1>5. ASSUME NEW a \in Agents, StartAgent(a) PROVE ConfigInv'
  <2>1. /\ agent[a].step = "off" /\ agent' = [agent EXCEPT ![a].step = "load"]
        /\ UNCHANGED <<file, saved, found, saves, crossed, cut, data, form, setup>>
    BY <1>5 DEF StartAgent
  <2>2. /\ agent' \in [Agents -> AgentRecord] /\ agent'[a].step = "load"
        /\ \A o \in Agents : o # a => agent'[o] = agent[o]
    BY <1>1, <2>1 DEF AgentRecord, AgentSteps
  <2>3. \A o \in Agents : agent'[o] = agent[o] \/ (agent[o].step = "off" /\ agent'[o].step = "load")
    BY <2>1, <2>2
  <2> QED
    BY <1>1, <2>1, <2>2, <2>3, QuietStep DEF WindowWrites
<1>6. CASE UNCHANGED configVars
  BY <1>1, <1>6, QuietStep DEF configVars, WindowWrites
<1> QED
  BY <1>2, <1>3, <1>4, <1>5, <1>6, BeginSaveStep, EndSaveStep, LoadStep, TruncateStep,
     RewriteStep, AgentEndsStep DEF ConfigNext

LEMMA SavesFromInv == ConfigInv => SavesKept
<1> SUFFICES ASSUME ConfigInv PROVE SavesKept
  OBVIOUS
<1>1. ASSUME saves > 0, ~MidWrite, ~crossed, ~cut
      PROVE  file.kind = "text" /\ Encrypted(file.cfg) = Encrypted(saved.cfg)
  BY <1>1 DEF ConfigInv, FileInv, SameSettings
<1>2. ASSUME NEW a \in Agents, saves > 0, agent[a].step = "run", found[a] = "whole"
      PROVE  agent[a].cfg = Encrypted(saved.cfg)
  <2>1. agent[a].cfg.secret = "enc" /\ Encrypted(agent[a].cfg) = Encrypted(saved.cfg)
    BY <1>2 DEF ConfigInv, AgentsInv, SameSettings
  <2>2. agent[a].cfg \in Settings
    BY ConfigTypesOf DEF AgentRecord
  <2> QED
    BY <2>1, <2>2, EncryptedIs
<1>3. \A a \in Agents : agent[a].step = "dead" => found[a] = "harm"
  BY DEF ConfigInv, AgentsInv
<1> QED
  BY <1>1, <1>2, <1>3 DEF SavesKept

-----------------------------------------------------------------------------
\* The login dialog and the window after it: login_dialog.py and setup_ui.py.

WorkerRecord ==
  [step : {"unused", "post", "wait", "verify", "granted", "raised", "ended"},
   role : Roles, code : {"unset", "none", "code"}, told : BOOLEAN]
Tasks == [task : {"fail", "error", "ask_mfa", "done"}, by : Workers]
Windows ==
  [kind : {"none", "shell", "setup", "gone"}, role : Roles, auto : BOOLEAN, launched : BOOLEAN]

LoginTypes ==
  /\ dialog \in {"open", "closed"}
  /\ result \in Workers \cup {NoWorker, Background, Skipped}
  /\ gui_queue \in Seq(Tasks) /\ prompt \in Workers \cup {NoWorker}
  /\ worker \in [Workers -> WorkerRecord]
  /\ window \in Windows
  /\ agents \in Nat /\ starts \in Nat
  /\ accepted \subseteq Workers /\ late \subseteq Workers

\* Only the worker of an accepted login says that it is done.
AcceptedInv ==
  /\ \A w \in Workers : worker[w].step = "granted" => w \in accepted
  /\ \A i \in 1 .. Len(gui_queue) : gui_queue[i].task = "done" => gui_queue[i].by \in accepted
  /\ result \in Workers => result \in accepted

\* A closed dialog stays closed, and a batch goes on in it only behind a prompt.
ClosedInv ==
  /\ dialog = "open" => result = NoWorker /\ window.kind = "none" /\ cancelled = "no"
  /\ window.kind # "none" => poll # "batch"
  /\ cancelled = "yes" => poll # "batch" /\ result = NoWorker
  /\ cancelled = "prompt" => result \in accepted \cup {NoWorker}

WindowInv ==
  /\ window.kind = "none" => window = NoWindow /\ agents = 0
  /\ window.kind \in {"shell", "setup"} /\ late = {} => app_role = window.role
  /\ agents <= starts + 1 /\ (window.auto => agents <= starts)

LoginInv == LoginTypes /\ AcceptedInv /\ ClosedInv /\ WindowInv

LEMMA NoWorkers ==
  /\ NoWorker \notin Workers /\ Background \notin Workers /\ Skipped \notin Workers
  /\ NoWorker # Background /\ NoWorker # Skipped
BY DEF NoWorker, Background, Skipped, Workers

LEMMA SetupIs ==
  ASSUME NEW role \in Roles, NEW auto \in BOOLEAN
  PROVE  /\ SetupApp(role, auto) \in Windows /\ SetupApp(role, auto).kind = "setup"
         /\ SetupApp(role, auto).role = role
BY DEF SetupApp, NoWindow, Windows, Roles

LEMMA NoWindowIs ==
  NoWindow \in Windows /\ NoWindow.kind = "none" /\ NoWindow.role = "user" /\ ~NoWindow.auto
BY DEF NoWindow, Windows, Roles

LEMMA LoginStarts == LoginInit => LoginInv
<1> SUFFICES ASSUME LoginInit PROVE LoginInv
  OBVIOUS
<1>1. /\ gui_queue = <<>> /\ prompt = NoWorker /\ agents = 0 /\ starts = 0 /\ late = {}
      /\ accepted = {} /\ cancelled = "no"
      /\ worker = [w \in Workers |->
           [step |-> "unused", role |-> "user", code |-> "unset", told |-> FALSE]]
  BY DEF LoginInit
<1>2. worker \in [Workers -> WorkerRecord] /\ \A w \in Workers : worker[w].step = "unused"
  BY <1>1 DEF WorkerRecord, Roles
<1>3. gui_queue \in Seq(Tasks) /\ Len(gui_queue) = 0
  BY <1>1
<1>4. \/ /\ dialog = "open" /\ result = NoWorker /\ window = NoWindow
      \/ /\ dialog = "closed" /\ result = Skipped /\ poll = "ended"
         /\ window \in Windows /\ window.kind = "setup" /\ app_role = window.role
  BY SetupIs DEF LoginInit
<1>5. LoginTypes
  BY <1>1, <1>2, <1>3, <1>4, NoWindowIs DEF LoginTypes
<1>6. AcceptedInv
  BY <1>2, <1>3, <1>4, NoWorkers DEF AcceptedInv
<1>7. ClosedInv
  BY <1>1, <1>4, NoWindowIs DEF ClosedInv
<1>8. WindowInv
  BY <1>1, <1>4, NoWindowIs DEF WindowInv
<1> QED
  BY <1>5, <1>6, <1>7, <1>8 DEF LoginInv

LEMMA LoginTypesOf ==
  ASSUME LoginInv
  PROVE  /\ gui_queue \in Seq(Tasks) /\ Len(gui_queue) \in Nat
         /\ \A i \in 1 .. Len(gui_queue) : gui_queue[i] \in Tasks
         /\ worker \in [Workers -> WorkerRecord] /\ window \in Windows
         /\ agents \in Nat /\ starts \in Nat /\ prompt \in Workers \cup {NoWorker}
BY LenProperties, ElementOfSeq DEF LoginInv, LoginTypes

\* A step of worker w that ends in r.
LEMMA WorkerGoesOn ==
  ASSUME LoginInv, NEW w \in Workers, NEW r \in WorkerRecord, worker' = [worker EXCEPT ![w] = r],
         prompt' \in Workers \cup {NoWorker},
         UNCHANGED <<dialog, result, poll, window, agents, starts, cancelled>>,
         gui_queue' \in Seq(Tasks),
         \A i \in 1 .. Len(gui_queue') :
           gui_queue'[i].task = "done" => gui_queue'[i].by \in accepted',
         accepted' \subseteq Workers, accepted \subseteq accepted', late' \subseteq Workers,
         r.step = "granted" => w \in accepted',
         window.kind # "none" /\ late' = {} => late = {} /\ app_role' = app_role
  PROVE  LoginInv'
<1>1. LoginTypes'
  <2>1. worker' \in [Workers -> WorkerRecord]
    BY LoginTypesOf
  <2> QED
    BY <2>1 DEF LoginInv, LoginTypes
<1>2. worker'[w] = r /\ \A v \in Workers : v # w => worker'[v] = worker[v]
  BY LoginTypesOf
<1>3. AcceptedInv'
  BY <1>2 DEF LoginInv, AcceptedInv
<1>4. ClosedInv'
  BY DEF LoginInv, ClosedInv
<1>5. WindowInv'
  BY DEF LoginInv, WindowInv
<1> QED
  BY <1>1, <1>3, <1>4, <1>5 DEF LoginInv

\* A worker's step that asks the dialog for something, or for nothing.
LEMMA PutStep ==
  ASSUME LoginInv, NEW w \in Workers, NEW task \in {"fail", "error", "ask_mfa", "done"},
         Put(task, w), task = "done" => w \in accepted
  PROVE  /\ gui_queue' \in Seq(Tasks)
         /\ \A i \in 1 .. Len(gui_queue') :
              gui_queue'[i].task = "done" => gui_queue'[i].by \in accepted
<1> DEFINE e == [task |-> task, by |-> w]
<1>1. e \in Tasks /\ e.task = task /\ e.by = w
  BY DEF Tasks
<1>2. gui_queue' = Append(gui_queue, e)
  BY DEF Put
<1> HIDE DEF e
<1>3. /\ gui_queue' \in Seq(Tasks) /\ Len(gui_queue') = Len(gui_queue) + 1
      /\ \A i \in 1 .. Len(gui_queue) : gui_queue'[i] = gui_queue[i]
      /\ gui_queue'[Len(gui_queue) + 1] = e
  BY <1>1, <1>2, LoginTypesOf, AppendProperties
<1>4. \A i \in 1 .. Len(gui_queue) + 1 : i \in 1 .. Len(gui_queue) \/ i = Len(gui_queue) + 1
  BY LoginTypesOf
<1> QED
  BY <1>1, <1>3, <1>4 DEF LoginInv, AcceptedInv

LEMMA StepIs ==
  ASSUME LoginInv, NEW w \in Workers,
         NEW step \in {"unused", "post", "wait", "verify", "granted", "raised", "ended"},
         WorkerStep(w, step)
  PROVE  \E r \in WorkerRecord : r.step = step /\ worker' = [worker EXCEPT ![w] = r]
<1> DEFINE r == [worker[w] EXCEPT !.step = step]
<1>1. r \in WorkerRecord /\ r.step = step
  BY LoginTypesOf DEF WorkerRecord
<1>2. worker' = [worker EXCEPT ![w] = r]
  BY LoginTypesOf DEF WorkerStep
<1> QED
  BY <1>1, <1>2

LEMMA WorkStep ==
  ASSUME LoginInv, NEW w \in Workers, Click(w) \/ Work(w)
  PROVE  LoginInv'
<1>1. /\ accepted \subseteq Workers /\ late \subseteq Workers /\ gui_queue \in Seq(Tasks)
      /\ prompt \in Workers \cup {NoWorker} /\ worker \in [Workers -> WorkerRecord]
  BY DEF LoginInv, LoginTypes
<1>2. \A i \in 1 .. Len(gui_queue) : gui_queue[i].task = "done" => gui_queue[i].by \in accepted
  BY DEF LoginInv, AcceptedInv
<1>3. ASSUME NEW step \in {"unused", "post", "wait", "verify", "raised", "ended"},
             WorkerStep(w, step), UNCHANGED gui_queue,
             UNCHANGED <<dialog, result, poll, window, agents, starts, cancelled, accepted, late,
                         app_role, prompt>>
      PROVE  LoginInv'
  <2>1. PICK r \in WorkerRecord : r.step = step /\ worker' = [worker EXCEPT ![w] = r]
    BY <1>3, StepIs
  <2> QED
    BY <1>1, <1>2, <1>3, <2>1, WorkerGoesOn
<1>4. ASSUME NEW step \in {"wait", "raised", "ended"}, WorkerStep(w, step),
             NEW task \in {"fail", "error", "ask_mfa", "done"}, Put(task, w),
             task = "done" => w \in accepted,
             UNCHANGED <<dialog, result, poll, window, agents, starts, cancelled, accepted, late,
                         app_role, prompt>>
      PROVE  LoginInv'
  <2>1. PICK r \in WorkerRecord : r.step = step /\ worker' = [worker EXCEPT ![w] = r]
    BY <1>4, StepIs
  <2>2. /\ gui_queue' \in Seq(Tasks)
        /\ \A i \in 1 .. Len(gui_queue') :
             gui_queue'[i].task = "done" => gui_queue'[i].by \in accepted
    BY <1>4, PutStep
  <2> QED
    BY <1>1, <1>4, <2>1, <2>2, WorkerGoesOn
<1>5. CASE GiveUp(w)
  BY <1>4, <1>5 DEF GiveUp, setupVars, history
<1>6. CASE Raise(w)
  BY <1>4, <1>6 DEF Raise, setupVars, history
<1>7. CASE Grant(w)
  <2>1. PICK claim \in Roles \cup {"unsaid"}, listed \in BOOLEAN :
          LET role == resolve_role_from_login_response(claim, listed)
          IN  /\ worker' = [worker EXCEPT ![w].step = "granted", ![w].role = role]
              /\ app_role' = role
              /\ accepted' = accepted \cup {w}
              /\ late' = IF window.kind # "none" THEN late \cup {w} ELSE late
              /\ UNCHANGED <<dialogVars, setupVars, cancelled, mute>>
    BY <1>7 DEF Grant
  <2> DEFINE role == resolve_role_from_login_response(claim, listed)
             r == [worker[w] EXCEPT !.step = "granted", !.role = role]
  <2>2. role \in Roles
    BY DEF resolve_role_from_login_response, Roles
  <2> HIDE DEF role
  <2>3. worker' = [worker EXCEPT ![w].step = "granted", ![w].role = role]
    BY <2>1 DEF role
  <2>4. r \in WorkerRecord /\ r.step = "granted" /\ worker' = [worker EXCEPT ![w] = r]
    BY <1>1, <2>2, <2>3 DEF WorkerRecord
  <2> HIDE DEF r
  <2>5. /\ accepted' = accepted \cup {w}
        /\ late' = IF window.kind # "none" THEN late \cup {w} ELSE late
        /\ UNCHANGED <<dialog, result, gui_queue, poll, prompt, window, agents, starts, cancelled>>
    BY <2>1 DEF dialogVars, setupVars
  <2> QED
    BY <1>1, <1>2, <2>4, <2>5, WorkerGoesOn
<1>8. CASE Login(w)
  <2>1. CASE /\ Put("ask_mfa", w) /\ WorkerStep(w, "wait")
             /\ UNCHANGED <<dialog, result, poll, prompt, app_role, setupVars, history>>
    BY <1>4, <2>1 DEF setupVars, history
  <2> QED
    BY <1>5, <1>6, <1>7, <1>8, <2>1 DEF Login
<1>9. CASE AwaitCode(w)
  <2>1. CASE WorkerStep(w, "verify") /\ UNCHANGED <<dialogVars, app_role, setupVars, history>>
    BY <1>3, <2>1 DEF dialogVars, setupVars, history
  <2> QED
    BY <1>5, <1>9, <2>1 DEF AwaitCode
<1>10. CASE VerifyCode(w)
  BY <1>5, <1>6, <1>7, <1>10 DEF VerifyCode
<1>11. CASE PutDone(w)
  <2>1. w \in accepted
    BY <1>11 DEF PutDone, LoginInv, AcceptedInv
  <2> QED
    BY <1>4, <1>11, <2>1 DEF PutDone, setupVars, history
<1>12. CASE LeaveHandler(w)
  BY <1>3, <1>12 DEF LeaveHandler, dialogVars, setupVars, history
<1>13. CASE Click(w)
  BY <1>3, <1>13 DEF Click, dialogVars, setupVars, history
<1> QED
  BY <1>8, <1>9, <1>10, <1>11, <1>12, <1>13 DEF Work

\* A step of the main thread before there is a window: the dialog's, or the prompt's.
LEMMA DialogGoesOn ==
  ASSUME LoginInv, worker' \in [Workers -> WorkerRecord],
         \A w \in Workers : worker'[w].step = worker[w].step,
         UNCHANGED <<window, agents, starts, accepted, late>>,
         app_role' = app_role \/ window.kind = "none",
         gui_queue' \in Seq(Tasks),
         \A i \in 1 .. Len(gui_queue') :
           gui_queue'[i].task = "done" => gui_queue'[i].by \in accepted,
         dialog' \in {"open", "closed"}, result' \in Workers \cup {NoWorker, Background, Skipped},
         prompt' \in Workers \cup {NoWorker},
         result' \in Workers => result' \in accepted,
         ClosedInv'
  PROVE  LoginInv'
<1>1. LoginTypes'
  BY DEF LoginInv, LoginTypes
<1>2. AcceptedInv'
  BY DEF LoginInv, AcceptedInv
<1>3. WindowInv'
  BY DEF LoginInv, WindowInv
<1> QED
  BY <1>1, <1>2, <1>3 DEF LoginInv

\* The batch takes the first task.
LEMMA TaskTaken ==
  ASSUME LoginInv, gui_queue # <<>>
  PROVE  /\ Head(gui_queue) \in Tasks
         /\ Head(gui_queue).task = "done" => Head(gui_queue).by \in accepted
         /\ Tail(gui_queue) \in Seq(Tasks)
         /\ \A i \in 1 .. Len(Tail(gui_queue)) :
              Tail(gui_queue)[i].task = "done" => Tail(gui_queue)[i].by \in accepted
<1>1. gui_queue \in Seq(Tasks) /\ Len(gui_queue) \in Nat
  BY LoginTypesOf
<1>2. /\ Head(gui_queue) \in Tasks /\ Head(gui_queue) = gui_queue[1] /\ Len(gui_queue) > 0
      /\ Tail(gui_queue) \in Seq(Tasks) /\ Len(Tail(gui_queue)) = Len(gui_queue) - 1
      /\ \A i \in 1 .. Len(Tail(gui_queue)) : Tail(gui_queue)[i] = gui_queue[i + 1]
  BY <1>1, HeadTailProperties, EmptySeq
<1>3. \A i \in 1 .. Len(gui_queue) : gui_queue[i].task = "done" => gui_queue[i].by \in accepted
  BY DEF LoginInv, AcceptedInv
<1>4. 1 \in 1 .. Len(gui_queue)
  BY <1>1, <1>2
<1>5. \A i \in 1 .. Len(Tail(gui_queue)) : i + 1 \in 1 .. Len(gui_queue)
  BY <1>1, <1>2
<1> QED
  BY <1>2, <1>3, <1>4, <1>5

LEMMA TaskStep ==
  ASSUME LoginInv, DoTask
  PROVE  LoginInv'
<1> DEFINE w == NextTask.by
           nameless == NextTask.task = "error" /\ worker[w].step # "raised"
<1>1. /\ poll = "batch" /\ prompt = NoWorker /\ gui_queue # <<>>
      /\ gui_queue' = Tail(gui_queue)
      /\ poll' = IF dialog = "open" /\ ~nameless THEN poll ELSE Rearm
      /\ UNCHANGED <<app_role, window, agents, starts, accepted, cancelled, late>>
  BY DEF DoTask, setupVars
<1>2. \/ NextTask.task \in {"fail", "error"} /\ Tell(w) /\ UNCHANGED <<dialog, result, prompt>>
      \/ UNCHANGED <<dialog, result, prompt, worker>>
      \/ /\ prompt' = IF dialog = "open" THEN w ELSE NoWorker
         /\ UNCHANGED <<dialog, result, worker>>
      \/ /\ NextTask.task = "done" /\ result' = w /\ dialog' = "closed"
         /\ UNCHANGED <<prompt, worker>>
  BY DEF DoTask
<1>3. /\ w \in Workers /\ (NextTask.task = "done" => w \in accepted)
      /\ gui_queue' \in Seq(Tasks)
      /\ \A i \in 1 .. Len(gui_queue') :
           gui_queue'[i].task = "done" => gui_queue'[i].by \in accepted
  BY <1>1, TaskTaken DEF NextTask, Tasks
<1> HIDE DEF w, nameless
<1>4. /\ worker \in [Workers -> WorkerRecord] /\ dialog \in {"open", "closed"}
      /\ result \in Workers \cup {NoWorker, Background, Skipped}
      /\ prompt \in Workers \cup {NoWorker}
      /\ result \in Workers => result \in accepted
  BY DEF LoginInv, LoginTypes, AcceptedInv
<1>5. /\ worker' \in [Workers -> WorkerRecord]
      /\ \A v \in Workers : worker'[v].step = worker[v].step
  <2>1. CASE worker' = worker
    BY <1>4, <2>1
  <2>2. CASE worker' = [worker EXCEPT ![w].told = TRUE]
    BY <1>3, <1>4, <2>2 DEF WorkerRecord
  <2> QED
    BY <1>2, <2>1, <2>2 DEF Tell
<1>6. /\ dialog' \in {"open", "closed"} /\ prompt' \in Workers \cup {NoWorker}
      /\ result' \in Workers \cup {NoWorker, Background, Skipped}
      /\ result' \in Workers => result' \in accepted
  BY <1>2, <1>3, <1>4
<1>7. ClosedInv /\ window.kind = "none" /\ cancelled # "yes"
  BY <1>1 DEF LoginInv, ClosedInv
<1>8. ClosedInv'
  <2>1. dialog' = "open" => result' = NoWorker /\ cancelled' = "no"
    BY <1>1, <1>2, <1>7 DEF ClosedInv
  <2>2. cancelled' = "prompt" => result' \in accepted' \cup {NoWorker}
    BY <1>1, <1>2, <1>3, <1>7 DEF ClosedInv
  <2> QED
    BY <1>1, <1>7, <2>1, <2>2 DEF ClosedInv
<1> QED
  BY <1>1, <1>3, <1>5, <1>6, <1>7, <1>8, DialogGoesOn

LEMMA DialogStep ==
  ASSUME LoginInv,
         \/ PollFires \/ EndBatch \/ Cancel \/ on_user_background
         \/ \E code \in {"none", "code"} : AnswerPrompt(code)
  PROVE  LoginInv'
<1>1. /\ worker \in [Workers -> WorkerRecord] /\ dialog \in {"open", "closed"}
      /\ result \in Workers \cup {NoWorker, Background, Skipped}
      /\ prompt \in Workers \cup {NoWorker} /\ gui_queue \in Seq(Tasks)
  BY DEF LoginInv, LoginTypes
<1>2. /\ \A i \in 1 .. Len(gui_queue) : gui_queue[i].task = "done" => gui_queue[i].by \in accepted
      /\ result \in Workers => result \in accepted
  BY DEF LoginInv, AcceptedInv
<1>3. ClosedInv
  BY DEF LoginInv
<1>4. CASE PollFires
  <2>1. ClosedInv'
    BY <1>3, <1>4 DEF PollFires, ClosedInv, setupVars, history
  <2> QED
    BY <1>1, <1>2, <1>4, <2>1, DialogGoesOn DEF PollFires, setupVars, history
<1>5. CASE EndBatch
  <2>1. ClosedInv'
    BY <1>3, <1>5 DEF EndBatch, Rearm, ClosedInv, setupVars, history
  <2> QED
    BY <1>1, <1>2, <1>5, <2>1, DialogGoesOn DEF EndBatch, setupVars, history
<1>6. CASE Cancel
  <2>1. /\ \A w \in Workers : worker'[w] \in WorkerRecord /\ worker'[w].step = worker[w].step
        /\ worker' \in [Workers -> WorkerRecord]
    <3>1. \A w \in Workers : [worker[w] EXCEPT !.code = "none"] \in WorkerRecord
      BY <1>1 DEF WorkerRecord
    <3>2. \A w \in Workers : [worker[w] EXCEPT !.code = "none"].step = worker[w].step
      BY <1>1 DEF WorkerRecord
    <3>3. worker' = [w \in Workers |->
            IF w = prompt THEN [worker[w] EXCEPT !.code = "none"] ELSE worker[w]]
      BY <1>6 DEF Cancel
    <3> QED
      BY <1>1, <3>1, <3>2, <3>3
  <2>2. /\ dialog = "open" /\ (poll = "batch" => prompt # NoWorker)
        /\ dialog' = "closed" /\ result' = NoWorker /\ prompt' = NoWorker
        /\ cancelled' = IF prompt = NoWorker THEN "yes" ELSE "prompt"
        /\ UNCHANGED <<gui_queue, poll, app_role, window, agents, starts, accepted, late>>
    BY <1>6 DEF Cancel, setupVars
  <2>3. ClosedInv'
    BY <1>3, <2>2 DEF ClosedInv
  <2> QED
    BY <1>1, <1>2, <2>1, <2>2, <2>3, NoWorkers, DialogGoesOn
<1>7. CASE on_user_background
  <2>1. /\ dialog = "open" /\ dialog' = "closed" /\ result' = Background
        /\ UNCHANGED <<gui_queue, poll, prompt, worker, window, agents, starts, accepted,
                       cancelled, late>>
    BY <1>7 DEF on_user_background, Responsive, setupVars, history
  <2>2. ClosedInv' /\ window.kind = "none"
    BY <1>3, <2>1 DEF ClosedInv
  <2> QED
    BY <1>1, <1>2, <2>1, <2>2, NoWorkers, DialogGoesOn
<1>8. CASE \E code \in {"none", "code"} : AnswerPrompt(code)
  <2>1. PICK code \in {"none", "code"} : AnswerPrompt(code)
    BY <1>8
  <2>2. prompt # NoWorker /\ prompt \in Workers /\ prompt' = NoWorker
        /\ worker' = [worker EXCEPT ![prompt].code = code]
        /\ UNCHANGED <<dialog, result, gui_queue, poll, app_role, window, agents, starts,
                       accepted, cancelled, late>>
    BY <1>1, <2>1 DEF AnswerPrompt, setupVars, history
  <2>3. /\ worker' \in [Workers -> WorkerRecord]
        /\ \A w \in Workers : worker'[w].step = worker[w].step
    BY <1>1, <2>2 DEF WorkerRecord
  <2>4. ClosedInv'
    BY <1>3, <2>2 DEF ClosedInv
  <2> QED
    BY <1>1, <1>2, <2>2, <2>3, <2>4, DialogGoesOn
<1> QED
  BY <1>4, <1>5, <1>6, <1>7, <1>8

\* A step of the window: it is there and no batch is going on.
LEMMA WindowGoesOn ==
  ASSUME LoginInv, UNCHANGED <<dialogVars, worker, history>>,
         dialog = "closed", poll # "batch",
         window' \in Windows, agents' \in Nat, starts' \in Nat, WindowInv'
  PROVE  LoginInv'
<1>1. LoginTypes'
  BY DEF LoginInv, LoginTypes, dialogVars, history
<1>2. AcceptedInv'
  BY DEF LoginInv, AcceptedInv, dialogVars, history
<1>3. ClosedInv'
  BY DEF LoginInv, ClosedInv, dialogVars, history
<1> QED
  BY <1>1, <1>2, <1>3 DEF LoginInv

LEMMA OpenStep ==
  ASSUME LoginInv, OpenWindow
  PROVE  LoginInv'
<1>1. /\ dialog = "closed" /\ poll # "batch" /\ window.kind = "none"
      /\ UNCHANGED <<dialogVars, worker, history, starts>>
  BY DEF OpenWindow
<1>2. /\ window = NoWindow /\ agents = 0 /\ starts \in Nat
      /\ worker \in [Workers -> WorkerRecord] /\ result' = result /\ late' = late
  BY <1>1 DEF LoginInv, LoginTypes, WindowInv, dialogVars, history
<1>3. CASE /\ window' = [window EXCEPT !.kind = "gone"] /\ UNCHANGED <<agents, app_role>>
  <2>1. window' \in Windows /\ window'.kind = "gone" /\ ~window'.auto
    BY <1>2, <1>3 DEF NoWindow, Windows, Roles
  <2> QED
    BY <1>1, <1>2, <1>3, <2>1, WindowGoesOn DEF WindowInv
<1>4. CASE /\ window' = [window EXCEPT !.kind = "shell"] /\ app_role' = "user"
           /\ agents' \in {agents, agents + 1}
  <2>1. window' \in Windows /\ window'.kind = "shell" /\ ~window'.auto /\ window'.role = "user"
    BY <1>2, <1>4 DEF NoWindow, Windows, Roles
  <2> QED
    BY <1>1, <1>2, <1>4, <2>1, WindowGoesOn DEF WindowInv
<1>5. CASE /\ result \in Workers
           /\ \E auto \in BOOLEAN : window' = SetupApp(worker[result].role, auto)
           /\ app_role' = RoleWhenOpened(worker[result].role)
           /\ UNCHANGED agents
  <2>1. worker[result].role \in Roles
    BY <1>2, <1>5 DEF WorkerRecord
  <2>2. window' \in Windows /\ window'.kind = "setup" /\ window'.role = app_role'
    BY <1>5, <2>1, SetupIs DEF RoleWhenOpened
  <2> QED
    BY <1>1, <1>2, <1>5, <2>2, WindowGoesOn DEF WindowInv
<1> QED
  BY <1>3, <1>4, <1>5 DEF OpenWindow

LEMMA WindowStepKeeps ==
  ASSUME LoginInv, _enter_user_background \/ _save_and_start \/ _on_admin_quit_request
  PROVE  LoginInv'
<1>1. /\ window.kind = "setup" /\ UNCHANGED <<dialogVars, worker, app_role, history>>
  BY DEF _enter_user_background, _save_and_start, _on_admin_quit_request
<1>2. /\ dialog = "closed" /\ poll # "batch" /\ window \in Windows /\ agents \in Nat
      /\ starts \in Nat /\ WindowInv /\ late' = late /\ app_role' = app_role
  BY <1>1 DEF LoginInv, LoginTypes, ClosedInv, history
<1>3. CASE _enter_user_background
  <2>1. CASE agents' = agents + 1 /\ window' = [window EXCEPT !.auto = FALSE, !.launched = TRUE]
    <3>1. /\ window' \in Windows /\ window'.kind = window.kind /\ window'.role = window.role
          /\ ~window'.auto
      BY <1>2, <2>1 DEF Windows
    <3> QED
      BY <1>1, <1>2, <1>3, <2>1, <3>1, WindowGoesOn DEF WindowInv, _enter_user_background
  <2>2. CASE agents' = agents /\ window' = [window EXCEPT !.auto = FALSE]
    <3>1. /\ window' \in Windows /\ window'.kind = window.kind /\ window'.role = window.role
          /\ ~window'.auto
      BY <1>2, <2>2 DEF Windows
    <3> QED
      BY <1>1, <1>2, <1>3, <2>2, <3>1, WindowGoesOn DEF WindowInv, _enter_user_background
  <2> QED
    BY <1>3, <2>1, <2>2 DEF _enter_user_background
<1>4. CASE _save_and_start
  <2>1. /\ window' \in Windows /\ window'.kind \in {"setup", "gone"}
        /\ window'.role = window.role /\ window'.auto = window.auto
    BY <1>1, <1>2, <1>4 DEF Windows, _save_and_start
  <2>2. agents' \in {agents, agents + 1} /\ starts' = starts + 1
    BY <1>4 DEF _save_and_start
  <2> QED
    BY <1>1, <1>2, <2>1, <2>2, WindowGoesOn DEF WindowInv
<1>5. CASE _on_admin_quit_request
  <2>1. /\ window' \in Windows /\ window'.kind = "gone" /\ window'.auto = window.auto
        /\ agents' = agents /\ starts' = starts
    BY <1>2, <1>5 DEF Windows, _on_admin_quit_request
  <2> QED
    BY <1>1, <1>2, <2>1, WindowGoesOn DEF WindowInv
<1> QED
  BY <1>3, <1>4, <1>5

LEMMA LoginKeeps ==
  LoginInv /\ [LoginNext]_loginVars => LoginInv'
<1> SUFFICES ASSUME LoginInv, [LoginNext]_loginVars PROVE LoginInv'
  OBVIOUS
<1>1. CASE \E w \in Workers : Click(w) \/ Work(w)
  BY <1>1, WorkStep
<1>2. CASE DoTask
  BY <1>2, TaskStep
<1>3. CASE \/ PollFires \/ EndBatch \/ Cancel \/ on_user_background
           \/ \E code \in {"none", "code"} : AnswerPrompt(code)
  BY <1>3, DialogStep
<1>4. CASE OpenWindow
  BY <1>4, OpenStep
<1>5. CASE _enter_user_background \/ _save_and_start \/ _on_admin_quit_request
  BY <1>5, WindowStepKeeps
<1>6. CASE UNCHANGED loginVars
  BY <1>6 DEF loginVars, LoginInv, LoginTypes, AcceptedInv, ClosedInv, WindowInv
<1> QED
  BY <1>1, <1>2, <1>3, <1>4, <1>5, <1>6 DEF LoginNext, Poll

LEMMA OpensFromInv == LoginInv => OpensAsAsked
BY DEF LoginInv, AcceptedInv, ClosedInv, WindowInv, OpensAsAsked

-----------------------------------------------------------------------------
\* The network monitor: network_monitor.py.

\* Each count is of packets that were captured, and so is their sum.
NetworkTypes ==
  /\ traffic_aggregator \in [Keys -> 0 .. MaxPackets]
  /\ IsFiniteSet(Used(traffic_aggregator))
  /\ Cardinality(Used(traffic_aggregator)) <= _max_aggregator_keys
  /\ batch \in [Records -> 0 .. MaxPackets]
  /\ IsFiniteSet(Used(batch)) /\ Cardinality(Used(batch)) <= _max_send_per_interval
  /\ netStopped \in BOOLEAN /\ net \in {"wait", "send", "end"}
  /\ captured \in 0 .. MaxPackets /\ handedOn \in Nat /\ cleared \in Nat

\* There is something to hand on only while it is handed on.
NetworkInv == NetworkTypes /\ PacketsAccounted /\ (net # "send" => Used(batch) = {})

LEMMA PairsWith ==
  ASSUME NEW k, NEW T
  PROVE  \A p : p \in {k} \X T <=> \E i \in T : p = <<k, i>>
OBVIOUS

LEMMA PairIn ==
  ASSUME NEW S, NEW T, NEW k \in S, NEW i \in T
  PROVE  <<k, i>> \in S \X T
OBVIOUS

LEMMA ProductOf ==
  ASSUME NEW S, NEW T, IsFiniteSet(S), IsFiniteSet(T)
  PROVE  IsFiniteSet(S \X T) /\ Cardinality(S \X T) = Cardinality(S) * Cardinality(T)
BY FS_Product

LEMMA UnionOf ==
  ASSUME NEW S, NEW T, IsFiniteSet(S), IsFiniteSet(T)
  PROVE  Cardinality(S \cup T) = Cardinality(S) + Cardinality(T) - Cardinality(S \cap T)
BY FS_Union

LEMMA CountedIs ==
  ASSUME NEW f, NEW keys
  PROVE  \A p : p \in Counted(f, keys) <=>
                  \E k \in keys : \E i \in 1 .. f[k] : p = <<k, i>>
<1>1. \A p : p \in Counted(f, keys) <=> \E k \in keys : p \in {k} \X (1 .. f[k])
  BY DEF Counted
<1>2. \A k : \A p : p \in {k} \X (1 .. f[k]) <=> \E i \in 1 .. f[k] : p = <<k, i>>
  BY PairsWith
<1> QED
  BY <1>1, <1>2

\* A dictionary with finitely many keys counts finitely many packets.
LEMMA CountedFinite ==
  ASSUME NEW D, NEW f \in [D -> 0 .. MaxPackets], NEW keys \in SUBSET D, IsFiniteSet(Used(f))
  PROVE  IsFiniteSet(Counted(f, keys)) /\ PacketsOf(f, keys) \in Nat
<1>0. IsFiniteSet(1 .. MaxPackets)
  BY FS_Interval, NetworkAssumption
<1>1. IsFiniteSet(Used(f) \X (1 .. MaxPackets))
  BY <1>0, ProductOf
<1>2. Counted(f, keys) \subseteq Used(f) \X (1 .. MaxPackets)
  <2> SUFFICES ASSUME NEW p \in Counted(f, keys) PROVE p \in Used(f) \X (1 .. MaxPackets)
    OBVIOUS
  <2>1. PICK k \in keys : \E i \in 1 .. f[k] : p = <<k, i>>
    BY CountedIs
  <2>2. PICK i \in 1 .. f[k] : p = <<k, i>>
    BY <2>1
  <2>3. f[k] \in 0 .. MaxPackets /\ k \in D
    OBVIOUS
  <2>4. k \in Used(f) /\ i \in 1 .. MaxPackets
    BY <2>3, NetworkAssumption DEF Used
  <2>5. <<k, i>> \in Used(f) \X (1 .. MaxPackets)
    BY <2>4, PairIn
  <2> QED
    BY <2>2, <2>5
<1> QED
  BY <1>1, <1>2, FS_Subset, FS_CardinalityType DEF PacketsOf

LEMMA NothingCounted ==
  ASSUME NEW D, NEW f \in [D -> Nat], NEW keys \in SUBSET D, \A k \in keys : f[k] = 0
  PROVE  Counted(f, keys) = {} /\ PacketsOf(f, keys) = 0
<1>1. Counted(f, keys) = {}
  BY CountedIs
<1> QED
  BY <1>1, FS_EmptySet DEF PacketsOf

\* One packet more.
LEMMA OneMore ==
  ASSUME NEW D, NEW f \in [D -> 0 .. MaxPackets], IsFiniteSet(Used(f)), NEW key \in D
  PROVE  PacketsOf([f EXCEPT ![key] = @ + 1], D) = PacketsOf(f, D) + 1
<1> DEFINE g == [f EXCEPT ![key] = @ + 1]
           new == <<key, f[key] + 1>>
<1>1. \A k \in D : f[k] \in Nat /\ g[k] = IF k = key THEN f[k] + 1 ELSE f[k]
  BY NetworkAssumption
<1> HIDE DEF g
<1>2. new \notin Counted(f, D)
  BY <1>1, CountedIs
<1>3. ASSUME NEW p \in Counted(g, D) PROVE p \in Counted(f, D) \cup {new}
  <2>1a. PICK k \in D : \E i \in 1 .. g[k] : p = <<k, i>>
    BY <1>3, CountedIs
  <2>1. PICK i \in 1 .. g[k] : p = <<k, i>>
    BY <2>1a
  <2>2. CASE i \in 1 .. f[k]
    BY <2>1, <2>2, CountedIs
  <2>3. CASE i \notin 1 .. f[k]
    <3>1. k = key /\ i = f[key] + 1
      BY <1>1, <2>3
    <3> QED
      BY <2>1, <3>1
  <2> QED
    BY <2>2, <2>3
<1>4. ASSUME NEW p \in Counted(f, D) \cup {new} PROVE p \in Counted(g, D)
  <2>1. CASE p = new
    <3>1. f[key] + 1 \in 1 .. g[key]
      BY <1>1
    <3> QED
      BY <2>1, <3>1, CountedIs
  <2>2. CASE p \in Counted(f, D)
    <3>1a. PICK k \in D : \E i \in 1 .. f[k] : p = <<k, i>>
      BY <2>2, CountedIs
    <3>1. PICK i \in 1 .. f[k] : p = <<k, i>>
      BY <3>1a
    <3>2. i \in 1 .. g[k]
      BY <1>1
    <3> QED
      BY <3>1, <3>2, CountedIs
  <2> QED
    BY <1>4, <2>1, <2>2
<1>5. Counted(g, D) = Counted(f, D) \cup {new}
  BY <1>3, <1>4
<1>6. IsFiniteSet(Counted(f, D))
  BY CountedFinite
<1>7. Cardinality(Counted(f, D) \cup {new}) = Cardinality(Counted(f, D)) + 1
  BY <1>2, <1>6, FS_AddElement
<1> QED
  BY <1>5, <1>7 DEF PacketsOf, g

\* The packets of some keys and of the others.
LEMMA PacketsSplit ==
  ASSUME NEW D, NEW f \in [D -> 0 .. MaxPackets], IsFiniteSet(Used(f)),
         NEW some \in SUBSET D, NEW others \in SUBSET D, some \cap others = {},
         \A k \in D : k \in some \/ k \in others \/ f[k] = 0
  PROVE  PacketsOf(f, D) = PacketsOf(f, some) + PacketsOf(f, others)
<1>1. /\ IsFiniteSet(Counted(f, some)) /\ IsFiniteSet(Counted(f, others))
      /\ PacketsOf(f, some) \in Nat /\ PacketsOf(f, others) \in Nat
  BY CountedFinite
<1>2. Counted(f, D) = Counted(f, some) \cup Counted(f, others)
  <2>1. ASSUME NEW p \in Counted(f, D) PROVE p \in Counted(f, some) \cup Counted(f, others)
    <3>1a. PICK k \in D : \E i \in 1 .. f[k] : p = <<k, i>>
      BY <2>1, CountedIs
    <3>1. PICK i \in 1 .. f[k] : p = <<k, i>>
      BY <3>1a
    <3>2. f[k] # 0
      BY <3>1
    <3> QED
      BY <3>1, <3>2, CountedIs
  <2>2. ASSUME NEW p \in Counted(f, some) \cup Counted(f, others) PROVE p \in Counted(f, D)
    BY <2>2, CountedIs
  <2> QED
    BY <2>1, <2>2
<1>3. Counted(f, some) \cap Counted(f, others) = {}
  BY CountedIs
<1>4. Cardinality({}) = 0
  BY FS_EmptySet
<1> QED
  <2>1. Cardinality(Counted(f, some) \cup Counted(f, others)) =
          Cardinality(Counted(f, some)) + Cardinality(Counted(f, others))
            - Cardinality(Counted(f, some) \cap Counted(f, others))
    BY <1>1, UnionOf
  <2>2. Cardinality(Counted(f, some) \cap Counted(f, others)) = 0
    BY <1>3, <1>4
  <2>3. PacketsOf(f, D) = Cardinality(Counted(f, some) \cup Counted(f, others))
    BY <1>2 DEF PacketsOf
  <2> QED
    BY <1>1, <2>1, <2>2, <2>3 DEF PacketsOf

\* The packets of one key.
LEMMA PacketsOfOne ==
  ASSUME NEW D, NEW f \in [D -> 0 .. MaxPackets], NEW key \in D
  PROVE  PacketsOf(f, {key}) = f[key]
<1>1. f[key] \in Nat
  BY NetworkAssumption
<1>2. Counted(f, {key}) = {key} \X (1 .. f[key])
  BY DEF Counted
<1>3. IsFiniteSet({key}) /\ Cardinality({key}) = 1
  BY FS_Singleton
<1>4. IsFiniteSet(1 .. f[key]) /\ Cardinality(1 .. f[key]) = f[key]
  BY <1>1, FS_Interval
<1>5. Cardinality({key} \X (1 .. f[key])) = Cardinality({key}) * Cardinality(1 .. f[key])
  BY <1>3, <1>4, ProductOf
<1>6. PacketsOf(f, {key}) = 1 * f[key]
  BY <1>2, <1>3, <1>4, <1>5 DEF PacketsOf
<1> QED
  BY <1>1, <1>6

\* What is counted depends on the counts alone.
LEMMA SameCounts ==
  ASSUME NEW f, NEW g, NEW keys, \A k \in keys : f[k] = g[k]
  PROVE  PacketsOf(f, keys) = PacketsOf(g, keys)
<1>1. Counted(f, keys) = Counted(g, keys)
  <2>1. \A p : p \in Counted(f, keys) <=> p \in Counted(g, keys)
    <3>1. \A p : p \in Counted(f, keys) => p \in Counted(g, keys)
      BY CountedIs
    <3>2. \A p : p \in Counted(g, keys) => p \in Counted(f, keys)
      BY CountedIs
    <3> QED
      BY <3>1, <3>2
  <2> QED
    BY <2>1
<1> QED
  BY <1>1 DEF PacketsOf

\* No key has more packets than all together.
LEMMA CountAtMost ==
  ASSUME NEW D, NEW f \in [D -> 0 .. MaxPackets], IsFiniteSet(Used(f)), NEW key \in D
  PROVE  f[key] <= PacketsOf(f, D) /\ PacketsOf(f, D \ {key}) \in Nat
         /\ PacketsOf(f, D) = f[key] + PacketsOf(f, D \ {key})
<1>1. PacketsOf(f, D) = PacketsOf(f, {key}) + PacketsOf(f, D \ {key})
  BY PacketsSplit
<1>2. PacketsOf(f, {key}) = f[key] /\ f[key] \in Nat
  BY PacketsOfOne, NetworkAssumption
<1>3. PacketsOf(f, D \ {key}) \in Nat
  BY CountedFinite
<1> QED
  BY <1>1, <1>2, <1>3

LEMMA KeepIs == keep_n = _max_send_per_interval - 1 /\ keep_n \in Nat
<1> DEFINE S == {_max_send_per_interval - 1, 1}
<1>1. \E x \in S : \A y \in S : x >= y
  BY NetworkAssumption
<1>2. Max(S) \in S /\ \A y \in S : Max(S) >= y
  BY <1>1 DEF Max
<1> QED
  BY <1>2, NetworkAssumption DEF keep_n

LEMMA NetworkStarts == NetworkInit => NetworkInv
<1> SUFFICES ASSUME NetworkInit PROVE NetworkInv
  OBVIOUS
<1>1. /\ traffic_aggregator \in [Keys -> 0 .. MaxPackets] /\ batch \in [Records -> 0 .. MaxPackets]
      /\ \A k \in Keys : traffic_aggregator[k] = 0
      /\ \A k \in Records : batch[k] = 0
  BY NetworkAssumption DEF NetworkInit, NoPackets
<1>2. Used(traffic_aggregator) = {} /\ Used(batch) = {}
  BY <1>1 DEF Used
<1>3. IsFiniteSet({}) /\ Cardinality({}) = 0
  BY FS_EmptySet
<1>0. netStopped \in BOOLEAN /\ net = "wait" /\ captured = 0 /\ handedOn = 0 /\ cleared = 0
  BY DEF NetworkInit
<1>4. NetworkTypes
  <2>1. /\ Cardinality(Used(traffic_aggregator)) <= _max_aggregator_keys
        /\ Cardinality(Used(batch)) <= _max_send_per_interval
    BY <1>2, <1>3, NetworkAssumption
  <2>2. IsFiniteSet(Used(traffic_aggregator)) /\ IsFiniteSet(Used(batch))
    BY <1>2, <1>3
  <2> QED
    BY <1>0, <1>1, <2>1, <2>2, NetworkAssumption DEF NetworkTypes
<1>5. traffic_aggregator \in [Keys -> Nat] /\ batch \in [Records -> Nat]
  BY <1>1
<1>6. PacketsOf(traffic_aggregator, Keys) = 0 /\ PacketsOf(batch, Records) = 0
  BY <1>1, <1>5, NothingCounted
<1> QED
  BY <1>2, <1>4, <1>6 DEF NetworkInit, NetworkInv, PacketsAccounted

LEMMA NetworkTypesOf ==
  ASSUME NetworkInv
  PROVE  /\ traffic_aggregator \in [Keys -> 0 .. MaxPackets]
         /\ IsFiniteSet(Used(traffic_aggregator))
         /\ Cardinality(Used(traffic_aggregator)) \in 0 .. _max_aggregator_keys
         /\ batch \in [Records -> 0 .. MaxPackets] /\ IsFiniteSet(Used(batch))
         /\ Cardinality(Used(batch)) \in 0 .. _max_send_per_interval
         /\ captured \in Nat /\ handedOn \in Nat /\ cleared \in Nat
         /\ PacketsOf(traffic_aggregator, Keys) \in 0 .. captured
         /\ PacketsOf(batch, Records) \in 0 .. captured
         /\ captured = PacketsOf(traffic_aggregator, Keys) + PacketsOf(batch, Records)
                         + handedOn + cleared
<1>1. NetworkTypes /\ PacketsAccounted
  BY DEF NetworkInv
<1>2. PacketsOf(traffic_aggregator, Keys) \in Nat /\ PacketsOf(batch, Records) \in Nat
  BY <1>1, CountedFinite DEF NetworkTypes
<1>3. /\ Cardinality(Used(traffic_aggregator)) \in Nat /\ Cardinality(Used(batch)) \in Nat
  BY <1>1, FS_CardinalityType DEF NetworkTypes
<1> QED
  BY <1>1, <1>2, <1>3, NetworkAssumption DEF NetworkTypes, PacketsAccounted

LEMMA PacketStep ==
  ASSUME NetworkInv, NEW key \in Keys, _packet_callback(key)
  PROVE  NetworkInv'
<1> DEFINE agg == traffic_aggregator
           full == Cardinality(Used(agg)) >= _max_aggregator_keys
           clear == agg[key] = 0 /\ full
           kept == IF clear THEN NoPackets(Keys) ELSE agg
<1>1. /\ captured < MaxPackets /\ captured' = captured + 1
      /\ traffic_aggregator' = [kept EXCEPT ![key] = @ + 1]
      /\ cleared' = IF clear THEN cleared + PacketsOf(agg, Keys) ELSE cleared
      /\ UNCHANGED <<batch, netStopped, net, handedOn>>
  BY DEF _packet_callback
<1>2. /\ agg \in [Keys -> 0 .. MaxPackets] /\ IsFiniteSet(Used(agg))
      /\ agg[key] <= PacketsOf(agg, Keys)
  BY NetworkTypesOf, CountAtMost
<1>3. /\ kept \in [Keys -> 0 .. MaxPackets] /\ IsFiniteSet(Used(kept))
      /\ kept[key] < MaxPackets
      /\ Cardinality(Used(kept) \cup {key}) <= _max_aggregator_keys
      /\ PacketsOf(kept, Keys) \in Nat
      /\ cleared' \in Nat /\ PacketsOf(kept, Keys) + cleared' = PacketsOf(agg, Keys) + cleared
  <2>1. CASE clear
    <3>1. kept = NoPackets(Keys) /\ kept \in [Keys -> 0 .. MaxPackets]
          /\ \A k \in Keys : kept[k] = 0
      BY <2>1, NetworkAssumption DEF NoPackets
    <3> HIDE DEF kept
    <3>2. Used(kept) = {} /\ kept \in [Keys -> Nat]
      BY <3>1 DEF Used
    <3>3. PacketsOf(kept, Keys) = 0
      BY <3>1, <3>2, NothingCounted
    <3>4. IsFiniteSet({}) /\ Cardinality({key}) = 1 /\ {} \cup {key} = {key}
      BY FS_EmptySet, FS_Singleton
    <3>5. cleared' = cleared + PacketsOf(agg, Keys)
      BY <1>1, <2>1
    <3>6. captured \in Nat
      BY NetworkTypesOf
    <3> QED
      BY <1>1, <3>1, <3>2, <3>3, <3>4, <3>5, <3>6, NetworkTypesOf, NetworkAssumption
  <2>2. CASE ~clear
    <3>1. kept = agg /\ cleared' = cleared
      BY <1>1, <2>2
    <3>2. agg[key] = 0 => Cardinality(Used(agg)) < _max_aggregator_keys
      BY <2>2, NetworkTypesOf, NetworkAssumption
    <3>3. agg[key] # 0 => key \in Used(agg)
      BY <1>2, NetworkAssumption DEF Used
    <3>4. Cardinality(Used(agg) \cup {key}) =
            IF key \in Used(agg) THEN Cardinality(Used(agg)) ELSE Cardinality(Used(agg)) + 1
      BY <1>2, FS_AddElement
    <3>5. Cardinality(Used(agg) \cup {key}) <= _max_aggregator_keys
      BY <3>2, <3>3, <3>4, NetworkTypesOf, NetworkAssumption
    <3>6. agg[key] < MaxPackets
      BY <1>1, <1>2, NetworkTypesOf, NetworkAssumption
    <3> HIDE DEF kept, clear
    <3> QED
      BY <1>2, <3>1, <3>5, <3>6, NetworkTypesOf
  <2> QED
    BY <2>1, <2>2
<1> HIDE DEF kept, clear
<1>4. /\ traffic_aggregator' \in [Keys -> 0 .. MaxPackets]
      /\ Used(traffic_aggregator') = Used(kept) \cup {key}
      /\ PacketsOf(traffic_aggregator', Keys) = PacketsOf(kept, Keys) + 1
  <2>1. kept[key] + 1 \in 0 .. MaxPackets /\ kept[key] + 1 > 0
    BY <1>3, NetworkAssumption
  <2>2. PacketsOf(traffic_aggregator', Keys) = PacketsOf(kept, Keys) + 1
    BY <1>1, <1>3, OneMore
  <2>3. /\ traffic_aggregator' \in [Keys -> 0 .. MaxPackets]
        /\ \A k \in Keys :
             traffic_aggregator'[k] = IF k = key THEN kept[key] + 1 ELSE kept[k]
    BY <1>1, <1>3, <2>1
  <2>4. Used(traffic_aggregator') = Used(kept) \cup {key}
    BY <1>3, <2>1, <2>3 DEF Used
  <2> QED
    BY <2>2, <2>3, <2>4
<1>5. IsFiniteSet(Used(kept) \cup {key})
  BY <1>3, FS_AddElement
<1>6. captured' \in 0 .. MaxPackets
  BY <1>1, NetworkTypesOf, NetworkAssumption
<1>7. NetworkTypes'
  BY <1>1, <1>3, <1>4, <1>5, <1>6 DEF NetworkInv, NetworkTypes
<1>8. PacketsAccounted'
  BY <1>1, <1>3, <1>4, NetworkTypesOf DEF PacketsAccounted
<1> QED
  BY <1>1, <1>7, <1>8 DEF NetworkInv

\* The batch has the records there are, or the most important and a summary of the others.
LEMMA BatchStep ==
  ASSUME NEW taken \in [Keys -> 0 .. MaxPackets], IsFiniteSet(Used(taken)),
         PacketsOf(taken, Keys) \in 0 .. MaxPackets, _prepare_send_batch(taken)
  PROVE  /\ batch' \in [Records -> 0 .. MaxPackets] /\ IsFiniteSet(Used(batch'))
         /\ Cardinality(Used(batch')) <= _max_send_per_interval
         /\ PacketsOf(batch', Records) = PacketsOf(taken, Keys)
<1>1. /\ Keys \subseteq Records /\ AGG_OVERFLOW \in Records /\ AGG_OVERFLOW \notin Keys
      /\ Used(taken) \subseteq Keys
  BY NetworkAssumption DEF Records, Used
<1>2. \A k \in Keys : k \notin Used(taken) => taken[k] = 0
  BY NetworkAssumption DEF Used
<1>3. CASE Cardinality(Used(taken)) <= _max_send_per_interval
  <2>1. batch' = [k \in Records |-> IF k \in Used(taken) THEN taken[k] ELSE 0]
    BY <1>3 DEF _prepare_send_batch
  <2>2. /\ batch' \in [Records -> 0 .. MaxPackets] /\ batch'[AGG_OVERFLOW] = 0
        /\ \A k \in Keys : batch'[k] = taken[k]
    BY <1>1, <1>2, <2>1, NetworkAssumption
  <2>3. Used(batch') = Used(taken)
    BY <1>1, <2>2 DEF Used, Records
  <2>4. PacketsOf(batch', Records) = PacketsOf(batch', Keys) + PacketsOf(batch', {AGG_OVERFLOW})
    BY <1>1, <2>2, <2>3, PacketsSplit DEF Records
  <2>5. PacketsOf(batch', {AGG_OVERFLOW}) = 0
    BY <1>1, <2>2, PacketsOfOne
  <2>6. PacketsOf(batch', Keys) = PacketsOf(taken, Keys)
    BY <2>2, SameCounts
  <2> QED
    BY <1>3, <2>2, <2>3, <2>4, <2>5, <2>6
<1>4. CASE ~(Cardinality(Used(taken)) <= _max_send_per_interval)
  <2>1. PICK keep \in kSubset(keep_n, Used(taken)) :
          batch' = [k \in Records |->
                      CASE k \in keep -> taken[k]
                        [] k = AGG_OVERFLOW -> PacketsOf(taken, OverflowOf(Used(taken), keep))
                        [] OTHER -> 0]
    BY <1>4 DEF _prepare_send_batch
  <2> DEFINE n == PacketsOf(taken, Used(taken) \ keep)
  <2>2. keep \subseteq Used(taken) /\ keep \subseteq Keys /\ Cardinality(keep) = keep_n
    BY <1>1 DEF kSubset
  <2>3. IsFiniteSet(keep)
    BY <2>2, FS_Subset
  <2>4. PacketsOf(taken, Keys) = PacketsOf(taken, keep) + n
    BY <1>1, <1>2, <2>2, PacketsSplit
  <2>5. PacketsOf(taken, keep) \in Nat /\ n \in Nat
    BY <1>1, <2>2, CountedFinite
  <2>6. n \in 0 .. MaxPackets
    BY <2>4, <2>5, NetworkAssumption
  <2>7. batch' = [k \in Records |->
                    CASE k \in keep -> taken[k] [] k = AGG_OVERFLOW -> n [] OTHER -> 0]
    BY <2>1 DEF OverflowOf
  <2> HIDE DEF n
  <2>8. /\ \A k \in keep : batch'[k] = taken[k]
        /\ batch'[AGG_OVERFLOW] = n
        /\ \A k \in Records : k \in keep \/ k = AGG_OVERFLOW \/ batch'[k] = 0
    BY <1>1, <2>2, <2>7
  <2>9. batch' \in [Records -> 0 .. MaxPackets]
    <3>1. \A k \in Records : batch'[k] \in 0 .. MaxPackets
      BY <2>2, <2>6, <2>8, NetworkAssumption
    <3> QED
      BY <2>7, <3>1
  <2>10. Used(batch') \subseteq keep \cup {AGG_OVERFLOW}
    BY <2>8, <2>9 DEF Used
  <2>11. /\ IsFiniteSet(keep \cup {AGG_OVERFLOW})
         /\ Cardinality(keep \cup {AGG_OVERFLOW}) = keep_n + 1
    BY <1>1, <2>2, <2>3, FS_AddElement
  <2>12. IsFiniteSet(Used(batch')) /\ Cardinality(Used(batch')) <= keep_n + 1
    BY <2>10, <2>11, FS_Subset
  <2>13. PacketsOf(batch', Records) = PacketsOf(batch', keep) + PacketsOf(batch', {AGG_OVERFLOW})
    <3>1. /\ keep \in SUBSET Records /\ {AGG_OVERFLOW} \in SUBSET Records
          /\ keep \cap {AGG_OVERFLOW} = {}
          /\ \A k \in Records : k \in keep \/ k \in {AGG_OVERFLOW} \/ batch'[k] = 0
      BY <1>1, <2>2, <2>8
    <3> QED
      BY <2>9, <2>12, <3>1, PacketsSplit
  <2>14. PacketsOf(batch', {AGG_OVERFLOW}) = n
    BY <1>1, <2>8, <2>9, PacketsOfOne
  <2>15. PacketsOf(batch', keep) = PacketsOf(taken, keep)
    BY <2>8, SameCounts
  <2> QED
    BY <2>4, <2>9, <2>12, <2>13, <2>14, <2>15, KeepIs, NetworkAssumption
<1> QED
  BY <1>3, <1>4

LEMMA TakeStep ==
  ASSUME NetworkInv, get_and_clear_traffic
  PROVE  NetworkInv'
<1>1. /\ net = "wait" /\ net' = "send" /\ _prepare_send_batch(traffic_aggregator)
      /\ traffic_aggregator' = NoPackets(Keys)
      /\ UNCHANGED <<netStopped, captured, handedOn, cleared>>
  BY DEF get_and_clear_traffic
<1>2. /\ batch' \in [Records -> 0 .. MaxPackets] /\ IsFiniteSet(Used(batch'))
      /\ Cardinality(Used(batch')) <= _max_send_per_interval
      /\ PacketsOf(batch', Records) = PacketsOf(traffic_aggregator, Keys)
  <2>1. captured <= MaxPackets
    BY DEF NetworkInv, NetworkTypes
  <2>2. PacketsOf(traffic_aggregator, Keys) \in 0 .. MaxPackets
    BY <2>1, NetworkTypesOf, NetworkAssumption
  <2> QED
    BY <1>1, <2>2, NetworkTypesOf, BatchStep
<1>3. /\ traffic_aggregator' \in [Keys -> 0 .. MaxPackets]
      /\ traffic_aggregator' \in [Keys -> Nat] /\ \A k \in Keys : traffic_aggregator'[k] = 0
  BY <1>1, NetworkAssumption DEF NoPackets
<1>4. Used(traffic_aggregator') = {} /\ PacketsOf(traffic_aggregator', Keys) = 0
  BY <1>3, NothingCounted DEF Used
<1>5. PacketsOf(batch, Records) = 0
  <2>1. Used(batch) = {} /\ batch \in [Records -> 0 .. MaxPackets]
    BY <1>1, NetworkTypesOf DEF NetworkInv
  <2>2. batch \in [Records -> Nat] /\ \A k \in Records : batch[k] = 0
    BY <2>1, NetworkAssumption DEF Used
  <2> QED
    BY <2>2, NothingCounted
<1>6. IsFiniteSet({}) /\ Cardinality({}) = 0
  BY FS_EmptySet
<1>7. NetworkTypes'
  BY <1>1, <1>2, <1>3, <1>4, <1>6, NetworkAssumption DEF NetworkInv, NetworkTypes
<1>8. PacketsAccounted'
  BY <1>1, <1>2, <1>4, <1>5, NetworkTypesOf DEF PacketsAccounted
<1> QED
  BY <1>1, <1>7, <1>8 DEF NetworkInv

LEMMA SendStep ==
  ASSUME NetworkInv, Send
  PROVE  NetworkInv'
<1>1. net = "send" /\ UNCHANGED <<traffic_aggregator, netStopped, captured, cleared>>
  BY DEF Send
<1>2. CASE \E k \in Used(batch) :
             /\ handedOn' = handedOn + batch[k] /\ batch' = [batch EXCEPT ![k] = 0]
             /\ UNCHANGED net
  <2>1. PICK k \in Used(batch) :
          /\ handedOn' = handedOn + batch[k] /\ batch' = [batch EXCEPT ![k] = 0]
          /\ UNCHANGED net
    BY <1>2
  <2>2. /\ k \in Records /\ batch \in [Records -> 0 .. MaxPackets] /\ IsFiniteSet(Used(batch))
        /\ batch[k] \in Nat
    BY NetworkTypesOf, NetworkAssumption DEF Used
  <2>3. /\ batch' \in [Records -> 0 .. MaxPackets] /\ batch'[k] = 0
        /\ \A other \in Records \ {k} : batch'[other] = batch[other]
    BY <2>1, <2>2, NetworkAssumption
  <2>4. Used(batch') \subseteq Used(batch)
    BY <2>2, <2>3 DEF Used
  <2>5. IsFiniteSet(Used(batch')) /\ Cardinality(Used(batch')) <= Cardinality(Used(batch))
    BY <2>2, <2>4, FS_Subset
  <2>6. PacketsOf(batch, Records) = batch[k] + PacketsOf(batch, Records \ {k})
    BY <2>2, CountAtMost
  <2>7. PacketsOf(batch', Records) = batch'[k] + PacketsOf(batch', Records \ {k})
    BY <2>2, <2>3, <2>5, CountAtMost
  <2>8. /\ PacketsOf(batch', Records \ {k}) = PacketsOf(batch, Records \ {k})
        /\ PacketsOf(batch, Records \ {k}) \in Nat
    BY <2>2, <2>3, SameCounts, CountedFinite
  <2>9. Cardinality(Used(batch')) \in Nat
    BY <2>5, FS_CardinalityType
  <2>10. NetworkTypes'
    BY <1>1, <2>1, <2>2, <2>3, <2>5, <2>9, NetworkTypesOf, NetworkAssumption
       DEF NetworkInv, NetworkTypes
  <2>11. PacketsAccounted'
    BY <1>1, <2>1, <2>2, <2>3, <2>6, <2>7, <2>8, NetworkTypesOf DEF PacketsAccounted
  <2> QED
    BY <1>1, <2>1, <2>10, <2>11 DEF NetworkInv
<1>3. CASE /\ Used(batch) = {} /\ net' = IF netStopped THEN "end" ELSE "wait"
           /\ UNCHANGED <<handedOn, batch>>
  BY <1>1, <1>3 DEF NetworkInv, NetworkTypes, PacketsAccounted
<1> QED
  BY <1>2, <1>3 DEF Send

LEMMA NetworkKeeps == NetworkInv /\ [NetworkNext]_networkVars => NetworkInv'
<1> SUFFICES ASSUME NetworkInv, [NetworkNext]_networkVars PROVE NetworkInv'
  OBVIOUS
<1>1. CASE net_stop
  BY <1>1 DEF net_stop, NetworkInv, NetworkTypes, PacketsAccounted
<1>2. CASE UNCHANGED networkVars
  BY <1>2 DEF networkVars, NetworkInv, NetworkTypes, PacketsAccounted
<1> QED
  BY <1>1, <1>2, PacketStep, TakeStep, SendStep DEF NetworkNext

LEMMA PacketsFromInv == NetworkInv => PacketsAccounted /\ NetworkTypeOK
BY DEF NetworkInv, NetworkTypes, NetworkTypeOK

-----------------------------------------------------------------------------
\* The browser monitor: browser_monitor.py.

ReadVisits == ToSet(toReport)
UnreadVisits == UNION {Unread(b) : b \in Browsers}

BrowserTypes ==
  /\ at \in 1 .. 5 /\ now \in 0 .. MaxVisits
  /\ last_visit_time \in [Browsers -> [Urls -> 0 .. now]]
  /\ last_timestamp \in [Browsers -> 0 .. now]
  /\ toReport \in Seq(1 .. now) /\ reported \subseteq 1 .. now /\ gone \subseteq 1 .. now

\* No two rows have the same time, and what is gone is nowhere else.
OneVisitARow ==
  \A b, c \in Browsers : \A u, v \in Urls :
    last_visit_time[b][u] = last_visit_time[c][v] /\ last_visit_time[b][u] # 0 => b = c /\ u = v
GoneInv == gone \cap (ReadVisits \cup UnreadVisits) = {}

BrowserInv == BrowserTypes /\ OneVisitARow /\ GoneInv /\ VisitsReportedOnce

LEMMA RoundIs ==
  Len(Round) = 5 /\ (Round[3] = "report" /\ Round[5] = "report")
  /\ Round[1] = "Chrome" /\ Round[2] = "Edge" /\ Round[4] = "Firefox"
BY DEF Round

LEMMA ReportedOnceIs ==
  VisitsReportedOnce <=>
    /\ reported \cup ReadVisits \cup UnreadVisits \cup gone = 1 .. now
    /\ reported \cap (ReadVisits \cup UnreadVisits \cup gone) = {}
    /\ IsInjective(toReport) /\ ReadVisits \cap UnreadVisits = {}
BY DEF VisitsReportedOnce, ReadVisits, UnreadVisits

\* The order of a set's elements from the latest has all of them, and each once.
LEMMA NewestFirstIs ==
  ASSUME NEW S, S \subseteq Nat, IsFiniteSet(S)
  PROVE  /\ Cardinality(S) \in Nat
         /\ NewestFirst(S) \in [1 .. Cardinality(S) -> S]
         /\ \A i, j \in 1 .. Cardinality(S) : NewestFirst(S)[i] = NewestFirst(S)[j] => i = j
         /\ \A t \in S : \E i \in 1 .. Cardinality(S) : NewestFirst(S)[i] = t
<1> DEFINE n == Cardinality(S)
           rank == [t \in S |-> Cardinality(Later(S, t)) + 1]
<1>1. n \in Nat
  BY FS_CardinalityType
<1>2. ASSUME NEW t \in S
      PROVE  IsFiniteSet(Later(S, t)) /\ Cardinality(Later(S, t)) \in 0 .. n - 1
  <2>1. Later(S, t) \subseteq S \ {t} /\ S \ {t} \subseteq S
    BY DEF Later
  <2>2. IsFiniteSet(S \ {t}) /\ Cardinality(S \ {t}) = n - 1
    BY FS_RemoveElement
  <2>3. IsFiniteSet(Later(S, t)) /\ Cardinality(Later(S, t)) <= n - 1
    BY <2>1, <2>2, FS_Subset
  <2> QED
    BY <1>1, <2>3, FS_CardinalityType
<1>3. ASSUME NEW t \in S, NEW u \in S, t < u
      PROVE  Cardinality(Later(S, t)) # Cardinality(Later(S, u))
  <2>1. Later(S, u) \subseteq Later(S, t) /\ u \in Later(S, t) /\ u \notin Later(S, u)
    <3>1. t \in Nat /\ u \in Nat
      OBVIOUS
    <3>2. \A v \in S : v > u => v > t
      BY <1>3, <3>1
    <3>3. ~(u > u)
      BY <3>1
    <3> QED
      BY <1>3, <3>2, <3>3 DEF Later
  <2> QED
    BY <1>2, <2>1, FS_Subset
<1>4. rank \in Injection(S, 1 .. n)
  <2>1. rank \in [S -> 1 .. n]
    BY <1>1, <1>2
  <2>2. \A t, u \in S : t # u => t < u \/ u < t
    OBVIOUS
  <2>3. \A t, u \in S : rank[t] = rank[u] => t = u
    BY <1>2, <1>3, <2>2
  <2> QED
    BY <2>1, <2>3 DEF Injection, IsInjective
<1>5. IsFiniteSet(1 .. n) /\ Cardinality(1 .. n) = n
  BY <1>1, FS_Interval
<1>6. rank \in Surjection(S, 1 .. n)
  <2> HIDE DEF rank
  <2> QED
    BY <1>4, <1>5, FS_Injection
<1>7. \A i \in 1 .. n : \E t \in S : Cardinality(Later(S, t)) = i - 1
  <2> SUFFICES ASSUME NEW i \in 1 .. n PROVE \E t \in S : Cardinality(Later(S, t)) = i - 1
    OBVIOUS
  <2>1. PICK t \in S : rank[t] = i
    BY <1>6 DEF Surjection
  <2> QED
    BY <1>1, <1>2, <2>1
<1>8. \A i \in 1 .. n : /\ NewestFirst(S)[i] \in S
                        /\ Cardinality(Later(S, NewestFirst(S)[i])) = i - 1
  BY <1>7 DEF NewestFirst
<1>9. NewestFirst(S) \in [1 .. n -> S]
  BY <1>8 DEF NewestFirst
<1>10. \A i, j \in 1 .. n : NewestFirst(S)[i] = NewestFirst(S)[j] => i = j
  BY <1>1, <1>8
<1>11. ASSUME NEW t \in S PROVE \E i \in 1 .. n : NewestFirst(S)[i] = t
  <2> DEFINE i == Cardinality(Later(S, t)) + 1
  <2>1. i \in 1 .. n /\ i - 1 = Cardinality(Later(S, t))
    BY <1>1, <1>2
  <2> HIDE DEF i
  <2>2. NewestFirst(S)[i] \in S /\ Cardinality(Later(S, NewestFirst(S)[i])) = i - 1
    BY <1>8, <2>1
  <2>3. ~(t < NewestFirst(S)[i]) /\ ~(NewestFirst(S)[i] < t)
    BY <1>3, <2>1, <2>2
  <2>4. t \in Nat /\ NewestFirst(S)[i] \in Nat
    BY <2>2
  <2>5. NewestFirst(S)[i] = t
    BY <2>3, <2>4
  <2> QED
    BY <2>1, <2>5
<1> QED
  BY <1>1, <1>9, <1>10, <1>11

\* Bounded times have a latest.
LEMMA LatestIs ==
  ASSUME NEW n \in Nat, NEW S, S \subseteq 0 .. n, S # {}
  PROVE  Max(S) \in S /\ \A t \in S : t <= Max(S)
<1> DEFINE T == {n - t : t \in S}
<1>1. T \subseteq Nat /\ T # {}
  <2>1. \A t \in S : n - t \in Nat
    OBVIOUS
  <2> QED
    BY <2>1
<1>2. PICK m \in T : \A k \in T : m <= k
  <2> HIDE DEF T
  <2> QED
    BY <1>1, Smallest
<1>3. PICK t \in S : m = n - t
  BY <1>2
<1>4. \A u \in S : n - u \in T
  OBVIOUS
<1>5. \A u \in S : t >= u
  BY <1>2, <1>3, <1>4
<1>6. Max(S) \in S /\ \A u \in S : Max(S) >= u
  BY <1>5 DEF Max
<1> QED
  BY <1>6

LEMMA BrowserStarts == BrowserInit => BrowserInv
<1> SUFFICES ASSUME BrowserInit PROVE BrowserInv
  OBVIOUS
<1>1. /\ at = 1 /\ now = 0 /\ toReport = <<>> /\ reported = {} /\ gone = {}
      /\ \A b \in Browsers : last_timestamp[b] = 0
      /\ \A b \in Browsers : \A u \in Urls : last_visit_time[b][u] = 0
  BY DEF BrowserInit
<1>2. /\ last_visit_time \in [Browsers -> [Urls -> 0 .. now]]
      /\ last_timestamp \in [Browsers -> 0 .. now]
  BY <1>1 DEF BrowserInit
<1>3. toReport \in Seq(1 .. now) /\ DOMAIN toReport = {}
  BY <1>1
<1>4. ReadVisits = {} /\ IsInjective(toReport)
  BY <1>3 DEF ReadVisits, ToSet, IsInjective
<1>5. UnreadVisits = {}
  BY <1>1 DEF UnreadVisits, Unread
<1>6. 1 .. now = {} /\ now \in 0 .. MaxVisits
  BY <1>1, BrowserAssumption
<1>7. BrowserTypes
  BY <1>1, <1>2, <1>3, <1>6 DEF BrowserTypes
<1>8. OneVisitARow /\ GoneInv
  BY <1>1 DEF OneVisitARow, GoneInv
<1>9. VisitsReportedOnce
  BY <1>1, <1>4, <1>5, <1>6, ReportedOnceIs
<1> QED
  BY <1>7, <1>8, <1>9 DEF BrowserInv

LEMMA UnreadIs ==
  ASSUME BrowserInv, NEW b \in Browsers
  PROVE  /\ Unread(b) \subseteq 1 .. now /\ Unread(b) \subseteq UnreadVisits
         /\ \A t : t \in Unread(b) <=>
              \E u \in Urls : t = last_visit_time[b][u] /\ last_visit_time[b][u] > last_timestamp[b]
<1>1. /\ now \in Nat /\ last_timestamp[b] \in 0 .. now
      /\ \A u \in Urls : last_visit_time[b][u] \in 0 .. now
  BY BrowserAssumption DEF BrowserInv, BrowserTypes
<1> QED
  BY <1>1 DEF Unread, UnreadVisits

\* The visits that another browser has not read are none of these.
LEMMA UnreadApart ==
  ASSUME BrowserInv, NEW b \in Browsers, NEW c \in Browsers, b # c
  PROVE  Unread(b) \cap Unread(c) = {}
<1> SUFFICES ASSUME NEW t \in Unread(b), t \in Unread(c) PROVE FALSE
  OBVIOUS
<1>1. PICK u \in Urls : t = last_visit_time[b][u]
  BY UnreadIs
<1>2. PICK v \in Urls : t = last_visit_time[c][v]
  BY UnreadIs
<1>3. t # 0
  BY UnreadIs DEF BrowserInv, BrowserTypes
<1>4. last_visit_time[b][u] = last_visit_time[c][v] /\ last_visit_time[b][u] # 0
  BY <1>1, <1>2, <1>3
<1>5. OneVisitARow
  BY DEF BrowserInv
<1> QED
  BY <1>4, <1>5 DEF OneVisitARow

LEMMA VisitStep ==
  ASSUME BrowserInv, NEW b \in Browsers, NEW u \in Urls, Visit(b, u)
  PROVE  BrowserInv'
<1> DEFINE old == last_visit_time[b][u]
           lost == {old} \cap Unread(b)
<1>1. /\ now < MaxVisits /\ now' = now + 1 /\ gone' = gone \cup lost
      /\ last_visit_time' = [last_visit_time EXCEPT ![b][u] = now + 1]
      /\ UNCHANGED <<at, last_timestamp, toReport, reported>>
  BY DEF Visit
<1>2. /\ now \in Nat /\ MaxVisits \in Nat /\ at \in 1 .. 5
      /\ last_visit_time \in [Browsers -> [Urls -> 0 .. now]]
      /\ last_timestamp \in [Browsers -> 0 .. now]
      /\ toReport \in Seq(1 .. now) /\ reported \subseteq 1 .. now /\ gone \subseteq 1 .. now
  BY BrowserAssumption DEF BrowserInv, BrowserTypes
<1>3. \A c \in Browsers : \A v \in Urls :
        last_visit_time'[c][v] = IF c = b /\ v = u THEN now + 1 ELSE last_visit_time[c][v]
  BY <1>1, <1>2
<1>4. \A n \in 0 .. now : n \in 0 .. now' /\ (n \in 1 .. now => n \in 1 .. now')
  BY <1>1, <1>2
<1>5. lost \subseteq 1 .. now /\ lost \subseteq UnreadVisits
  BY UnreadIs
<1>6. BrowserTypes'
  <2>1. now' \in 0 .. MaxVisits /\ now + 1 \in 0 .. now'
    BY <1>1, <1>2
  <2>2. \A c \in Browsers : \A v \in Urls : last_visit_time'[c][v] \in 0 .. now'
    BY <1>2, <1>3, <1>4, <2>1
  <2>3. last_visit_time' \in [Browsers -> [Urls -> 0 .. now']]
    BY <1>1, <1>2, <2>2
  <2>4. last_timestamp' \in [Browsers -> 0 .. now']
    BY <1>1, <1>2, <1>4
  <2>5. 1 .. now \subseteq 1 .. now'
    BY <1>1, <1>2
  <2>6. toReport' \in Seq(1 .. now')
    BY <1>1, <1>2, <2>5
  <2> QED
    BY <1>1, <1>2, <1>5, <2>1, <2>3, <2>4, <2>5, <2>6 DEF BrowserTypes
<1>7. OneVisitARow'
  <2>1. \A c \in Browsers : \A v \in Urls : last_visit_time[c][v] # now + 1
    BY <1>2
  <2> QED
    BY <1>3, <2>1 DEF BrowserInv, OneVisitARow
<1>8. UnreadVisits' = (UnreadVisits \ lost) \cup {now + 1}
  <2>1. \A c \in Browsers : \A t :
          t \in Unread(c)' <=>
            \E v \in Urls : t = last_visit_time'[c][v] /\ last_visit_time'[c][v] > last_timestamp[c]
    <3>1. \A c \in Browsers : \A v \in Urls :
            /\ last_visit_time'[c][v] \in Nat /\ last_timestamp[c] \in Nat
      BY <1>2, <1>3
    <3> QED
      BY <1>1, <3>1 DEF Unread
  <2>2. ASSUME NEW t \in UnreadVisits' PROVE t \in (UnreadVisits \ lost) \cup {now + 1}
    <3>1. PICK c \in Browsers : t \in Unread(c)'
      BY <2>2 DEF UnreadVisits
    <3>2. PICK v \in Urls :
            t = last_visit_time'[c][v] /\ last_visit_time'[c][v] > last_timestamp[c]
      BY <2>1, <3>1
    <3>3. CASE ~(c = b /\ v = u)
      <4>1. t = last_visit_time[c][v] /\ t > last_timestamp[c]
        BY <1>3, <3>2, <3>3
      <4>2. t \in UnreadVisits
        BY <4>1, UnreadIs
      <4>3. t # old
        <5>1. t # 0
          BY <1>2, <4>1
        <5> QED
          BY <3>3, <4>1, <5>1 DEF BrowserInv, OneVisitARow
      <4> QED
        BY <4>2, <4>3
    <3> QED
      BY <1>3, <3>2, <3>3
  <2>3. ASSUME NEW t \in UnreadVisits, t \notin lost PROVE t \in UnreadVisits'
    <3>1. PICK c \in Browsers : t \in Unread(c)
      BY DEF UnreadVisits
    <3>2. PICK v \in Urls : t = last_visit_time[c][v] /\ last_visit_time[c][v] > last_timestamp[c]
      BY <3>1, UnreadIs
    <3>3. ~(c = b /\ v = u)
      BY <2>3, <3>1, <3>2
    <3>4. t \in Unread(c)'
      BY <1>3, <2>1, <3>2, <3>3
    <3> QED
      BY <3>4 DEF UnreadVisits
  <2>4. now + 1 \in UnreadVisits'
    <3>1. last_visit_time'[b][u] = now + 1 /\ now + 1 > last_timestamp[b]
      BY <1>2, <1>3
    <3>2. now + 1 \in Unread(b)'
      BY <2>1, <3>1
    <3> QED
      BY <3>2 DEF UnreadVisits
  <2> QED
    BY <2>2, <2>3, <2>4
<1>9. ReadVisits' = ReadVisits /\ ReadVisits \subseteq 1 .. now
  <2>1. ReadVisits \subseteq 1 .. now
    BY <1>2, ElementOfSeq DEF ReadVisits, ToSet
  <2> QED
    BY <1>1, <2>1 DEF ReadVisits
<1>10. 1 .. now' = 1 .. now \cup {now + 1} /\ now + 1 \notin 1 .. now
  BY <1>1, <1>2
<1> HIDE DEF lost
<1>11. /\ reported \cup ReadVisits \cup UnreadVisits \cup gone = 1 .. now
       /\ reported \cap (ReadVisits \cup UnreadVisits \cup gone) = {}
       /\ IsInjective(toReport) /\ ReadVisits \cap UnreadVisits = {}
       /\ gone \cap (ReadVisits \cup UnreadVisits) = {}
  BY ReportedOnceIs DEF BrowserInv, GoneInv
<1>12. GoneInv'
  BY <1>1, <1>2, <1>5, <1>8, <1>9, <1>10, <1>11 DEF GoneInv
<1>13. VisitsReportedOnce'
  <2>1. /\ reported' \cup ReadVisits' \cup UnreadVisits' \cup gone' = 1 .. now'
    BY <1>1, <1>5, <1>8, <1>9, <1>10, <1>11
  <2>2. reported' \cap (ReadVisits' \cup UnreadVisits' \cup gone') = {}
    BY <1>1, <1>2, <1>5, <1>8, <1>9, <1>10, <1>11
  <2>3. IsInjective(toReport)' /\ ReadVisits' \cap UnreadVisits' = {}
    BY <1>1, <1>8, <1>9, <1>10, <1>11
  <2> QED
    BY <2>1, <2>2, <2>3, ReportedOnceIs DEF VisitsReportedOnce, ReadVisits, UnreadVisits
<1> QED
  BY <1>6, <1>7, <1>12, <1>13 DEF BrowserInv

\* What is handed on next, and what waits then.
LEMMA FirstTaken ==
  ASSUME NEW S, NEW s \in Seq(S), s # <<>>, IsInjective(s)
  PROVE  /\ Tail(s) \in Seq(S) /\ IsInjective(Tail(s))
         /\ ToSet(s) = ToSet(Tail(s)) \cup {Head(s)} /\ Head(s) \notin ToSet(Tail(s))
<1>1. /\ Tail(s) \in Seq(S) /\ Len(Tail(s)) = Len(s) - 1 /\ Head(s) = s[1]
      /\ \A i \in 1 .. Len(Tail(s)) : Tail(s)[i] = s[i + 1]
      /\ Len(s) \in Nat /\ Len(s) > 0
      /\ DOMAIN s = 1 .. Len(s) /\ DOMAIN Tail(s) = 1 .. Len(Tail(s))
  BY HeadTailProperties, LenProperties, EmptySeq
<1> DEFINE n == Len(s)
           rest == Tail(s)
<1> HIDE DEF n, rest
<1>2. /\ \A i \in 1 .. n - 1 : rest[i] = s[i + 1] /\ i + 1 \in 1 .. n
      /\ DOMAIN s = 1 .. n /\ DOMAIN rest = 1 .. n - 1 /\ n \in Nat /\ 1 \in 1 .. n
      /\ \A i \in 1 .. n : i = 1 \/ (i - 1 \in 1 .. n - 1 /\ (i - 1) + 1 = i)
  BY <1>1 DEF n, rest
<1>3. \A i, j \in 1 .. n : s[i] = s[j] => i = j
  BY <1>2 DEF IsInjective
<1>4. IsInjective(rest)
  <2> SUFFICES ASSUME NEW i \in 1 .. n - 1, NEW j \in 1 .. n - 1, rest[i] = rest[j] PROVE i = j
    BY <1>2 DEF IsInjective
  <2>1. i + 1 = j + 1
    BY <1>2, <1>3
  <2> QED
    BY <2>1
<1>5. ToSet(s) = {s[i] : i \in 1 .. n} /\ ToSet(rest) = {rest[i] : i \in 1 .. n - 1}
  BY <1>2 DEF ToSet
<1>6. ASSUME NEW e \in ToSet(s) PROVE e \in ToSet(rest) \cup {s[1]}
  <2>1. PICK i \in 1 .. n : e = s[i]
    BY <1>5, <1>6
  <2>2. CASE i - 1 \in 1 .. n - 1 /\ (i - 1) + 1 = i
    <3>1. rest[i - 1] = s[i]
      BY <1>2, <2>2
    <3> QED
      BY <1>5, <2>1, <2>2, <3>1
  <2> QED
    BY <1>2, <2>1, <2>2
<1>7. ToSet(rest) \cup {s[1]} \subseteq ToSet(s)
  BY <1>2, <1>5
<1>8. s[1] \notin ToSet(rest)
  <2> SUFFICES ASSUME NEW i \in 1 .. n - 1, rest[i] = s[1] PROVE FALSE
    BY <1>5
  <2>1. i + 1 = 1
    BY <1>2, <1>3
  <2> QED
    BY <2>1
<1> QED
  BY <1>1, <1>4, <1>6, <1>7, <1>8 DEF rest

\* What stands where in two sequences, one after the other.
LEMMA Concatenated ==
  ASSUME NEW S, NEW s \in Seq(S), NEW q \in Seq(S)
  PROVE  /\ s \o q \in Seq(S) /\ Len(s \o q) = Len(s) + Len(q)
         /\ \A i \in 1 .. Len(s) + Len(q) :
              (s \o q)[i] = IF i <= Len(s) THEN s[i] ELSE q[i - Len(s)]
  BY ConcatProperties

\* Two sequences without an element in common, one after the other.
LEMMA BothInOrder ==
  ASSUME NEW S, NEW s \in Seq(S), NEW n \in Nat, NEW q \in [1 .. n -> S],
         IsInjective(s), \A i, j \in 1 .. n : q[i] = q[j] => i = j,
         \A i \in 1 .. n : q[i] \notin ToSet(s)
  PROVE  /\ s \o q \in Seq(S) /\ IsInjective(s \o q)
         /\ ToSet(s \o q) = ToSet(s) \cup {q[i] : i \in 1 .. n}
<1>1. q \in Seq(S) /\ Len(q) = n /\ Len(s) \in Nat /\ DOMAIN s = 1 .. Len(s)
  BY LenProperties
<1> DEFINE m == Len(s)
           both == s \o q
<1>2. /\ both \in Seq(S) /\ Len(both) = m + n
      /\ \A i \in 1 .. m + n : both[i] = IF i <= m THEN s[i] ELSE q[i - m]
  <2>0. q \in Seq(S) /\ s \in Seq(S)
    BY <1>1
  <2>1. /\ s \o q \in Seq(S) /\ Len(s \o q) = Len(s) + Len(q)
        /\ \A i \in 1 .. Len(s) + Len(q) :
             (s \o q)[i] = IF i <= Len(s) THEN s[i] ELSE q[i - Len(s)]
    BY <2>0, Concatenated
  <2> HIDE DEF both
  <2> QED
    BY <1>1, <2>1 DEF both
<1>3. DOMAIN both = 1 .. m + n /\ m \in Nat /\ DOMAIN s = 1 .. m
  BY <1>1, <1>2, LenProperties
<1> HIDE DEF m, both
<1>4. /\ \A i \in 1 .. m : i \in 1 .. m + n /\ i <= m
      /\ \A i \in 1 .. n : i + m \in 1 .. m + n /\ ~(i + m <= m) /\ (i + m) - m = i
      /\ \A i \in 1 .. m + n : (i \in 1 .. m) \/ (i - m \in 1 .. n /\ ~(i <= m))
  BY <1>3
<1>5. ToSet(s) = {s[i] : i \in 1 .. m} /\ ToSet(both) = {both[i] : i \in 1 .. m + n}
  BY <1>3 DEF ToSet
<1>6. \A i \in 1 .. m : s[i] \in ToSet(s)
  BY <1>5
<1>7. \A i \in 1 .. m : both[i] = s[i]
  BY <1>2, <1>4
<1>8. \A i \in 1 .. n : both[i + m] = q[i]
  BY <1>2, <1>4
<1>9. IsInjective(both)
  <2> SUFFICES ASSUME NEW i \in 1 .. m + n, NEW j \in 1 .. m + n, both[i] = both[j] PROVE i = j
    BY <1>3 DEF IsInjective
  <2>1. CASE i \in 1 .. m /\ j \in 1 .. m
    BY <1>3, <1>7, <2>1 DEF IsInjective
  <2>2. CASE i \notin 1 .. m /\ j \notin 1 .. m
    <3>1. i - m \in 1 .. n /\ j - m \in 1 .. n /\ ~(i <= m) /\ ~(j <= m)
      BY <1>4, <2>2
    <3>2. q[i - m] = q[j - m]
      BY <1>2, <3>1
    <3>3. i - m = j - m
      BY <3>1, <3>2
    <3> QED
      BY <1>3, <3>3
  <2>3. CASE i \in 1 .. m /\ j \notin 1 .. m
    <3>1. both[i] \in ToSet(s) /\ both[j] = q[j - m] /\ j - m \in 1 .. n
      BY <1>2, <1>4, <1>6, <1>7, <2>3
    <3> QED
      BY <3>1
  <2>4. CASE i \notin 1 .. m /\ j \in 1 .. m
    <3>1. both[j] \in ToSet(s) /\ both[i] = q[i - m] /\ i - m \in 1 .. n
      BY <1>2, <1>4, <1>6, <1>7, <2>4
    <3> QED
      BY <3>1
  <2> QED
    BY <2>1, <2>2, <2>3, <2>4
<1>10. ASSUME NEW e \in ToSet(both) PROVE e \in ToSet(s) \cup {q[i] : i \in 1 .. n}
  <2>1. PICK i \in 1 .. m + n : e = both[i]
    BY <1>5, <1>10
  <2> QED
    BY <1>2, <1>4, <1>6, <1>7, <2>1
<1>11. ASSUME NEW e \in ToSet(s) \cup {q[i] : i \in 1 .. n} PROVE e \in ToSet(both)
  <2>1. CASE e \in ToSet(s)
    <3>1. PICK i \in 1 .. m : e = s[i]
      BY <1>5, <2>1
    <3> QED
      BY <1>4, <1>5, <1>7, <3>1
  <2>2. CASE e \notin ToSet(s)
    <3>1. PICK i \in 1 .. n : e = q[i]
      BY <1>11, <2>2
    <3> QED
      BY <1>4, <1>5, <1>8, <3>1
  <2> QED
    BY <2>1, <2>2
<1>12. ToSet(both) = ToSet(s) \cup {q[i] : i \in 1 .. n}
  BY <1>10, <1>11
<1> QED
  BY <1>2, <1>9, <1>12 DEF both

LEMMA RoundGoesOn ==
  ASSUME at \in 1 .. 5, NextStep
  PROVE  at' \in 1 .. 5
<1>1. at' = (at % 5) + 1
  BY RoundIs DEF NextStep
<1>2. at \in {1, 2, 3, 4, 5}
  OBVIOUS
<1> QED
  BY <1>1, <1>2

LEMMA ReportStep ==
  ASSUME BrowserInv, Callback
  PROVE  BrowserInv'
<1>1. UNCHANGED <<last_visit_time, now, last_timestamp>>
  BY DEF Callback
<1>2. /\ at \in 1 .. 5 /\ now \in 0 .. MaxVisits
      /\ toReport \in Seq(1 .. now) /\ reported \subseteq 1 .. now
  BY DEF BrowserInv, BrowserTypes
<1>3. /\ reported \cup ReadVisits \cup UnreadVisits \cup gone = 1 .. now
      /\ reported \cap (ReadVisits \cup UnreadVisits \cup gone) = {}
      /\ IsInjective(toReport) /\ ReadVisits \cap UnreadVisits = {}
      /\ gone \cap (ReadVisits \cup UnreadVisits) = {}
  BY ReportedOnceIs DEF BrowserInv, GoneInv
<1>4. UnreadVisits' = UnreadVisits
  BY <1>1 DEF UnreadVisits, Unread
<1>5. OneVisitARow'
  BY <1>1 DEF BrowserInv, OneVisitARow
<1>6. CASE /\ toReport # <<>> /\ reported' = reported \cup {Head(toReport)}
           /\ toReport' = Tail(toReport) /\ UNCHANGED <<at, gone>>
  <2>1. /\ toReport' \in Seq(1 .. now) /\ IsInjective(toReport')
        /\ ReadVisits = ToSet(toReport') \cup {Head(toReport)}
        /\ Head(toReport) \notin ToSet(toReport')
    BY <1>2, <1>3, <1>6, FirstTaken DEF ReadVisits
  <2>2. ReadVisits' = ToSet(toReport')
    BY DEF ReadVisits
  <2>3. BrowserTypes'
    <3>1. reported' \subseteq 1 .. now
      BY <1>2, <1>3, <1>6, <2>1
    <3> QED
      BY <1>1, <1>6, <2>1, <3>1 DEF BrowserInv, BrowserTypes
  <2>4. GoneInv'
    BY <1>1, <1>3, <1>4, <1>6, <2>1, <2>2 DEF GoneInv
  <2>5. VisitsReportedOnce'
    <3>1. reported' \cup ReadVisits' \cup UnreadVisits' \cup gone' = 1 .. now'
      BY <1>1, <1>3, <1>4, <1>6, <2>1, <2>2
    <3>2. reported' \cap (ReadVisits' \cup UnreadVisits' \cup gone') = {}
      BY <1>1, <1>3, <1>4, <1>6, <2>1, <2>2
    <3>3. IsInjective(toReport)' /\ ReadVisits' \cap UnreadVisits' = {}
      BY <1>3, <1>4, <2>1, <2>2
    <3> QED
      BY <3>1, <3>2, <3>3 DEF VisitsReportedOnce, ReadVisits, UnreadVisits
  <2> QED
    BY <1>5, <2>3, <2>4, <2>5 DEF BrowserInv
<1>7. CASE toReport = <<>> /\ NextStep /\ UNCHANGED <<reported, toReport, gone>>
  <2>1. at' \in 1 .. 5
    BY <1>2, <1>7, RoundGoesOn
  <2>2. BrowserTypes'
    BY <1>1, <1>7, <2>1 DEF BrowserInv, BrowserTypes
  <2>3. GoneInv' /\ VisitsReportedOnce'
    BY <1>1, <1>4, <1>7
       DEF BrowserInv, GoneInv, VisitsReportedOnce, ReadVisits, Unread
  <2> QED
    BY <1>5, <2>2, <2>3 DEF BrowserInv
<1>8. CASE /\ gone' = gone \cup ToSet(toReport) /\ toReport' = <<>> /\ at' = 1
           /\ UNCHANGED reported
  <2>1. ReadVisits = ToSet(toReport) /\ ReadVisits' = {}
    BY <1>8 DEF ReadVisits, ToSet
  <2>2. gone' = gone \cup ReadVisits /\ gone' \subseteq 1 .. now
    BY <1>3, <1>8, <2>1
  <2>3. /\ toReport' \in Seq(1 .. now) /\ IsInjective(toReport')
    BY <1>8 DEF IsInjective
  <2>4. BrowserTypes'
    BY <1>1, <1>8, <2>2, <2>3 DEF BrowserInv, BrowserTypes
  <2>5. GoneInv'
    BY <1>3, <1>4, <2>1, <2>2 DEF GoneInv
  <2>6. /\ reported' \cup ReadVisits' \cup UnreadVisits' \cup gone' = 1 .. now'
        /\ reported' \cap (ReadVisits' \cup UnreadVisits' \cup gone') = {}
    BY <1>1, <1>3, <1>4, <1>8, <2>1, <2>2
  <2>7. VisitsReportedOnce'
    BY <2>1, <2>3, <2>6 DEF VisitsReportedOnce, ReadVisits, UnreadVisits
  <2> QED
    BY <1>5, <2>4, <2>5, <2>7 DEF BrowserInv
<1> QED
  BY <1>6, <1>7, <1>8 DEF Callback

LEMMA ReadStep ==
  ASSUME BrowserInv, NEW b \in {"Chrome", "Edge", "Firefox"}, ReadHistory(b)
  PROVE  BrowserInv'
<1> DEFINE read == Newest(Unread(b))
<1>1. NextStep /\ UNCHANGED <<last_visit_time, now, reported>>
  BY DEF ReadHistory
<1>2. /\ at \in 1 .. 5 /\ now \in 0 .. MaxVisits /\ now \in Nat
      /\ toReport \in Seq(1 .. now) /\ reported \subseteq 1 .. now /\ gone \subseteq 1 .. now
      /\ last_timestamp \in [Browsers -> 0 .. now]
      /\ last_visit_time \in [Browsers -> [Urls -> 0 .. now]]
  BY BrowserAssumption DEF BrowserInv, BrowserTypes
<1>3. /\ reported \cup ReadVisits \cup UnreadVisits \cup gone = 1 .. now
      /\ reported \cap (ReadVisits \cup UnreadVisits \cup gone) = {}
      /\ IsInjective(toReport) /\ ReadVisits \cap UnreadVisits = {}
      /\ gone \cap (ReadVisits \cup UnreadVisits) = {}
  BY ReportedOnceIs DEF BrowserInv, GoneInv
<1>4. at' \in 1 .. 5
  BY <1>1, <1>2, RoundGoesOn
<1>5. OneVisitARow'
  BY <1>1 DEF BrowserInv, OneVisitARow
<1>6. CASE UNCHANGED <<toReport, last_timestamp, gone>>
  <2>1. BrowserTypes'
    BY <1>1, <1>4, <1>6 DEF BrowserInv, BrowserTypes
  <2>2. GoneInv' /\ VisitsReportedOnce'
    BY <1>1, <1>6 DEF BrowserInv, GoneInv, VisitsReportedOnce, ReadVisits, UnreadVisits, Unread
  <2> QED
    BY <1>5, <2>1, <2>2 DEF BrowserInv
<1>7. CASE /\ b \in Browsers /\ read # {} /\ toReport' = toReport \o NewestFirst(read)
           /\ last_timestamp' = [last_timestamp EXCEPT ![b] = LatestRead(read)]
           /\ gone' = gone \cup (Unread(b) \ read)
  <2>1. /\ Unread(b) \subseteq 1 .. now /\ Unread(b) \subseteq UnreadVisits
        /\ read \subseteq Unread(b) /\ b \in Browsers /\ read # {}
    BY <1>7, UnreadIs DEF Newest
  <2>2. IsFiniteSet(Unread(b)) /\ IsFiniteSet(read)
    <3>1. IsFiniteSet(1 .. now)
      BY <1>2, FS_Interval
    <3> HIDE DEF read
    <3> QED
      BY <2>1, <3>1, FS_Subset
  <2>3. Unread(b) \subseteq 0 .. now /\ Unread(b) \subseteq Nat
    BY <1>2, <2>1
  <2>4. PICK m \in Unread(b) : \A t \in Unread(b) : t <= m
    <3>1. Unread(b) # {}
      BY <2>1
    <3> QED
      BY <1>2, <2>3, <3>1, LatestIs
  <2>5. m \in read
    <3>1. Later(Unread(b), m) = {}
      BY <2>3, <2>4 DEF Later
    <3> QED
      BY <3>1, FS_EmptySet, BrowserAssumption DEF Newest
  <2> HIDE DEF read
  <2>6. LatestRead(read) = m
    <3>1. read \subseteq 0 .. now
      BY <2>1, <2>3
    <3>2. Max(read) \in read /\ \A t \in read : t <= Max(read)
      BY <1>2, <2>1, <3>1, LatestIs
    <3>3. Max(read) <= m /\ m <= Max(read)
      BY <2>1, <2>4, <2>5, <3>2
    <3> QED
      BY <2>1, <2>3, <2>4, <3>2, <3>3 DEF LatestRead
  <2>7. /\ last_timestamp' \in [Browsers -> 0 .. now] /\ last_timestamp'[b] = m
        /\ \A c \in Browsers : c # b => last_timestamp'[c] = last_timestamp[c]
    BY <1>2, <1>7, <2>3, <2>6
  <2>8. /\ \A c \in Browsers : c # b => Unread(c)' = Unread(c)
        /\ Unread(b)' = {}
    <3>1. \A c \in Browsers : c # b => Unread(c)' = Unread(c)
      BY <1>1, <2>7 DEF Unread
    <3>2. ASSUME NEW t \in Unread(b)' PROVE FALSE
      <4>1. PICK u \in Urls : t = last_visit_time[b][u]
        BY <1>1, <3>2 DEF Unread
      <4>2. t \notin 0 .. m
        BY <1>1, <2>7, <3>2 DEF Unread
      <4>3. t \in 0 .. now /\ m \in 0 .. now /\ last_timestamp[b] \in 0 .. now
        BY <1>2, <2>1, <2>3, <4>1
      <4>4. t > last_timestamp[b] => t \in Unread(b)
        BY <2>1, <4>1, UnreadIs
      <4>5. m > last_timestamp[b]
        BY <2>1, <2>4, UnreadIs
      <4> QED
        BY <2>4, <4>2, <4>3, <4>4, <4>5
    <3> QED
      BY <3>1, <3>2
  <2>9. UnreadVisits' = UnreadVisits \ Unread(b)
    BY <2>1, <2>8, UnreadApart DEF UnreadVisits
  <2>10. /\ NewestFirst(read) \in [1 .. Cardinality(read) -> read] /\ Cardinality(read) \in Nat
         /\ \A i, j \in 1 .. Cardinality(read) : NewestFirst(read)[i] = NewestFirst(read)[j] => i = j
         /\ \A t \in read : \E i \in 1 .. Cardinality(read) : NewestFirst(read)[i] = t
    <3>1. read \subseteq Nat
      BY <2>1, <2>3
    <3> QED
      BY <2>2, <3>1, NewestFirstIs
  <2>11. /\ toReport' \in Seq(1 .. now) /\ IsInjective(toReport')
         /\ ToSet(toReport') = ReadVisits \cup read
    <3> DEFINE q == NewestFirst(read)
               n == Cardinality(read)
    <3> HIDE DEF q, n
    <3>1. q \in [1 .. n -> 1 .. now] /\ \A i \in 1 .. n : q[i] \in read
      BY <2>1, <2>10 DEF q, n
    <3>2. \A i \in 1 .. n : q[i] \notin ToSet(toReport)
      BY <1>3, <2>1, <3>1 DEF ReadVisits
    <3>3. n \in Nat /\ \A i, j \in 1 .. n : q[i] = q[j] => i = j
      BY <2>10 DEF q, n
    <3>4. /\ toReport \o q \in Seq(1 .. now) /\ IsInjective(toReport \o q)
          /\ ToSet(toReport \o q) = ToSet(toReport) \cup {q[i] : i \in 1 .. n}
      <4> DEFINE T == 1 .. now
      <4>1. toReport \in Seq(T) /\ q \in [1 .. n -> T]
        BY <1>2, <3>1
      <4> HIDE DEF T
      <4>2. toReport \o q \in Seq(T) /\ IsInjective(toReport \o q)
            /\ ToSet(toReport \o q) = ToSet(toReport) \cup {q[i] : i \in 1 .. n}
        BY <1>3, <3>2, <3>3, <4>1, BothInOrder
      <4> QED
        BY <4>2 DEF T
    <3>5. {q[i] : i \in 1 .. n} = read
      BY <2>10, <3>1 DEF q, n
    <3> QED
      BY <1>7, <3>4, <3>5 DEF q, ReadVisits
  <2>12. ReadVisits' = ReadVisits \cup read
    BY <2>11 DEF ReadVisits
  <2>13. BrowserTypes'
    <3>1. gone' \subseteq 1 .. now
      BY <1>2, <1>7, <2>1
    <3> QED
      BY <1>1, <1>2, <1>4, <2>7, <2>11, <3>1 DEF BrowserTypes
  <2>14. GoneInv'
    BY <1>3, <1>7, <2>1, <2>9, <2>12 DEF GoneInv
  <2>15. VisitsReportedOnce'
    <3>1. reported' \cup ReadVisits' \cup UnreadVisits' \cup gone' = 1 .. now'
      BY <1>1, <1>3, <1>7, <2>1, <2>9, <2>12
    <3>2. reported' \cap (ReadVisits' \cup UnreadVisits' \cup gone') = {}
      BY <1>1, <1>3, <1>7, <2>1, <2>9, <2>12
    <3>3. IsInjective(toReport)' /\ ReadVisits' \cap UnreadVisits' = {}
      BY <1>3, <2>1, <2>9, <2>11, <2>12
    <3> QED
      BY <3>1, <3>2, <3>3 DEF VisitsReportedOnce, ReadVisits, UnreadVisits
  <2> QED
    BY <1>5, <2>13, <2>14, <2>15 DEF BrowserInv
<1> QED
  BY <1>6, <1>7 DEF ReadHistory

LEMMA BrowserKeeps == BrowserInv /\ [BrowserNext]_browserVars => BrowserInv'
<1>1. ASSUME BrowserInv, UNCHANGED browserVars PROVE BrowserInv'
  BY <1>1 DEF browserVars, BrowserInv, BrowserTypes, OneVisitARow, GoneInv, VisitsReportedOnce,
              ReadVisits, UnreadVisits, Unread
<1> QED
  BY <1>1, VisitStep, ReadStep, ReportStep DEF BrowserNext

LEMMA VisitsFromInv == BrowserInv => VisitsReportedOnce /\ BrowserTypeOK
<1> SUFFICES ASSUME BrowserInv PROVE VisitsReportedOnce /\ BrowserTypeOK
  OBVIOUS
<1>1. /\ now \in 0 .. MaxVisits /\ MaxVisits \in Nat /\ toReport \in Seq(1 .. now)
  BY BrowserAssumption DEF BrowserInv, BrowserTypes
<1>2. 1 .. now \subseteq Times /\ 0 .. now \subseteq 0 .. MaxVisits
  BY <1>1 DEF Times
<1>3. toReport \in Seq(Times)
  BY <1>1, <1>2
<1> QED
  BY <1>2, <1>3, RoundIs DEF BrowserInv, BrowserTypes, BrowserTypeOK
=============================================================================
