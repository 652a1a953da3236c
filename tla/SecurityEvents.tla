--------------------------- MODULE SecurityEvents ---------------------------
(***************************************************************************)
(* agent.py _handle_security_event with core/active_response.py: what the  *)
(* monitors' threads do with an event before it goes to the server.  The   *)
(* threads share the firewall, in which all blocked addresses have to      *)
(* share rule 9998 of LocalBlockController.                                *)
(*                                                                         *)
(* An event is what the decisions look at: its kind, how grave it is where *)
(* the sender puts that, and its source.                                   *)
(***************************************************************************)
EXTENDS Integers, FiniteSets

CONSTANTS
  Handlers,    \* threads that handle events
  Sources      \* remote addresses, of which one is in the white list

suri_min_sev == 1
wazuh_min_lvl == 12
Whitelisted == CHOOSE s \in Sources : TRUE

VARIABLES
  enabled,     \* active_response.enabled
  handling,    \* handling[t]: step, event, and what was done about it
  rule9998,    \* the address it blocks, or NoAddress
  \* (history)
  everBlocked  \* the addresses that were in rule 9998

securityVars == <<enabled, handling, rule9998, everBlocked>>

NoAddress == "none"

\* An alert of Suricata has a severity (1 is the gravest), one of Wazuh a level inside the
\* rule its metadata keeps, and a logon failure nothing.
SecurityEvent ==
  [kind : {"suricata"}, grave : {1, 2}, source : Sources]
    \cup [kind : {"wazuh"}, grave : {5, 12}, source : {NoAddress}]
    \cup [kind : {"login failed"}, grave : {0}, source : {NoAddress}]
NoEvent == [kind |-> "login failed", grave |-> 0, source |-> NoAddress]

Actions == {"None", "BLOCK_IP", "WAZUH_RESPONSE"}

SecurityTypeOK ==
  /\ enabled \in BOOLEAN
  /\ handling \in [Handlers -> [step : {"idle", "evaluate", "block", "send", "resend", "sent"},
                                event : SecurityEvent, action : Actions, blocked : BOOLEAN]]
  /\ rule9998 \in Sources \cup {NoAddress}
  /\ everBlocked \subseteq Sources

Idle == [step |-> "idle", event |-> NoEvent, action |-> "None", blocked |-> FALSE]

SecurityInit ==
  /\ enabled \in BOOLEAN
  /\ handling = [t \in Handlers |-> Idle]
  /\ rule9998 = NoAddress
  /\ everBlocked = {}

-----------------------------------------------------------------------------

Step(t, step) == handling' = [handling EXCEPT ![t].step = step]

\* What is raised is logged, and the event itself is sent.
Raises(t) == Step(t, "resend")

\* A monitor's callback.
Receive(t) ==
  /\ handling[t].step \in {"idle", "sent"}
  /\ \E e \in SecurityEvent :
       handling' = [handling EXCEPT ![t] = [Idle EXCEPT !.event = e, !.step = "evaluate"]]
  /\ UNCHANGED <<enabled, rule9998, everBlocked>>

_check_suricata(e) == e.kind = "suricata" /\ e.grave <= suri_min_sev

\* Where _normalize_for_server looks for the level of an alert of Wazuh.
LevelInRule(e) == IF e.kind = "wazuh" THEN e.grave ELSE 0

\* metadata.get('level', 0): the metadata is the alert, whose level is in its rule.
LevelInMetadata(e) == 0

_check_wazuh(e) == e.kind = "wazuh" /\ LevelInMetadata(e) >= wazuh_min_lvl

\* evaluate_and_respond up to the block
Evaluate(t) ==
  LET e == handling[t].event
  IN  /\ handling[t].step = "evaluate"
      /\ \/ /\ enabled /\ _check_suricata(e) /\ e.source # Whitelisted
            /\ Step(t, "block")
         \/ /\ enabled /\ _check_wazuh(e)
            /\ handling' = [handling EXCEPT ![t].step = "send", ![t].action = "WAZUH_RESPONSE",
                                            ![t].blocked = TRUE]
         \/ /\ ~(enabled /\ _check_suricata(e) /\ e.source # Whitelisted)
            /\ ~(enabled /\ _check_wazuh(e))
            /\ Step(t, "send")
         \/ Raises(t)
      /\ UNCHANGED <<enabled, rule9998, everBlocked>>

\* block_network(remote_ip): True, and the rule is there; or False, and the rule is as it was,
\* removed, or there although its script timed out.  LocalBlockController has its steps.
Block(t) ==
  /\ handling[t].step = "block"
  /\ \/ /\ rule9998' = handling[t].event.source
        /\ everBlocked' = everBlocked \cup {handling[t].event.source}
        /\ handling' = [handling EXCEPT ![t].step = "send", ![t].action = "BLOCK_IP",
                                        ![t].blocked = TRUE]
     \/ /\ rule9998' \in {rule9998, NoAddress, handling[t].event.source}
        /\ everBlocked' = everBlocked \cup ({rule9998'} \ {NoAddress})
        /\ Step(t, "send") \/ Raises(t)
  /\ UNCHANGED enabled

\* _normalize_for_server keeps what was said about the response; send_event
SendEvent(t) ==
  /\ handling[t].step = "send"
  /\ Step(t, "sent") \/ Raises(t)
  /\ UNCHANGED <<enabled, rule9998, everBlocked>>

\* The event itself, perhaps once more, with what was put into it about the response.
Resend(t) ==
  /\ handling[t].step = "resend"
  /\ Step(t, "sent")
  /\ UNCHANGED <<enabled, rule9998, everBlocked>>

\* unblock_network, from the settings window or the Wazuh responder
Unblock ==
  /\ rule9998 # NoAddress /\ rule9998' = NoAddress
  /\ UNCHANGED <<enabled, handling, everBlocked>>

SecurityNext ==
  \/ \E t \in Handlers : Receive(t) \/ Evaluate(t) \/ Block(t) \/ SendEvent(t) \/ Resend(t)
  \/ Unblock

-----------------------------------------------------------------------------
(* An event that tells the server something was blocked is one whose source the firewall  *)
(* did block.  (agent.py 223-243, active_response.py 21-66)                               *)
BlockedIsTrue ==
  \A t \in Handlers :
    handling[t].blocked => handling[t].action = "BLOCK_IP" /\ handling[t].event.source \in everBlocked
=============================================================================
