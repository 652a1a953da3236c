--------------------------- MODULE NetworkMonitor ---------------------------
(***************************************************************************)
(* monitors/network_monitor.py with scapy: the sniffer's thread counts     *)
(* packets by connection in a dictionary, and run() takes the dictionary   *)
(* now and then and hands its records to BeaconClient.send_traffic.        *)
(*                                                                         *)
(* A record is the number of its packets; its bytes, which are counted and *)
(* added alike, only say which records come first, and any may.            *)
(* The fall-back without scapy is not modelled: it has one thread.         *)
(***************************************************************************)
EXTENDS Integers, FiniteSets, FiniteSetsExt

CONSTANTS
  Keys,                     \* connections
  _max_aggregator_keys, _max_send_per_interval,
  MaxPackets                \* bound on captured packets

VARIABLES
  traffic_aggregator,   \* packets by key; 0 for a key it does not have
  batch,                \* records not handed on yet, by key
  netStopped,           \* stop_event
  net,                  \* run(): step
  \* (history) packets: captured, handed on, and thrown away at the limit
  captured, handedOn, cleared

networkVars == <<traffic_aggregator, batch, netStopped, net, captured, handedOn, cleared>>

AGG_OVERFLOW == "AGG_OVERFLOW"

\* The limits are 50000 and 300; the summary names a protocol that no connection has.
ASSUME NetworkAssumption ==
  /\ _max_aggregator_keys \in Nat \ {0} /\ _max_send_per_interval \in Nat \ {0, 1}
  /\ MaxPackets \in Nat /\ AGG_OVERFLOW \notin Keys

Records == Keys \cup {AGG_OVERFLOW}
NoPackets(keys) == [k \in keys |-> 0]
Used(f) == {k \in DOMAIN f : f[k] > 0}

\* The packets that the records of these keys count, told apart by number, and how many.
Counted(f, keys) == UNION {{k} \X (1 .. f[k]) : k \in keys}
PacketsOf(f, keys) == Cardinality(Counted(f, keys))

NetworkTypeOK ==
  /\ traffic_aggregator \in [Keys -> 0 .. MaxPackets]
  /\ Cardinality(Used(traffic_aggregator)) <= _max_aggregator_keys
  /\ batch \in [Records -> 0 .. MaxPackets]
  /\ Cardinality(Used(batch)) <= _max_send_per_interval
  /\ netStopped \in BOOLEAN
  /\ net \in {"wait", "send", "end"}
  /\ captured \in 0 .. MaxPackets

NetworkInit ==
  /\ traffic_aggregator = NoPackets(Keys)
  /\ batch = NoPackets(Records)
  /\ netStopped = FALSE
  /\ net = "wait"
  /\ captured = 0 /\ handedOn = 0 /\ cleared = 0

-----------------------------------------------------------------------------

\* One packet, under the lock.  A new key that finds the dictionary full clears it.
_packet_callback(key) ==
  LET full == Cardinality(Used(traffic_aggregator)) >= _max_aggregator_keys
      clear == traffic_aggregator[key] = 0 /\ full
      kept == IF clear THEN NoPackets(Keys) ELSE traffic_aggregator
  IN  /\ captured < MaxPackets /\ captured' = captured + 1
      /\ traffic_aggregator' = [kept EXCEPT ![key] = @ + 1]
      /\ cleared' = IF clear THEN cleared + PacketsOf(traffic_aggregator, Keys) ELSE cleared
      /\ UNCHANGED <<batch, netStopped, net, handedOn>>

Everything(records, keep) == records

\* The records that share one summary.
OverflowOf(records, keep) == records \ keep

EveryPlace == _max_send_per_interval

\* How many records are kept when there are too many: one place is the summary's.
keep_n == Max({_max_send_per_interval - 1, 1})

\* The records to send: at most as many as there are places.
_prepare_send_batch(taken) ==
  LET records == Used(taken)
  IN  IF Cardinality(records) <= _max_send_per_interval
      THEN batch' = [k \in Records |-> IF k \in records THEN taken[k] ELSE 0]
      ELSE \E keep \in kSubset(keep_n, records) :
             batch' = [k \in Records |->
                         CASE k \in keep -> taken[k]
                           [] k = AGG_OVERFLOW -> PacketsOf(taken, OverflowOf(records, keep))
                           [] OTHER -> 0]

\* The interval is over: get_and_clear_traffic takes the dictionary under the lock and leaves
\* an empty one, and the batch is prepared from it without the lock.
get_and_clear_traffic ==
  /\ net = "wait"
  /\ _prepare_send_batch(traffic_aggregator)
  /\ traffic_aggregator' = NoPackets(Keys)
  /\ net' = "send"
  /\ UNCHANGED <<netStopped, captured, handedOn, cleared>>

\* The next record is handed on, whatever becomes of it, or the loop begins anew.
Send ==
  /\ net = "send"
  /\ \/ \E k \in Used(batch) :
          /\ handedOn' = handedOn + batch[k]
          /\ batch' = [batch EXCEPT ![k] = 0]
          /\ UNCHANGED net
     \/ /\ Used(batch) = {}
        /\ net' = IF netStopped THEN "end" ELSE "wait"
        /\ UNCHANGED <<handedOn, batch>>
  /\ UNCHANGED <<traffic_aggregator, netStopped, captured, cleared>>

net_stop ==
  /\ ~netStopped /\ netStopped' = TRUE
  /\ UNCHANGED <<traffic_aggregator, batch, net, captured, handedOn, cleared>>

NetworkNext ==
  \/ \E key \in Keys : _packet_callback(key)
  \/ get_and_clear_traffic
  \/ Send
  \/ net_stop

-----------------------------------------------------------------------------
(* Each captured packet is counted in exactly one place: in the dictionary, in a record   *)
(* or summary that waits or was handed on, or among those cleared at the limit.  The      *)
(* exchange of dictionaries between the threads loses or doubles none.                    *)
(* (network_monitor.py 117-135, 165-200, 268-319)                                         *)
PacketsAccounted ==
  captured = PacketsOf(traffic_aggregator, Keys) + PacketsOf(batch, Records)
               + handedOn + cleared
=============================================================================
