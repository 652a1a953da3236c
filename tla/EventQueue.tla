----------------------------- MODULE EventQueue -----------------------------
(***************************************************************************)
(* core/event_queue.py: the SQLite table of events the server has not      *)
(* taken yet.  Producers insert; a worker takes a batch under the lock,    *)
(* sends it without the lock, and records the outcome under the lock.      *)
(*                                                                         *)
(* More than one worker may be at it: stop() waits 5 seconds and then      *)
(* flushes in the thread that called it, while the flush thread, asleep    *)
(* for flush_interval, still flushes once when it wakes; and after a       *)
(* start() in that time the old flush thread goes on beside the new one.   *)
(* stop() looks at nothing: it flushes when nothing runs, and several      *)
(* threads may be in it.                                                   *)
(*                                                                         *)
(* A sender posts an event up to three times, and the server may have      *)
(* taken it when the answer is lost: then False comes back all the same.   *)
(* No module of the agent creates an EventQueue at this commit: the        *)
(* model is of the class under any use of its methods.                     *)
(*                                                                         *)
(* The table survives a crash (each operation is one transaction), the     *)
(* batches do not.                                                         *)
(***************************************************************************)
EXTENDS Integers, FiniteSets

CONSTANTS
  MAX_QUEUE_SIZE, MAX_RETRY,
  batch_size,
  FlushThreads,  \* the flush threads that may come to exist
  Stoppers,      \* the threads that call stop()
  MaxEvents,     \* bound on the events enqueued
  MaxStops,      \* bound on the calls of stop()
  MaxCrashes,    \* bound on the crashes
  MaxUnanswered  \* bound on the events of which answers are lost

ASSUME QueueAssumption ==
  /\ MAX_QUEUE_SIZE \in Nat \ {0}
  /\ MAX_RETRY \in Nat \ {0}
  /\ batch_size \in Nat \ {0}
  /\ IsFiniteSet(FlushThreads) /\ IsFiniteSet(Stoppers) /\ Stoppers \cap FlushThreads = {}
  /\ {MaxEvents, MaxStops, MaxCrashes, MaxUnanswered} \subseteq Nat

Workers == FlushThreads \cup Stoppers
Ids == 1 .. MaxEvents    \* AUTOINCREMENT: an id is never given twice

VARIABLES
  pending,    \* the ids in the table
  retry,      \* retry[id]: its retry_count
  nextId,     \* sqlite_sequence + 1
  senders,    \* _send_event_fn and _send_traffic_fn are set
  running,    \* _running
  pc,         \* pc[w]: "none" (no such thread), "sleep", "flush" (it holds a batch)
  batch,      \* batch[w]: the rows it selected and has not tried yet
  seen,       \* seen[w][id]: the retry_count it read with a row of its batch
  outcome,    \* outcome[w]: its sent_ids, drop_ids and retry_ids
  stops, crashes,
  delivered,  \* (history) the events the server has acknowledged
  unanswered, \* (history) those it has taken at least once without the sender hearing of it
  twice,      \* (history) those it has taken more than once
  failures,   \* (history) failures[id]: the attempts that failed, up to MAX_RETRY
  overflowed, expired,  \* (history) the rows deleted by the two rules
  overlap     \* (history) two workers held a batch at once, or a crash cut one off

tableVars == <<pending, retry, nextId>>
workerVars == <<pc, batch, seen, outcome>>
historyVars == <<delivered, unanswered, twice, failures, overflowed, expired, overlap>>
callVars == <<senders, running>>
vars == <<tableVars, callVars, workerVars, stops, crashes, historyVars>>

NothingSeen == [id \in Ids |-> 0]
NoOutcome == [sent |-> {}, drop |-> {}, again |-> {}]

Outcomes == [sent : SUBSET Ids, drop : SUBSET Ids, again : SUBSET Ids]

TypeOK ==
  /\ pending \subseteq 1 .. nextId - 1
  /\ retry \in [Ids -> Nat]
  /\ nextId \in 1 .. MaxEvents + 1
  /\ senders \in BOOLEAN /\ running \in BOOLEAN
  /\ pc \in [Workers -> {"none", "sleep", "flush"}]
  /\ batch \in [Workers -> SUBSET Ids]
  /\ seen \in [Workers -> [Ids -> Nat]]
  /\ outcome \in [Workers -> Outcomes]
  /\ stops \in 0 .. MaxStops /\ crashes \in 0 .. MaxCrashes
  /\ delivered \subseteq Ids /\ unanswered \subseteq Ids /\ twice \subseteq Ids
  /\ failures \in [Ids -> 0 .. MAX_RETRY]
  /\ overflowed \subseteq Ids /\ expired \subseteq Ids
  /\ overlap \in BOOLEAN

Init ==
  /\ pending = {}
  /\ retry = [id \in Ids |-> 0]
  /\ nextId = 1
  /\ senders = FALSE /\ running = FALSE
  /\ pc = [w \in Workers |-> "none"]
  /\ batch = [w \in Workers |-> {}]
  /\ seen = [w \in Workers |-> NothingSeen]
  /\ outcome = [w \in Workers |-> NoOutcome]
  /\ stops = 0 /\ crashes = 0
  /\ delivered = {} /\ unanswered = {} /\ twice = {}
  /\ failures = [id \in Ids |-> 0]
  /\ overflowed = {} /\ expired = {}
  /\ overlap = FALSE

-----------------------------------------------------------------------------
\* ORDER BY id ASC LIMIT n
IsOldest(old, rows, n) ==
  /\ old \subseteq rows
  /\ Cardinality(old) = IF n < Cardinality(rows) THEN n ELSE Cardinality(rows)
  /\ \A i \in old, j \in rows \ old : i < j

OverflowOneLate(count) == IF count > MAX_QUEUE_SIZE THEN count - MAX_QUEUE_SIZE ELSE 0

\* How many rows an insertion pushes out.
Overflow(count) == IF count >= MAX_QUEUE_SIZE THEN count - MAX_QUEUE_SIZE + 1 ELSE 0

NoAutoincrement(id) == id

\* AUTOINCREMENT
IdAfter(id) == id + 1

\* _enqueue: one transaction.
Enqueue ==
  /\ nextId <= MaxEvents
  /\ \E old \in SUBSET pending :
       /\ IsOldest(old, pending, Overflow(Cardinality(pending)))
       /\ pending' = (pending \ old) \cup {nextId}
       /\ overflowed' = overflowed \cup old
  /\ retry' = [retry EXCEPT ![nextId] = 0]
  /\ nextId' = IdAfter(nextId)
  /\ UNCHANGED <<callVars, workerVars, stops, crashes,
                 delivered, unanswered, twice, failures, expired, overlap>>

\* set_senders
SetSenders ==
  /\ ~senders
  /\ senders' = TRUE
  /\ UNCHANGED <<tableVars, running, workerVars, stops, crashes, historyVars>>

\* start
Start ==
  /\ ~running
  /\ running' = TRUE
  /\ \E f \in FlushThreads : pc[f] = "none" /\ pc' = [pc EXCEPT ![f] = "sleep"]
  /\ UNCHANGED <<tableVars, senders, batch, seen, outcome, stops, crashes, historyVars>>

\* stop() up to its final flush, which it starts after 5 seconds whatever the thread does.
Stop(w) ==
  /\ pc[w] = "none"
  /\ stops < MaxStops
  /\ stops' = stops + 1
  /\ running' = FALSE
  /\ pc' = [pc EXCEPT ![w] = "sleep"]
  /\ UNCHANGED <<tableVars, senders, batch, seen, outcome, crashes, historyVars>>

\* Where a worker goes after a flush: the loop of a flush thread looks at _running.
After(w) == IF w \in FlushThreads /\ running THEN "sleep" ELSE "none"

\* _flush_batch up to the SELECT.
SelectBatch(w) ==
  /\ pc[w] = "sleep"
  /\ \E rows \in SUBSET pending :
       /\ IF senders THEN IsOldest(rows, pending, batch_size) ELSE rows = {}
       /\ batch' = [batch EXCEPT ![w] = rows]
       /\ pc' = [pc EXCEPT ![w] = IF rows = {} THEN After(w) ELSE "flush"]
       /\ seen' = [seen EXCEPT ![w] = [id \in Ids |-> IF id \in rows THEN retry[id] ELSE 0]]
       /\ overlap' = (overlap \/ (rows # {} /\ \E v \in Workers \ {w} : pc[v] = "flush"))
  /\ UNCHANGED <<tableVars, callVars, outcome, stops, crashes,
                 delivered, unanswered, twice, failures, overflowed, expired>>

NextRow(w, id) == id \in batch[w] /\ \A other \in batch[w] : id <= other

\* The posts of one call that the server takes: those whose answer is lost, and the last one.
Taken(id, lost, answered) ==
  /\ lost > 0 => Cardinality(unanswered \cup {id}) <= MaxUnanswered
  /\ delivered' = IF answered THEN delivered \cup {id} ELSE delivered
  /\ unanswered' = IF lost > 0 THEN unanswered \cup {id} ELSE unanswered
  /\ twice' = IF \/ lost > 1
                 \/ lost = 1 /\ answered
                 \/ (lost = 1 \/ answered) /\ id \in delivered \cup unanswered
              THEN twice \cup {id} ELSE twice

\* One of the sender's posts is answered 200 or 201.
SendSucceeds(w) ==
  /\ pc[w] = "flush"
  /\ \E id \in batch[w], lost \in 0 .. 2 :
       /\ NextRow(w, id)
       /\ Taken(id, lost, TRUE)
       /\ batch' = [batch EXCEPT ![w] = @ \ {id}]
       /\ outcome' = [outcome EXCEPT ![w].sent = @ \cup {id}]
  /\ UNCHANGED <<tableVars, callVars, pc, seen, stops, crashes, failures, overflowed, expired, overlap>>

DropsOneEarly(count) == count + 2 >= MAX_RETRY

\* Was that the last attempt of a row read with this retry_count?
IsLastTry(count) == count + 1 >= MAX_RETRY

\* The sender returns False or raises: each of its posts was refused, did not reach the server,
\* or lost its answer.
SendFails(w) ==
  /\ pc[w] = "flush"
  /\ \E id \in batch[w], lost \in 0 .. 3 :
       /\ NextRow(w, id)
       /\ Taken(id, lost, FALSE)
       /\ batch' = [batch EXCEPT ![w] = @ \ {id}]
       /\ outcome' = IF IsLastTry(seen[w][id])
                     THEN [outcome EXCEPT ![w].drop = @ \cup {id}]
                     ELSE [outcome EXCEPT ![w].again = @ \cup {id}]
       /\ failures' = [failures EXCEPT ![id] = IF @ < MAX_RETRY THEN @ + 1 ELSE @]
  /\ UNCHANGED <<tableVars, callVars, pc, seen, stops, crashes, overflowed, expired, overlap>>

DeletesTheBatch(w) == outcome[w].sent \cup outcome[w].drop \cup outcome[w].again
KeepsSentRows(w) == outcome[w].drop
KeepsDroppedRows(w) == outcome[w].sent

\* The ids of the two DELETE statements.
Deleted(w) == outcome[w].sent \cup outcome[w].drop

\* The transaction that ends _flush_batch.  Rows deleted meanwhile are not there to change.
ApplyOutcome(w) ==
  /\ pc[w] = "flush"
  /\ batch[w] = {}
  /\ pending' = pending \ Deleted(w)
  /\ retry' = [id \in Ids |-> IF id \in outcome[w].again \cap pending
                              THEN retry[id] + 1 ELSE retry[id]]
  /\ expired' = expired \cup (outcome[w].drop \cap pending)
  /\ outcome' = [outcome EXCEPT ![w] = NoOutcome]
  /\ seen' = [seen EXCEPT ![w] = NothingSeen]
  /\ pc' = [pc EXCEPT ![w] = After(w)]
  /\ UNCHANGED <<nextId, callVars, batch, stops, crashes,
                 delivered, unanswered, twice, failures, overflowed, overlap>>

Flush(w) == SelectBatch(w) \/ SendSucceeds(w) \/ SendFails(w) \/ ApplyOutcome(w)

\* The process dies; the table stays.
Crash ==
  /\ crashes < MaxCrashes
  /\ crashes' = crashes + 1
  /\ senders' = FALSE /\ running' = FALSE
  /\ pc' = [w \in Workers |-> "none"]
  /\ seen' = [w \in Workers |-> NothingSeen]
  /\ batch' = [w \in Workers |-> {}]
  /\ outcome' = [w \in Workers |-> NoOutcome]
  /\ overlap' = (overlap \/ \E w \in Workers : pc[w] = "flush")
  /\ UNCHANGED <<tableVars, stops, delivered, unanswered, twice, failures, overflowed, expired>>

Next ==
  \/ Enqueue
  \/ SetSenders
  \/ Start
  \/ \E w \in Stoppers : Stop(w)
  \/ \E w \in Workers : Flush(w)
  \/ Crash

Spec == Init /\ [][Next]_vars

\* Every live worker takes its next step: nothing it waits for can fail to come.
FairSpec == Spec /\ \A w \in Workers : WF_vars(Flush(w))

-----------------------------------------------------------------------------
(* The table never holds more than _MAX_QUEUE_SIZE rows, whatever enqueues and flushes   *)
(* interleave.  (event_queue.py 112-128)                                                 *)
Bounded == Cardinality(pending) <= MAX_QUEUE_SIZE

(* No event is lost silently: each is in the table, was acknowledged by the server, or   *)
(* was given up by one of the two rules.  (event_queue.py 110-198)                       *)
Accounted == 1 .. nextId - 1 \subseteq pending \cup delivered \cup overflowed \cup expired

(* An event is given up for its retries only after _MAX_RETRY attempts of its own        *)
(* failed, even when workers with different views of its retry_count overlap and when a  *)
(* crash loses the outcome of attempts.  (event_queue.py 173-179, 192-197)               *)
ExpiredWereTried == \A id \in expired : failures[id] = MAX_RETRY

(* The server takes an event twice only if two workers overlapped, a crash cut a batch   *)
(* off before its outcome was recorded, or the answer to a post of this event was lost.  *)
(* (event_queue.py 92-103, 138-198, beacon_client.py 457-512)                            *)
TwiceOnlyForCause == overlap \/ twice \subseteq unanswered

(* While the queue runs and has senders every event leaves the table, also when the      *)
(* server never answers: rows that fail do not block those behind a full batch of them   *)
(* for ever.  (event_queue.py 130-136, 143-148, 173-192)                                 *)
EveryEventLeaves == \A id \in Ids : id \in pending ~> id \notin pending \/ ~running \/ ~senders
=============================================================================
