-------------------------- MODULE EventQueueProofs --------------------------
(***************************************************************************)
(* What EventQueue promises, proved for any number of flush threads, any   *)
(* capacity, retry limit and batch size, and any number of crashes.        *)
(***************************************************************************)
EXTENDS EventQueue, FiniteSetTheorems, TLAPS

\* The workers that will still count a failure of id in its retry_count.
Owed(id) == {w \in Workers : id \in outcome[w].again}

IdInv ==
  /\ delivered \subseteq 1 .. nextId - 1
  /\ \A w \in Workers : batch[w] \subseteq 1 .. nextId - 1

\* A failure is counted in the table at most once, now or when its worker is done; past
\* MAX_RETRY the history counts no further.
RetryInv ==
  \A id \in Ids : failures[id] < MAX_RETRY =>
    /\ retry[id] + Cardinality(Owed(id)) <= failures[id]
    /\ \A w \in Workers : seen[w][id] <= failures[id]

DropInv ==
  /\ \A w \in Workers : \A id \in outcome[w].drop : failures[id] = MAX_RETRY
  /\ ExpiredWereTried

LossInv ==
  /\ \A w \in Workers : outcome[w].sent \subseteq delivered
  /\ Accounted

IdleInv == \A w \in Workers : pc[w] # "flush" => batch[w] = {} /\ outcome[w] = NoOutcome

\* As long as nothing has overlapped, one worker holds what was acknowledged and
\* not yet deleted, and what it has still to send was never acknowledged.
OverlapInv ==
  overlap \/
    /\ twice \subseteq unanswered
    /\ \A v, w \in Workers : pc[v] = "flush" /\ pc[w] = "flush" => v = w
    /\ \A id \in delivered \cap pending : \E w \in Workers : id \in outcome[w].sent
    /\ \A w \in Workers : batch[w] \cap delivered = {}


-----------------------------------------------------------------------------
(* Every reachable state is well typed: the table holds only ids that were given out.  *)
(* (event_queue.py 110-198)                                                            *)
THEOREM TypeCorrect == Spec => []TypeOK
<1>1. Init => TypeOK
  <2> SUFFICES ASSUME Init PROVE TypeOK
    OBVIOUS
  <2>1. outcome \in [Workers -> Outcomes]
    BY DEF Init, NoOutcome, Outcomes
  <2>2. seen \in [Workers -> [Ids -> Nat]]
    BY DEF Init, NothingSeen
  <2>3. nextId \in 1 .. MaxEvents + 1 /\ stops \in 0 .. MaxStops /\ crashes \in 0 .. MaxCrashes
    BY QueueAssumption DEF Init
  <2>4. retry \in [Ids -> Nat] /\ failures \in [Ids -> 0 .. MAX_RETRY]
    BY QueueAssumption DEF Init
  <2>5. batch \in [Workers -> SUBSET Ids]
    BY DEF Init
  <2>6. pc \in [Workers -> {"none", "sleep", "flush"}]
    BY DEF Init
  <2> QED
    BY <2>1, <2>2, <2>3, <2>4, <2>5, <2>6 DEF Init, TypeOK
<1>2. TypeOK /\ [Next]_vars => TypeOK'
  <2> SUFFICES ASSUME TypeOK, [Next]_vars PROVE TypeOK'
    OBVIOUS
  <2> USE QueueAssumption DEF TypeOK, callVars, tableVars, workerVars, historyVars
  <2>1. CASE Enqueue
    <3>1. nextId \in Ids /\ nextId' = nextId + 1 /\ nextId' \in 1 .. MaxEvents + 1
      BY <2>1 DEF Enqueue, Ids, IdAfter
    <3>2. pending \subseteq Ids /\ pending' \subseteq 1 .. nextId' - 1
      BY <2>1, <3>1 DEF Enqueue, Ids
    <3>3. overflowed' \subseteq Ids
      BY <2>1, <3>2 DEF Enqueue
    <3>4. retry' \in [Ids -> Nat]
      BY <2>1 DEF Enqueue
    <3> QED
      BY <2>1, <3>1, <3>2, <3>3, <3>4 DEF Enqueue
  <2>2. CASE SetSenders
    BY <2>2 DEF SetSenders
  <2>3. CASE Start
    BY <2>3 DEF Start, Workers
  <2>4. ASSUME NEW w \in Stoppers, Stop(w) PROVE TypeOK'
    <3>1. stops' \in 0 .. MaxStops
      BY <2>4 DEF Stop
    <3>2. pc' \in [Workers -> {"none", "sleep", "flush"}]
      BY <2>4 DEF Stop
    <3> QED
      BY <2>4, <3>1, <3>2 DEF Stop
  <2>5. ASSUME NEW w \in Workers, SelectBatch(w) PROVE TypeOK'
    <3>1. PICK rows \in SUBSET pending :
            /\ batch' = [batch EXCEPT ![w] = rows]
            /\ pc' = [pc EXCEPT ![w] = IF rows = {} THEN After(w) ELSE "flush"]
            /\ seen' = [seen EXCEPT ![w] = [id \in Ids |-> IF id \in rows THEN retry[id] ELSE 0]]
            /\ overlap' = (overlap \/ (rows # {} /\ \E v \in Workers \ {w} : pc[v] = "flush"))
      BY <2>5 DEF SelectBatch
    <3>2. overlap' \in BOOLEAN
      BY <3>1
    <3>3. seen' \in [Workers -> [Ids -> Nat]]
      BY <3>1
    <3>4. batch' \in [Workers -> SUBSET Ids]
      BY <3>1 DEF Ids
    <3>5. pc' \in [Workers -> {"none", "sleep", "flush"}]
      BY <3>1 DEF After
    <3> QED
      BY <2>5, <3>2, <3>3, <3>4, <3>5 DEF SelectBatch
  <2>6. ASSUME NEW w \in Workers, SendSucceeds(w) PROVE TypeOK'
    <3>1. PICK id \in batch[w], lost \in 0 .. 2 :
            /\ batch' = [batch EXCEPT ![w] = @ \ {id}]
            /\ outcome' = [outcome EXCEPT ![w].sent = @ \cup {id}]
            /\ Taken(id, lost, TRUE)
      BY <2>6 DEF SendSucceeds
    <3>2. batch' \in [Workers -> SUBSET Ids] /\ id \in Ids
      BY <3>1
    <3>3. outcome' \in [Workers -> Outcomes]
      <4>1. [outcome[w] EXCEPT !.sent = @ \cup {id}] \in Outcomes
        BY <3>2 DEF Outcomes
      <4> QED
        BY <3>1, <4>1
    <3>4. delivered' \subseteq Ids /\ unanswered' \subseteq Ids /\ twice' \subseteq Ids
      BY <3>1, <3>2 DEF Taken
    <3> QED
      BY <2>6, <3>2, <3>3, <3>4 DEF SendSucceeds
  <2>7. ASSUME NEW w \in Workers, SendFails(w) PROVE TypeOK'
    <3>1. PICK id \in batch[w], lost \in 0 .. 3 :
            /\ batch' = [batch EXCEPT ![w] = @ \ {id}]
            /\ outcome' = IF IsLastTry(seen[w][id])
                          THEN [outcome EXCEPT ![w].drop = @ \cup {id}]
                          ELSE [outcome EXCEPT ![w].again = @ \cup {id}]
            /\ failures' = [failures EXCEPT ![id] = IF @ < MAX_RETRY THEN @ + 1 ELSE @]
            /\ Taken(id, lost, FALSE)
      BY <2>7 DEF SendFails
    <3>2. batch' \in [Workers -> SUBSET Ids] /\ id \in Ids
      BY <3>1
    <3>3. outcome' \in [Workers -> Outcomes]
      <4>1. [outcome[w] EXCEPT !.drop = @ \cup {id}] \in Outcomes
        BY <3>2 DEF Outcomes
      <4>2. [outcome[w] EXCEPT !.again = @ \cup {id}] \in Outcomes
        BY <3>2 DEF Outcomes
      <4> QED
        BY <3>1, <4>1, <4>2
    <3>4. failures' \in [Ids -> 0 .. MAX_RETRY]
      <4>1. failures[id] \in 0 .. MAX_RETRY /\ MAX_RETRY \in Nat
        BY <3>2
      <4>2. (IF failures[id] < MAX_RETRY THEN failures[id] + 1 ELSE failures[id])
              \in 0 .. MAX_RETRY
        BY <4>1
      <4> QED
        BY <3>1, <4>2
    <3>5. delivered' \subseteq Ids /\ unanswered' \subseteq Ids /\ twice' \subseteq Ids
      BY <3>1, <3>2 DEF Taken
    <3> QED
      BY <2>7, <3>2, <3>3, <3>4, <3>5 DEF SendFails
  <2>8. ASSUME NEW w \in Workers, ApplyOutcome(w) PROVE TypeOK'
    <3>1. outcome' \in [Workers -> Outcomes]
      BY <2>8 DEF ApplyOutcome, NoOutcome, Outcomes
    <3>2. seen' \in [Workers -> [Ids -> Nat]]
      BY <2>8 DEF ApplyOutcome, NothingSeen
    <3>3. pc' \in [Workers -> {"none", "sleep", "flush"}]
      BY <2>8 DEF ApplyOutcome, After
    <3>4. retry' \in [Ids -> Nat]
      BY <2>8 DEF ApplyOutcome
    <3>5. pending' \subseteq 1 .. nextId' - 1 /\ expired' \subseteq Ids
      <4>1. outcome[w].drop \subseteq Ids
        BY DEF Outcomes
      <4> QED
        BY <2>8, <4>1 DEF ApplyOutcome
    <3> QED
      BY <2>8, <3>1, <3>2, <3>3, <3>4, <3>5 DEF ApplyOutcome
  <2>9. CASE Crash
    <3>1. overlap' \in BOOLEAN
      BY <2>9 DEF Crash
    <3>2. outcome' \in [Workers -> Outcomes]
      BY <2>9 DEF Crash, NoOutcome, Outcomes
    <3>3. seen' \in [Workers -> [Ids -> Nat]]
      BY <2>9 DEF Crash, NothingSeen
    <3>4. crashes' \in 0 .. MaxCrashes
      BY <2>9 DEF Crash
    <3> QED
      BY <2>9, <3>1, <3>2, <3>3, <3>4 DEF Crash
  <2>10. CASE UNCHANGED vars
    BY <2>10 DEF vars
  <2> QED
    BY <2>1, <2>2, <2>3, <2>4, <2>5, <2>6, <2>7, <2>8, <2>9, <2>10 DEF Next, Flush
<1> QED
  BY <1>1, <1>2, PTL DEF Spec

-----------------------------------------------------------------------------
\* What a successful and a failed attempt leave in the three lists of each worker.
LEMMA SendEffect ==
  ASSUME TypeOK, NEW w \in Workers, SendSucceeds(w)
  PROVE  \E id \in batch[w] :
           /\ batch' = [batch EXCEPT ![w] = @ \ {id}]
           /\ delivered' = delivered \cup {id}
           /\ unanswered \subseteq unanswered'
           /\ twice' \subseteq twice \cup unanswered' \cup (delivered \cap {id})
           /\ outcome'[w].sent = outcome[w].sent \cup {id}
           /\ \A v \in Workers : /\ v # w => outcome'[v] = outcome[v]
                                 /\ outcome'[v].drop = outcome[v].drop
                                 /\ outcome'[v].again = outcome[v].again
<1>1. PICK id \in batch[w], lost \in 0 .. 2 :
        /\ batch' = [batch EXCEPT ![w] = @ \ {id}]
        /\ outcome' = [outcome EXCEPT ![w].sent = @ \cup {id}]
        /\ Taken(id, lost, TRUE)
  BY DEF SendSucceeds
<1>2. \A v \in Workers : outcome[v] \in Outcomes
  BY DEF TypeOK
<1>3. outcome'[w] = [outcome[w] EXCEPT !.sent = @ \cup {id}]
  BY <1>1 DEF TypeOK
<1>4. \A v \in Workers : v # w => outcome'[v] = outcome[v]
  BY <1>1 DEF TypeOK
<1>5. /\ delivered' = delivered \cup {id} /\ unanswered \subseteq unanswered'
      /\ twice' \subseteq twice \cup unanswered' \cup (delivered \cap {id})
  BY <1>1 DEF Taken
<1> QED
  BY <1>1, <1>2, <1>3, <1>4, <1>5 DEF Outcomes

LEMMA FailEffect ==
  ASSUME TypeOK, NEW w \in Workers, SendFails(w)
  PROVE  \E id \in batch[w] :
           /\ batch' = [batch EXCEPT ![w] = @ \ {id}]
           /\ failures' = [failures EXCEPT ![id] = IF @ < MAX_RETRY THEN @ + 1 ELSE @]
           /\ UNCHANGED delivered /\ unanswered \subseteq unanswered'
           /\ twice' \subseteq twice \cup unanswered'
           /\ \/ /\ IsLastTry(seen[w][id])
                 /\ outcome'[w].drop = outcome[w].drop \cup {id}
                 /\ outcome'[w].again = outcome[w].again
              \/ /\ outcome'[w].drop = outcome[w].drop
                 /\ outcome'[w].again = outcome[w].again \cup {id}
           /\ outcome'[w].sent = outcome[w].sent
           /\ \A v \in Workers : v # w => outcome'[v] = outcome[v]
<1>1. PICK id \in batch[w], lost \in 0 .. 3 :
        /\ batch' = [batch EXCEPT ![w] = @ \ {id}]
        /\ Taken(id, lost, FALSE)
        /\ outcome' = IF IsLastTry(seen[w][id])
                      THEN [outcome EXCEPT ![w].drop = @ \cup {id}]
                      ELSE [outcome EXCEPT ![w].again = @ \cup {id}]
        /\ failures' = [failures EXCEPT ![id] = IF @ < MAX_RETRY THEN @ + 1 ELSE @]
  BY DEF SendFails
<1>2. outcome[w] \in Outcomes
  BY DEF TypeOK
<1>3. outcome'[w] = IF IsLastTry(seen[w][id])
                    THEN [outcome[w] EXCEPT !.drop = @ \cup {id}]
                    ELSE [outcome[w] EXCEPT !.again = @ \cup {id}]
  BY <1>1 DEF TypeOK
<1>4. \A v \in Workers : v # w => outcome'[v] = outcome[v]
  BY <1>1 DEF TypeOK
<1>5. /\ \/ /\ IsLastTry(seen[w][id])
            /\ outcome'[w].drop = outcome[w].drop \cup {id}
            /\ outcome'[w].again = outcome[w].again
         \/ /\ outcome'[w].drop = outcome[w].drop
            /\ outcome'[w].again = outcome[w].again \cup {id}
      /\ outcome'[w].sent = outcome[w].sent
  <2>1. CASE IsLastTry(seen[w][id])
    BY <1>2, <1>3, <2>1 DEF Outcomes
  <2>2. CASE ~IsLastTry(seen[w][id])
    BY <1>2, <1>3, <2>2 DEF Outcomes
  <2> QED
    BY <2>1, <2>2
<1>6. UNCHANGED delivered /\ unanswered \subseteq unanswered' /\ twice' \subseteq twice \cup unanswered'
  BY <1>1 DEF Taken
<1> QED
  BY <1>1, <1>4, <1>5, <1>6

-----------------------------------------------------------------------------
\* Insertions and deletions keep the table within its bound.
LEMMA BoundedStep == TypeOK /\ Bounded /\ [Next]_vars => Bounded'
<1> SUFFICES ASSUME TypeOK, Bounded, [Next]_vars PROVE Bounded'
  OBVIOUS
<1>1. IsFiniteSet(pending) /\ Cardinality(pending) \in Nat
  <2>1. nextId - 1 \in Int /\ pending \in SUBSET (1 .. nextId - 1)
    BY QueueAssumption DEF TypeOK
  <2>2. IsFiniteSet(1 .. nextId - 1)
    BY <2>1, FS_Interval
  <2>3. IsFiniteSet(pending)
    BY <2>1, <2>2, FS_Subset
  <2> QED
    BY <2>3, FS_CardinalityType
<1>2. CASE Enqueue
  <2> DEFINE count == Cardinality(pending)
  <2>1. PICK old \in SUBSET pending :
          /\ Cardinality(old) = IF Overflow(count) < count THEN Overflow(count) ELSE count
          /\ pending' = (pending \ old) \cup {nextId}
    BY <1>2 DEF Enqueue, IsOldest
  <2>2. /\ IsFiniteSet(pending \ old)
        /\ Cardinality(pending \ old) = count - Cardinality(old)
    <3>1. pending \cap old = old
      OBVIOUS
    <3> QED
      BY <1>1, <3>1, FS_Difference
  <2>3. Cardinality(pending \ old) + 1 <= MAX_QUEUE_SIZE
    BY <1>1, <2>1, <2>2, QueueAssumption DEF Overflow, Bounded
  <2>4. Cardinality(pending \ old) \in Nat
    BY <2>2, FS_CardinalityType
  <2>5. Cardinality((pending \ old) \cup {nextId}) <= Cardinality(pending \ old) + 1
    BY <2>2, <2>4, FS_AddElement
  <2>6. Cardinality((pending \ old) \cup {nextId}) \in Nat
    BY <2>2, <2>4, FS_AddElement
  <2> QED
    BY <2>1, <2>3, <2>4, <2>5, <2>6, QueueAssumption DEF Bounded
<1>3. ASSUME NEW w \in Workers, ApplyOutcome(w) PROVE Bounded'
  <2>1. pending' \in SUBSET pending
    BY <1>3 DEF ApplyOutcome
  <2> QED
    BY <1>1, <2>1, FS_Subset, FS_CardinalityType, QueueAssumption DEF Bounded
<1>4. CASE UNCHANGED pending
  BY <1>4 DEF Bounded
<1> QED
  BY <1>2, <1>3, <1>4
     DEF Next, Flush, SetSenders, Start, Stop, SelectBatch, SendSucceeds, SendFails, Crash,
         vars, tableVars

(* At any moment the table holds at most _MAX_QUEUE_SIZE rows, whatever enqueues and    *)
(* flushes interleave and wherever crashes cut in.  (event_queue.py 112-128, 181-198)   *)
THEOREM BoundedCorrect == Spec => []Bounded
<1>1. Init => Bounded
  BY FS_EmptySet, QueueAssumption DEF Init, Bounded
<1> QED
  BY <1>1, TypeCorrect, BoundedStep, PTL DEF Spec

-----------------------------------------------------------------------------
LEMMA LossStep == TypeOK /\ LossInv /\ [Next]_vars => LossInv'
<1> SUFFICES ASSUME TypeOK, LossInv, [Next]_vars PROVE LossInv'
  OBVIOUS
<1> USE DEF LossInv, Accounted
<1>1. CASE Enqueue
  <2>1. nextId' = nextId + 1 /\ nextId \in pending'
    BY <1>1 DEF Enqueue, IdAfter
  <2>2. pending \subseteq pending' \cup overflowed' /\ overflowed \subseteq overflowed'
    BY <1>1 DEF Enqueue
  <2>3. Accounted'
    BY <1>1, <2>1, <2>2 DEF Enqueue, TypeOK
  <2> QED
    BY <1>1, <2>3 DEF Enqueue, workerVars
<1>2. ASSUME NEW w \in Workers, SendSucceeds(w) PROVE LossInv'
  <2>1. PICK id \in batch[w] :
          /\ delivered' = delivered \cup {id}
          /\ outcome'[w].sent = outcome[w].sent \cup {id}
          /\ \A v \in Workers : v # w => outcome'[v] = outcome[v]
    BY <1>2, SendEffect
  <2>2. UNCHANGED <<tableVars, overflowed, expired>>
    BY <1>2 DEF SendSucceeds
  <2>3. \A v \in Workers : outcome'[v].sent \subseteq delivered'
    BY <2>1
  <2> QED
    BY <2>1, <2>2, <2>3 DEF tableVars
<1>3. ASSUME NEW w \in Workers, SendFails(w) PROVE LossInv'
  BY <1>3, FailEffect DEF SendFails, tableVars
<1>4. ASSUME NEW w \in Workers, ApplyOutcome(w) PROVE LossInv'
  <2>1. \A v \in Workers : outcome'[v].sent \subseteq outcome[v].sent
    BY <1>4 DEF ApplyOutcome, NoOutcome, TypeOK
  <2>2. Accounted'
    BY <1>4 DEF ApplyOutcome, Deleted
  <2> QED
    BY <1>4, <2>1, <2>2 DEF ApplyOutcome
<1>5. CASE Crash
  BY <1>5 DEF Crash, NoOutcome, tableVars
<1>6. CASE UNCHANGED <<outcome, tableVars, delivered, overflowed, expired>>
  BY <1>6 DEF tableVars
<1> QED
  BY <1>1, <1>2, <1>3, <1>4, <1>5, <1>6
     DEF Next, Flush, SetSenders, Start, Stop, SelectBatch, vars, workerVars, historyVars

(* No event is lost silently: every id ever given out is in the table, was acknowledged *)
(* by the server, or was given up by the size limit or the retry limit.                 *)
(* (event_queue.py 110-198)                                                             *)
THEOREM AccountedCorrect == Spec => []Accounted
<1>1. Init => LossInv
  BY QueueAssumption DEF Init, LossInv, Accounted, NoOutcome
<1>2. LossInv => Accounted
  BY DEF LossInv
<1> QED
  BY <1>1, <1>2, TypeCorrect, LossStep, PTL DEF Spec

-----------------------------------------------------------------------------
LEMMA OwedFinite == \A id : IsFiniteSet(Owed(id)) /\ Cardinality(Owed(id)) \in Nat
<1> SUFFICES ASSUME NEW id PROVE IsFiniteSet(Owed(id)) /\ Cardinality(Owed(id)) \in Nat
  OBVIOUS
<1>1. IsFiniteSet(Workers)
  BY FS_Union, QueueAssumption DEF Workers
<1>2. Owed(id) \in SUBSET Workers
  BY DEF Owed
<1>3. IsFiniteSet(Owed(id))
  BY <1>1, <1>2, FS_Subset
<1> QED
  BY <1>3, FS_CardinalityType

LEMMA RetryStep == TypeOK /\ RetryInv /\ [Next]_vars => RetryInv'
<1> SUFFICES ASSUME TypeOK, RetryInv, [Next]_vars PROVE RetryInv'
  OBVIOUS
<1> USE DEF RetryInv
<1>1. CASE Enqueue
  <2>1. \A id \in Ids : retry'[id] <= retry[id] /\ retry'[id] \in Nat
    BY <1>1 DEF Enqueue, TypeOK
  <2>2. \A id \in Ids : Owed(id)' = Owed(id)
    BY <1>1 DEF Enqueue, Owed, workerVars
  <2>3. UNCHANGED <<failures, seen>>
    BY <1>1 DEF Enqueue, workerVars
  <2> QED
    BY <2>1, <2>2, <2>3, OwedFinite DEF TypeOK
<1>2. ASSUME NEW w \in Workers, SelectBatch(w) PROVE RetryInv'
  <2>1. UNCHANGED <<failures, retry, outcome>>
    BY <1>2 DEF SelectBatch, tableVars
  <2>2. \A id \in Ids : seen'[w][id] \in {0, retry[id]}
    BY <1>2 DEF SelectBatch, TypeOK
  <2>3. \A v \in Workers : v # w => seen'[v] = seen[v]
    BY <1>2 DEF SelectBatch, TypeOK
  <2>4. \A id \in Ids : /\ 0 <= failures[id]
                        /\ failures[id] < MAX_RETRY => retry[id] <= failures[id]
    BY OwedFinite, QueueAssumption DEF TypeOK
  <2>5. \A id \in Ids : Owed(id)' = Owed(id)
    BY <2>1 DEF Owed
  <2>6. \A v \in Workers, id \in Ids : failures[id] < MAX_RETRY => seen'[v][id] <= failures[id]
    BY <2>2, <2>3, <2>4
  <2> QED
    BY <2>1, <2>5, <2>6
<1>3. ASSUME NEW w \in Workers, SendSucceeds(w) PROVE RetryInv'
  <2>1. \A id \in Ids : Owed(id)' = Owed(id)
    BY <1>3, SendEffect DEF Owed
  <2> QED
    BY <1>3, <2>1 DEF SendSucceeds, tableVars
<1>4. ASSUME NEW w \in Workers, SendFails(w) PROVE RetryInv'
  <2>1. PICK i \in batch[w] :
          /\ failures' = [failures EXCEPT ![i] = IF @ < MAX_RETRY THEN @ + 1 ELSE @]
          /\ outcome'[w].again \in {outcome[w].again, outcome[w].again \cup {i}}
          /\ \A v \in Workers : v # w => outcome'[v] = outcome[v]
    BY <1>4, FailEffect
  <2>2. i \in Ids /\ UNCHANGED <<retry, seen>>
    BY <1>4 DEF SendFails, tableVars, TypeOK
  <2>3. \A id \in Ids : id # i => Owed(id)' = Owed(id)
    BY <2>1 DEF Owed
  <2>4. Owed(i)' \in {Owed(i), Owed(i) \cup {w}}
    BY <2>1 DEF Owed
  <2>5. Cardinality(Owed(i))' \in Nat /\ Cardinality(Owed(i))' <= Cardinality(Owed(i)) + 1
    <3>1. IsFiniteSet(Owed(i)) /\ Cardinality(Owed(i)) \in Nat
      BY OwedFinite
    <3>2. Cardinality(Owed(i) \cup {w}) =
            IF w \in Owed(i) THEN Cardinality(Owed(i)) ELSE Cardinality(Owed(i)) + 1
      BY <3>1, FS_AddElement
    <3>3. CASE Owed(i)' = Owed(i)
      BY <3>1, <3>3
    <3>4. CASE Owed(i)' = Owed(i) \cup {w}
      BY <3>1, <3>2, <3>4
    <3> QED
      BY <2>4, <3>3, <3>4
  <2>6. \A id \in Ids : /\ id # i => failures'[id] = failures[id]
                        /\ failures'[id] < MAX_RETRY => failures[id] < MAX_RETRY
    BY <2>1, QueueAssumption DEF TypeOK
  <2>7. failures'[i] < MAX_RETRY => failures'[i] = failures[i] + 1
    BY <2>1, <2>2, QueueAssumption DEF TypeOK
  <2>8. ASSUME NEW id \in Ids, failures'[id] < MAX_RETRY
        PROVE  retry'[id] + Cardinality(Owed(id))' <= failures'[id]
    <3>0. failures[id] < MAX_RETRY
      BY <2>6, <2>8
    <3>1. retry[id] + Cardinality(Owed(id)) <= failures[id]
      BY <3>0
    <3>2. CASE id # i
      <4>1. Owed(id)' = Owed(id)
        BY <2>3, <3>2
      <4>2. failures'[id] = failures[id]
        BY <2>6, <3>2
      <4> QED
        BY <2>2, <3>1, <4>1, <4>2
    <3>3. CASE id = i
      <4>1. failures'[i] = failures[i] + 1
        BY <2>7, <2>8, <3>3
      <4>2. failures[i] \in Int /\ retry[i] \in Int /\ Cardinality(Owed(i)) \in Int
        BY <2>2, OwedFinite, QueueAssumption DEF TypeOK
      <4> QED
        BY <2>2, <2>5, <3>1, <3>3, <4>1, <4>2
    <3> QED
      BY <3>2, <3>3
  <2>9. ASSUME NEW v \in Workers, NEW id \in Ids, failures'[id] < MAX_RETRY
        PROVE  seen'[v][id] <= failures'[id]
    <3>0. failures[id] < MAX_RETRY
      BY <2>6, <2>9
    <3>1. seen[v][id] <= failures[id]
      BY <3>0
    <3>2. CASE id # i
      <4>1. failures'[id] = failures[id]
        BY <2>6, <3>2
      <4> QED
        BY <2>2, <3>1, <4>1
    <3>3. CASE id = i
      <4>1. failures'[i] = failures[i] + 1
        BY <2>7, <2>9, <3>3
      <4>2. failures[i] \in Int /\ seen[v][i] \in Int
        BY <2>2, QueueAssumption DEF TypeOK
      <4> QED
        BY <2>2, <3>1, <3>3, <4>1, <4>2
    <3> QED
      BY <3>2, <3>3
  <2> QED
    BY <2>8, <2>9
<1>5. ASSUME NEW w \in Workers, ApplyOutcome(w) PROVE RetryInv'
  <2>1. UNCHANGED failures
    BY <1>5 DEF ApplyOutcome
  <2>2. \A v \in Workers, id \in Ids : failures[id] < MAX_RETRY => seen'[v][id] <= failures[id]
    BY <1>5, QueueAssumption DEF ApplyOutcome, NothingSeen, TypeOK
  <2>3. ASSUME NEW id \in Ids, failures[id] < MAX_RETRY
        PROVE  retry'[id] + Cardinality(Owed(id))' <= failures[id]
    <3>1. Owed(id)' = Owed(id) \ {w}
      BY <1>5 DEF ApplyOutcome, Owed, NoOutcome, TypeOK
    <3>2. Cardinality(Owed(id) \ {w}) =
            IF w \in Owed(id) THEN Cardinality(Owed(id)) - 1 ELSE Cardinality(Owed(id))
      BY OwedFinite, FS_RemoveElement
    <3>3. retry'[id] <= IF w \in Owed(id) THEN retry[id] + 1 ELSE retry[id]
      BY <1>5 DEF ApplyOutcome, Owed, TypeOK
    <3>4. retry'[id] \in Nat
      BY <1>5 DEF ApplyOutcome, TypeOK
    <3> QED
      BY <2>3, <3>1, <3>2, <3>3, <3>4, OwedFinite DEF TypeOK
  <2> QED
    BY <2>1, <2>2, <2>3
<1>6. CASE Crash
  <2>1. \A id \in Ids : Cardinality(Owed(id))' = 0
    BY <1>6, FS_EmptySet DEF Crash, Owed, NoOutcome
  <2>2. \A v \in Workers, id \in Ids : seen'[v][id] = 0
    BY <1>6 DEF Crash, NothingSeen
  <2>3. UNCHANGED <<failures, retry>>
    BY <1>6 DEF Crash, tableVars
  <2> QED
    BY <2>1, <2>2, <2>3, OwedFinite, QueueAssumption DEF TypeOK
<1>7. CASE UNCHANGED <<outcome, seen, retry, failures>>
  BY <1>7 DEF Owed
<1> QED
  BY <1>1, <1>2, <1>3, <1>4, <1>5, <1>6, <1>7
     DEF Next, Flush, SetSenders, Start, Stop, vars, workerVars, tableVars, historyVars

LEMMA DropStep == TypeOK /\ RetryInv /\ DropInv /\ [Next]_vars => DropInv'
<1> SUFFICES ASSUME TypeOK, RetryInv, DropInv, [Next]_vars PROVE DropInv'
  OBVIOUS
<1> USE DEF DropInv, ExpiredWereTried
<1>1. CASE UNCHANGED <<outcome, failures, expired>>
  BY <1>1
<1>2. ASSUME NEW w \in Workers, SendSucceeds(w) PROVE DropInv'
  <2>1. \A v \in Workers : outcome'[v].drop = outcome[v].drop
    BY <1>2, SendEffect
  <2> QED
    BY <1>2, <2>1 DEF SendSucceeds
<1>3. ASSUME NEW w \in Workers, SendFails(w) PROVE DropInv'
  <2>1. PICK i \in batch[w] :
          /\ failures' = [failures EXCEPT ![i] = IF @ < MAX_RETRY THEN @ + 1 ELSE @]
          /\ \/ IsLastTry(seen[w][i]) /\ outcome'[w].drop = outcome[w].drop \cup {i}
             \/ outcome'[w].drop = outcome[w].drop
          /\ \A v \in Workers : v # w => outcome'[v] = outcome[v]
    BY <1>3, FailEffect
  <2>2. i \in Ids /\ UNCHANGED expired
    BY <1>3 DEF SendFails, TypeOK
  <2>3. failures'[i] = IF failures[i] < MAX_RETRY THEN failures[i] + 1 ELSE failures[i]
    BY <2>1, <2>2 DEF TypeOK
  <2>4. \A id \in Ids : failures[id] = MAX_RETRY => failures'[id] = MAX_RETRY
    BY <2>1, QueueAssumption DEF TypeOK
  <2>5. IsLastTry(seen[w][i]) => failures'[i] = MAX_RETRY
    <3>1. failures[i] \in 0 .. MAX_RETRY /\ seen[w][i] \in Nat /\ MAX_RETRY \in Nat
      BY <2>2, QueueAssumption DEF TypeOK
    <3>2. failures[i] < MAX_RETRY => seen[w][i] <= failures[i]
      BY <2>2 DEF RetryInv
    <3> QED
      BY <2>3, <3>1, <3>2 DEF IsLastTry
  <2>6. \A v \in Workers : outcome[v].drop \subseteq Ids
    BY DEF TypeOK, Outcomes
  <2>7. ExpiredWereTried'
    BY <2>2, <2>4 DEF TypeOK
  <2> QED
    BY <2>1, <2>4, <2>5, <2>6, <2>7
<1>4. ASSUME NEW w \in Workers, ApplyOutcome(w) PROVE DropInv'
  <2>1. \A v \in Workers : outcome'[v].drop \subseteq outcome[v].drop
    BY <1>4 DEF ApplyOutcome, NoOutcome, TypeOK
  <2> QED
    BY <1>4, <2>1 DEF ApplyOutcome
<1>5. CASE Crash
  BY <1>5 DEF Crash, NoOutcome
<1> QED
  BY <1>1, <1>2, <1>3, <1>4, <1>5
     DEF Next, Flush, Enqueue, SetSenders, Start, Stop, SelectBatch, vars, workerVars, historyVars

(* A row is expired only after _MAX_RETRY attempts of its own failed: overlapping       *)
(* workers, each with its own view of retry_count, never count a failure twice.         *)
(* (event_queue.py 173-179, 192-197)                                                    *)
THEOREM ExpiredCorrect == Spec => []ExpiredWereTried
<1>1. Init => RetryInv
  <2> SUFFICES ASSUME Init PROVE RetryInv
    OBVIOUS
  <2>1. \A id \in Ids : Cardinality(Owed(id)) = 0
    BY FS_EmptySet DEF Init, Owed, NoOutcome
  <2> QED
    BY <2>1 DEF Init, RetryInv, NothingSeen
<1>2. Init => DropInv
  BY DEF Init, DropInv, ExpiredWereTried, NoOutcome
<1>3. DropInv => ExpiredWereTried
  BY DEF DropInv
<1> QED
  BY <1>1, <1>2, <1>3, TypeCorrect, RetryStep, DropStep, PTL DEF Spec

-----------------------------------------------------------------------------
LEMMA IdStep == TypeOK /\ IdInv /\ [Next]_vars => IdInv'
<1> SUFFICES ASSUME TypeOK, IdInv, [Next]_vars PROVE IdInv'
  OBVIOUS
<1> USE DEF IdInv
<1>1. CASE Enqueue
  BY <1>1 DEF Enqueue, IdAfter, workerVars, TypeOK
<1>2. ASSUME NEW w \in Workers, SelectBatch(w) PROVE IdInv'
  <2>1. PICK rows \in SUBSET pending : batch' = [batch EXCEPT ![w] = rows]
    BY <1>2 DEF SelectBatch
  <2>2. \A v \in Workers : batch'[v] \subseteq 1 .. nextId - 1
    BY <2>1 DEF TypeOK
  <2> QED
    BY <1>2, <2>2 DEF SelectBatch, tableVars
<1>3. ASSUME NEW w \in Workers, SendSucceeds(w) PROVE IdInv'
  <2>1. PICK id \in batch[w] :
          batch' = [batch EXCEPT ![w] = @ \ {id}] /\ delivered' = delivered \cup {id}
    BY <1>3, SendEffect
  <2> QED
    BY <1>3, <2>1 DEF SendSucceeds, tableVars, TypeOK
<1>4. ASSUME NEW w \in Workers, SendFails(w) PROVE IdInv'
  <2>1. \A v \in Workers : batch'[v] \subseteq batch[v]
    BY <1>4, FailEffect DEF TypeOK
  <2>2. UNCHANGED <<tableVars, delivered>>
    BY <1>4, FailEffect DEF SendFails
  <2> QED
    BY <2>1, <2>2 DEF tableVars
<1>5. CASE Crash
  BY <1>5 DEF Crash, tableVars
<1>6. CASE UNCHANGED <<batch, delivered, nextId>>
  BY <1>6
<1> QED
  BY <1>1, <1>2, <1>3, <1>4, <1>5, <1>6
     DEF Next, Flush, SetSenders, Start, Stop, ApplyOutcome, vars, workerVars, tableVars, historyVars

LEMMA IdleStep == TypeOK /\ IdleInv /\ [Next]_vars => IdleInv'
<1> SUFFICES ASSUME TypeOK, IdleInv, [Next]_vars PROVE IdleInv'
  OBVIOUS
<1> USE DEF IdleInv
<1>1. CASE Start
  BY <1>1 DEF Start, TypeOK, Workers
<1>2. ASSUME NEW w \in Stoppers, Stop(w) PROVE IdleInv'
  BY <1>2 DEF Stop, TypeOK, Workers
<1>3. ASSUME NEW w \in Workers, SelectBatch(w) PROVE IdleInv'
  <2>1. PICK rows \in SUBSET pending :
          /\ batch' = [batch EXCEPT ![w] = rows]
          /\ pc' = [pc EXCEPT ![w] = IF rows = {} THEN After(w) ELSE "flush"]
    BY <1>3 DEF SelectBatch
  <2>2. UNCHANGED outcome /\ outcome[w] = NoOutcome
    BY <1>3 DEF SelectBatch
  <2>4. \A v \in Workers : v # w => pc'[v] = pc[v] /\ batch'[v] = batch[v]
    BY <2>1 DEF TypeOK
  <2>5. pc'[w] # "flush" => batch'[w] = {}
    BY <2>1 DEF TypeOK
  <2> QED
    BY <2>2, <2>4, <2>5
<1>4. ASSUME NEW w \in Workers, SendSucceeds(w) PROVE IdleInv'
  BY <1>4 DEF SendSucceeds, callVars, TypeOK
<1>5. ASSUME NEW w \in Workers, SendFails(w) PROVE IdleInv'
  BY <1>5 DEF SendFails, callVars, TypeOK
<1>6. ASSUME NEW w \in Workers, ApplyOutcome(w) PROVE IdleInv'
  BY <1>6 DEF ApplyOutcome, After, callVars, TypeOK
<1>7. CASE Crash
  BY <1>7 DEF Crash
<1>8. CASE UNCHANGED <<pc, batch, outcome>>
  BY <1>8
<1> QED
  BY <1>1, <1>2, <1>3, <1>4, <1>5, <1>6, <1>7, <1>8
     DEF Next, Flush, Enqueue, SetSenders, vars, callVars, workerVars

LEMMA OverlapStep ==
  TypeOK /\ IdInv /\ IdleInv /\ IdleInv' /\ LossInv /\ OverlapInv /\ [Next]_vars => OverlapInv'
<1> SUFFICES ASSUME TypeOK, IdInv, IdleInv, IdleInv', LossInv, OverlapInv, [Next]_vars, ~overlap'
             PROVE  OverlapInv'
  BY DEF OverlapInv
<1>1. ~overlap
  BY DEF Next, Flush, Enqueue, SetSenders, Start, Stop, SelectBatch, SendSucceeds, SendFails,
         ApplyOutcome, Crash, vars, historyVars
<1>2. /\ twice \subseteq unanswered
      /\ \A v, w \in Workers : pc[v] = "flush" /\ pc[w] = "flush" => v = w
      /\ \A id \in delivered \cap pending : \E w \in Workers : id \in outcome[w].sent
      /\ \A w \in Workers : batch[w] \cap delivered = {}
  BY <1>1 DEF OverlapInv
<1>3. CASE Enqueue
  <2>1. nextId \notin delivered
    BY DEF IdInv, TypeOK
  <2> QED
    BY <1>2, <1>3, <2>1 DEF Enqueue, OverlapInv, workerVars
<1>4. CASE Start \/ (\E w \in Stoppers : Stop(w)) \/ SetSenders
  <2>1. UNCHANGED <<twice, unanswered, delivered, pending, outcome, batch>>
    BY <1>4 DEF Start, Stop, SetSenders, tableVars, workerVars, historyVars
  <2>2. \A v \in Workers : pc'[v] = "flush" => pc[v] = "flush"
    BY <1>4 DEF Start, Stop, SetSenders, workerVars, TypeOK
  <2> QED
    BY <1>2, <2>1, <2>2 DEF OverlapInv
<1>5. ASSUME NEW w \in Workers, SelectBatch(w) PROVE OverlapInv'
  <2>1. PICK rows \in SUBSET pending :
          /\ batch' = [batch EXCEPT ![w] = rows]
          /\ pc' = [pc EXCEPT ![w] = IF rows = {} THEN After(w) ELSE "flush"]
          /\ overlap' = (overlap \/ (rows # {} /\ \E v \in Workers \ {w} : pc[v] = "flush"))
    BY <1>5 DEF SelectBatch
  <2>2. UNCHANGED <<twice, unanswered, delivered, pending, outcome>>
    BY <1>5 DEF SelectBatch, tableVars
  <2>3. CASE rows = {}
    <3>1. \A v \in Workers : batch'[v] \subseteq batch[v]
      BY <2>1, <2>3 DEF TypeOK
    <3>2. \A v \in Workers : pc'[v] = "flush" => pc[v] = "flush"
      BY <2>1, <2>3 DEF TypeOK, After
    <3> QED
      BY <1>2, <2>2, <3>1, <3>2 DEF OverlapInv
  <2>4. CASE rows # {}
    <3>1. \A v \in Workers : pc[v] # "flush"
      BY <1>5, <2>1, <2>4 DEF SelectBatch
    <3>2. \A v \in Workers : outcome[v].sent = {} /\ batch[v] = {}
      BY <3>1 DEF IdleInv, NoOutcome
    <3>3. delivered \cap pending = {}
      BY <1>2, <3>2
    <3>4. \A v \in Workers : batch'[v] \in {{}, rows}
      BY <2>1, <3>2 DEF TypeOK
    <3>5. \A v \in Workers : pc'[v] = "flush" => v = w
      BY <2>1, <3>1 DEF TypeOK
    <3> QED
      BY <1>2, <2>2, <3>3, <3>4, <3>5 DEF OverlapInv
  <2> QED
    BY <2>3, <2>4
<1>6. ASSUME NEW w \in Workers, SendSucceeds(w) PROVE OverlapInv'
  <2>1. PICK id \in batch[w] :
          /\ batch' = [batch EXCEPT ![w] = @ \ {id}]
          /\ delivered' = delivered \cup {id}
          /\ unanswered \subseteq unanswered'
          /\ twice' \subseteq twice \cup unanswered' \cup (delivered \cap {id})
          /\ outcome'[w].sent = outcome[w].sent \cup {id}
          /\ \A v \in Workers : v # w => outcome'[v] = outcome[v]
    BY <1>6, SendEffect
  <2>2. UNCHANGED <<pc, pending>> /\ pc[w] = "flush"
    BY <1>6 DEF SendSucceeds, tableVars
  <2>3. \A v \in Workers : v # w => batch[v] = {}
    BY <1>2, <2>2 DEF IdleInv
  <2>4. \A v \in Workers : batch'[v] \cap delivered' = {}
    BY <1>2, <2>1, <2>3 DEF TypeOK
  <2>5. \A v \in Workers : outcome[v].sent \subseteq outcome'[v].sent
    BY <2>1
  <2> QED
    BY <1>2, <2>1, <2>2, <2>4, <2>5 DEF OverlapInv
<1>7. ASSUME NEW w \in Workers, SendFails(w) PROVE OverlapInv'
  <2>1. \A v \in Workers : batch'[v] \subseteq batch[v] /\ outcome'[v].sent = outcome[v].sent
    BY <1>7, FailEffect DEF TypeOK
  <2>2. UNCHANGED <<pc, pending>>
    BY <1>7 DEF SendFails, tableVars
  <2>3. UNCHANGED delivered /\ twice' \subseteq unanswered'
    BY <1>2, <1>7, FailEffect
  <2> QED
    BY <1>2, <2>1, <2>2, <2>3 DEF OverlapInv
<1>8. ASSUME NEW w \in Workers, ApplyOutcome(w) PROVE OverlapInv'
  <2>1. UNCHANGED <<batch, twice, unanswered, delivered>> /\ pc[w] = "flush"
    BY <1>8 DEF ApplyOutcome
  <2>2. pending' \subseteq pending \ outcome[w].sent
    BY <1>8 DEF ApplyOutcome, Deleted
  <2>3. \A v \in Workers : v # w => outcome'[v] = outcome[v] /\ pc'[v] = pc[v]
    BY <1>8 DEF ApplyOutcome, TypeOK
  <2>4. pc'[w] # "flush"
    BY <1>8 DEF ApplyOutcome, After, TypeOK
  <2> QED
    BY <1>2, <2>1, <2>2, <2>3, <2>4 DEF OverlapInv
<1>9. CASE Crash
  <2>1. \A v \in Workers : pc[v] # "flush"
    BY <1>9 DEF Crash
  <2>2. \A v \in Workers : outcome[v].sent = {}
    BY <2>1 DEF IdleInv, NoOutcome
  <2> QED
    BY <1>2, <1>9, <2>1, <2>2 DEF Crash, OverlapInv, tableVars
<1>10. CASE UNCHANGED vars
  BY <1>2, <1>10 DEF vars, OverlapInv, workerVars, tableVars, historyVars
<1> QED
  BY <1>3, <1>4, <1>5, <1>6, <1>7, <1>8, <1>9, <1>10 DEF Next, Flush

(* The server takes an event twice only if two workers held batches at once, a crash    *)
(* cut a batch off, or the answer to a post of this very event was lost: one undisturbed *)
(* flush thread posts nothing anew that it knows was taken.                             *)
(* (event_queue.py 92-103, 138-198, beacon_client.py 457-512)                           *)
THEOREM TwiceCorrect == Spec => []TwiceOnlyForCause
<1>1. Init => LossInv /\ IdInv /\ IdleInv /\ OverlapInv
  BY QueueAssumption DEF Init, LossInv, Accounted, IdInv, IdleInv, OverlapInv, NoOutcome, Workers
<1>2. OverlapInv => TwiceOnlyForCause
  BY DEF OverlapInv, TwiceOnlyForCause
<1> QED
  BY <1>1, <1>2, TypeCorrect, LossStep, IdStep, IdleStep, OverlapStep, PTL DEF Spec
=============================================================================
