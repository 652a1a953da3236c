------------------------------- MODULE MouseLog -------------------------------
(***************************************************************************)
(* monitors/input_biometric_monitor.py: the local log of mouse events.     *)
(* The hook of the listener puts events into a queue, the worker turns     *)
(* them into rows of a buffer, and run() writes the buffer to the file     *)
(* once a second.  Events are numbered as they happen.                     *)
(***************************************************************************)
EXTENDS Integers, Sequences, SequencesExt

CONSTANTS MaxMouseEvents, MaxWriteErrors

ASSUME MouseLogAssumption == MaxMouseEvents \in Nat /\ MaxWriteErrors \in Nat

NoItem == 0
Waiting == -1

VARIABLES
  on,          \* running
  happened,
  event_queue,
  item,        \* what the worker has taken out of the queue, or NoItem, or Waiting in get()
  _events_to_flush,
  flusher,     \* run(): "sleep", "flush", "write", "ended"
  writing,     \* what it is writing
  log,         \* the file
  writeErrors,
  \* (history)
  rows,        \* every row that was appended to the buffer
  lostRows     \* those of writes that failed

mouseVars == <<on, happened, event_queue, item, _events_to_flush, flusher, writing, log,
               writeErrors, rows, lostRows>>

MouseLogTypeOK ==
  /\ on \in BOOLEAN
  /\ happened \in 0 .. MaxMouseEvents /\ item \in -1 .. MaxMouseEvents
  /\ {event_queue, _events_to_flush, writing, log, rows} \subseteq Seq(1 .. MaxMouseEvents)
  /\ flusher \in {"sleep", "flush", "write", "ended"}
  /\ writeErrors \in 0 .. MaxWriteErrors
  /\ lostRows \subseteq 1 .. MaxMouseEvents

MouseLogInit ==
  /\ on = TRUE /\ happened = 0 /\ item = NoItem
  /\ event_queue = <<>> /\ _events_to_flush = <<>> /\ writing = <<>> /\ log = <<>>
  /\ flusher = "sleep"
  /\ writeErrors = 0
  /\ rows = <<>> /\ lostRows = {}

-----------------------------------------------------------------------------

\* on_move, on_click, on_scroll, in the thread of the listener
on_mouse ==
  /\ on /\ happened < MaxMouseEvents
  /\ happened' = happened + 1
  /\ event_queue' = Append(event_queue, happened')
  /\ UNCHANGED <<on, item, _events_to_flush, flusher, writing, log, writeErrors, rows, lostRows>>

\* _process_worker: while running, get with a timeout
Take ==
  /\ \/ /\ on /\ item = NoItem
        /\ item' = Waiting /\ UNCHANGED event_queue
     \/ /\ item = Waiting /\ event_queue # <<>>
        /\ item' = Head(event_queue) /\ event_queue' = Tail(event_queue)
     \/ /\ item = Waiting /\ event_queue = <<>>
        /\ item' = NoItem /\ UNCHANGED event_queue
  /\ UNCHANGED <<on, happened, _events_to_flush, flusher, writing, log, writeErrors, rows,
                 lostRows>>

\* _append_local_event, under the lock; a move too soon after the last, the first one, and
\* one whose handling raises are passed over.
Handle ==
  /\ item > 0 /\ item' = NoItem
  /\ \/ /\ _events_to_flush' = Append(_events_to_flush, item)
        /\ rows' = Append(rows, item)
     \/ UNCHANGED <<_events_to_flush, rows>>
  /\ UNCHANGED <<on, happened, event_queue, flusher, writing, log, writeErrors, lostRows>>

\* run(), which looks at running once a second
FlusherWakes ==
  /\ flusher = "sleep" /\ flusher' = "flush"
  /\ UNCHANGED <<on, happened, event_queue, item, _events_to_flush, writing, log, writeErrors,
                 rows, lostRows>>

NextRound == IF on THEN "sleep" ELSE "ended"

LeftInBuffer == _events_to_flush
EmptyBuffer == <<>>

\* _flush_local_events: the buffer is swapped under the lock ...
Swap ==
  /\ flusher = "flush"
  /\ writing' = _events_to_flush
  /\ _events_to_flush' = EmptyBuffer
  /\ flusher' = IF _events_to_flush = <<>> THEN NextRound ELSE "write"
  /\ UNCHANGED <<on, happened, event_queue, item, log, writeErrors, rows, lostRows>>

\* ... and written without it; a write that fails may have written the first rows.
WriteRows ==
  /\ flusher = "write"
  /\ \/ log' = log \o writing /\ UNCHANGED <<writeErrors, lostRows>>
     \/ /\ writeErrors < MaxWriteErrors /\ writeErrors' = writeErrors + 1
        /\ \E n \in 0 .. Len(writing) - 1 :
             /\ log' = log \o SubSeq(writing, 1, n)
             /\ lostRows' = lostRows \cup ToSet(SubSeq(writing, n + 1, Len(writing)))
  /\ writing' = <<>>
  /\ flusher' = NextRound
  /\ UNCHANGED <<on, happened, event_queue, item, _events_to_flush, rows>>

mouse_stop ==
  /\ on /\ on' = FALSE
  /\ UNCHANGED <<happened, event_queue, item, _events_to_flush, flusher, writing, log,
                 writeErrors, rows, lostRows>>

MouseLogNext ==
  \/ on_mouse
  \/ Take
  \/ Handle
  \/ FlusherWakes
  \/ Swap
  \/ WriteRows
  \/ mouse_stop

-----------------------------------------------------------------------------
(* The log has every row once and in the order of the events, although rows are added     *)
(* while others are written: the file, what is being written and what waits are, one      *)
(* after the other, all rows there were, but for those of a write that failed.            *)
(* (input_biometric_monitor.py 74-141, 205-218)                                           *)
LogKeepsOrder ==
  LET kept == log \o writing \o _events_to_flush
  IN  /\ \A i, j \in 1 .. Len(kept) : i < j => kept[i] < kept[j]
      /\ ToSet(kept) = ToSet(rows) \ lostRows
=============================================================================
