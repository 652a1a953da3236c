--------------------------- MODULE LocalStateStore ---------------------------
(***************************************************************************)
(* firewall/local_state_store.py: the JSON file in which the two channels  *)
(* keep their progress.  Each call holds the lock from its read to its     *)
(* end; an update writes path.tmp and moves it over path.                  *)
(*                                                                         *)
(* Reads and writes may fail, and the process may be killed between any    *)
(* two steps.  The loss of power, after which a file that was not synced   *)
(* may come back empty, is not modelled.                                   *)
(***************************************************************************)
EXTENDS Integers

CONSTANTS
  Threads,     \* the users of the store, all in one process
  NoThread,
  Values,      \* what a field may hold; 0 is its default
  FieldOf,     \* FieldOf[t]: the field thread t updates
  NoFile,      \* there is no such file
  Torn,        \* a file that is no complete record
  MaxFaults,   \* bound on the failures of reads and writes
  MaxCrashes   \* bound on the crashes

Fields == {"last_revision", "last_command_id"}
Records == [Fields -> Values]
_default == [f \in Fields |-> 0]

ASSUME StoreAssumption ==
  /\ NoThread \notin Threads
  /\ 0 \in Values
  /\ FieldOf \in [Threads -> Fields]
  /\ NoFile \notin Records /\ Torn \notin Records
  /\ NoFile # Torn
  /\ MaxFaults \in Nat /\ MaxCrashes \in Nat

VARIABLES
  file,     \* path
  tmp,      \* path.tmp
  lock,     \* the holder of _lock
  call,     \* call[t]: its step, the value it merges, the record it will write
  faults, crashes

vars == <<file, tmp, lock, call, faults, crashes>>

Pcs == {"idle", "load", "merge", "open", "dump", "replace"}

TypeOK ==
  /\ file \in Records \cup {NoFile, Torn}
  /\ tmp \in Records \cup {NoFile, Torn}
  /\ lock \in Threads \cup {NoThread}
  /\ call \in [Threads -> [pc : Pcs, value : Values, data : Records]]
  /\ \A t \in Threads : call[t].pc \in {"open", "dump", "replace"} => lock = t
  /\ faults \in 0 .. MaxFaults
  /\ crashes \in 0 .. MaxCrashes

Idle == [pc |-> "idle", value |-> 0, data |-> _default]

Init ==
  /\ file = NoFile /\ tmp = NoFile
  /\ lock = NoThread
  /\ call = [t \in Threads |-> Idle]
  /\ faults = 0 /\ crashes = 0

-----------------------------------------------------------------------------
Content(f) == IF f \in Records THEN f ELSE _default

Fault == faults < MaxFaults /\ faults' = faults + 1

\* What _load_nolock answers: a read that fails is logged, and stands for the defaults.
Loaded(rec) ==
  \/ rec = Content(file) /\ UNCHANGED faults
  \/ rec = _default /\ Fault

KeepsLock(t) == UNCHANGED lock

\* The end of a call, also by an exception: "with self._lock" releases.
Return(t) == lock' = NoThread

Call(t) ==
  /\ call[t].pc = "idle"
  /\ \/ call' = [call EXCEPT ![t].pc = "load"]
     \/ \E v \in Values : call' = [call EXCEPT ![t].pc = "merge", ![t].value = v]
  /\ UNCHANGED <<file, tmp, lock, faults, crashes>>

\* load: the file is read and the lock released.
Load(t) ==
  /\ call[t].pc = "load"
  /\ lock = NoThread
  /\ \E rec \in {Content(file), _default} : Loaded(rec)
  /\ call' = [call EXCEPT ![t] = Idle]
  /\ UNCHANGED <<file, tmp, lock, crashes>>

NoLock(t) == TRUE

\* merge_update up to the merge.
CanEnter(t) == lock = NoThread

MergeRead(t) ==
  /\ call[t].pc = "merge"
  /\ CanEnter(t)
  /\ lock' = t
  /\ \E rec \in {Content(file), _default} :
       /\ Loaded(rec)
       /\ call' = [call EXCEPT ![t].pc = "open",
                               ![t].data = [rec EXCEPT ![FieldOf[t]] = call[t].value]]
  /\ UNCHANGED <<file, tmp, crashes>>

\* open(tmp, "w") empties the file or raises.
OpenTmp(t) ==
  /\ call[t].pc = "open"
  /\ \/ /\ tmp' = Torn
        /\ call' = [call EXCEPT ![t].pc = "dump"]
        /\ UNCHANGED <<lock, faults>>
     \/ /\ Fault
        /\ call' = [call EXCEPT ![t] = Idle]
        /\ Return(t)
        /\ UNCHANGED tmp
  /\ UNCHANGED <<file, crashes>>

\* json.dump and close.
Dump(t) ==
  /\ call[t].pc = "dump"
  /\ \/ /\ tmp' = call[t].data
        /\ call' = [call EXCEPT ![t].pc = "replace"]
        /\ UNCHANGED <<lock, faults>>
     \/ /\ Fault
        /\ call' = [call EXCEPT ![t] = Idle]
        /\ Return(t)
        /\ UNCHANGED tmp
  /\ UNCHANGED <<file, crashes>>

\* os.replace moves the file, or raises (Windows: path is open elsewhere).
Replace(t) ==
  /\ call[t].pc = "replace"
  /\ \/ file' = tmp /\ tmp' = NoFile /\ UNCHANGED faults
     \/ Fault /\ UNCHANGED <<file, tmp>>
  /\ call' = [call EXCEPT ![t] = Idle]
  /\ Return(t)
  /\ UNCHANGED crashes

Step(t) == Load(t) \/ MergeRead(t) \/ OpenTmp(t) \/ Dump(t) \/ Replace(t)

\* The process is killed and started again.
Crash ==
  /\ crashes < MaxCrashes
  /\ crashes' = crashes + 1
  /\ lock' = NoThread
  /\ call' = [t \in Threads |-> Idle]
  /\ UNCHANGED <<file, tmp, faults>>

Next == (\E t \in Threads : Call(t) \/ Step(t)) \/ Crash

Spec == Init /\ [][Next]_vars

\* A thread gets the lock in the end: its users leave it free for long (they sleep between
\* two calls), and a call that has it goes on.
FairSpec == Spec /\ \A t \in Threads : SF_vars(Step(t))

-----------------------------------------------------------------------------
Abstract == INSTANCE StateStore WITH
              Defaults <- _default,
              Partials <- UNION {[{FieldOf[t]} -> Values] : t \in Threads},
              store <- Content(file)

(* The store is what its users take it for: an update is one step that changes its own   *)
(* field and no other (or, after a failed read, resets the others), whatever calls,      *)
(* failures and crashes interleave.  (local_state_store.py 36-73)                        *)
AtomicUpdates == Abstract!Spec

(* The file moved over path is the whole record of the thread that moves it: nobody has  *)
(* emptied or rewritten path.tmp since.  (local_state_store.py 49-56, 66-73)             *)
OwnTemporary == \A t \in Threads : call[t].pc = "replace" => tmp = call[t].data

(* Every call returns, failures and exceptions of other calls notwithstanding.           *)
(* (local_state_store.py 58-73)                                                          *)
CallsReturn == \A t \in Threads : call[t].pc # "idle" ~> call[t].pc = "idle"
=============================================================================
