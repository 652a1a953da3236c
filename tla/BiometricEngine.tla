--------------------------- MODULE BiometricEngine ---------------------------
(***************************************************************************)
(* core/biometric_engine.py: it collects samples, trains on them in a      *)
(* thread of its own, and guards with what the training gave; the model    *)
(* is kept in four files.                                                  *)
(*                                                                         *)
(* feed_data, analyze and reset_model hold the engine's lock; a training   *)
(* holds it only at its very end and writes the engine's fields without    *)
(* it.  A piece of a model (see Pieces) is known by its training; the      *)
(* samples themselves do not matter, only their number does.               *)
(* No module of the repository calls reset_model at this commit.           *)
(***************************************************************************)
EXTENDS Integers, Sequences, FiniteSets, SequencesExt

CONSTANTS
  target_samples, seq_len,
  Trainings,      \* names for trainings: numbers, used again when nothing is left of one
  MaxTroubles,    \* bound on errors and restarts
  MaxResets

ASSUME EngineAssumption ==
  /\ target_samples \in Nat \ {0} /\ seq_len \in Nat \ {0}
  /\ IsFiniteSet(Trainings) /\ Trainings \subseteq Nat \ {0}
  /\ MaxTroubles \in Nat /\ MaxResets \in Nat

VARIABLES
  mode,
  training_buffer,   \* how many samples it holds
  inference_buffer,  \* how many samples it holds
  memory,            \* memory[p]: the training piece p comes from, or None
  disk,              \* disk[p]: likewise of the piece's file, or Damaged
  training,          \* training[t]: the step of training thread t, and how many samples it has
  troubles, resets,
  disturbed          \* (history) what may have mixed two trainings: see Reset, SaveDisturbed

engineVars == <<mode, training_buffer, inference_buffer, memory, disk, training,
                troubles, resets, disturbed>>

\* The pieces of a model, in the order in which the files are written.  "meta" are the two
\* thresholds.
SaveOrder == <<"model", "scaler", "iforest", "meta">>
Pieces == {"model", "scaler", "iforest", "meta"}
None == 0
Damaged == -1

Steps == {"none", "scale", "forest", "learn", "done"} \cup Pieces

EngineTypeOK ==
  /\ mode \in {"COLLECTING", "TRAINING", "GUARDING"}
  /\ training_buffer \in Nat
  /\ inference_buffer \in 0 .. seq_len
  /\ memory \in [Pieces -> Trainings \cup {None}]
  /\ disk \in [Pieces -> Trainings \cup {None, Damaged}]
  /\ training \in [Trainings -> [step : Steps, samples : Nat]]
  /\ troubles \in 0 .. MaxTroubles /\ resets \in 0 .. MaxResets
  /\ disturbed \subseteq {"reset", "save"}

NotRunning == [step |-> "none", samples |-> 0]

EngineInit ==
  /\ mode = "COLLECTING"
  /\ training_buffer = 0
  /\ inference_buffer = 0
  /\ memory = [p \in Pieces |-> None]
  /\ disk = [p \in Pieces |-> None]
  /\ training = [t \in Trainings |-> NotRunning]
  /\ troubles = 0 /\ resets = 0
  /\ disturbed = {}

Trouble == troubles < MaxTroubles /\ troubles' = troubles + 1

-----------------------------------------------------------------------------
\* Feeding and analysing, under the lock.

Running == {t \in Trainings : training[t].step # "none"}
Unused == {t \in Trainings \ Running : \A p \in Pieces : memory[p] # t /\ disk[p] # t}

\* self.sample_count >= self.target_samples
Enough == training_buffer + 1 >= target_samples

StillCollecting == "COLLECTING"

\* No further training starts before this one ends.
ModeWhenEnough == "TRAINING"

Collect ==
  /\ mode = "COLLECTING"
  /\ training_buffer' = training_buffer + 1
  /\ IF Enough
     THEN \E t \in Unused :
            /\ \A u \in Unused : t <= u
            /\ training' = [training EXCEPT ![t].step = "scale"]
            /\ mode' = ModeWhenEnough
     ELSE UNCHANGED <<mode, training>>
  /\ UNCHANGED inference_buffer

OneTooMany(n) == IF n <= seq_len THEN n + 1 ELSE n

\* How many samples a window of n has after one more: the oldest makes place.
Window(n) == IF n < seq_len THEN n + 1 ELSE n

Guard ==
  /\ mode = "GUARDING"
  /\ inference_buffer' = Window(inference_buffer)
  /\ UNCHANGED <<mode, training_buffer, training>>

Ignore == mode = "TRAINING" /\ UNCHANGED <<mode, training_buffer, inference_buffer, training>>

feed_data ==
  /\ Collect \/ Guard \/ Ignore
  /\ UNCHANGED <<memory, disk, troubles, resets, disturbed>>

\* Does analyze() use the model?
Analyses == mode = "GUARDING" /\ inference_buffer = seq_len

\* It raises when a piece is missing.
AnalysisRaises == Analyses /\ \E p \in Pieces : memory[p] = None

-----------------------------------------------------------------------------
\* The training thread t.

StaysTraining == mode
InAnyCase == "GUARDING"

\* except Exception: self.mode = "COLLECTING".  The samples are kept.
ModeAfterFailure == "COLLECTING"

Fail(t) ==
  /\ training' = [training EXCEPT ![t] = NotRunning]
  /\ mode' = ModeAfterFailure
  /\ UNCHANGED <<training_buffer, memory>>

Goto(t, step) ==
  /\ training' = [training EXCEPT ![t].step = step]
  /\ UNCHANGED <<mode, training_buffer>>

\* data = np.array(self.training_buffer), and the scaler fitted to it
Scale(t) ==
  /\ training[t].step = "scale"
  /\ \/ /\ training_buffer > 0
        /\ training' = [training EXCEPT ![t] = [step |-> "forest", samples |-> training_buffer]]
        /\ memory' = [memory EXCEPT !["scaler"] = t]
        /\ UNCHANGED <<mode, training_buffer, troubles>>
     \/ training_buffer = 0 /\ Fail(t) /\ UNCHANGED troubles
     \/ Trouble /\ Fail(t)

FitForest(t) ==
  /\ training[t].step = "forest"
  /\ \/ /\ memory' = [memory EXCEPT !["iforest"] = t]
        /\ Goto(t, "learn")
        /\ UNCHANGED troubles
     \/ Trouble /\ Fail(t)

\* The LSTM, which needs one sequence at least, and the thresholds.
Learn(t) ==
  /\ training[t].step = "learn"
  /\ \/ /\ training[t].samples >= seq_len
        /\ memory' = [memory EXCEPT !["meta"] = t, !["model"] = t]
        /\ Goto(t, SaveOrder[1])
        /\ UNCHANGED troubles
     \/ training[t].samples < seq_len /\ Fail(t) /\ UNCHANGED troubles
     \/ Trouble /\ Fail(t)

AfterSaving(p) ==
  LET i == CHOOSE i \in 1 .. 4 : SaveOrder[i] = p
  IN  IF i = 4 THEN "done" ELSE SaveOrder[i + 1]

SaveDisturbed == disturbed' = disturbed \cup {"save"}

\* One file of _save_model: what the engine has at that moment.  An error may leave a file
\* that cannot be loaded.
Save(t, p) ==
  /\ training[t].step = p
  /\ \/ /\ memory[p] # None
        /\ disk' = [disk EXCEPT ![p] = memory[p]]
        /\ Goto(t, AfterSaving(p))
        /\ UNCHANGED <<memory, troubles, disturbed>>
     \/ /\ memory[p] = None
        /\ Fail(t)
        /\ SaveDisturbed
        /\ UNCHANGED <<disk, troubles>>
     \/ /\ Trouble
        /\ Fail(t)
        /\ \E d \in {disk[p], Damaged} : disk' = [disk EXCEPT ![p] = d]
        /\ SaveDisturbed

\* with self.lock
Finish(t) ==
  /\ training[t].step = "done"
  /\ training' = [training EXCEPT ![t] = NotRunning]
  /\ mode' = "GUARDING"
  /\ training_buffer' = 0
  /\ UNCHANGED <<memory, disk, troubles, disturbed>>

Train(t) ==
  /\ \/ Scale(t) /\ UNCHANGED <<disk, disturbed>>
     \/ FitForest(t) /\ UNCHANGED <<disk, disturbed>>
     \/ Learn(t) /\ UNCHANGED <<disk, disturbed>>
     \/ \E p \in Pieces : Save(t, p)
     \/ Finish(t)
  /\ UNCHANGED <<inference_buffer, resets>>

-----------------------------------------------------------------------------

reset_model ==
  /\ resets < MaxResets /\ resets' = resets + 1
  /\ mode' = "COLLECTING"
  /\ training_buffer' = 0
  /\ memory' = [memory EXCEPT !["model"] = None]
  /\ disk' = [p \in Pieces |-> None]
  /\ disturbed' = IF Running # {} THEN disturbed \cup {"reset"} ELSE disturbed
  /\ UNCHANGED <<inference_buffer, training, troubles>>

LoadOrder == <<"scaler", "iforest", "meta", "model">>

\* The process ends while these files are left damaged, and a new one loads the model:
\* wholly, or up to a file that is missing, damaged or cannot be read now.
RestartWith(files) ==
  LET loaded(n) == [p \in Pieces |-> IF p \in ToSet(SubSeq(LoadOrder, 1, n)) THEN files[p] ELSE None]
      complete == \A p \in Pieces : files[p] # None
  IN  /\ disk' = files
      /\ \/ /\ complete /\ \A p \in Pieces : files[p] # Damaged
            /\ memory' = loaded(4)
            /\ mode' = "GUARDING"
         \/ \E n \in 0 .. 3 :
              /\ complete /\ \A i \in 1 .. n : files[LoadOrder[i]] # Damaged
              /\ memory' = loaded(n)
              /\ mode' = "COLLECTING"
         \/ /\ ~complete
            /\ memory' = loaded(0)
            /\ mode' = "COLLECTING"
      /\ training_buffer' = 0
      /\ inference_buffer' = 0
      /\ training' = [t \in Trainings |-> NotRunning]
      /\ UNCHANGED resets

Restart ==
  LET saving == {p \in Pieces : \E t \in Running : training[t].step = p}
  IN  /\ Trouble
      /\ \E damaged \in SUBSET saving :
           RestartWith([p \in Pieces |-> IF p \in damaged THEN Damaged ELSE disk[p]])
      /\ disturbed' = IF saving = {} THEN disturbed ELSE disturbed \cup {"save"}
=============================================================================
