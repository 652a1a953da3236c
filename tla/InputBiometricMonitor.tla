------------------------ MODULE InputBiometricMonitor ------------------------
(***************************************************************************)
(* monitors/input_biometric_monitor.py with its engine: the worker feeds   *)
(* the engine with samples of the mouse's moves, run() analyses and        *)
(* reports once a second, and the settings window, another process, resets *)
(* the model.  The local log of mouse events has a module of its own:      *)
(* MouseLog.                                                               *)
(*                                                                         *)
(* A report goes to BeaconClient.send_event and LocalBlockController,      *)
(* which have modules of their own, and changes nothing here.              *)
(***************************************************************************)
EXTENDS BiometricEngine

VARIABLES
  running,
  watch,   \* the step of run()
  asked    \* (history) has the settings window reset the model since the agent started?

monitorVars == <<running, watch, asked>>
biometricVars == <<engineVars, monitorVars>>

BiometricTypeOK ==
  /\ EngineTypeOK
  /\ running \in BOOLEAN
  /\ watch \in {"sleep", "analyze", "ended", "dead"}
  /\ asked \in BOOLEAN

BiometricInit ==
  /\ EngineInit
  /\ running = TRUE
  /\ watch = "sleep"
  /\ asked = FALSE

-----------------------------------------------------------------------------

\* The worker takes a move out of its queue, at least 0.05 s after the last sample.
_handle_move ==
  /\ running
  /\ feed_data
  /\ UNCHANGED monitorVars

\* run(): once a second, while running
WakeUp ==
  /\ watch = "sleep"
  /\ watch' = IF running THEN "analyze" ELSE "ended"
  /\ UNCHANGED <<engineVars, running, asked>>

\* analyze() and the report.  An analysis that raises ends the thread.
Analyze ==
  /\ watch = "analyze"
  /\ watch' = IF AnalysisRaises THEN "dead" ELSE "sleep"
  /\ UNCHANGED <<engineVars, running, asked>>

Watch == WakeUp \/ Analyze

stop ==
  /\ running
  /\ running' = FALSE
  /\ UNCHANGED <<engineVars, watch, asked>>

\* The process ends, after stop() or not, and the agent is started again.
NewProcess ==
  /\ Restart
  /\ running' = TRUE
  /\ watch' = "sleep"
  /\ asked' = FALSE

EngineStep(t) == Train(t) /\ UNCHANGED monitorVars

\* Any user of the engine.
Reset == reset_model /\ UNCHANGED monitorVars

\* The directories of the engine's files and of the window's reset.
default_model_dir == "src/models/biometric"
m_dir == "models/biometric"

\* _on_reset_bio_model
WindowReset ==
  /\ resets < MaxResets /\ resets' = resets + 1
  /\ asked' = TRUE
  /\ disk' = IF m_dir = default_model_dir THEN [p \in Pieces |-> None] ELSE disk
  /\ UNCHANGED <<mode, training_buffer, inference_buffer, memory, training, troubles,
                 disturbed, running, watch>>

BiometricNext ==
  \/ _handle_move
  \/ Watch
  \/ \E t \in Trainings : EngineStep(t)
  \/ Reset
  \/ stop
  \/ NewProcess
  \/ WindowReset

BiometricSpec == BiometricInit /\ [][BiometricNext]_biometricVars

-----------------------------------------------------------------------------
(* The model that guards is the work of one training: its network, scaler, forest and     *)
(* thresholds belong together.  Only an interrupted save that is loaded by a later start, *)
(* or a reset during a training, can mix two.  And the thread that reports anomalies      *)
(* survives: it never finds the engine guarding without a model, unless a reset came      *)
(* during a training.                                                                     *)
(* (biometric_engine.py 69-92, 113-214, input_biometric_monitor.py 140-163)               *)
GuardsWithOneModel ==
  /\ mode = "GUARDING" /\ disturbed = {} => \E t \in Trainings : \A p \in Pieces : memory[p] = t
  /\ watch = "dead" => "reset" \in disturbed

(* The engine never stays where it is for want of anything but samples: as long as they   *)
(* come it learns in the end and then guards, and a training that failed is repeated.     *)
(* (biometric_engine.py 94-163)                                                           *)
LearnsInTheEnd ==
  []<><<_handle_move>>_training_buffer \/ []<>(mode # "COLLECTING") => <>[](mode = "GUARDING")

-----------------------------------------------------------------------------
(* setup_ui.py:1873: after the window's reset the next start of the agent begins to learn *)
(* anew: it does not guard before a new training.                                         *)
RestartRelearns == [][asked /\ ~asked' => mode' = "COLLECTING"]_biometricVars
=============================================================================
