\* One reset in the settings window and one restart of the agent.
CONSTANTS
  target_samples = 1
  seq_len = 1
  Trainings = {1, 2, 3, 4}
  MaxTroubles = 1
  MaxResets = 1

SPECIFICATION BiometricSpec

PROPERTY RestartRelearns

CHECK_DEADLOCK FALSE
