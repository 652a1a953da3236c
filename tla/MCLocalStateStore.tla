-------------------------- MODULE MCLocalStateStore --------------------------
(***************************************************************************)
(* An instance of LocalStateStore for TLC: the two channels.               *)
(***************************************************************************)
EXTENDS LocalStateStore

TwoChannels == {"A", "B"}
FieldsOfChannels == [t \in TwoChannels |-> IF t = "A" THEN "last_revision" ELSE "last_command_id"]
=============================================================================
