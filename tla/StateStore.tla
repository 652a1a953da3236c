----------------------------- MODULE StateStore -----------------------------
(***************************************************************************)
(* What LocalStateStore promises its two users: a record that survives a   *)
(* restart, whose fields merge_update overwrites together and without      *)
(* touching the others.  A file that is missing or cannot be read stands   *)
(* for the defaults, in merge_update too: then the other fields are lost.  *)
(***************************************************************************)
CONSTANTS
  Defaults,   \* the record a missing file stands for
  Partials    \* the updates its users make: records of some of its fields

VARIABLE store

Init == store = Defaults

\* load() has no effect: the value of store.

Overwrite(rec, partial) ==
  [k \in DOMAIN rec |-> IF k \in DOMAIN partial THEN partial[k] ELSE rec[k]]

MergeUpdate(partial) == store' = Overwrite(store, partial)

\* The file could not be read: the update is merged into the defaults and written back.
MergeUnread(partial) == store' = Overwrite(Defaults, partial)

Next == \E partial \in Partials : MergeUpdate(partial) \/ MergeUnread(partial)

Spec == Init /\ [][Next]_store
=============================================================================
