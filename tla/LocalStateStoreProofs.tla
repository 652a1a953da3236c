------------------------ MODULE LocalStateStoreProofs ------------------------
(***************************************************************************)
(* LocalStateStore implements StateStore: proved for any number of         *)
(* threads, any values, failures and crashes.                              *)
(***************************************************************************)
EXTENDS LocalStateStore, TLAPS

\* What t will have stored: its value merged into what it read.
PartialOf(t) == [f \in {FieldOf[t]} |-> call[t].value]
Merged(t) ==
  call[t].data \in {Abstract!Overwrite(Content(file), PartialOf(t)),
                    Abstract!Overwrite(_default, PartialOf(t))}

Writing(t) == call[t].pc \in {"open", "dump", "replace"}

\* The file is never torn, and the one thread that writes has merged into its present content.
Whole == file # Torn
WriterInv == \A t \in Threads : Writing(t) => Merged(t)

IInv == TypeOK /\ Whole /\ OwnTemporary /\ WriterInv

-----------------------------------------------------------------------------
LEMMA DefaultIsRecord == _default \in Records
  BY StoreAssumption DEF _default, Records

LEMMA ContentIsRecord == Content(file) \in Records
  BY DefaultIsRecord DEF Content

LEMMA TypeStep == TypeOK /\ [Next]_vars => TypeOK'
<1> SUFFICES ASSUME TypeOK, [Next]_vars PROVE TypeOK'
  OBVIOUS
<1> USE StoreAssumption, DefaultIsRecord DEF TypeOK, Pcs
<1>1. ASSUME Fault PROVE faults' \in 0 .. MaxFaults
  BY <1>1 DEF Fault
<1>2. Idle \in [pc : Pcs, value : Values, data : Records] /\ Idle.pc = "idle"
  BY DEF Idle
<1>3. ASSUME NEW t \in Threads, Call(t) PROVE TypeOK'
  <2>1. call' \in [Threads -> [pc : Pcs, value : Values, data : Records]]
    BY <1>3 DEF Call
  <2>2. \A u \in Threads : call'[u].pc \in {"open", "dump", "replace"} => lock = u
    BY <1>3 DEF Call
  <2> QED
    BY <1>3, <2>1, <2>2 DEF Call
<1>4. ASSUME NEW t \in Threads, Load(t) PROVE TypeOK'
  <2>1. faults' \in 0 .. MaxFaults
    BY <1>1, <1>4 DEF Load, Loaded
  <2>2. call' = [call EXCEPT ![t] = Idle]
    BY <1>4 DEF Load
  <2> QED
    BY <1>2, <1>4, <2>1, <2>2 DEF Load
<1>5. ASSUME NEW t \in Threads, MergeRead(t) PROVE TypeOK'
  <2>1. PICK rec \in {Content(file), _default} :
          /\ Loaded(rec)
          /\ call' = [call EXCEPT ![t].pc = "open",
                                  ![t].data = [rec EXCEPT ![FieldOf[t]] = call[t].value]]
    BY <1>5 DEF MergeRead
  <2>2. [rec EXCEPT ![FieldOf[t]] = call[t].value] \in Records
    BY ContentIsRecord DEF Records
  <2>3. call' \in [Threads -> [pc : Pcs, value : Values, data : Records]]
    BY <2>1, <2>2
  <2>4. faults' \in 0 .. MaxFaults
    BY <1>1, <2>1 DEF Loaded
  <2>5. \A u \in Threads : u # t => call'[u] = call[u]
    BY <2>1
  <2>6. \A u \in Threads : call'[u].pc \in {"open", "dump", "replace"} => lock' = u
    BY <1>5, <2>5 DEF MergeRead, CanEnter
  <2> QED
    BY <1>5, <2>3, <2>4, <2>6 DEF MergeRead
<1>6. ASSUME NEW t \in Threads, OpenTmp(t) \/ Dump(t) \/ Replace(t) PROVE TypeOK'
  <2>1. /\ file' \in {file, tmp} /\ tmp' \in {tmp, Torn, NoFile, call[t].data}
        /\ UNCHANGED crashes /\ call[t].pc \in {"open", "dump", "replace"}
    BY <1>6 DEF OpenTmp, Dump, Replace
  <2>2. faults' \in 0 .. MaxFaults
    BY <1>1, <1>6 DEF OpenTmp, Dump, Replace
  <2>3. CASE call' = [call EXCEPT ![t] = Idle] /\ lock' = NoThread
    BY <1>2, <2>1, <2>2, <2>3
  <2>4. CASE (\E p \in {"dump", "replace"} : call' = [call EXCEPT ![t].pc = p]) /\ UNCHANGED lock
    BY <2>1, <2>2, <2>4
  <2> QED
    BY <1>6, <2>3, <2>4 DEF OpenTmp, Dump, Replace, Return
<1>7. CASE Crash
  BY <1>2, <1>7 DEF Crash
<1>8. CASE UNCHANGED vars
  BY <1>8 DEF vars
<1> QED
  BY <1>3, <1>4, <1>5, <1>6, <1>7, <1>8 DEF Next, Step

LEMMA InitInv == Init => IInv
  BY StoreAssumption, DefaultIsRecord
     DEF Init, IInv, TypeOK, Whole, OwnTemporary, WriterInv, Writing, Idle, Pcs

\* One step: the invariant is kept, and the visible content changes by a merge or not at all.
LEMMA StepInv ==
  ASSUME IInv, [Next]_vars
  PROVE  /\ IInv'
         /\ \/ UNCHANGED Content(file)
            \/ Abstract!Next
<1> USE StoreAssumption DEF IInv, Whole, OwnTemporary, WriterInv, Writing, Merged, PartialOf
<1>1. TypeOK /\ TypeOK'
  BY TypeStep
<1>2. ASSUME NEW t \in Threads, Call(t)
      PROVE  IInv' /\ UNCHANGED file
  <2>1. UNCHANGED <<file, tmp>>
    BY <1>2 DEF Call
  <2>2. \A u \in Threads : Writing(u)' => Writing(u) /\ UNCHANGED call[u]
    BY <1>1, <1>2 DEF Call, TypeOK
  <2> QED
    BY <1>1, <2>1, <2>2
<1>3. ASSUME NEW t \in Threads, Load(t)
      PROVE  IInv' /\ UNCHANGED file
  <2>1. UNCHANGED <<file, tmp>>
    BY <1>3 DEF Load
  <2>2. \A u \in Threads : Writing(u)' => Writing(u) /\ UNCHANGED call[u]
    BY <1>1, <1>3 DEF Load, TypeOK, Idle
  <2> QED
    BY <1>1, <2>1, <2>2
<1>4. ASSUME NEW t \in Threads, MergeRead(t)
      PROVE  IInv' /\ UNCHANGED file
  <2>1. PICK rec \in {Content(file), _default} :
          call' = [call EXCEPT ![t].pc = "open",
                               ![t].data = [rec EXCEPT ![FieldOf[t]] = call[t].value]]
    BY <1>4 DEF MergeRead
  <2>2. UNCHANGED <<file, tmp>>
    BY <1>4 DEF MergeRead
  <2>3. \A u \in Threads : u # t => ~Writing(u)' /\ UNCHANGED call[u]
    BY <1>1, <1>4, <2>1 DEF MergeRead, CanEnter, TypeOK
  <2>4. call'[t].pc = "open" /\ call'[t].value = call[t].value
    BY <1>1, <2>1 DEF TypeOK
  <2>5. call'[t].data = Abstract!Overwrite(rec, [g \in {FieldOf[t]} |-> call[t].value])
    <3>1. call'[t].data = [rec EXCEPT ![FieldOf[t]] = call[t].value]
      BY <1>1, <2>1 DEF TypeOK
    <3>2. FieldOf[t] \in Fields /\ call[t].value \in Values /\ rec \in Records
      BY <1>1, ContentIsRecord, DefaultIsRecord DEF TypeOK
    <3> QED
      BY <3>1, <3>2 DEF Abstract!Overwrite, Records
  <2>6. Merged(t)'
    BY <2>2, <2>4, <2>5 DEF Content
  <2> QED
    BY <1>1, <2>2, <2>3, <2>4, <2>6
<1>5. ASSUME NEW t \in Threads, OpenTmp(t)
      PROVE  IInv' /\ UNCHANGED file
  <2>1. UNCHANGED file
    BY <1>5 DEF OpenTmp
  <2>2. \A u \in Threads : u # t => ~Writing(u)' /\ UNCHANGED call[u]
    BY <1>1, <1>5 DEF OpenTmp, TypeOK
  <2>3. call'[t].pc # "replace" /\ (Writing(t)' => UNCHANGED <<call[t].value, call[t].data>>)
    BY <1>1, <1>5 DEF OpenTmp, TypeOK, Idle
  <2> QED
    BY <1>1, <1>5, <2>1, <2>2, <2>3 DEF OpenTmp, Content
<1>6. ASSUME NEW t \in Threads, Dump(t)
      PROVE  IInv' /\ UNCHANGED file
  <2>1. UNCHANGED file
    BY <1>6 DEF Dump
  <2>2. \A u \in Threads : u # t => ~Writing(u)' /\ UNCHANGED call[u]
    BY <1>1, <1>6 DEF Dump, TypeOK
  <2>3. Writing(t)' => tmp' = call'[t].data /\ UNCHANGED <<call[t].value, call[t].data>>
    BY <1>1, <1>6 DEF Dump, TypeOK, Idle
  <2> QED
    BY <1>1, <1>6, <2>1, <2>2, <2>3 DEF Dump, Content
<1>7. ASSUME NEW t \in Threads, Replace(t)
      PROVE  IInv' /\ (UNCHANGED Content(file) \/ Abstract!Next)
  <2>1. \A u \in Threads : ~Writing(u)'
    BY <1>1, <1>7 DEF Replace, TypeOK, Idle
  <2>2. CASE UNCHANGED <<file, tmp>>
    BY <1>1, <2>1, <2>2 DEF Content
  <2>3. CASE file' = tmp /\ tmp' = NoFile
    <3>1. file' = call[t].data /\ file' \in Records
      BY <1>1, <1>7, <2>3 DEF Replace, TypeOK
    <3>2. Content(file)' = call[t].data
      BY <3>1 DEF Content
    <3>3. PartialOf(t) \in UNION {[{FieldOf[u]} -> Values] : u \in Threads}
      BY <1>1 DEF TypeOK
    <3>4. Merged(t)
      BY <1>7 DEF Replace
    <3>5. Abstract!Next
      BY <3>2, <3>3, <3>4 DEF Abstract!Next, Abstract!MergeUpdate, Abstract!MergeUnread
    <3> QED
      BY <1>1, <2>1, <3>1, <3>5
  <2> QED
    BY <1>7, <2>2, <2>3 DEF Replace
<1>8. CASE Crash
  <2>1. \A u \in Threads : ~Writing(u)'
    BY <1>8 DEF Crash, Idle
  <2> QED
    BY <1>1, <1>8, <2>1 DEF Crash, Content
<1>9. CASE UNCHANGED vars
  BY <1>1, <1>9 DEF vars, Content
<1> QED
  BY <1>2, <1>3, <1>4, <1>5, <1>6, <1>7, <1>8, <1>9 DEF Next, Step, Content

(* Every thread is in a step of load or merge_save with a record in its hands, only the   *)
(* one that holds the lock writes, and the file has one of the contents it may have: for  *)
(* any threads, values, failures and crashes.  (local_state_store.py 36-73)               *)
THEOREM TypeCorrect == Spec => []TypeOK
<1>1. IInv => TypeOK
  BY DEF IInv
<1> QED
  BY <1>1, InitInv, StepInv, PTL DEF Spec

(* What the mover moves is its own whole record. (local_state_store.py 49-56, 66-73)     *)
THEOREM OwnTemporaryCorrect == Spec => []OwnTemporary
<1>1. IInv => OwnTemporary
  BY DEF IInv
<1> QED
  BY <1>1, InitInv, StepInv, PTL DEF Spec

(* Locked read-merge-write through path.tmp implements the atomic merge that the two     *)
(* channels rely on, across failures and crashes.  (local_state_store.py 36-73)          *)
THEOREM Implementation == Spec => AtomicUpdates
<1>1. Init => Abstract!Init
  BY StoreAssumption DEF Init, Abstract!Init, Content
<1>2. IInv /\ [Next]_vars => [Abstract!Next]_(Content(file))
  BY StepInv
<1> QED
  BY <1>1, <1>2, InitInv, StepInv, PTL DEF Spec, AtomicUpdates, Abstract!Spec
=============================================================================
